----------------------- MODULE ServiceLifecycleProofs -----------------------
(***************************************************************************)
(* Proofs about ServiceLifecycle, for any number of sessions.              *)
(*                                                                         *)
(* With "overlap" and "lateExit" excluded, the fields of the service name  *)
(* the one session that has to be stopped or marked: NamedSession is the   *)
(* inductive form of OldSessionsStop and ReplacedIsSilent.  Both fail with *)
(* either event, so these are the only two ways in which a process or its  *)
(* exit message is left over.                                              *)
(***************************************************************************)
EXTENDS ServiceLifecycle, TLAPS

StarterPlaces == {"none", "config", "stopOld", "force", "slept", "started",
                  "open", "launch", "run", "post", "done"}

\* The types of what the proofs read.
FieldTypes ==
    /\ mManagement \in Sessions \cup {None}
    /\ mOpenVPNThread \in Sessions \cup {None}
    /\ mProcessThread \in Sessions \cup {None}
    /\ starts \in 0..MaxSessions
    /\ starter \in [Sessions -> StarterPlaces]
    /\ thread \in [Sessions -> {"none", "run", "ended"}]
    /\ native \in [Sessions -> {"none", "up", "connected", "dead"}]
    /\ replaced \in [Sessions -> BOOLEAN]
    /\ interrupted \in [Sessions -> BOOLEAN]
    /\ signalled \in [Sessions -> BOOLEAN]

\* Sessions that would show NOPROCESS when their output ends.
Unmarked == {s \in Sessions : thread[s] = "run" /\ ~replaced[s]}

\* Starts follow one another, and a process runs once its starter got there.
OneAtATime ==
    /\ \A s \in Sessions : s < starts => starter[s] = "done"
    /\ \A s \in Sessions : s <= starts <=> starter[s] # "none"
    /\ \A s \in Sessions : thread[s] # "none" => starter[s] \in {"post", "done"}
    /\ \A s \in Sessions : thread[s] = "none" => native[s] = "none"

\* The process thread field names the one session nothing stops yet, and the
\* runnable field the one that is not marked yet.
NamedSession ==
    /\ \A s \in Staying : mProcessThread = s
    /\ \A s \in Unmarked : mOpenVPNThread = s
    /\ \A s \in Sessions : starter[s] = "run" => mOpenVPNThread = s /\ ~replaced[s]
    /\ mOpenVPNThread # None => starter[mOpenVPNThread] \in {"run", "post", "done"}
    /\ \A s \in Sessions : replaced[s] => starter[s] = "done"
    /\ \A s \in Sessions :
          starter[s] \in {"launch", "run"} \/ thread[s] # "none" => mManagement # None

\* A starter past StopOld finds everything marked, and past ForceStop
\* everything stopped; what runs later than a session finds it so too.
OldOnesDone ==
    /\ \A t \in Sessions :
          starter[t] \in {"force", "slept", "started", "open", "launch", "run"} => Unmarked = {}
    /\ \A t \in Sessions :
          starter[t] \in {"slept", "started", "open", "launch", "run"} => Staying = {}
    /\ \A s, t \in Sessions : s < t /\ thread[t] # "none" => s \notin Staying /\ s \notin Unmarked

Settled == OneAtATime /\ NamedSession /\ OldOnesDone
SessionInv == FieldTypes /\ Settled

-----------------------------------------------------------------------------
(* Types. *)

\* A program counter that moves stays in its type.
LEMMA AtType ==
    ASSUME NEW S, NEW P, NEW pc \in [S -> P], NEW s \in S, NEW to \in P
    PROVE  [pc EXCEPT ![s] = to] \in [S -> P]
OBVIOUS

LEMMA InitTypes == Init => FieldTypes
BY LifecycleAssumption DEF Init, FieldTypes, StarterPlaces, None, Sessions

LEMMA StopTypes ==
    ASSUME FieldTypes, stopVPN
    PROVE  signalled' \in [Sessions -> BOOLEAN]
BY DEF stopVPN, FieldTypes

\* A step that moves one starter and leaves the rest of FieldTypes alone.
LEMMA StarterTypes ==
    ASSUME FieldTypes, NEW s \in Sessions, NEW from, NEW to \in StarterPlaces,
           At(starter, s, from, to)
    PROVE  starter' \in [Sessions -> StarterPlaces]
BY DEF FieldTypes, At

LEMMA FieldTypesStep == FieldTypes /\ [Next]_vars => FieldTypes'
<1> SUFFICES ASSUME FieldTypes, [Next]_vars PROVE FieldTypes'
  OBVIOUS
<1> USE DEF FieldTypes
<1>0. {"none", "config", "stopOld", "force", "slept", "started",
       "open", "launch", "run", "post", "done"} = StarterPlaces
  BY DEF StarterPlaces
<1>1. CASE onStartCommand
  <2>1. starts + 1 \in Sessions /\ starts' \in 0..MaxSessions
    BY <1>1, LifecycleAssumption DEF onStartCommand, Sessions
  <2>2. starter' \in [Sessions -> StarterPlaces]
    BY <1>1, <1>0, <2>1, AtType DEF onStartCommand
  <2> QED BY <1>1, <2>1, <2>2 DEF onStartCommand, managers, processes
<1>2. ASSUME NEW s \in Sessions, StarterStep(s) PROVE FieldTypes'
  <2> USE DEF managers, processes, fields
  <2>1. starter' \in [Sessions -> StarterPlaces]
    BY <1>2, <1>0, StarterTypes
       DEF StarterStep, ConfigWritten, ConfigFails, StopOld, ForceStop, Slept, OldExited,
           OpenManagement, OpenFails, CreateThread, RunThread, PostRegister
  <2>2. CASE ConfigWritten(s) \/ ConfigFails(s) \/ Slept(s) \/ OldExited(s) \/ OpenFails(s)
             \/ PostRegister(s)
    BY <2>1, <2>2 DEF ConfigWritten, ConfigFails, Slept, OldExited, OpenFails, PostRegister
  <2>3. CASE StopOld(s)
    <3>1. signalled' \in [Sessions -> BOOLEAN]
      BY <2>3, StopTypes DEF StopOld
    <3>2. replaced' \in [Sessions -> BOOLEAN]
      BY <2>3 DEF StopOld
    <3> QED BY <2>1, <2>3, <3>1, <3>2 DEF StopOld
  <2>4. CASE ForceStop(s)
    <3>1. interrupted' \in [Sessions -> BOOLEAN]
      BY <2>4 DEF ForceStop
    <3> QED BY <2>1, <2>4, <3>1 DEF ForceStop
  <2>5. CASE OpenManagement(s) \/ CreateThread(s)
    BY <2>1, <2>5 DEF OpenManagement, CreateThread
  <2>6. CASE RunThread(s)
    BY <2>1, <2>6, AtType DEF RunThread
  <2> QED BY <1>2, <2>2, <2>3, <2>4, <2>5, <2>6 DEF StarterStep
<1>3. ASSUME NEW c \in Callers, EndStep(c) PROVE FieldTypes'
  BY <1>3 DEF EndStep, EndClear, EndTeardown, EndStop, managers, processes
<1>4. CASE RegisterReceiver
  BY <1>4 DEF RegisterReceiver, managers, processes
<1>5. CASE UserStop \/ onRevoke \/ onDestroy
  <2>1. signalled' \in [Sessions -> BOOLEAN]
    BY <1>5, StopTypes DEF UserStop, onRevoke, onDestroy, managers
  <2> QED BY <1>5, <2>1 DEF UserStop, onRevoke, onDestroy, processes, fields
<1>6. ASSUME NEW s \in Sessions,
             ManagerStarts(s) \/ ManagerState(s) \/ ManagerEnds(s)
      PROVE  FieldTypes'
  BY <1>6 DEF ManagerStarts, ManagerState, ManagerEnds, fields, processes, managers
<1>7. ASSUME NEW s \in Sessions,
             ManagerAccepts(s) \/ NativeStops(s) \/ NativeDies(s)
      PROVE  FieldTypes'
  <2>1. native' \in [Sessions -> {"none", "up", "connected", "dead"}]
    BY <1>7 DEF ManagerAccepts, NativeStops, NativeDies
  <2> QED BY <1>7, <2>1 DEF ManagerAccepts, NativeStops, NativeDies, fields, managers
<1>8. ASSUME NEW s \in Sessions, LogLine(s) PROVE FieldTypes'
  <2>1. native' \in [Sessions -> {"none", "up", "connected", "dead"}]
    BY <1>8 DEF LogLine
  <2>2. interrupted' \in [Sessions -> BOOLEAN]
    BY <1>8 DEF LogLine
  <2> QED BY <1>8, <2>1, <2>2 DEF LogLine, fields, managers
<1>9. ASSUME NEW s \in Sessions, ProcessDied(s) PROVE FieldTypes'
  <2>1. thread' \in [Sessions -> {"none", "run", "ended"}]
    BY <1>9 DEF ProcessDied, At
  <2> QED BY <1>9, <2>1 DEF ProcessDied, fields, managers
<1>10. CASE UNCHANGED vars
  BY <1>10 DEF vars, fields, managers, processes
<1>11. Main \in Callers /\ Sessions \subseteq Callers
  BY DEF Callers
<1> QED
  BY <1>1, <1>2, <1>3, <1>4, <1>5, <1>6, <1>7, <1>8, <1>9, <1>10, <1>11
     DEF Next, MainStep, SessionStep

\* The types of the rest of the state.
OtherTypes ==
    /\ mDeviceStateReceiver \in Sessions \cup {None}
    /\ mProcessLock \in Sessions \cup {None}
    /\ mStarting \in BOOLEAN
    /\ registers \in Nat
    /\ ending \in [Callers -> {"no", "clear", "teardown", "stop"}]
    /\ active \in Seq(Sessions)
    /\ manager \in [Sessions -> {"none", "new", "accept", "read", "gone"}]
    /\ socket \in [Sessions -> {"null", "open", "closed"}]
    /\ mShuttingDown \in [Sessions -> BOOLEAN]
    /\ status \in {"NOPROCESS", "STARTING", "CONNECTED"}
    /\ stopped \in {"no", "stopSelf", "destroyed"}
    /\ wanted \in {"start", "stop"}

LEMMA StopOtherTypes ==
    ASSUME OtherTypes, stopVPN
    PROVE  /\ active' \in Seq(Sessions)
           /\ manager' \in [Sessions -> {"none", "new", "accept", "read", "gone"}]
           /\ socket' \in [Sessions -> {"null", "open", "closed"}]
           /\ mShuttingDown' \in [Sessions -> BOOLEAN]
<1>1. mShuttingDown' \in [Sessions -> BOOLEAN]
  BY DEF stopVPN, OtherTypes
<1> QED BY <1>1 DEF stopVPN, OtherTypes

LEMMA OtherTypesStep == FieldTypes /\ OtherTypes /\ [Next]_vars => OtherTypes'
<1> SUFFICES ASSUME FieldTypes, OtherTypes, [Next]_vars PROVE OtherTypes'
  OBVIOUS
<1> USE DEF OtherTypes
<1>c. Main \in Callers /\ Sessions \subseteq Callers
  BY DEF Callers
<1>e. \A c \in Callers : EndBegins(c) =>
          ending' \in [Callers -> {"no", "clear", "teardown", "stop"}]
  BY DEF EndBegins
<1>1. CASE onStartCommand
  BY <1>1 DEF onStartCommand, managers, processes
<1>2. ASSUME NEW s \in Sessions, StarterStep(s) PROVE OtherTypes'
  <2> USE DEF managers, processes, fields
  <2>1. CASE ConfigWritten(s) \/ OldExited(s)
    BY <2>1 DEF ConfigWritten, OldExited
  <2>2. CASE ConfigFails(s) \/ OpenFails(s)
    BY <2>2, <1>c, <1>e DEF ConfigFails, OpenFails
  <2>3. CASE StopOld(s)
    BY <2>3, StopOtherTypes DEF StopOld
  <2>4. CASE ForceStop(s) \/ Slept(s)
    BY <2>4 DEF ForceStop, Slept
  <2>5. CASE OpenManagement(s)
    BY <2>5 DEF OpenManagement
  <2>6. CASE CreateThread(s) \/ RunThread(s) \/ PostRegister(s)
    BY <2>6 DEF CreateThread, RunThread, PostRegister
  <2> QED BY <1>2, <2>1, <2>2, <2>3, <2>4, <2>5, <2>6 DEF StarterStep
<1>3. ASSUME NEW c \in Callers, EndStep(c) PROVE OtherTypes'
  <2>1. ending' \in [Callers -> {"no", "clear", "teardown", "stop"}]
    BY <1>3 DEF EndStep, EndClear, EndTeardown, EndStop, At
  <2>2. CASE EndClear(c) \/ EndTeardown(c)
    BY <2>1, <2>2 DEF EndClear, EndTeardown, managers, processes
  <2>3. CASE EndStop(c)
    BY <2>1, <2>3 DEF EndStop, managers, processes
  <2> QED BY <1>3, <2>2, <2>3 DEF EndStep
<1>4. CASE RegisterReceiver
  BY <1>4 DEF RegisterReceiver, managers, processes, FieldTypes
<1>5. CASE UserStop
  BY <1>5, StopOtherTypes DEF UserStop, processes, fields
<1>6. CASE onRevoke
  BY <1>6, <1>c, <1>e, StopOtherTypes DEF onRevoke, processes, fields
<1>7. CASE onDestroy
  BY <1>7, StopOtherTypes DEF onDestroy, processes, managers
<1>8. ASSUME NEW s \in Sessions, ManagerStarts(s) PROVE OtherTypes'
  BY <1>8 DEF ManagerStarts, At, fields, processes
<1>9. ASSUME NEW s \in Sessions, ManagerEnds(s) PROVE OtherTypes'
  <2>1. active' \in Seq(Sessions)
    <3>1. \A i \in DOMAIN active : RemoveAt(active, i) \in Seq(Sessions)
      BY DEF RemoveAt
    <3> QED BY <1>9, <3>1 DEF ManagerEnds
  <2> QED BY <1>9, <2>1 DEF ManagerEnds, At, fields, processes
<1>10. ASSUME NEW s \in Sessions, ManagerAccepts(s) \/ ManagerState(s) PROVE OtherTypes'
  BY <1>10 DEF ManagerAccepts, ManagerState, At, fields, processes, managers
<1>11. ASSUME NEW s \in Sessions, NativeStops(s) \/ NativeDies(s) \/ LogLine(s) PROVE OtherTypes'
  BY <1>11 DEF NativeStops, NativeDies, LogLine, fields, managers
<1>12. ASSUME NEW s \in Sessions, ProcessDied(s) PROVE OtherTypes'
  BY <1>12, <1>c, <1>e DEF ProcessDied, fields, managers
<1>13. CASE UNCHANGED vars
  BY <1>13 DEF vars, fields, managers, processes
<1> QED
  BY <1>c, <1>1, <1>2, <1>3, <1>4, <1>5, <1>6, <1>7, <1>8, <1>9, <1>10, <1>11, <1>12, <1>13
     DEF Next, MainStep, SessionStep

\* The fields of the service name sessions or nothing, and every session is at
\* one of the places of its threads, whatever starts, ends and fails.
THEOREM LifecycleTypes == Spec => []TypeOK
<1>1. Init => FieldTypes /\ OtherTypes
  <2> SUFFICES ASSUME Init PROVE OtherTypes
    BY InitTypes
  <2>1. <<>> \in Seq(Sessions) /\ None \in Sessions \cup {None}
    OBVIOUS
  <2> QED BY <2>1 DEF Init, OtherTypes
<1>2. (FieldTypes /\ OtherTypes) /\ [Next]_vars => (FieldTypes /\ OtherTypes)'
  BY FieldTypesStep, OtherTypesStep
<1>3. FieldTypes /\ OtherTypes => TypeOK
  BY DEF FieldTypes, OtherTypes, TypeOK, StarterPlaces
<1> QED BY <1>1, <1>2, <1>3, PTL DEF Spec

-----------------------------------------------------------------------------
(* The fields name the session that is left. *)

InTurn == "overlap" \notin Events /\ "lateExit" \notin Events

LEMMA SessionInvInit == Init => SessionInv
<1> SUFFICES ASSUME Init PROVE SessionInv
  OBVIOUS
<1>1. Staying = {} /\ Unmarked = {}
  BY DEF Init, Staying, Unmarked, Alive
<1>2. \A s \in Sessions : ~(s <= 0) /\ ~(s < 0)
  BY LifecycleAssumption DEF Sessions
<1> QED
  BY <1>1, <1>2, InitTypes DEF Init, SessionInv, Settled, OneAtATime, NamedSession, OldOnesDone, None

\* Nobody starts and no field is set: nothing becomes unstopped or unmarked.
LEMMA QuietStep ==
    ASSUME SessionInv, UNCHANGED <<starts, starter, replaced, mManagement>>,
           mProcessThread' = mProcessThread \/ mProcessThread \notin Staying,
           mOpenVPNThread' = mOpenVPNThread
             \/ (mOpenVPNThread' = None /\ mOpenVPNThread \notin Current),
           Staying' \subseteq Staying, Unmarked' \subseteq Unmarked,
           \A s \in Sessions : thread[s] = "none" <=> thread'[s] = "none",
           \A s \in Sessions : native[s] = "none" => native'[s] = "none"
    PROVE  Settled'
<1> USE DEF SessionInv, Settled
<1>1. OneAtATime'
  BY DEF OneAtATime
<1>2. \A s \in Unmarked' : mOpenVPNThread' = s
  <2> SUFFICES ASSUME NEW s \in Unmarked' PROVE mOpenVPNThread' = s
    OBVIOUS
  <2>1. s \in Unmarked /\ mOpenVPNThread = s
    BY DEF NamedSession
  <2>2. s \in Current
    BY <2>1 DEF Unmarked, Current
  <2> QED BY <2>1, <2>2
<1>3. \A s \in Staying' : mProcessThread' = s
  BY DEF NamedSession
<1>4. ASSUME NEW s \in Sessions, starter'[s] = "run" PROVE mOpenVPNThread' = s /\ ~replaced'[s]
  <2>1. mOpenVPNThread = s /\ ~replaced[s]
    BY <1>4 DEF NamedSession
  <2>2. thread[s] # "ended"
    BY <1>4 DEF OneAtATime
  <2> QED BY <2>1, <2>2 DEF Current
<1>5. NamedSession'
  BY <1>2, <1>3, <1>4 DEF NamedSession
<1>6. OldOnesDone'
  BY DEF OldOnesDone
<1> QED BY <1>1, <1>5, <1>6

\* SIGINT only adds to what is stopped.
LEMMA StopLeaves ==
    ASSUME FieldTypes, stopVPN, UNCHANGED <<native, interrupted>>
    PROVE  Staying' \subseteq Staying
BY DEF stopVPN, Staying, Alive, FieldTypes

LEMMA SameStaying ==
    ASSUME UNCHANGED <<native, interrupted, signalled>>
    PROVE  Staying' = Staying
BY DEF Staying, Alive

LEMMA SameUnmarked ==
    ASSUME UNCHANGED <<thread, replaced>>
    PROVE  Unmarked' = Unmarked
BY DEF Unmarked

\* The places of the starter between which nothing is set.
LEMMA StarterAdvances ==
    ASSUME SessionInv, NEW s \in Sessions, NEW from \in StarterPlaces, NEW to \in StarterPlaces,
           At(starter, s, from, to),
           <<from, to>> \in {<<"config", "stopOld">>, <<"config", "done">>, <<"slept", "started">>,
                             <<"started", "open">>, <<"open", "done">>, <<"post", "done">>},
           UNCHANGED <<starts, replaced, mManagement, mProcessThread, mOpenVPNThread,
                       thread, native, interrupted, signalled>>
    PROVE  Settled'
<1> USE DEF SessionInv, Settled
<1>1. Staying' = Staying /\ Unmarked' = Unmarked
  BY SameStaying, SameUnmarked
<1>2. /\ starter[s] = from /\ starter'[s] = to
      /\ \A t \in Sessions : t # s => starter'[t] = starter[t]
  BY DEF At, FieldTypes
<1>3. OneAtATime'
  BY <1>2 DEF OneAtATime
<1>4. NamedSession'
  BY <1>1, <1>2 DEF NamedSession, FieldTypes, None
<1>5. OldOnesDone'
  BY <1>1, <1>2 DEF OldOnesDone
<1> QED BY <1>3, <1>4, <1>5

\* One starter is under way, and it is the last.
LEMMA OneStarter ==
    ASSUME FieldTypes, OneAtATime, NEW s \in Sessions, starter[s] \notin {"none", "done"}
    PROVE  /\ s = starts
           /\ \A t \in Sessions : t # s => starter[t] \in {"none", "done"}
           /\ \A t \in Sessions : t < s => starter[t] = "done"
           /\ \A t \in Sessions : s < t => starter[t] = "none" /\ thread[t] = "none"
<1>1. \A t \in Sessions : t \in Nat
  BY LifecycleAssumption DEF Sessions
<1>2. starts \in Nat
  BY LifecycleAssumption DEF FieldTypes
<1> QED BY <1>1, <1>2 DEF OneAtATime

LEMMA StarterStepInv ==
    ASSUME SessionInv, InTurn, NEW s \in Sessions, StarterStep(s)
    PROVE  Settled'
<1> USE DEF SessionInv, Settled
<1>pl. /\ {"none", "config", "stopOld", "force", "slept", "started",
           "open", "launch", "run", "post", "done"} = StarterPlaces
       /\ None \notin Sessions
  BY LifecycleAssumption DEF StarterPlaces, None, Sessions
<1>0. ASSUME NEW from, from \notin {"none", "done"}, NEW to, At(starter, s, from, to)
      PROVE  /\ starter[s] = from /\ starter'[s] = to
             /\ \A t \in Sessions : t # s => starter'[t] = starter[t] /\ starter[t] \in {"none", "done"}
             /\ \A t \in Sessions : t < s => starter[t] = "done"
             /\ \A t \in Sessions : s < t => thread[t] = "none"
             /\ from \notin {"post"} => thread[s] = "none" /\ native[s] = "none"
  <2>1. starter[s] = from /\ starter'[s] = to /\ \A t \in Sessions : t # s => starter'[t] = starter[t]
    BY <1>0 DEF At, FieldTypes
  <2>2. from # "post" => thread[s] = "none" /\ native[s] = "none"
    BY <1>0, <2>1 DEF OneAtATime
  <2> QED BY <1>0, <2>1, <2>2, OneStarter
<1>1. CASE ConfigWritten(s) \/ ConfigFails(s) \/ Slept(s) \/ OldExited(s) \/ OpenFails(s)
           \/ PostRegister(s)
  <2>1. UNCHANGED <<starts, replaced, mManagement, mProcessThread, mOpenVPNThread,
                    thread, native, interrupted, signalled>>
    BY <1>1 DEF ConfigWritten, ConfigFails, Slept, OldExited, OpenFails, PostRegister,
                fields, managers, processes
  <2> QED
    BY <1>1, <1>pl, <2>1, StarterAdvances
       DEF ConfigWritten, ConfigFails, Slept, OldExited, OpenFails, PostRegister
<1>2. CASE StopOld(s)
  <2> USE DEF FieldTypes
  <2>1. /\ At(starter, s, "stopOld", "force")
        /\ UNCHANGED <<starts, mManagement, mProcessThread, mOpenVPNThread, thread,
                       native, interrupted>>
    BY <1>2 DEF StopOld, fields
  <2>2. /\ starter[s] = "stopOld" /\ starter'[s] = "force"
        /\ \A t \in Sessions : t # s => starter'[t] = starter[t] /\ starter[t] \in {"none", "done"}
    BY <2>1, <1>0
  <2>3. Staying' \subseteq Staying
    <3>1. CASE mManagement = None
      BY <1>2, <2>1, <3>1, SameStaying DEF StopOld, managers
    <3>2. CASE mManagement # None
      BY <1>2, <2>1, <3>2, StopLeaves DEF StopOld
    <3> QED BY <3>1, <3>2
  <2>4. Unmarked' = {}
    <3>1. CASE mManagement = None
      <4>1. \A t \in Sessions : thread[t] = "none"
        BY <3>1 DEF NamedSession
      <4> QED BY <4>1, <2>1 DEF Unmarked
    <3>2. CASE mManagement # None
      <4>1. replaced' = [t \in Sessions |-> replaced[t] \/ t = mOpenVPNThread]
        BY <1>2, <3>2 DEF StopOld
      <4>2. \A t \in Sessions : thread[t] = "run" => replaced'[t]
        BY <4>1 DEF NamedSession, Unmarked
      <4> QED BY <4>2, <2>1 DEF Unmarked
    <3> QED BY <3>1, <3>2
  <2>5. \A t \in Sessions : replaced'[t] => t # s /\ starter[t] = "done"
    <3> SUFFICES ASSUME NEW t \in Sessions, replaced'[t] PROVE t # s /\ starter[t] = "done"
      OBVIOUS
    <3>1. CASE replaced[t]
      BY <2>2, <3>1 DEF NamedSession
    <3>2. CASE t = mOpenVPNThread
      <4>1. starter[t] \in {"run", "post", "done"}
        BY <3>2, <1>pl DEF NamedSession
      <4> QED BY <2>2, <4>1
    <3>3. replaced[t] \/ t = mOpenVPNThread
      BY <1>2 DEF StopOld
    <3> QED BY <3>1, <3>2, <3>3
  <2>6. OneAtATime'
    BY <2>1, <2>2 DEF OneAtATime
  <2>7. NamedSession'
    <3>1. /\ \A t \in Staying' : mProcessThread' = t
          /\ \A t \in Unmarked' : mOpenVPNThread' = t
      BY <2>1, <2>3, <2>4 DEF NamedSession
    <3>2. \A t \in Sessions : starter'[t] # "run"
      BY <2>2
    <3>3. mOpenVPNThread' # None => starter'[mOpenVPNThread'] \in {"run", "post", "done"}
      BY <2>1, <2>2 DEF NamedSession
    <3>4. \A t \in Sessions : replaced'[t] => starter'[t] = "done"
      BY <2>2, <2>5
    <3>5. \A t \in Sessions : starter'[t] \in {"launch", "run"} \/ thread'[t] # "none" => mManagement' # None
      BY <2>1, <2>2 DEF NamedSession
    <3> QED BY <3>1, <3>2, <3>3, <3>4, <3>5 DEF NamedSession
  <2>8. OldOnesDone'
    BY <2>1, <2>2, <2>3, <2>4 DEF OldOnesDone
  <2> QED BY <2>6, <2>7, <2>8
<1>3. CASE ForceStop(s)
  <2> USE DEF FieldTypes
  <2>1. /\ At(starter, s, "force", "slept")
        /\ UNCHANGED <<starts, mManagement, mProcessThread, mOpenVPNThread, thread, replaced,
                       native, signalled>>
    BY <1>3 DEF ForceStop, managers
  <2>2. /\ starter[s] = "force" /\ starter'[s] = "slept"
        /\ \A t \in Sessions : t # s => starter'[t] = starter[t] /\ starter[t] \in {"none", "done"}
    BY <2>1, <1>0
  <2>3. Staying' = {}
    <3>1. \A t \in Sessions : interrupted'[t] <=> interrupted[t] \/ t = mProcessThread
      BY <1>3 DEF ForceStop
    <3>2. SUFFICES ASSUME NEW t \in Sessions, t \in Staying' PROVE FALSE
      BY DEF Staying
    <3>3. t \in Staying /\ t # mProcessThread
      BY <2>1, <3>1, <3>2 DEF Staying, Alive
    <3> QED BY <3>3 DEF NamedSession
  <2>4. Unmarked' = Unmarked /\ Unmarked = {}
    BY <2>1, <2>2, SameUnmarked DEF OldOnesDone
  <2>6. OneAtATime'
    BY <2>1, <2>2 DEF OneAtATime
  <2>7. NamedSession'
    BY <2>1, <2>2, <2>3, <2>4, <1>pl DEF NamedSession
  <2>8. OldOnesDone'
    BY <2>1, <2>2, <2>3, <2>4 DEF OldOnesDone
  <2> QED BY <2>6, <2>7, <2>8
<1>4. CASE OpenManagement(s)
  <2> USE DEF FieldTypes
  <2>1. /\ At(starter, s, "open", "launch") /\ mManagement' = s
        /\ UNCHANGED <<starts, mProcessThread, mOpenVPNThread, thread, replaced,
                       native, interrupted, signalled>>
    BY <1>4 DEF OpenManagement, processes
  <2>2. /\ starter[s] = "open" /\ starter'[s] = "launch"
        /\ \A t \in Sessions : t # s => starter'[t] = starter[t] /\ starter[t] \in {"none", "done"}
    BY <2>1, <1>0
  <2>3. Staying' = Staying /\ Unmarked' = Unmarked
    BY <2>1, SameStaying, SameUnmarked
  <2>6. OneAtATime'
    BY <2>1, <2>2 DEF OneAtATime
  <2>7. NamedSession'
    BY <2>1, <2>2, <2>3, <1>pl DEF NamedSession
  <2>8. OldOnesDone'
    BY <2>1, <2>2, <2>3 DEF OldOnesDone
  <2> QED BY <2>6, <2>7, <2>8
<1>5. CASE CreateThread(s)
  <2> USE DEF FieldTypes
  <2>1. /\ At(starter, s, "launch", "run") /\ mOpenVPNThread' = s
        /\ UNCHANGED <<starts, mProcessThread, mManagement, thread, replaced,
                       native, interrupted, signalled>>
    BY <1>5 DEF CreateThread, processes, managers
  <2>2. /\ starter[s] = "launch" /\ starter'[s] = "run"
        /\ \A t \in Sessions : t # s => starter'[t] = starter[t] /\ starter[t] \in {"none", "done"}
    BY <2>1, <1>0
  <2>3. Staying' = Staying /\ Unmarked' = Unmarked /\ Unmarked = {}
    BY <2>1, <2>2, SameStaying, SameUnmarked DEF OldOnesDone
  <2>4. ~replaced[s]
    BY <2>2 DEF NamedSession
  <2>6. OneAtATime'
    BY <2>1, <2>2 DEF OneAtATime
  <2>7. NamedSession'
    BY <2>1, <2>2, <2>3, <2>4, <1>pl DEF NamedSession
  <2>8. OldOnesDone'
    BY <2>1, <2>2, <2>3 DEF OldOnesDone
  <2> QED BY <2>6, <2>7, <2>8
<1>6. CASE RunThread(s)
  <2> USE DEF FieldTypes
  <2>1. /\ At(starter, s, "run", "post") /\ mProcessThread' = s
        /\ thread' = [thread EXCEPT ![s] = "run"] /\ native' = [native EXCEPT ![s] = "up"]
        /\ UNCHANGED <<starts, mOpenVPNThread, mManagement, replaced, interrupted, signalled>>
    BY <1>6 DEF RunThread, managers
  <2>2. /\ starter[s] = "run" /\ starter'[s] = "post"
        /\ \A t \in Sessions : t # s => starter'[t] = starter[t] /\ starter[t] \in {"none", "done"}
        /\ \A t \in Sessions : t < s => starter[t] = "done"
        /\ \A t \in Sessions : s < t => thread[t] = "none"
    BY <2>1, <1>0
  <2>3. Staying = {} /\ Unmarked = {} /\ mOpenVPNThread = s
    BY <2>2 DEF OldOnesDone, NamedSession
  <2>4. /\ thread'[s] = "run" /\ native'[s] = "up"
        /\ \A t \in Sessions : t # s => thread'[t] = thread[t] /\ native'[t] = native[t]
    BY <2>1
  <2>5. \A t \in Sessions : t # s => t \notin Staying' /\ t \notin Unmarked'
    BY <2>1, <2>3, <2>4 DEF Staying, Unmarked, Alive
  <2>6. OneAtATime'
    BY <2>1, <2>2, <2>4 DEF OneAtATime
  <2>7. NamedSession'
    <3>1. \A t \in Staying' \cup Unmarked' : t = s
      BY <2>5 DEF Staying, Unmarked
    <3>2. mManagement # None
      BY <2>2 DEF NamedSession
    <3> QED BY <2>1, <2>2, <2>3, <3>1, <3>2, <1>pl DEF NamedSession
  <2>8. OldOnesDone'
    <3>1. \A u, t \in Sessions : u < t /\ thread'[t] # "none" => u # s
      BY <2>2, <2>4, LifecycleAssumption DEF Sessions
    <3>2. \A t \in Sessions : starter'[t] \in {"none", "done", "post"}
      BY <2>2
    <3> QED BY <2>5, <3>1, <3>2 DEF OldOnesDone
  <2> QED BY <2>6, <2>7, <2>8
<1> QED BY <1>1, <1>2, <1>3, <1>4, <1>5, <1>6 DEF StarterStep

\* A new start finds every earlier starter done.
LEMMA StartInv ==
    ASSUME SessionInv, InTurn, onStartCommand
    PROVE  Settled'
<1> USE DEF SessionInv, Settled, FieldTypes
<1>1. /\ starts' = starts + 1 /\ starter' = [starter EXCEPT ![starts + 1] = "config"]
      /\ UNCHANGED <<mManagement, mOpenVPNThread, mProcessThread, thread, native, replaced,
                     interrupted, signalled>>
  BY DEF onStartCommand, managers, processes
<1>2. \A t \in Sessions : starter[t] \in {"none", "done"}
  BY DEF InTurn, onStartCommand, Starting
<1>3. starts \in Nat /\ starts + 1 \in Sessions /\ \A t \in Sessions : t \in Nat
  BY LifecycleAssumption DEF onStartCommand, Sessions
<1>4. starter'[starts + 1] = "config" /\ starter[starts + 1] = "none"
  BY <1>1, <1>3 DEF OneAtATime
<1>5. \A t \in Sessions : t # starts + 1 => starter'[t] = starter[t]
  BY <1>1
<1>6. Staying' = Staying /\ Unmarked' = Unmarked
  BY <1>1, SameStaying, SameUnmarked
<1>7. OneAtATime'
  <2>1. \A t \in Sessions : t < starts + 1 => starter'[t] = "done"
    BY <1>2, <1>3, <1>5 DEF OneAtATime
  <2>2. \A t \in Sessions : t <= starts + 1 <=> starter'[t] # "none"
    BY <1>3, <1>4, <1>5 DEF OneAtATime
  <2>3. \A t \in Sessions : thread'[t] # "none" => starter'[t] \in {"post", "done"}
    BY <1>1, <1>4, <1>5 DEF OneAtATime
  <2> QED BY <1>1, <2>1, <2>2, <2>3 DEF OneAtATime
<1>8. NamedSession'
  <2>1. mOpenVPNThread # None => mOpenVPNThread # starts + 1
    BY <1>4 DEF NamedSession
  <2>2. \A t \in Sessions : replaced[t] => t # starts + 1
    BY <1>4 DEF NamedSession
  <2>3. \A t \in Sessions : starter'[t] \notin {"run", "launch"}
    BY <1>2, <1>4, <1>5
  <2> QED BY <1>1, <1>5, <1>6, <2>1, <2>2, <2>3 DEF NamedSession
<1>9. OldOnesDone'
  <2>1. \A t \in Sessions :
           starter'[t] \notin {"force", "slept", "started", "open", "launch", "run"}
    BY <1>2, <1>4, <1>5
  <2> QED BY <1>1, <1>6, <2>1 DEF OldOnesDone
<1> QED BY <1>7, <1>8, <1>9

\* The invariant is inductive when starts and exits take turns.
LEMMA SessionInvStep == InTurn /\ SessionInv /\ [Next]_vars => SessionInv'
<1> SUFFICES ASSUME InTurn, SessionInv, [Next]_vars
             PROVE  Settled'
  BY FieldTypesStep DEF SessionInv
<1>ty. FieldTypes
  BY DEF SessionInv
<1>1. CASE onStartCommand
  BY <1>1, StartInv
<1>2. ASSUME NEW s \in Sessions, StarterStep(s)
      PROVE  Settled'
  BY <1>2, StarterStepInv
<1>3. ASSUME UNCHANGED <<starts, starter, replaced, mManagement, thread, native, interrupted,
                         signalled>>,
             mProcessThread' = mProcessThread \/ mProcessThread \notin Staying,
             mOpenVPNThread' = mOpenVPNThread
               \/ (mOpenVPNThread' = None /\ mOpenVPNThread \notin Current)
      PROVE  Settled'
  <2>1. Staying' = Staying /\ Unmarked' = Unmarked
    BY <1>3, SameStaying, SameUnmarked
  <2> QED BY <1>3, <2>1, QuietStep
<1>4. ASSUME NEW c \in Callers, EndStep(c)
      PROVE  Settled'
  BY <1>3, <1>4 DEF EndStep, EndClear, EndTeardown, EndStop, InTurn, managers, processes
<1>5. CASE RegisterReceiver
  BY <1>3, <1>5 DEF RegisterReceiver, managers, processes
<1>6. CASE UserStop \/ onRevoke \/ onDestroy
  <2>1. UNCHANGED <<starts, starter, replaced, mManagement, mProcessThread, mOpenVPNThread,
                    thread, native, interrupted>>
    BY <1>6 DEF UserStop, onRevoke, onDestroy, fields, processes
  <2>2. Unmarked' = Unmarked
    BY <2>1, SameUnmarked
  <2>3. stopVPN \/ UNCHANGED signalled
    BY <1>6 DEF UserStop, onRevoke, onDestroy, managers
  <2>4. Staying' \subseteq Staying
    BY <1>ty, <2>1, <2>3, StopLeaves, SameStaying
  <2> QED BY <2>1, <2>2, <2>4, QuietStep
<1>7. ASSUME NEW s \in Sessions, ManagerStarts(s) \/ ManagerState(s) \/ ManagerEnds(s)
      PROVE  Settled'
  BY <1>3, <1>7 DEF ManagerStarts, ManagerState, ManagerEnds, fields, managers, processes
<1>8. ASSUME NEW s \in Sessions,
             ManagerAccepts(s) \/ NativeStops(s) \/ NativeDies(s) \/ LogLine(s)
      PROVE  Settled'
  <2>1. UNCHANGED <<starts, starter, replaced, mManagement, mProcessThread, mOpenVPNThread,
                    thread, signalled>>
    BY <1>8 DEF ManagerAccepts, NativeStops, NativeDies, LogLine, fields, managers
  <2>2. /\ \A t \in Sessions : t # s => native'[t] = native[t] /\ interrupted'[t] = interrupted[t]
        /\ native[s] # "none" /\ Alive(s)
        /\ native'[s] = "dead" \/ interrupted'[s] = interrupted[s]
    BY <1>8, <1>ty DEF ManagerAccepts, NativeStops, NativeDies, LogLine, Alive, FieldTypes
  <2>3. Staying' \subseteq Staying
    <3> SUFFICES ASSUME NEW t \in Sessions, t \in Staying' PROVE t \in Staying
      BY DEF Staying
    <3>1. CASE t = s
      BY <2>1, <2>2, <3>1 DEF Staying, Alive
    <3>2. CASE t # s
      BY <2>1, <2>2, <3>2 DEF Staying, Alive
    <3> QED BY <3>1, <3>2
  <2>4. Unmarked' = Unmarked
    BY <2>1, SameUnmarked
  <2>5. \A t \in Sessions : native[t] = "none" => native'[t] = "none"
    BY <2>2
  <2> QED BY <2>1, <2>3, <2>4, <2>5, QuietStep
<1>9. ASSUME NEW s \in Sessions, ProcessDied(s)
      PROVE  Settled'
  <2>1. UNCHANGED <<starts, starter, replaced, mManagement, mProcessThread, mOpenVPNThread,
                    native, interrupted, signalled>>
    BY <1>9 DEF ProcessDied, fields, managers
  <2>2. /\ thread[s] = "run" /\ thread'[s] = "ended"
        /\ \A t \in Sessions : t # s => thread'[t] = thread[t]
    BY <1>9, <1>ty DEF ProcessDied, At, FieldTypes
  <2>3. Staying' = Staying
    BY <2>1, SameStaying
  <2>4. Unmarked' \subseteq Unmarked
    BY <2>1, <2>2 DEF Unmarked
  <2>5. \A t \in Sessions : thread[t] = "none" <=> thread'[t] = "none"
    BY <2>2
  <2> QED BY <2>1, <2>3, <2>4, <2>5, QuietStep
<1>10. CASE UNCHANGED vars
  BY <1>3, <1>10 DEF vars, fields, managers, processes
<1>11. Main \in Callers /\ Sessions \subseteq Callers
  BY DEF Callers
<1> QED
  BY <1>1, <1>2, <1>4, <1>5, <1>6, <1>7, <1>8, <1>9, <1>10, <1>11
     DEF Next, MainStep, SessionStep

\* However many sessions follow one another, with users, revocations and
\* failures at any step: an earlier process is stopped when a later one runs,
\* unless two starts overlap or a late exit clears the process thread field.
THEOREM OldSessionsAreStopped == InTurn => (Spec => []OldSessionsStop)
<1> SUFFICES ASSUME InTurn PROVE Spec => []OldSessionsStop
  OBVIOUS
<1>1. Init => SessionInv
  BY SessionInvInit
<1>2. SessionInv /\ [Next]_vars => SessionInv'
  BY SessionInvStep
<1>3. SessionInv => OldSessionsStop
  BY DEF SessionInv, Settled, OldOnesDone, OldSessionsStop
<1> QED BY <1>1, <1>2, <1>3, PTL DEF Spec

\* A replaced session never shows NOPROCESS over its successor, under the same
\* two conditions: setReplaceConnection has reached every earlier runnable.
THEOREM ReplacedStaysSilent == InTurn => (Spec => ReplacedIsSilent)
<1> SUFFICES ASSUME InTurn PROVE Spec => ReplacedIsSilent
  OBVIOUS
<1>1. Init => SessionInv
  BY SessionInvInit
<1>2. SessionInv /\ [Next]_vars => SessionInv'
  BY SessionInvStep
<1>3. SessionInv /\ [Next]_vars =>
          [\A s, t \in Sessions :
              (s < t /\ thread[t] = "run" /\ ProcessDied(s)) => status' = status]_vars
  <2> SUFFICES ASSUME SessionInv, NEW s \in Sessions, NEW t \in Sessions,
                      s < t, thread[t] = "run", ProcessDied(s)
               PROVE  status' = status
    OBVIOUS
  <2>1. s \notin Unmarked /\ thread[s] = "run"
    BY DEF SessionInv, Settled, OldOnesDone, ProcessDied, At
  <2>2. replaced[s]
    BY <2>1 DEF Unmarked
  <2> QED BY <2>2 DEF ProcessDied
<1> QED BY <1>1, <1>2, <1>3, PTL DEF Spec, ReplacedIsSilent
=============================================================================
