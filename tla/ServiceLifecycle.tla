-------------------------- MODULE ServiceLifecycle --------------------------
(***************************************************************************)
(* Sessions of one OpenVPNService object (OpenVPNService.java,             *)
(* OpenVPNThread.java and the start and stop of OpenVpnManagementThread):  *)
(* starting a connection, replacing a running one, the user's stop,        *)
(* onRevoke, the death of the process and the teardown that follows.       *)
(*                                                                         *)
(* A session is one call of startOpenVPN.  It has a starter thread, a      *)
(* management thread, an OpenVPNThread and a native process; the fields of *)
(* the service are shared by the threads of all sessions and name the      *)
(* session their value belongs to.  The sleeps of stopOldOpenVPNProcess    *)
(* and forceStopOpenVpnProcess order nothing: any thread may take longer.  *)
(*                                                                         *)
(* Every session's process connects to its own management socket.          *)
(***************************************************************************)
EXTENDS Naturals, Sequences, SequencesExt

CONSTANTS
    MaxSessions,   \* bound on calls of startOpenVPN
    Events         \* optional events that happen: see EventKinds

EventKinds == {"overlap", "lateExit", "revoke", "userStop", "failure"}

ASSUME LifecycleAssumption ==
    MaxSessions \in Nat \ {0} /\ Events \subseteq EventKinds

Sessions == 1..MaxSessions
None == 0
Main == 0           \* the main looper, among the callers of endVpnService
Callers == Sessions \cup {Main}

VARIABLES
    mManagement, mOpenVPNThread, mProcessThread, mDeviceStateReceiver,
    mStarting,
    mProcessLock,   \* session whose starter sleeps in the lock, or None
    starts,         \* sessions started so far
    starter,        \* where the starter thread of a session is
    registers,      \* posted runnables that register the receiver
    ending,         \* where a caller is in endVpnService
    active,         \* the static vector of management threads
    manager,        \* where the management thread of a session is
    socket,         \* its mSocket: "null", "open" or "closed"
    mShuttingDown,
    thread,         \* where the OpenVPNThread of a session is
    replaced,       \* mNoProcessExitStatus
    interrupted,
    native,         \* the native process
    signalled,      \* SIGINT is on its way to the native process
    status,         \* VpnStatus: "NOPROCESS", or who is shown
    stopped,        \* "no", stopSelf() called, or onDestroy run
    wanted          \* the user's last request: "start" or "stop"

fields == <<mManagement, mOpenVPNThread, mProcessThread, mDeviceStateReceiver,
            mStarting, mProcessLock, registers, stopped>>
managers == <<active, manager, socket, mShuttingDown, signalled>>
processes == <<thread, replaced, interrupted, native>>
vars == <<fields, starts, starter, ending, managers, processes, status, wanted>>

At(pc, s, from, to) == pc[s] = from /\ pc' = [pc EXCEPT ![s] = to]

-----------------------------------------------------------------------------
(* stopOpenVPN: SIGINT to every active management thread whose socket is     *)
(* open, close its socket, and report what the last of them reported.       *)

Signalled == {s \in Sessions : Contains(active, s) /\ socket[s] = "open"}
StopResult == active # <<>> /\ Last(active) \in Signalled

stopVPN ==
    /\ signalled' = [s \in Sessions |-> signalled[s] \/ s \in Signalled]
    /\ socket' = [s \in Sessions |-> IF s \in Signalled THEN "closed" ELSE socket[s]]
    /\ mShuttingDown' = [s \in Sessions |->
                            mShuttingDown[s] \/ (StopResult /\ s = mManagement)]
    /\ UNCHANGED <<active, manager>>

-----------------------------------------------------------------------------
Init ==
    /\ mManagement = None /\ mOpenVPNThread = None
    /\ mProcessThread = None /\ mDeviceStateReceiver = None
    /\ mStarting = FALSE
    /\ mProcessLock = None
    /\ starts = 0
    /\ starter = [s \in Sessions |-> "none"]
    /\ registers = 0
    /\ ending = [c \in Callers |-> "no"]
    /\ active = <<>>
    /\ manager = [s \in Sessions |-> "none"]
    /\ socket = [s \in Sessions |-> "null"]
    /\ mShuttingDown = [s \in Sessions |-> FALSE]
    /\ thread = [s \in Sessions |-> "none"]
    /\ replaced = [s \in Sessions |-> FALSE]
    /\ interrupted = [s \in Sessions |-> FALSE]
    /\ native = [s \in Sessions |-> "none"]
    /\ signalled = [s \in Sessions |-> FALSE]
    /\ status = "NOPROCESS"
    /\ stopped = "no"
    /\ wanted = "stop"

\* endVpnService is called by c: by the starter or OpenVPNThread of a session,
\* or by onRevoke on the main looper.
EndBegins(c) == ending' = [ending EXCEPT ![c] = "clear"]

-----------------------------------------------------------------------------
(* The starter thread: startOpenVPN. *)

Starting == {s \in Sessions : starter[s] \notin {"none", "done"}}

\* onStartCommand with a profile.  A service that has called stopSelf() is kept
\* when a client is bound to it, or destroyed after a start that was queued.
onStartCommand ==
    /\ stopped # "destroyed"
    /\ starts < MaxSessions
    /\ "overlap" \in Events \/ Starting = {}
    /\ starts' = starts + 1
    /\ starter' = [starter EXCEPT ![starts + 1] = "config"]
    /\ stopped' \in {"no", stopped}
    /\ wanted' = "start"
    /\ UNCHANGED <<mManagement, mOpenVPNThread, mProcessThread, mDeviceStateReceiver,
                   mStarting, mProcessLock, registers, ending, managers, processes, status>>

\* The configuration is written: mStarting is set, the old session is next.
ConfigWritten(s) ==
    /\ At(starter, s, "config", "stopOld")
    /\ mStarting' = TRUE
    /\ status' = "STARTING"
    /\ UNCHANGED <<mManagement, mOpenVPNThread, mProcessThread, mDeviceStateReceiver,
                   mProcessLock, registers, stopped, starts, ending, managers, processes, wanted>>

\* writeConfigFile throws.
ConfigFails(s) ==
    /\ "failure" \in Events
    /\ At(starter, s, "config", "done")
    /\ status' = "STARTING"
    /\ EndBegins(s)
    /\ UNCHANGED <<fields, starts, managers, processes, wanted>>

\* Mutant of StopOld: setReplaceConnection is not called.
StopOldUnmarked(s) ==
    /\ At(starter, s, "stopOld", "force")
    /\ IF mManagement = None THEN UNCHANGED managers ELSE stopVPN
    /\ UNCHANGED <<fields, starts, ending, processes, status, wanted>>

\* stopOldOpenVPNProcess up to its sleep.
StopOld(s) ==
    /\ At(starter, s, "stopOld", "force")
    /\ IF mManagement = None
       THEN UNCHANGED <<managers, replaced>>
       ELSE /\ stopVPN
            /\ replaced' = [t \in Sessions |-> replaced[t] \/ t = mOpenVPNThread]
    /\ UNCHANGED <<fields, starts, ending, thread, interrupted, native, status, wanted>>

\* Mutant of ForceStop: the process thread is not interrupted.
ForceStopGently(s) ==
    /\ mProcessLock = None
    /\ At(starter, s, "force", "slept")
    /\ mProcessLock' = IF mProcessThread = None THEN None ELSE s
    /\ UNCHANGED <<mManagement, mOpenVPNThread, mProcessThread, mDeviceStateReceiver, mStarting,
                   registers, stopped, starts, ending, managers, processes, status, wanted>>

\* forceStopOpenVpnProcess interrupts the process thread and sleeps in the lock.
ForceStop(s) ==
    /\ mProcessLock = None
    /\ At(starter, s, "force", "slept")
    /\ interrupted' = [t \in Sessions |-> interrupted[t] \/ t = mProcessThread]
    /\ mProcessLock' = IF mProcessThread = None THEN None ELSE s
    /\ UNCHANGED <<mManagement, mOpenVPNThread, mProcessThread, mDeviceStateReceiver, mStarting,
                   registers, stopped, starts, ending, managers, thread, replaced, native, status, wanted>>

\* The lock is released.
Slept(s) ==
    /\ At(starter, s, "slept", "started")
    /\ mProcessLock' = IF mProcessLock = s THEN None ELSE mProcessLock
    /\ UNCHANGED <<mManagement, mOpenVPNThread, mProcessThread, mDeviceStateReceiver, mStarting,
                   registers, stopped, starts, ending, managers, processes, status, wanted>>

\* Mutant of OldExited: mStarting is not reset.
OldExitedStillStarting(s) ==
    /\ At(starter, s, "started", "open")
    /\ UNCHANGED <<fields, starts, ending, managers, processes, status, wanted>>

\* "An old running VPN should now be exited": mStarting is reset.
OldExited(s) ==
    /\ At(starter, s, "started", "open")
    /\ mStarting' = FALSE
    /\ UNCHANGED <<mManagement, mOpenVPNThread, mProcessThread, mDeviceStateReceiver,
                   mProcessLock, registers, stopped, starts, ending, managers, processes, status, wanted>>

\* The management interface is open and its thread is started.
OpenManagement(s) ==
    /\ At(starter, s, "open", "launch")
    /\ manager' = [manager EXCEPT ![s] = "new"]
    /\ mManagement' = s
    /\ UNCHANGED <<mOpenVPNThread, mProcessThread, mDeviceStateReceiver, mStarting, mProcessLock,
                   registers, stopped, starts, ending, active, socket, mShuttingDown, signalled,
                   processes, status, wanted>>

\* openManagementInterface fails.
OpenFails(s) ==
    /\ "failure" \in Events
    /\ At(starter, s, "open", "done")
    /\ EndBegins(s)
    /\ UNCHANGED <<fields, starts, managers, processes, status, wanted>>

\* The OpenVPNThread runnable is created.
CreateThread(s) ==
    /\ At(starter, s, "launch", "run")
    /\ mOpenVPNThread' = s
    /\ UNCHANGED <<mManagement, mProcessThread, mDeviceStateReceiver, mStarting, mProcessLock,
                   registers, stopped, starts, ending, managers, processes, status, wanted>>

\* Its thread is started under the lock.
RunThread(s) ==
    /\ mProcessLock = None
    /\ At(starter, s, "run", "post")
    /\ mProcessThread' = s
    /\ thread' = [thread EXCEPT ![s] = "run"]
    /\ native' = [native EXCEPT ![s] = "up"]
    /\ UNCHANGED <<mManagement, mOpenVPNThread, mDeviceStateReceiver, mStarting, mProcessLock,
                   registers, stopped, starts, ending, managers, replaced, interrupted, status, wanted>>

\* The registration of the receiver is posted to the main looper.
PostRegister(s) ==
    /\ At(starter, s, "post", "done")
    /\ registers' = registers + 1
    /\ UNCHANGED <<mManagement, mOpenVPNThread, mProcessThread, mDeviceStateReceiver, mStarting,
                   mProcessLock, stopped, starts, ending, managers, processes, status, wanted>>

StarterStep(s) ==
    \/ ConfigWritten(s) \/ ConfigFails(s) \/ StopOld(s) \/ ForceStop(s) \/ Slept(s) \/ OldExited(s)
    \/ OpenManagement(s) \/ OpenFails(s) \/ CreateThread(s) \/ RunThread(s) \/ PostRegister(s)

-----------------------------------------------------------------------------
(* endVpnService, on the thread of c.  By then the fields it clears may name *)
(* a later session that still needs them: that happens with "lateExit".     *)

Alive(s) == native[s] \in {"up", "connected"}

\* Sessions whose process nothing stops, and sessions whose exit is shown.
Staying == {s \in Sessions : Alive(s) /\ ~signalled[s] /\ ~interrupted[s]}
Current == {s \in Sessions : thread[s] # "ended" /\ ~replaced[s]}

EndClear(c) ==
    /\ mProcessLock = None
    /\ mProcessThread \in Staying => "lateExit" \in Events
    /\ At(ending, c, "clear", "teardown")
    /\ mProcessThread' = None
    /\ UNCHANGED <<mManagement, mOpenVPNThread, mDeviceStateReceiver, mStarting, mProcessLock,
                   registers, stopped, starts, starter, managers, processes, status, wanted>>

\* Listeners, receiver and runnable are dropped.
EndTeardown(c) ==
    /\ mOpenVPNThread \in Current => "lateExit" \in Events
    /\ At(ending, c, "teardown", "stop")
    /\ mDeviceStateReceiver' = None
    /\ mOpenVPNThread' = None
    /\ UNCHANGED <<mManagement, mProcessThread, mStarting, mProcessLock, registers, stopped,
                   starts, starter, managers, processes, status, wanted>>

\* The service stops itself unless a session is starting.
EndStop(c) ==
    /\ At(ending, c, "stop", "no")
    /\ stopped' = IF mStarting \/ stopped = "destroyed" THEN stopped ELSE "stopSelf"
    /\ UNCHANGED <<mManagement, mOpenVPNThread, mProcessThread, mDeviceStateReceiver, mStarting,
                   mProcessLock, registers, starts, starter, managers, processes, status, wanted>>

EndStep(c) == EndClear(c) \/ EndTeardown(c) \/ EndStop(c)

-----------------------------------------------------------------------------
(* The main looper. *)

MainIdle == ending[Main] = "no"

\* The posted runnable: the receiver of the current management interface.
RegisterReceiver ==
    /\ MainIdle
    /\ registers > 0
    /\ registers' = registers - 1
    /\ mDeviceStateReceiver' = mManagement
    /\ UNCHANGED <<mManagement, mOpenVPNThread, mProcessThread, mStarting, mProcessLock, stopped,
                   starts, starter, ending, managers, processes, status, wanted>>

\* DisconnectVPN and DisconnectVPNActivity: the user stops the connection.
UserStop ==
    /\ "userStop" \in Events
    /\ MainIdle
    /\ mManagement # None
    /\ stopped # "destroyed"
    /\ stopVPN
    /\ wanted' = "stop"
    /\ UNCHANGED <<fields, starts, starter, ending, processes, status>>

\* Another VPN application takes over from an established connection.
onRevoke ==
    /\ "revoke" \in Events
    /\ MainIdle
    /\ \E s \in Sessions : native[s] = "connected"
    /\ stopped # "destroyed"
    /\ stopVPN
    /\ EndBegins(Main)
    /\ UNCHANGED <<fields, starts, starter, processes, status, wanted>>

\* stopSelf() takes effect.  The receiver is unregistered, its field is kept.
onDestroy ==
    /\ MainIdle
    /\ stopped = "stopSelf"
    /\ mProcessLock = None
    /\ IF mProcessThread # None THEN stopVPN ELSE UNCHANGED managers
    /\ stopped' = "destroyed"
    /\ UNCHANGED <<mManagement, mOpenVPNThread, mProcessThread, mDeviceStateReceiver, mStarting,
                   mProcessLock, registers, starts, starter, ending, processes, status, wanted>>

-----------------------------------------------------------------------------
(* The management thread. *)

ManagerStarts(s) ==
    /\ At(manager, s, "new", "accept")
    /\ active' = Append(active, s)
    /\ UNCHANGED <<fields, starts, starter, ending, socket, mShuttingDown, signalled,
                   processes, status, wanted>>

\* accept() returns the connection of the process.
ManagerAccepts(s) ==
    /\ native[s] = "up"
    /\ At(manager, s, "accept", "read")
    /\ socket' = [socket EXCEPT ![s] = "open"]
    /\ native' = [native EXCEPT ![s] = "connected"]
    /\ UNCHANGED <<fields, starts, starter, ending, active, mShuttingDown, signalled,
                   thread, replaced, interrupted, status, wanted>>

\* A STATE message of the process is shown, unless the session shuts down.
ManagerState(s) ==
    /\ manager[s] = "read"
    /\ native[s] = "connected"
    /\ ~mShuttingDown[s]
    /\ status' = "CONNECTED"
    /\ UNCHANGED <<fields, starts, starter, ending, managers, processes, wanted>>

\* The read ends: with an IOException the thread leaves active, at the end of
\* the stream it returns without.
ManagerEnds(s) ==
    /\ socket[s] = "closed" \/ native[s] = "dead"
    /\ At(manager, s, "read", "gone")
    /\ \/ UNCHANGED active
       \/ \E i \in DOMAIN active : active[i] = s /\ active' = RemoveAt(active, i)
    /\ UNCHANGED <<fields, starts, starter, ending, socket, mShuttingDown, signalled,
                   processes, status, wanted>>

-----------------------------------------------------------------------------
(* The native process (external) and its OpenVPNThread. *)

\* The process obeys SIGINT.
NativeStops(s) ==
    /\ Alive(s)
    /\ signalled[s]
    /\ native' = [native EXCEPT ![s] = "dead"]
    /\ UNCHANGED <<fields, starts, starter, ending, managers, thread, replaced, interrupted, status, wanted>>

\* The process exits with an error.
NativeDies(s) ==
    /\ "failure" \in Events
    /\ Alive(s)
    /\ native' = [native EXCEPT ![s] = "dead"]
    /\ UNCHANGED <<fields, starts, starter, ending, managers, thread, replaced, interrupted, status, wanted>>

\* A line of output: only here does an interrupted thread notice the interrupt;
\* it destroys the process.
LogLine(s) ==
    /\ thread[s] = "run"
    /\ Alive(s)
    /\ interrupted[s]
    /\ native' = [native EXCEPT ![s] = "dead"]
    /\ interrupted' = [interrupted EXCEPT ![s] = FALSE]
    /\ UNCHANGED <<fields, starts, starter, ending, managers, thread, replaced, status, wanted>>

\* The output ends: NOPROCESS is shown unless the session is being replaced,
\* then processDied.
ProcessDied(s) ==
    /\ native[s] = "dead"
    /\ At(thread, s, "run", "ended")
    /\ status' = IF replaced[s] THEN status ELSE "NOPROCESS"
    /\ EndBegins(s)
    /\ UNCHANGED <<fields, starts, starter, managers, replaced, interrupted, native, wanted>>

SessionStep(s) ==
    \/ StarterStep(s) \/ EndStep(s) \/ ManagerStarts(s) \/ ManagerAccepts(s)
    \/ ManagerState(s) \/ ManagerEnds(s) \/ NativeStops(s) \/ NativeDies(s) \/ LogLine(s) \/ ProcessDied(s)

MainStep == RegisterReceiver \/ EndStep(Main) \/ UserStop \/ onRevoke \/ onDestroy

Next == onStartCommand \/ MainStep \/ \E s \in Sessions : SessionStep(s)

Spec == Init /\ [][Next]_vars

\* Threads run on, posted work is run, a signalled process exits, and a process
\* keeps printing.  Users and failures owe nothing.
Fairness ==
    /\ \A s \in Sessions : /\ WF_vars(StarterStep(s))
                           /\ WF_vars(ManagerStarts(s)) /\ WF_vars(ManagerAccepts(s))
                           /\ WF_vars(ManagerEnds(s)) /\ WF_vars(NativeStops(s))
                           /\ WF_vars(LogLine(s)) /\ WF_vars(ProcessDied(s))
    /\ \A c \in Callers : SF_vars(EndStep(c))
    /\ WF_vars(RegisterReceiver)
    /\ WF_vars(onDestroy)

FairSpec == Spec /\ Fairness

-----------------------------------------------------------------------------
TypeOK ==
    /\ {mManagement, mOpenVPNThread, mProcessThread, mDeviceStateReceiver, mProcessLock}
          \subseteq Sessions \cup {None}
    /\ mStarting \in BOOLEAN
    /\ starts \in 0..MaxSessions
    /\ starter \in [Sessions -> {"none", "config", "stopOld", "force", "slept", "started",
                                 "open", "launch", "run", "post", "done"}]
    /\ registers \in Nat
    /\ ending \in [Callers -> {"no", "clear", "teardown", "stop"}]
    /\ active \in Seq(Sessions)
    /\ manager \in [Sessions -> {"none", "new", "accept", "read", "gone"}]
    /\ socket \in [Sessions -> {"null", "open", "closed"}]
    /\ {mShuttingDown, replaced, interrupted, signalled} \subseteq [Sessions -> BOOLEAN]
    /\ thread \in [Sessions -> {"none", "run", "ended"}]
    /\ native \in [Sessions -> {"none", "up", "connected", "dead"}]
    /\ status \in {"NOPROCESS", "STARTING", "CONNECTED"}
    /\ stopped \in {"no", "stopSelf", "destroyed"}
    /\ wanted \in {"start", "stop"}

\* By the time a session runs its process, every earlier process is on its way
\* out: dead, signalled, or its thread is interrupted.  ("Stop the previous
\* session by interrupting the thread", stopOldOpenVPNProcess.)
OldSessionsStop ==
    \A s, t \in Sessions :
        (s < t /\ thread[t] # "none") => s \notin Staying

\* setReplaceConnection: the exit of a replaced session is not shown as
\* NOPROCESS once its successor runs.
ReplacedIsSilent ==
    [][\A s, t \in Sessions :
          (s < t /\ thread[t] = "run" /\ ProcessDied(s)) => status' = status]_vars


\* When the last process has died the service stops itself, whichever thread
\* the last teardown runs on and whatever mStarting was for the earlier ones.
ServiceStops ==
    (starts > 0 /\ Starting = {} /\ \A s \in Sessions : ~Alive(s)) ~>
        (stopped # "no" \/ Starting # {})

\* The exit of an old process leaves the session that replaced it alone (line
\* 374: "An old running VPN should now be exited").
OldExitSparesNew ==
    [][\A s \in Sessions : EndClear(s) => mProcessThread \in {None, s}]_vars

\* The user's stop ends the connection, also one that is still being set up:
\* "This Will End Your Connection" (cancel_connection_query, the question the
\* stop answers).
UserStopTakesEffect ==
    wanted = "stop" ~> (wanted = "start" \/ \A s \in Sessions : ~Alive(s))
=============================================================================
