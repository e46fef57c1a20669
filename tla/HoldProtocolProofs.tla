------------------------- MODULE HoldProtocolProofs -------------------------
(***************************************************************************)
(* Proofs about DeviceStateReceiver, and about HoldProtocol that extends   *)
(* it, for any networks, events and bounds on queues and timers.           *)
(*                                                                         *)
(* HoldOwedOnce is inductive together with the types, in the form OneOwner *)
(* that names the places one by one.  PendingIsCovered is not: it needs to *)
(* know that a release is never sent after the pause that covers a lost    *)
(* network (Covered), which in turn rests on OneOwner and on               *)
(* ReleaseHasNetwork, the state the main looper is in while it releases.   *)
(***************************************************************************)
EXTENDS HoldProtocol, TLAPS
-----------------------------------------------------------------------------
(* The receiver alone.  TypeOK is inductive as it stands, and says that call *)
(* is a function: a step of one thread leaves the other's call.              *)

\* What reading and writing one thread's call means.
LEMMA IssueType ==
    ASSUME call \in [Threads -> Calls], NEW t \in Threads, NEW c \in Calls, Issue(t, c)
    PROVE  /\ call' \in [Threads -> Calls]
           /\ call'[t] = c
           /\ \A u \in Threads : u # t => call'[u] = call[u]
BY DEF Issue

\* The pause reason is one of the three reasons, whatever the receiver's state.
LEMMA ReasonType ==
    ASSUME NEW s, NEW u, NEW n
    PROVE  getPauseReason(s, u, n) \in pauseReason
BY DEF getPauseReason, pauseReason

\* The calls the handlers make are calls of the management interface.
LEMMA CallType ==
    /\ NoCall \in Calls
    /\ \A op \in Ops : Call(op) \in Calls
    /\ \A reason \in pauseReason : PauseCall(reason) \in Calls
BY DEF NoCall, Call, PauseCall, Calls, Ops, pauseReason

LEMMA ScreenOnCallType == ScreenOnCall \in Calls
BY CallType, ReasonType DEF ScreenOnCall, Ops

-----------------------------------------------------------------------------
LEMMA InitType == Init => TypeOK
<1> SUFFICES ASSUME Init PROVE TypeOK
  OBVIOUS
<1>1. call \in [Threads -> Calls]
  BY CallType DEF Init
<1>2. timers \in 0..MaxTimers
  BY MaxTimersAssumption DEF Init
<1> QED BY <1>1, <1>2 DEF Init, TypeOK, connectState

\* Every step of the receiver keeps the variables in their types.
LEMMA StepType == TypeOK /\ [Next]_vars => TypeOK'
<1> SUFFICES ASSUME TypeOK, [Next]_vars PROVE TypeOK'
  OBVIOUS
<1> USE MaxTimersAssumption
<1>st. SHOULDBECONNECTED \in connectState /\ PENDINGDISCONNECT \in connectState
         /\ DISCONNECTED \in connectState
  BY DEF connectState
<1>th. "main" \in Threads /\ "mgmt" \in Threads
  BY DEF Threads
<1>1. CASE UserPause
  <2>1. PauseCall(getPauseReason(screen, DISCONNECTED, network)) \in Calls
    BY CallType, ReasonType
  <2>2. call' \in [Threads -> Calls]
    BY <1>1, <2>1, <1>th, IssueType DEF UserPause, TypeOK
  <2> QED BY <1>1, <2>2 DEF UserPause, TypeOK
<1>2. CASE UserResume
  <2> DEFINE c == IF Connected(screen, SHOULDBECONNECTED, network) /\ ~shouldBeConnected
                  THEN Call("resume")
                  ELSE PauseCall(getPauseReason(screen, SHOULDBECONNECTED, network))
  <2>1. c \in Calls
    BY CallType, ReasonType DEF Ops
  <2>2. Issue("main", c)
    BY <1>2 DEF UserResume
  <2> HIDE DEF c
  <2>3. call' \in [Threads -> Calls]
    BY <2>1, <2>2, <1>th, IssueType DEF TypeOK
  <2> QED BY <1>2, <2>3 DEF UserResume, TypeOK
<1>3. CASE ScreenOff
  BY <1>3, <1>st DEF ScreenOff, TypeOK
<1>4. CASE ScreenOn
  <2>1. call' \in [Threads -> Calls]
    BY <1>4, <1>th, ScreenOnCallType, IssueType DEF ScreenOn, TypeOK
  <2> QED BY <1>4, <1>st, <2>1 DEF ScreenOn, TypeOK
<1>5. ASSUME NEW n \in Nets, SameNetworkBack(n) PROVE TypeOK'
  <2>1. call' \in [Threads -> Calls]
    BY <1>5, <1>th, CallType, IssueType DEF SameNetworkBack, TypeOK, Ops
  <2> QED BY <1>5, <1>st, <2>1 DEF SameNetworkBack, TypeOK
<1>6. ASSUME NEW n \in Nets, OtherNetwork(n) PROVE TypeOK'
  <2> DEFINE c == Call(IF lastConnectedNetwork # n THEN "networkChange" ELSE "resume")
  <2>1. c \in Calls
    BY CallType DEF Ops
  <2>2. (timers' = 0 /\ Issue("main", c)) \/ UNCHANGED <<timers, call>>
    BY <1>6 DEF OtherNetwork
  <2> HIDE DEF c
  <2>3. call' \in [Threads -> Calls] /\ timers' \in 0..MaxTimers
    BY <2>1, <2>2, <1>th, IssueType DEF TypeOK
  <2> QED BY <1>6, <1>st, <2>3 DEF OtherNetwork, TypeOK
<1>7. CASE NetworkLost
  BY <1>7, <1>st DEF NetworkLost, TypeOK
<1>8. CASE DelayDisconnect
  <2> DEFINE c == PauseCall(getPauseReason(screen', userpause, DISCONNECTED))
  <2>1. c \in Calls
    BY CallType, ReasonType
  <2>2. Issue("main", c) \/ UNCHANGED call
    BY <1>8 DEF DelayDisconnect
  <2> HIDE DEF c
  <2>3. call' \in [Threads -> Calls]
    BY <2>1, <2>2, <1>th, IssueType DEF TypeOK
  <2> QED BY <1>8, <1>st, <2>3 DEF DelayDisconnect, TypeOK
<1>9. CASE ByteCountTest
  BY <1>9 DEF ByteCountTest, TypeOK
<1>10. ASSUME NEW low \in BOOLEAN, ByteCountDecide(low) PROVE TypeOK'
  <2> DEFINE c == PauseCall(getPauseReason(DISCONNECTED, userpause, network))
  <2>1. c \in Calls
    BY CallType, ReasonType
  <2>2. Issue("mgmt", c) \/ UNCHANGED call
    BY <1>10 DEF ByteCountDecide
  <2> HIDE DEF c
  <2>3. call' \in [Threads -> Calls]
    BY <2>1, <2>2, <1>th, IssueType DEF TypeOK
  <2> QED BY <1>10, <1>st, <2>3 DEF ByteCountDecide, TypeOK
<1>11. ASSUME NEW t \in Threads, Return(t) PROVE TypeOK'
  <2>1. call' \in [Threads -> Calls]
    BY <1>11, CallType, IssueType DEF Return, TypeOK
  <2> QED BY <1>11, <2>1 DEF Return, TypeOK, receiverVars
<1>12. CASE UNCHANGED vars
  BY <1>12 DEF vars, receiverVars, TypeOK
<1> QED
  BY <1>1, <1>2, <1>3, <1>4, <1>5, <1>6, <1>7, <1>8, <1>9, <1>10, <1>11, <1>12
     DEF Next, ReceiverEvent, NetworkEvent, ScreenEvent, UserEvent, ByteCountEvent

\* The receiver's state stays in its type, with at most MaxTimers posted
\* runnables and a call that is one the management interface has.
THEOREM TypeCorrect == Spec => []TypeOK
BY InitType, StepType, PTL DEF Spec

-----------------------------------------------------------------------------
\* A step that does not change the three connectState fields does not change
\* what the VPN should be.
LEMMA ConnectedStable ==
    UNCHANGED <<network, screen, userpause>> => shouldBeConnected' = shouldBeConnected
BY DEF shouldBeConnected, Connected

\* One step of WakeupIssued.  Only four handlers can make the VPN wanted again.
LEMMA WakeupStep ==
    TypeOK /\ [Next]_vars =>
        ((~shouldBeConnected /\ shouldBeConnected') =>
            call'["main"].op \in {"resume", "networkChange", "sameNetwork"})
<1> SUFFICES ASSUME TypeOK, [Next]_vars, ~shouldBeConnected, shouldBeConnected'
             PROVE  call'["main"].op \in {"resume", "networkChange", "sameNetwork"}
  OBVIOUS
<1> USE DEF SHOULDBECONNECTED, PENDINGDISCONNECT, DISCONNECTED
<1>th. "main" \in Threads /\ call \in [Threads -> Calls]
  BY DEF Threads, TypeOK
<1>1. CASE UserPause
  BY <1>1 DEF UserPause, shouldBeConnected, Connected
<1>2. CASE UserResume
  <2>1. Connected(screen, SHOULDBECONNECTED, network)
    BY <1>2 DEF UserResume, shouldBeConnected
  <2> QED BY <1>2, <1>th, <2>1 DEF UserResume, Issue, Call
<1>3. CASE ScreenOff
  BY <1>3 DEF ScreenOff, shouldBeConnected, Connected
<1>4. CASE ScreenOn
  <2>1. Connected(SHOULDBECONNECTED, userpause, network)
    BY <1>4 DEF ScreenOn, shouldBeConnected
  <2>2. ScreenOnCall = Call("resume")
    BY <2>1 DEF ScreenOnCall
  <2> QED BY <1>4, <1>th, <2>2 DEF ScreenOn, Issue, Call
<1>5. ASSUME NEW n \in Nets, SameNetworkBack(n)
      PROVE  call'["main"].op \in {"resume", "networkChange", "sameNetwork"}
  BY <1>5, <1>th DEF SameNetworkBack, Issue, Call
<1>6. ASSUME NEW n \in Nets, OtherNetwork(n)
      PROVE  call'["main"].op \in {"resume", "networkChange", "sameNetwork"}
  <2>1. Connected(screen', userpause, SHOULDBECONNECTED)
    BY <1>6 DEF OtherNetwork, shouldBeConnected, Connected
  <2> QED BY <1>6, <1>th, <2>1 DEF OtherNetwork, Issue, Call
<1>7. CASE NetworkLost
  BY <1>7 DEF NetworkLost, shouldBeConnected, Connected
<1>8. CASE DelayDisconnect
  BY <1>8 DEF DelayDisconnect, shouldBeConnected, Connected
<1>9. CASE ByteCountTest
  BY <1>9, ConnectedStable DEF ByteCountTest
<1>10. ASSUME NEW low \in BOOLEAN, ByteCountDecide(low) PROVE FALSE
  BY <1>10 DEF ByteCountDecide, shouldBeConnected, Connected
<1>11. ASSUME NEW t \in Threads, Return(t) PROVE FALSE
  BY <1>11, ConnectedStable DEF Return, receiverVars
<1>12. CASE UNCHANGED vars
  BY <1>12, ConnectedStable DEF vars, receiverVars
<1> QED
  BY <1>1, <1>2, <1>3, <1>4, <1>5, <1>6, <1>7, <1>8, <1>9, <1>10, <1>11, <1>12
     DEF Next, ReceiverEvent, NetworkEvent, ScreenEvent, UserEvent, ByteCountEvent

\* Whichever handler makes the VPN wanted again (userPause, onReceive or
\* networkStateChange) is the one that calls resume or networkChange.
THEOREM WakeupIsIssued == Spec => WakeupIssued
<1>1. Spec => []TypeOK
  BY TypeCorrect
<1>2. TypeOK /\ [Next]_vars =>
        [(~shouldBeConnected /\ shouldBeConnected') =>
            call'["main"].op \in {"resume", "networkChange", "sameNetwork"}]_vars
  BY WakeupStep
<1> QED BY <1>1, <1>2, PTL DEF Spec, WakeupIssued

-----------------------------------------------------------------------------
\* One step of ResumeOnlyWhenWanted.
LEMMA ResumeStep ==
    TypeOK /\ [Next]_vars =>
        ((Idle("main") /\ call'["main"].op = "resume") => shouldBeConnected')
<1> SUFFICES ASSUME TypeOK, [Next]_vars, Idle("main"), call'["main"].op = "resume"
             PROVE  shouldBeConnected'
  OBVIOUS
<1> USE DEF SHOULDBECONNECTED, PENDINGDISCONNECT, DISCONNECTED
<1>th. "main" \in Threads /\ "mgmt" \in Threads /\ call \in [Threads -> Calls]
  BY DEF Threads, TypeOK
<1>idle. call["main"].op = "none" /\ NoCall.op = "none"
  BY DEF Idle, NoCall, Call
<1>1. CASE UserPause
  BY <1>1, <1>th DEF UserPause, Issue, PauseCall
<1>2. CASE UserResume
  <2>1. Connected(screen, SHOULDBECONNECTED, network)
    BY <1>2, <1>th DEF UserResume, Issue, PauseCall
  <2> QED BY <1>2, <2>1 DEF UserResume, shouldBeConnected, Connected
<1>3. CASE ScreenOff
  BY <1>3, <1>idle DEF ScreenOff
<1>4. CASE ScreenOn
  <2>1. ScreenOnCall.op = "resume"
    BY <1>4, <1>th DEF ScreenOn, Issue
  <2>2. Connected(SHOULDBECONNECTED, userpause, network) # shouldBeConnected
    BY <2>1, <1>idle DEF ScreenOnCall, PauseCall
  <2>3. Connected(SHOULDBECONNECTED, userpause, network)
    BY <2>2 DEF shouldBeConnected, Connected
  <2> QED BY <1>4, <2>3 DEF ScreenOn, shouldBeConnected, Connected
<1>5. ASSUME NEW n \in Nets, SameNetworkBack(n) PROVE FALSE
  BY <1>5, <1>th DEF SameNetworkBack, Issue, Call
<1>6. ASSUME NEW n \in Nets, OtherNetwork(n) PROVE shouldBeConnected'
  <2>1. Connected(screen', userpause, SHOULDBECONNECTED)
    BY <1>6, <1>idle DEF OtherNetwork
  <2> QED BY <1>6, <2>1 DEF OtherNetwork, shouldBeConnected, Connected
<1>7. CASE NetworkLost
  BY <1>7, <1>idle DEF NetworkLost
<1>8. CASE DelayDisconnect
  BY <1>8, <1>th, <1>idle DEF DelayDisconnect, Issue, PauseCall
<1>9. CASE ByteCountTest
  BY <1>9, <1>idle DEF ByteCountTest
<1>10. ASSUME NEW low \in BOOLEAN, ByteCountDecide(low) PROVE FALSE
  <2>1. call'["main"] = call["main"]
    BY <1>10, <1>th DEF ByteCountDecide, Issue
  <2> QED BY <2>1, <1>idle
<1>11. ASSUME NEW t \in Threads, Return(t) PROVE FALSE
  <2>1. call'["main"] \in {call["main"], NoCall}
    BY <1>11, <1>th DEF Return, Issue
  <2> QED BY <2>1, <1>idle
<1>12. CASE UNCHANGED vars
  BY <1>12, <1>idle DEF vars
<1> QED
  BY <1>1, <1>2, <1>3, <1>4, <1>5, <1>6, <1>7, <1>8, <1>9, <1>10, <1>11, <1>12
     DEF Next, ReceiverEvent, NetworkEvent, ScreenEvent, UserEvent, ByteCountEvent

\* A handler that calls resume() leaves the VPN wanted.
THEOREM ResumeIsWanted == Spec => ResumeOnlyWhenWanted
<1>1. Spec => []TypeOK
  BY TypeCorrect
<1>2. TypeOK /\ [Next]_vars =>
        [(Idle("main") /\ call'["main"].op = "resume") => shouldBeConnected']_vars
  BY ResumeStep
<1> QED BY <1>1, <1>2, PTL DEF Spec, ResumeOnlyWhenWanted

-----------------------------------------------------------------------------
(* Parts of the invariants of the composed system. *)

Has(queue, x) == \E i \in DOMAIN queue : queue[i] = x
Once(queue, x) == \A i, j \in DOMAIN queue : queue[i] = x /\ queue[j] = x => i = j

\* No flag of either thread or of the process answers for the hold.
NoFlag == process = "hold" /\ handlingHold = "no" /\ ~mWaitingForRelease /\ ~releasing

\* HoldOwedOnce, place by place.
OneOwner ==
    /\ Once(toMgmt, "HOLD")
    /\ Once(toProcess, "release")
    /\ resumePosted \in {0, 1}
    /\ process = "run" => handlingHold = "no" /\ ~mWaitingForRelease /\ ~releasing
    /\ handlingHold # "no" => ~mWaitingForRelease /\ ~releasing
    /\ Has(toMgmt, "HOLD") => NoFlag
    /\ Has(toProcess, "release") => NoFlag /\ ~Has(toMgmt, "HOLD")
    /\ resumePosted = 1 => NoFlag /\ ~Has(toMgmt, "HOLD") /\ ~Has(toProcess, "release")

\* The calls that release a held process.
Releases == {"resume", "networkChange", "sameNetwork", "resumeHold"}

\* The main looper releases only with a network, and loses none meanwhile.
ReleaseHasNetwork ==
    /\ call["main"].op \in Releases => network = SHOULDBECONNECTED
    /\ releasing => call["main"].op \in Releases

\* SIGUSR1 is unread and no release follows it.
PauseIsLast ==
    \E i \in DOMAIN toProcess :
        /\ toProcess[i] = "SIGUSR1"
        /\ \A j \in DOMAIN toProcess : j > i => toProcess[j] # "release"

\* PendingIsCovered, and it stays so when the process has read everything.
Covered ==
    (network = PENDINGDISCONNECT /\ timers = 0) =>
        \/ process = "hold" /\ ~Has(toProcess, "release")
        \/ call["main"].op = "pause"
        \/ PauseIsLast

IInv == HoldTypeOK /\ OneOwner /\ ReleaseHasNetwork /\ Covered

-----------------------------------------------------------------------------
(* Queues: what sending and receiving do to Has and Once. *)

\* Sending adds one element at the end.
LEMMA SendOther ==
    ASSUME NEW S, NEW q \in Seq(S), NEW y \in S, NEW x, x # y
    PROVE  /\ Append(q, y) \in Seq(S)
           /\ Has(Append(q, y), x) <=> Has(q, x)
           /\ Once(Append(q, y), x) <=> Once(q, x)
BY DEF Has, Once

LEMMA SendFirst ==
    ASSUME NEW S, NEW q \in Seq(S), NEW x \in S, ~Has(q, x)
    PROVE  Append(q, x) \in Seq(S) /\ Has(Append(q, x), x) /\ Once(Append(q, x), x)
<1>1. Append(q, x) \in Seq(S) /\ Len(Append(q, x)) = Len(q) + 1
  OBVIOUS
<1>2. \A i \in DOMAIN Append(q, x) : Append(q, x)[i] = x => i = Len(q) + 1
  BY DEF Has
<1>3. Append(q, x)[Len(q) + 1] = x /\ Len(q) + 1 \in DOMAIN Append(q, x)
  BY <1>1
<1> QED BY <1>1, <1>2, <1>3 DEF Has, Once

\* Receiving takes the first element away and renumbers the rest.
LEMMA ReceiveAny ==
    ASSUME NEW S, NEW q \in Seq(S), q # <<>>, NEW x
    PROVE  /\ Tail(q) \in Seq(S)
           /\ Head(q) \in S
           /\ Has(Tail(q), x) => Has(q, x)
           /\ Once(q, x) => Once(Tail(q), x)
           /\ Head(q) # x => (Has(Tail(q), x) <=> Has(q, x))
<1>1. Tail(q) \in Seq(S) /\ Len(Tail(q)) = Len(q) - 1 /\ Len(q) \in Nat \ {0} /\ Head(q) = q[1]
  OBVIOUS
<1>2. \A i \in DOMAIN Tail(q) : i + 1 \in DOMAIN q /\ Tail(q)[i] = q[i + 1]
  BY <1>1
<1>3. Has(Tail(q), x) => Has(q, x)
  BY <1>2 DEF Has
<1>4. ASSUME Once(q, x) PROVE Once(Tail(q), x)
  <2> SUFFICES ASSUME NEW i \in DOMAIN Tail(q), NEW j \in DOMAIN Tail(q),
                      Tail(q)[i] = x, Tail(q)[j] = x
               PROVE  i = j
    BY DEF Once
  <2>1. i + 1 = j + 1
    BY <1>2, <1>4 DEF Once
  <2>2. i \in Nat /\ j \in Nat
    BY <1>1
  <2> QED BY <2>1, <2>2
<1>5. ASSUME Head(q) # x, Has(q, x) PROVE Has(Tail(q), x)
  <2>1. PICK i \in DOMAIN q : q[i] = x
    BY <1>5 DEF Has
  <2>2. i # 1 /\ i - 1 \in DOMAIN Tail(q) /\ i = (i - 1) + 1
    BY <1>1, <1>5, <2>1
  <2> QED BY <1>2, <2>1, <2>2 DEF Has
<1> QED BY <1>1, <1>3, <1>4, <1>5

LEMMA ReceiveThat ==
    ASSUME NEW S, NEW q \in Seq(S), q # <<>>, Once(q, Head(q))
    PROVE  Has(q, Head(q)) /\ ~Has(Tail(q), Head(q))
<1>1. Tail(q) \in Seq(S) /\ Len(Tail(q)) = Len(q) - 1 /\ Len(q) \in Nat \ {0}
        /\ Head(q) = q[1] /\ 1 \in DOMAIN q
  OBVIOUS
<1>2. \A i \in DOMAIN Tail(q) : i + 1 \in DOMAIN q /\ Tail(q)[i] = q[i + 1] /\ i + 1 # 1
  BY <1>1
<1> QED BY <1>1, <1>2 DEF Has, Once

\* What a restart sends.
LEMMA SendRestart ==
    ASSUME NEW q \in Seq(Messages), ~Has(q, "HOLD"), NEW r, r = q \o <<"STATE", "HOLD">>
    PROVE  r \in Seq(Messages) /\ Has(r, "HOLD") /\ Once(r, "HOLD")
<1>1. r = Append(Append(q, "STATE"), "HOLD")
  OBVIOUS
<1>2. Append(q, "STATE") \in Seq(Messages) /\ ~Has(Append(q, "STATE"), "HOLD")
  BY SendOther DEF Messages
<1> QED BY <1>1, <1>2, SendFirst DEF Messages
-----------------------------------------------------------------------------
(* Types. *)

LEMMA HoldInitType == HoldInit => HoldTypeOK
<1> SUFFICES ASSUME HoldInit PROVE HoldTypeOK
  OBVIOUS
<1>1. TypeOK
  BY InitType DEF HoldInit
<1>2. toProcess \in Seq(Commands) /\ toMgmt \in Seq(Messages)
  BY DEF HoldInit, Messages
<1> QED BY <1>1, <1>2 DEF HoldInit, HoldTypeOK, pauseReason, Statuses

\* A thread of the connection makes or ends a call; the receiver rests.
LEMMA CallStepType ==
    ASSUME TypeOK, NEW t \in Threads, NEW c \in Calls, Issue(t, c), UNCHANGED receiverVars
    PROVE  TypeOK'
BY IssueType DEF TypeOK, receiverVars

LEMMA SendType ==
    ASSUME toProcess \in Seq(Commands), NEW cmd \in Commands, managmentCommand(cmd)
    PROVE  toProcess' \in Seq(Commands)
BY DEF managmentCommand

LEMMA ReceiveType ==
    ASSUME toMgmt \in Seq(Messages), NEW msg, Receive(msg)
    PROVE  toMgmt' \in Seq(Messages)
BY ReceiveAny DEF Receive

LEMMA RestartType ==
    ASSUME toMgmt \in Seq(Messages), Restarts
    PROVE  toMgmt' \in Seq(Messages) /\ process' = "hold"
<1>1. <<"STATE", "HOLD">> \in Seq(Messages)
  BY DEF Messages
<1> QED BY <1>1 DEF Restarts

\* Every step keeps the variables in their types.
LEMMA HoldStepType == HoldTypeOK /\ [HoldNext]_holdVars => HoldTypeOK'
<1> SUFFICES ASSUME HoldTypeOK, [HoldNext]_holdVars PROVE HoldTypeOK'
  OBVIOUS
<1> USE DEF HoldTypeOK
<1>th. "main" \in Threads /\ "mgmt" \in Threads
  BY DEF Threads
<1>rest. vars' = vars => TypeOK'
  BY StepType
<1>re. (ReceiverEvent /\ UNCHANGED <<mgmtVars, processVars>>) => HoldTypeOK'
  BY StepType DEF Next, mgmtVars, processVars
<1>1. CASE RegisterReceiver
  BY <1>1, <1>rest DEF RegisterReceiver, processVars
<1>2. CASE DeviceEvent
  BY <1>2, <1>re DEF DeviceEvent, ReceiverEvent, NetworkEvent, ScreenEvent, UserEvent
<1>3. CASE DisconnectTimer
  BY <1>3, <1>re DEF DisconnectTimer, ReceiverEvent, NetworkEvent
<1>4. ASSUME NEW t \in Threads, Pause(t) PROVE HoldTypeOK'
  <2>1. TypeOK'
    BY <1>4, CallType, CallStepType DEF Pause
  <2>2. call[t].reason \in pauseReason
    BY DEF TypeOK, Calls
  <2>3. toProcess' \in Seq(Commands)
    BY <1>4, SendType DEF Pause, Commands
  <2> QED BY <1>4, <2>1, <2>2, <2>3 DEF Pause, Statuses
<1>5. CASE Resume
  <2>1. CASE ReleaseBegins
    BY <2>1, <1>rest DEF ReleaseBegins, processVars
  <2>2. CASE ~ReleaseBegins
    <3>1. TypeOK'
      BY <1>5, <2>2, <1>th, CallType, CallStepType DEF Resume
    <3> QED BY <1>5, <2>2, <3>1 DEF Resume, processVars, pauseReason
  <2> QED BY <2>1, <2>2
<1>6. CASE NetworkChange
  <2>1. CASE ReleaseBegins
    BY <2>1, <1>rest DEF ReleaseBegins, processVars
  <2>2. CASE ~ReleaseBegins
    <3>1. TypeOK'
      BY <1>6, <2>2, <1>th, CallType, CallStepType DEF NetworkChange
    <3>2. toProcess' \in Seq(Commands)
      BY <1>6, <2>2, SendType DEF NetworkChange, Commands
    <3> QED BY <1>6, <2>2, <3>1, <3>2 DEF NetworkChange, mgmtVars
  <2> QED BY <2>1, <2>2
<1>7. CASE ResumeHold
  <2>1. Call("resumeHold") \in Calls
    BY CallType DEF Ops
  <2>2. TypeOK'
    BY <1>7, <2>1, <1>th, <1>rest, CallStepType DEF ResumeHold, vars
  <2>3. resumePosted' \in Nat
    BY <1>7 DEF ResumeHold
  <2>4. releasing' \in BOOLEAN
    BY <1>7 DEF ResumeHold
  <2> QED BY <1>7, <2>2, <2>3, <2>4 DEF ResumeHold, processVars
<1>8. CASE ReleaseHoldCmd
  <2>1. TypeOK'
    BY <1>8, <1>th, CallType, CallStepType DEF ReleaseHoldCmd
  <2>2. toProcess' \in Seq(Commands)
    BY <1>8, SendType DEF ReleaseHoldCmd, Commands
  <2> QED BY <1>8, <2>1, <2>2 DEF ReleaseHoldCmd, pauseReason
<1>9. CASE HandleHold
  BY <1>9, <1>rest, ReceiveType DEF HandleHold, Statuses
<1>10. CASE HoldBranch
  <2>1. resumePosted' \in Nat
    BY <1>10 DEF HoldBranch
  <2>2. mWaitingForRelease' \in BOOLEAN /\ status' \in Statuses
    BY <1>10 DEF HoldBranch, Statuses
  <2> QED BY <1>10, <1>rest, <2>1, <2>2 DEF HoldBranch, processVars
<1>11. CASE HandleState
  BY <1>11, <1>rest, ReceiveType DEF HandleState, Statuses
<1>12. CASE HandleByteCount
  <2>1. TypeOK'
    BY <1>12, <1>rest, StepType DEF HandleByteCount, Next, ReceiverEvent, ByteCountEvent
  <2> QED BY <1>12, <2>1, ReceiveType DEF HandleByteCount, mgmtVars
<1>13. CASE ByteCountEnds
  BY <1>13, <1>re DEF ByteCountEnds, ReceiverEvent, ByteCountEvent
<1>14. CASE ProcessCommand
  <2>1. toProcess' \in Seq(Commands)
    BY <1>14, ReceiveAny DEF ProcessCommand
  <2>2. Append(toMgmt, "HOLD") \in Seq(Messages) /\ Append(toMgmt, "STATE") \in Seq(Messages)
    BY DEF Messages
  <2>3. toMgmt' \in Seq(Messages) /\ process' \in {"hold", "run"}
    BY <1>14, <2>2, RestartType DEF ProcessCommand
  <2>4. TypeOK' /\ UNCHANGED mgmtVars
    BY <1>14, <1>rest DEF ProcessCommand
  <2> QED BY <2>1, <2>3, <2>4 DEF mgmtVars
<1>15. CASE ProcessRestart
  BY <1>15, <1>rest, RestartType DEF ProcessRestart, mgmtVars
<1>16. CASE ProcessTraffic
  <2>1. Append(toMgmt, "BYTECOUNT") \in Seq(Messages)
    BY DEF Messages
  <2> QED BY <1>16, <2>1, <1>rest DEF ProcessTraffic, mgmtVars
<1>17. CASE UNCHANGED holdVars
  <2>1. UNCHANGED vars /\ UNCHANGED mgmtVars /\ UNCHANGED processVars
    BY <1>17 DEF holdVars
  <2> QED BY <2>1, <1>rest DEF mgmtVars, processVars
<1> QED
  BY <1>1, <1>2, <1>3, <1>4, <1>5, <1>6, <1>7, <1>8, <1>9, <1>10, <1>11, <1>12, <1>13,
     <1>14, <1>15, <1>16, <1>17, <1>th DEF HoldNext, MainStep, MgmtStep

\* The two queues hold only commands and messages of the protocol, and the
\* flags of both threads stay in their types.
THEOREM HoldTypeCorrect == HoldSpec => []HoldTypeOK
BY HoldInitType, HoldStepType, PTL DEF HoldSpec

-----------------------------------------------------------------------------
(* The receiver inside the protocol. *)

\* Every step of the protocol is for the receiver one of its own, one that it
\* does not notice, or mResumeHoldRunnable entering the management interface.
LEMMA HoldStepOfReceiver ==
    HoldTypeOK /\ [HoldNext]_holdVars =>
        \/ [Next]_vars
        \/ Idle("main") /\ Issue("main", Call("resumeHold")) /\ UNCHANGED receiverVars
<1> SUFFICES ASSUME HoldTypeOK, [HoldNext]_holdVars, ~[Next]_vars
             PROVE  Idle("main") /\ Issue("main", Call("resumeHold")) /\ UNCHANGED receiverVars
  OBVIOUS
<1>th. "main" \in Threads /\ "mgmt" \in Threads /\ NoCall.op = "none"
  BY DEF Threads, NoCall, Call
<1>no. ~ReceiverEvent /\ (\A t \in Threads : ~Return(t)) /\ ~UNCHANGED vars
  BY DEF Next
<1>1. ASSUME NEW t \in Threads, Pause(t) PROVE FALSE
  <2>1. ~Idle(t)
    BY <1>1, <1>th DEF Pause, Idle
  <2> QED BY <1>1, <1>no, <2>1 DEF Pause, Return
<1>2. CASE Resume
  BY <1>2, <1>no, <1>th DEF Resume, Return, ReleaseBegins, Idle
<1>3. CASE NetworkChange
  BY <1>3, <1>no, <1>th DEF NetworkChange, Return, ReleaseBegins, Idle
<1>4. CASE ResumeHold
  BY <1>4, <1>no DEF ResumeHold, vars
<1>5. CASE ReleaseHoldCmd
  <2>1. Issue("main", NoCall) /\ UNCHANGED receiverVars
    BY <1>5 DEF ReleaseHoldCmd
  <2>2. CASE Idle("main")
    BY <2>1, <2>2, <1>no DEF Issue, Idle, vars, HoldTypeOK, TypeOK
  <2>3. CASE ~Idle("main")
    BY <2>1, <2>3, <1>no, <1>th DEF Return
  <2> QED BY <2>2, <2>3
<1>6. CASE ByteCountEnds \/ DisconnectTimer \/ DeviceEvent \/ HandleByteCount
  BY <1>6, <1>no DEF ByteCountEnds, DisconnectTimer, DeviceEvent, HandleByteCount,
     ReceiverEvent, NetworkEvent, ScreenEvent, UserEvent, ByteCountEvent
<1>7. CASE \/ RegisterReceiver \/ HandleHold \/ HoldBranch \/ HandleState
           \/ ProcessCommand \/ ProcessRestart \/ ProcessTraffic \/ UNCHANGED holdVars
  BY <1>7, <1>no DEF RegisterReceiver, HandleHold, HoldBranch, HandleState,
     ProcessCommand, ProcessRestart, ProcessTraffic, holdVars
<1> QED
  BY <1>1, <1>2, <1>3, <1>4, <1>5, <1>6, <1>7, <1>th DEF HoldNext, MainStep, MgmtStep

\* mResumeHoldRunnable neither changes what the VPN should be nor calls resume().
LEMMA ResumeHoldOfReceiver ==
    HoldTypeOK /\ Issue("main", Call("resumeHold")) /\ UNCHANGED receiverVars =>
        /\ shouldBeConnected' = shouldBeConnected
        /\ call'["main"].op # "resume"
<1> SUFFICES ASSUME HoldTypeOK, Issue("main", Call("resumeHold")), UNCHANGED receiverVars
             PROVE  shouldBeConnected' = shouldBeConnected /\ call'["main"].op # "resume"
  OBVIOUS
<1>1. shouldBeConnected' = shouldBeConnected
  BY ConnectedStable DEF receiverVars
<1>2. call'["main"] = Call("resumeHold")
  BY DEF Issue, HoldTypeOK, TypeOK, Threads
<1> QED BY <1>1, <1>2 DEF Call

\* The same with the management thread, the process and the socket: a broadcast or
\* a user request that makes the VPN wanted again enters the management interface.
THEOREM HoldWakeupIsIssued == HoldSpec => WakeupIssued
<1>1. HoldTypeOK /\ [HoldNext]_holdVars =>
        [(~shouldBeConnected /\ shouldBeConnected') =>
            call'["main"].op \in {"resume", "networkChange", "sameNetwork"}]_vars
  BY HoldStepOfReceiver, ResumeHoldOfReceiver, WakeupStep DEF HoldTypeOK
<1> QED BY <1>1, HoldTypeCorrect, PTL DEF HoldSpec, WakeupIssued

\* And resume() enters it only with the VPN wanted, however the handler's step is
\* interleaved with the management thread and the process.
THEOREM HoldResumeIsWanted == HoldSpec => ResumeOnlyWhenWanted
<1>1. HoldTypeOK /\ [HoldNext]_holdVars =>
        [(Idle("main") /\ call'["main"].op = "resume") => shouldBeConnected']_vars
  BY HoldStepOfReceiver, ResumeHoldOfReceiver, ResumeStep DEF HoldTypeOK
<1> QED BY <1>1, HoldTypeCorrect, PTL DEF HoldSpec, ResumeOnlyWhenWanted

-----------------------------------------------------------------------------
(* The hold is owed to one place. *)

LEMMA OneOwnerInit == HoldInit => OneOwner
<1> SUFFICES ASSUME HoldInit PROVE OneOwner
  OBVIOUS
<1>1. ~Has(toProcess, "release") /\ Once(toProcess, "release")
  BY DEF HoldInit, Has, Once
<1>2. Once(toMgmt, "HOLD")
  BY DEF HoldInit, Once
<1> QED BY <1>1, <1>2 DEF HoldInit, OneOwner, NoFlag

\* A command other than a release changes nothing about releases.
LEMMA SendOtherCommand ==
    ASSUME toProcess \in Seq(Commands), NEW cmd \in Commands \ {"release"},
           managmentCommand(cmd)
    PROVE  /\ Has(toProcess', "release") <=> Has(toProcess, "release")
           /\ Once(toProcess', "release") <=> Once(toProcess, "release")
BY SendOther DEF managmentCommand

\* Without a place changing hands, OneOwner stays; a posted runnable may go.
LEMMA OneOwnerStable ==
    ASSUME HoldTypeOK, OneOwner,
           UNCHANGED <<mWaitingForRelease, handlingHold, releasing, process, toMgmt>>,
           resumePosted' \in {0, resumePosted},
           Has(toProcess', "release") <=> Has(toProcess, "release"),
           Once(toProcess', "release") <=> Once(toProcess, "release")
    PROVE  OneOwner'
BY DEF OneOwner, NoFlag

\* Every step hands the hold from one place to the next.
LEMMA OneOwnerStep ==
    HoldIgnoresUsr1 /\ HoldTypeOK /\ OneOwner /\ [HoldNext]_holdVars => OneOwner'
<1> SUFFICES ASSUME HoldIgnoresUsr1, HoldTypeOK, OneOwner, [HoldNext]_holdVars PROVE OneOwner'
  OBVIOUS
<1>ty. /\ toProcess \in Seq(Commands) /\ toMgmt \in Seq(Messages)
       /\ mWaitingForRelease \in BOOLEAN /\ releasing \in BOOLEAN
       /\ process \in {"hold", "run"} /\ resumePosted \in {0, 1}
  BY DEF HoldTypeOK, OneOwner
<1>1. CASE RegisterReceiver
  BY <1>1, OneOwnerStable DEF RegisterReceiver, processVars
<1>2. CASE UNCHANGED <<mgmtVars, processVars>>
  BY <1>2, OneOwnerStable DEF mgmtVars, processVars
<1>3. ASSUME NEW t \in Threads, Pause(t) PROVE OneOwner'
  <2>1. Has(toProcess', "release") <=> Has(toProcess, "release")
    BY <1>3, <1>ty, SendOtherCommand DEF Pause, Commands
  <2>2. Once(toProcess', "release") <=> Once(toProcess, "release")
    BY <1>3, <1>ty, SendOtherCommand DEF Pause, Commands
  <2> QED BY <1>3, <2>1, <2>2, OneOwnerStable DEF Pause
<1>4. CASE mWaitingForRelease /\ ReleaseBegins
  BY <1>4, <1>ty DEF ReleaseBegins, OneOwner, NoFlag, processVars
<1>5. CASE Resume /\ ~mWaitingForRelease
  BY <1>5, OneOwnerStable DEF Resume, processVars
<1>6. CASE NetworkChange /\ ~mWaitingForRelease
  <2>1. /\ Has(toProcess', "release") <=> Has(toProcess, "release")
        /\ Once(toProcess', "release") <=> Once(toProcess, "release")
    BY <1>6, <1>ty, SendOtherCommand DEF NetworkChange, Commands
  <2> QED BY <1>6, <2>1, OneOwnerStable DEF NetworkChange, mgmtVars
<1>7. CASE ResumeHold
  <2>1. resumePosted = 1
    BY <1>7, <1>ty DEF ResumeHold
  <2>2. NoFlag /\ ~Has(toMgmt, "HOLD") /\ ~Has(toProcess, "release")
    BY <2>1 DEF OneOwner
  <2>3. resumePosted' = 0
    BY <1>7, <2>1 DEF ResumeHold
  <2> QED BY <1>7, <2>2, <2>3 DEF ResumeHold, OneOwner, NoFlag, processVars
<1>8. CASE ReleaseHoldCmd
  <2>1. /\ ~Has(toMgmt, "HOLD") /\ ~Has(toProcess, "release") /\ resumePosted # 1
        /\ process = "hold" /\ handlingHold = "no"
    BY <1>8, <1>ty DEF ReleaseHoldCmd, OneOwner, NoFlag
  <2>2. Once(toProcess', "release")
    BY <1>8, <1>ty, <2>1, SendFirst DEF ReleaseHoldCmd, managmentCommand, Commands
  <2> QED BY <1>8, <1>ty, <2>1, <2>2 DEF ReleaseHoldCmd, OneOwner, NoFlag
<1>9. CASE HandleHold
  <2>1. toMgmt # <<>> /\ Head(toMgmt) = "HOLD" /\ toMgmt' = Tail(toMgmt)
    BY <1>9 DEF HandleHold, Receive
  <2>2. Has(toMgmt, "HOLD") /\ ~Has(toMgmt', "HOLD")
    BY <2>1, <1>ty, ReceiveThat DEF OneOwner
  <2>3. Once(toMgmt', "HOLD")
    BY <2>1, <1>ty, ReceiveAny DEF OneOwner
  <2>4. NoFlag /\ ~Has(toProcess, "release") /\ resumePosted # 1
    BY <2>2 DEF OneOwner
  <2> QED BY <1>9, <2>2, <2>3, <2>4 DEF HandleHold, OneOwner, NoFlag
<1>10. CASE HoldBranch
  <2>1. /\ ~Has(toMgmt, "HOLD") /\ ~Has(toProcess, "release") /\ resumePosted = 0
        /\ process = "hold" /\ ~mWaitingForRelease /\ ~releasing
    BY <1>10, <1>ty DEF HoldBranch, OneOwner, NoFlag
  <2> QED BY <1>10, <2>1 DEF HoldBranch, OneOwner, NoFlag, processVars
<1>11. ASSUME NEW msg \in {"STATE", "BYTECOUNT"}, Receive(msg),
              UNCHANGED <<mWaitingForRelease, resumePosted, handlingHold, releasing,
                          process, toProcess>>
       PROVE  OneOwner'
  <2>1. toMgmt # <<>> /\ Head(toMgmt) # "HOLD" /\ toMgmt' = Tail(toMgmt)
    BY <1>11 DEF Receive
  <2>2. Has(toMgmt', "HOLD") <=> Has(toMgmt, "HOLD")
    BY <2>1, <1>ty, ReceiveAny
  <2>3. Once(toMgmt', "HOLD")
    BY <2>1, <1>ty, ReceiveAny DEF OneOwner
  <2> QED BY <1>11, <2>2, <2>3 DEF OneOwner, NoFlag
<1>12. ASSUME process = "run", Restarts, UNCHANGED mgmtVars,
              Has(toProcess', "release") => Has(toProcess, "release"),
              Once(toProcess', "release")
       PROVE  OneOwner'
  <2>1. ~Has(toMgmt, "HOLD") /\ ~Has(toProcess, "release") /\ resumePosted # 1
    BY <1>12 DEF OneOwner, NoFlag
  <2>2. Once(toMgmt', "HOLD")
    BY <1>12, <1>ty, <2>1, SendRestart DEF Restarts
  <2> QED BY <1>12, <2>1, <2>2 DEF Restarts, OneOwner, NoFlag, mgmtVars
<1>13. CASE ProcessCommand
  <2>1. toProcess # <<>> /\ toProcess' = Tail(toProcess) /\ UNCHANGED mgmtVars
    BY <1>13 DEF ProcessCommand
  <2>2. /\ Has(toProcess', "release") => Has(toProcess, "release")
        /\ Once(toProcess', "release")
        /\ Head(toProcess) # "release" =>
              (Has(toProcess', "release") <=> Has(toProcess, "release"))
    BY <2>1, <1>ty, ReceiveAny DEF OneOwner
  <2>3. CASE process = "run" /\ Restarts
    BY <2>3, <2>1, <2>2, <1>12
  <2>4. CASE UNCHANGED <<process, toMgmt>>
    BY <2>4, <2>1, <2>2 DEF OneOwner, NoFlag, mgmtVars
  <2>5. CASE /\ Head(toProcess) = "release" /\ process' = "run"
             /\ toMgmt' = Append(toMgmt, "STATE")
    <3>1. Has(toProcess, "release") /\ ~Has(toProcess', "release")
      BY <2>1, <2>5, <1>ty, ReceiveThat DEF OneOwner
    <3>2. NoFlag /\ ~Has(toMgmt, "HOLD") /\ resumePosted # 1
      BY <3>1 DEF OneOwner
    <3>3. ~Has(toMgmt', "HOLD") /\ Once(toMgmt', "HOLD")
      BY <2>5, <3>2, <1>ty, SendOther DEF OneOwner, Messages
    <3> QED BY <2>1, <2>2, <2>5, <3>1, <3>2, <3>3 DEF OneOwner, NoFlag, mgmtVars
  <2> QED BY <1>13, <2>3, <2>4, <2>5 DEF ProcessCommand
<1>14. CASE ProcessRestart
  BY <1>14, <1>12 DEF ProcessRestart, OneOwner
<1>15. CASE ProcessTraffic
  <2>1. /\ Has(toMgmt', "HOLD") <=> Has(toMgmt, "HOLD")
        /\ Once(toMgmt', "HOLD") <=> Once(toMgmt, "HOLD")
    BY <1>15, <1>ty, SendOther DEF ProcessTraffic, Messages
  <2> QED BY <1>15, <2>1 DEF ProcessTraffic, OneOwner, NoFlag, mgmtVars
<1>16. CASE HandleState
  BY <1>16, <1>11 DEF HandleState
<1>17. CASE HandleByteCount
  BY <1>17, <1>11 DEF HandleByteCount, mgmtVars
<1>18. Resume \/ NetworkChange => (mWaitingForRelease /\ ReleaseBegins) \/ OneOwner'
  BY <1>5, <1>6 DEF Resume, NetworkChange
<1>19. DeviceEvent \/ DisconnectTimer \/ ByteCountEnds \/ UNCHANGED holdVars
          => UNCHANGED <<mgmtVars, processVars>>
  BY DEF DeviceEvent, DisconnectTimer, ByteCountEnds, holdVars
<1>th. "main" \in Threads /\ "mgmt" \in Threads
  BY DEF Threads
<1> QED
  BY <1>1, <1>2, <1>3, <1>4, <1>7, <1>8, <1>9, <1>10, <1>13, <1>14, <1>15, <1>16, <1>17,
     <1>18, <1>19, <1>th DEF HoldNext, MainStep, MgmtStep

\* OneOwner is what HoldOwedOnce says: the places are the elements of HoldOwners.
LEMMA OneOwnerIsOwedOnce == HoldTypeOK /\ OneOwner => HoldOwedOnce
<1> SUFFICES ASSUME HoldTypeOK, OneOwner, NEW o \in HoldOwners, NEW p \in HoldOwners
             PROVE  o = p
  BY DEF HoldOwedOnce
<1> DEFINE F == {f \in {"process", "handleHold", "waiting", "releasing"} : Owns(f)}
           M == Unread(toMgmt, "HOLD")
           R == 1..resumePosted
           C == Unread(toProcess, "release")
<1>1. \A f, g \in F : f = g
  BY DEF OneOwner, Owns
<1>2. /\ \A i, j \in M : i = j
      /\ \A i, j \in C : i = j
  BY DEF OneOwner, Once, Unread
<1>3. \A i, j \in R : i = j
  BY DEF OneOwner
<1>4. (M # {} <=> Has(toMgmt, "HOLD")) /\ (C # {} <=> Has(toProcess, "release"))
  BY DEF Unread, Has
<1>5. R # {} => resumePosted = 1
  BY DEF OneOwner
<1>6. F # {} => ~NoFlag
  BY DEF Owns, NoFlag
<1>7. /\ F # {} => M = {} /\ R = {} /\ C = {}
      /\ M # {} => R = {} /\ C = {}
      /\ R # {} => C = {}
  BY <1>4, <1>5, <1>6 DEF OneOwner
<1>8. HoldOwners = (F \X {1}) \cup ({"message"} \X M) \cup ({"posted"} \X R)
                     \cup ({"command"} \X C)
  BY DEF HoldOwners
<1> HIDE DEF F, M, R, C
<1> QED BY <1>1, <1>2, <1>3, <1>7, <1>8

\* The answer to a hold is owed to one place, so a second "hold release" is
\* never sent: the flags mWaitingForRelease, mResumeHoldRunnable and the
\* process agree without a lock, if the process ignores SIGUSR1 in hold.
THEOREM HoldIsOwedOnce == HoldIgnoresUsr1 => (HoldSpec => []HoldOwedOnce)
<1> SUFFICES ASSUME HoldIgnoresUsr1 PROVE HoldSpec => []HoldOwedOnce
  OBVIOUS
<1>1. HoldInit => HoldTypeOK /\ OneOwner
  BY HoldInitType, OneOwnerInit
<1>2. (HoldTypeOK /\ OneOwner) /\ [HoldNext]_holdVars => (HoldTypeOK /\ OneOwner)'
  BY HoldStepType, OneOwnerStep
<1>3. HoldTypeOK /\ OneOwner => HoldOwedOnce
  BY OneOwnerIsOwedOnce
<1> QED BY <1>1, <1>2, <1>3, PTL DEF HoldSpec
-----------------------------------------------------------------------------
(* A lost network is covered. *)

\* The main looper releases only with a network, and keeps it until it is done.
LEMMA ReleaseHasNetworkStep ==
    HoldTypeOK /\ ReleaseHasNetwork /\ [HoldNext]_holdVars => ReleaseHasNetwork'
<1> SUFFICES ASSUME HoldTypeOK, ReleaseHasNetwork, [HoldNext]_holdVars PROVE ReleaseHasNetwork'
  OBVIOUS
<1> USE DEF ReleaseHasNetwork
<1>th. "main" \in Threads /\ "mgmt" \in Threads /\ call \in [Threads -> Calls]
  BY DEF Threads, HoldTypeOK, TypeOK
<1>no. NoCall.op \notin Releases /\ \A r : PauseCall(r).op \notin Releases
  BY DEF NoCall, Call, PauseCall, Releases
<1>idle. Idle("main") => ~releasing /\ call["main"].op \notin Releases
  BY <1>no DEF Idle
<1>1. CASE UNCHANGED <<network, call, releasing>>
  BY <1>1
<1>2. CASE UNCHANGED <<network, releasing>> /\ \E c \in Calls : Issue("mgmt", c)
  <2>1. call'["main"] = call["main"]
    BY <1>2, <1>th DEF Issue, Threads
  <2> QED BY <1>2, <2>1
<1>3. CASE Idle("main") /\ UNCHANGED <<call, releasing>>
  BY <1>3, <1>idle
<1>4. CASE /\ Idle("main") /\ UNCHANGED releasing
           /\ \E c : Issue("main", c) /\ (c.op \in Releases => network' = SHOULDBECONNECTED)
  BY <1>4, <1>idle, <1>th DEF Issue
<1>5. ASSUME DeviceEvent PROVE ReleaseHasNetwork'
  <2>0. UNCHANGED releasing
    BY <1>5 DEF DeviceEvent, mgmtVars
  <2>1. CASE UserPause
    BY <2>0, <2>1, <1>4, <1>no DEF UserPause
  <2>2. CASE UserResume
    <3>1. Connected(screen, SHOULDBECONNECTED, network) => network = SHOULDBECONNECTED
      BY DEF Connected
    <3> QED BY <2>0, <2>2, <3>1, <1>4, <1>no DEF UserResume
  <2>3. CASE ScreenOff
    BY <2>0, <2>3, <1>3 DEF ScreenOff
  <2>4. CASE ScreenOn
    <3>1. ScreenOnCall.op \in Releases => network = SHOULDBECONNECTED
      BY <1>no DEF ScreenOnCall, Connected, shouldBeConnected
    <3> QED BY <2>0, <2>4, <3>1, <1>4 DEF ScreenOn
  <2>5. ASSUME NEW n \in Nets, SameNetworkBack(n) \/ OtherNetwork(n) PROVE ReleaseHasNetwork'
    BY <2>0, <2>5, <1>3, <1>4 DEF SameNetworkBack, OtherNetwork
  <2>6. CASE NetworkLost
    BY <2>0, <2>6, <1>3 DEF NetworkLost
  <2> QED BY <1>5, <2>1, <2>2, <2>3, <2>4, <2>5, <2>6 DEF DeviceEvent, ScreenEvent, UserEvent
<1>6. CASE DisconnectTimer
  <2>1. UNCHANGED releasing
    BY <1>6 DEF DisconnectTimer, mgmtVars
  <2> QED BY <1>6, <2>1, <1>3, <1>4, <1>no DEF DisconnectTimer, DelayDisconnect
<1>7. CASE Pause("main")
  <2>1. call["main"].op = "pause" /\ call'["main"] = NoCall /\ UNCHANGED releasing
    BY <1>7, <1>th DEF Pause, Issue
  <2> QED BY <2>1, <1>no DEF Releases
<1>8. CASE Pause("mgmt")
  BY <1>8, <1>2, CallType DEF Pause, receiverVars
<1>9. CASE mWaitingForRelease /\ ReleaseBegins /\ call["main"].op \in Releases
  BY <1>9 DEF ReleaseBegins, vars, receiverVars
<1>10. CASE Issue("main", NoCall) /\ ~releasing'
  BY <1>10, <1>th, <1>no DEF Issue
<1>11. CASE Resume \/ NetworkChange
  BY <1>11, <1>9, <1>10 DEF Resume, NetworkChange, Releases, mgmtVars
<1>12. CASE ResumeHold
  <2>1. CASE shouldBeRunning
    <3>1. network' = SHOULDBECONNECTED /\ call'["main"].op = "resumeHold"
      BY <1>12, <2>1, <1>th
         DEF ResumeHold, shouldBeRunning, shouldBeConnected, Connected, receiverVars, Issue, Call
    <3> QED BY <3>1 DEF Releases
  <2>2. CASE ~shouldBeRunning
    BY <1>12, <2>2, <1>1 DEF ResumeHold, receiverVars
  <2> QED BY <2>1, <2>2
<1>13. CASE ReleaseHoldCmd
  BY <1>13, <1>10 DEF ReleaseHoldCmd
<1>14. CASE RegisterReceiver
  BY <1>14, <1>1 DEF RegisterReceiver, vars, receiverVars
<1>15. CASE HandleHold
  BY <1>15, <1>1 DEF HandleHold, vars, receiverVars
<1>16. CASE HoldBranch
  BY <1>16, <1>1 DEF HoldBranch, vars, receiverVars
<1>17. CASE HandleState
  BY <1>17, <1>1 DEF HandleState, vars, receiverVars
<1>18. CASE HandleByteCount
  BY <1>18, <1>1 DEF HandleByteCount, ByteCountTest, vars, receiverVars, mgmtVars
<1>19. CASE ByteCountEnds
  <2>1. \A r \in pauseReason : PauseCall(r) \in Calls
    BY CallType
  <2> QED BY <1>19, <2>1, <1>1, <1>2, ReasonType DEF ByteCountEnds, ByteCountDecide, mgmtVars
<1>20. CASE ProcessCommand \/ ProcessRestart \/ ProcessTraffic
  BY <1>20, <1>1 DEF ProcessCommand, ProcessRestart, ProcessTraffic, vars, receiverVars, mgmtVars
<1>21. CASE UNCHANGED holdVars
  BY <1>21, <1>1 DEF holdVars, vars, receiverVars, mgmtVars
<1> QED
  BY <1>5, <1>6, <1>7, <1>8, <1>11, <1>12, <1>13, <1>14, <1>15, <1>16, <1>17, <1>18, <1>19,
     <1>20, <1>21 DEF HoldNext, MainStep, MgmtStep
\* A pause that is sent is the last command; other sends keep it so.
LEMMA PauseIsLastSend ==
    ASSUME toProcess \in Seq(Commands), NEW cmd \in Commands \ {"release"},
           managmentCommand(cmd)
    PROVE  (PauseIsLast \/ cmd = "SIGUSR1") => PauseIsLast'
<1>1. /\ Len(toProcess') = Len(toProcess) + 1 /\ DOMAIN toProcess' = 1..(Len(toProcess) + 1)
      /\ DOMAIN toProcess = 1..Len(toProcess) /\ Len(toProcess) \in Nat
      /\ toProcess'[Len(toProcess) + 1] = cmd
      /\ \A i \in DOMAIN toProcess : toProcess'[i] = toProcess[i]
  BY DEF managmentCommand
<1>2. ASSUME cmd = "SIGUSR1" PROVE PauseIsLast'
  BY <1>1, <1>2 DEF PauseIsLast
<1>3. ASSUME PauseIsLast PROVE PauseIsLast'
  <2>1. PICK i \in DOMAIN toProcess :
            /\ toProcess[i] = "SIGUSR1"
            /\ \A j \in DOMAIN toProcess : j > i => toProcess[j] # "release"
    BY <1>3 DEF PauseIsLast
  <2>2. i \in DOMAIN toProcess' /\ toProcess'[i] = "SIGUSR1"
    BY <1>1, <2>1
  <2>3. \A j \in DOMAIN toProcess' : j > i => toProcess'[j] # "release"
    BY <1>1, <2>1
  <2> QED BY <2>2, <2>3 DEF PauseIsLast
<1> QED BY <1>2, <1>3

\* The process reads one command: the pause is that command, or still unread.
LEMMA PauseIsLastReceive ==
    ASSUME toProcess \in Seq(Commands), toProcess # <<>>, toProcess' = Tail(toProcess),
           PauseIsLast
    PROVE  PauseIsLast' \/ (Head(toProcess) = "SIGUSR1" /\ ~Has(toProcess', "release"))
<1>1. /\ DOMAIN toProcess = 1..Len(toProcess) /\ Len(toProcess) \in Nat \ {0}
      /\ DOMAIN toProcess' = 1..(Len(toProcess) - 1)
      /\ Head(toProcess) = toProcess[1]
      /\ \A i \in DOMAIN toProcess' : toProcess'[i] = toProcess[i + 1]
  OBVIOUS
<1>2. PICK i \in DOMAIN toProcess :
          /\ toProcess[i] = "SIGUSR1"
          /\ \A j \in DOMAIN toProcess : j > i => toProcess[j] # "release"
  BY DEF PauseIsLast
<1>3. CASE i = 1
  <2>1. \A j \in DOMAIN toProcess' : toProcess'[j] # "release"
    BY <1>1, <1>2, <1>3
  <2> QED BY <1>1, <1>2, <1>3, <2>1 DEF Has
<1>4. CASE i # 1
  <2>1. i - 1 \in DOMAIN toProcess' /\ toProcess'[i - 1] = "SIGUSR1"
    BY <1>1, <1>2, <1>4
  <2>2. \A j \in DOMAIN toProcess' : j > i - 1 => toProcess'[j] # "release"
    BY <1>1, <1>2
  <2> QED BY <2>1, <2>2 DEF PauseIsLast
<1> QED BY <1>3, <1>4

\* Every step keeps a lost network covered.
LEMMA CoveredStep == HoldIgnoresUsr1 /\ IInv /\ [HoldNext]_holdVars => Covered'
<1> SUFFICES ASSUME HoldIgnoresUsr1, IInv, [HoldNext]_holdVars PROVE Covered'
  OBVIOUS
<1>ty. /\ toProcess \in Seq(Commands) /\ process \in {"hold", "run"}
       /\ call \in [Threads -> Calls] /\ "main" \in Threads /\ "mgmt" \in Threads
       /\ timers \in Nat /\ mWaitingForRelease \in BOOLEAN
  BY MaxTimersAssumption DEF IInv, HoldTypeOK, TypeOK, Threads
<1>net. SHOULDBECONNECTED # PENDINGDISCONNECT /\ DISCONNECTED # PENDINGDISCONNECT
  BY DEF SHOULDBECONNECTED, PENDINGDISCONNECT, DISCONNECTED
<1>old. Covered /\ ReleaseHasNetwork
  BY DEF IInv
<1>idle. Idle("main") => call["main"].op # "pause"
  BY DEF Idle, NoCall, Call
\* Nothing that covers the network changes.
<1>1. CASE UNCHANGED <<network, timers, call, process, toProcess>>
  BY <1>1, <1>old DEF Covered, Has, PauseIsLast
\* The network is there, or is declared lost for good.
<1>2. CASE network' \in {SHOULDBECONNECTED, DISCONNECTED}
  BY <1>2, <1>net DEF Covered
\* A handler that leaves network and timers alone while no pause was pending.
<1>3. CASE Idle("main") /\ UNCHANGED <<network, timers, process, toProcess>>
  BY <1>3, <1>old, <1>idle DEF Covered, Has, PauseIsLast
<1>4. CASE DeviceEvent
  <2>0. UNCHANGED <<process, toProcess>>
    BY <1>4 DEF DeviceEvent, processVars
  <2>1. CASE UserPause \/ UserResume \/ ScreenOff
    BY <2>0, <2>1, <1>3 DEF UserPause, UserResume, ScreenOff
  <2>2. CASE ScreenOn
    <3>1. ASSUME network = PENDINGDISCONNECT PROVE call'["main"].op = "pause"
      <4>1. shouldBeConnected = FALSE /\ Connected(SHOULDBECONNECTED, userpause, network) = FALSE
        BY <3>1, <1>net DEF shouldBeConnected, Connected
      <4>2. ScreenOnCall = PauseCall(getPauseReason(SHOULDBECONNECTED, userpause, network))
        BY <4>1 DEF ScreenOnCall
      <4>3. ScreenOnCall.op = "pause"
        BY <4>2 DEF PauseCall
      <4> QED BY <2>2, <4>3, <1>ty DEF ScreenOn, Issue
    <3> QED BY <2>2, <3>1 DEF ScreenOn, Covered
  <2>3. ASSUME NEW n \in Nets, SameNetworkBack(n) \/ OtherNetwork(n) PROVE Covered'
    BY <2>3, <1>2 DEF SameNetworkBack, OtherNetwork
  <2>4. CASE NetworkLost
    BY <2>4, <1>ty DEF NetworkLost, Covered
  <2> QED BY <1>4, <2>1, <2>2, <2>3, <2>4 DEF DeviceEvent, ScreenEvent, UserEvent
<1>5. CASE DisconnectTimer
  <2>1. network' # PENDINGDISCONNECT
    BY <1>5, <1>net DEF DisconnectTimer, DelayDisconnect
  <2> QED BY <2>1 DEF Covered
<1>6. CASE Pause("main")
  <2>1. UNCHANGED <<network, timers, process>>
    BY <1>6 DEF Pause, receiverVars
  <2>2. CASE mWaitingForRelease
    <3>1. process = "hold" /\ ~Has(toProcess, "release")
      BY <2>2, <1>ty DEF IInv, OneOwner, NoFlag
    <3> QED BY <1>6, <2>1, <2>2, <3>1 DEF Pause, Covered, Has
  <2>3. CASE ~mWaitingForRelease
    <3>1. PauseIsLast'
      BY <1>6, <2>3, <1>ty, PauseIsLastSend DEF Pause, Commands
    <3> QED BY <3>1 DEF Covered
  <2> QED BY <2>2, <2>3
\* Another command than a release is sent, and the main looper's call stays.
<1>7. ASSUME NEW cmd \in Commands \ {"release"}, managmentCommand(cmd),
             UNCHANGED <<network, timers, process>>, call'["main"] = call["main"]
      PROVE  Covered'
  <2>1. PauseIsLast => PauseIsLast'
    BY <1>7, <1>ty, PauseIsLastSend
  <2>2. Has(toProcess', "release") <=> Has(toProcess, "release")
    BY <1>7, <1>ty, SendOtherCommand
  <2> QED BY <1>7, <2>1, <2>2, <1>old DEF Covered
<1>8. CASE Pause("mgmt")
  <2>1. call'["main"] = call["main"] /\ UNCHANGED <<network, timers, process>>
    BY <1>8, <1>ty DEF Pause, Issue, receiverVars, Threads
  <2>2. CASE mWaitingForRelease
    BY <1>8, <2>1, <2>2, <1>old DEF Pause, Covered, Has, PauseIsLast
  <2> QED BY <1>8, <2>1, <2>2, <1>7 DEF Pause, Commands
<1>9. CASE call["main"].op \in Releases /\ UNCHANGED network
  BY <1>9, <1>old, <1>2 DEF ReleaseHasNetwork
<1>10. CASE Resume \/ NetworkChange
  BY <1>10, <1>9 DEF Resume, NetworkChange, ReleaseBegins, Releases, vars, receiverVars
<1>11. CASE ResumeHold
  BY <1>11, <1>3 DEF ResumeHold, receiverVars, processVars
<1>12. CASE ReleaseHoldCmd
  BY <1>12, <1>9, <1>old DEF ReleaseHoldCmd, ReleaseHasNetwork, receiverVars
<1>13. CASE RegisterReceiver \/ HandleHold \/ HoldBranch \/ HandleState \/ ProcessTraffic
  BY <1>13, <1>1 DEF RegisterReceiver, HandleHold, HoldBranch, HandleState, ProcessTraffic,
                     vars, receiverVars, processVars
<1>14. CASE HandleByteCount
  BY <1>14, <1>1 DEF HandleByteCount, ByteCountTest, vars, receiverVars
<1>15. CASE ByteCountEnds
  <2>1. UNCHANGED <<network, timers, process, toProcess>>
    BY <1>15 DEF ByteCountEnds, ByteCountDecide, processVars
  <2>2. call'["main"] = call["main"]
    BY <1>15, <1>ty DEF ByteCountEnds, ByteCountDecide, Issue, Threads
  <2> QED BY <2>1, <2>2, <1>old DEF Covered, Has, PauseIsLast
<1>16. CASE ProcessCommand
  <2>1. /\ toProcess # <<>> /\ toProcess' = Tail(toProcess)
        /\ UNCHANGED <<network, timers, call>>
    BY <1>16 DEF ProcessCommand, vars, receiverVars
  <2>2. Has(toProcess', "release") => Has(toProcess, "release")
    BY <2>1, <1>ty, ReceiveAny
  <2>3. Head(toProcess) = "release" => Has(toProcess, "release")
    BY <2>1, <1>ty, ReceiveThat DEF IInv, OneOwner
  <2>4. process' = "hold" \/ process' = process \/ Head(toProcess) = "release"
    BY <1>16 DEF ProcessCommand, Restarts
  <2>5. Head(toProcess) = "SIGUSR1" => process' = "hold"
    BY <1>16, <1>ty DEF ProcessCommand, Restarts
  <2>6. PauseIsLast => PauseIsLast' \/ (process' = "hold" /\ ~Has(toProcess', "release"))
    BY <2>1, <2>5, <1>ty, PauseIsLastReceive
  <2> QED BY <2>1, <2>2, <2>3, <2>4, <2>6, <1>old DEF Covered
<1>17. CASE ProcessRestart
  <2>1. UNCHANGED <<network, timers, call, toProcess>> /\ process' = "hold" /\ process = "run"
    BY <1>17 DEF ProcessRestart, Restarts, vars, receiverVars
  <2> QED BY <2>1, <1>old DEF Covered, Has, PauseIsLast
<1>18. CASE UNCHANGED holdVars
  BY <1>18, <1>1 DEF holdVars, vars, receiverVars, processVars
<1> QED
  BY <1>4, <1>5, <1>6, <1>8, <1>10, <1>11, <1>12, <1>13, <1>14, <1>15, <1>16, <1>17, <1>18
     DEF HoldNext, MainStep, MgmtStep

\* A lost network whose disconnect timer was removed (onReceive, screen on) has
\* been paused: the process is held or SIGUSR1 is on its way.
THEOREM PendingCovered == HoldIgnoresUsr1 => (HoldSpec => []PendingIsCovered)
<1> SUFFICES ASSUME HoldIgnoresUsr1 PROVE HoldSpec => []PendingIsCovered
  OBVIOUS
<1>1. HoldInit => IInv
  <2> SUFFICES ASSUME HoldInit PROVE IInv
    OBVIOUS
  <2>1. network = DISCONNECTED /\ call = [t \in Threads |-> NoCall] /\ ~releasing
    BY DEF HoldInit, Init
  <2>2. ReleaseHasNetwork
    BY <2>1 DEF ReleaseHasNetwork, Threads, NoCall, Call, Releases
  <2>3. Covered
    BY <2>1 DEF Covered, DISCONNECTED, PENDINGDISCONNECT
  <2> QED BY <2>2, <2>3, HoldInitType, OneOwnerInit DEF IInv
<1>2. IInv /\ [HoldNext]_holdVars => IInv'
  BY HoldStepType, OneOwnerStep, ReleaseHasNetworkStep, CoveredStep DEF IInv
<1>3. IInv => PendingIsCovered
  BY DEF IInv, Covered, PendingIsCovered, PauseIsLast
<1> QED BY <1>1, <1>2, <1>3, PTL DEF HoldSpec
-----------------------------------------------------------------------------
(* No release while the VPN should be paused, if no network is lost for less  *)
(* than DISCONNECT_WAIT and byte counts do not race with the main looper.     *)

Quiet == "lost" \notin Events /\ "traffic" \notin Events

\* While the main looper is in a call that releases, the VPN is wanted.
ReleaseIsWanted ==
    /\ network # PENDINGDISCONNECT
    /\ ~testing
    /\ ~Has(toMgmt, "BYTECOUNT")
    /\ call["main"].op \in Releases => shouldBeRunning

LEMMA ReleaseIsWantedStep ==
    Quiet /\ HoldTypeOK /\ ReleaseIsWanted /\ [HoldNext]_holdVars => ReleaseIsWanted'
<1> SUFFICES ASSUME Quiet, HoldTypeOK, ReleaseIsWanted, [HoldNext]_holdVars
             PROVE  ReleaseIsWanted'
  OBVIOUS
<1>ty. /\ call \in [Threads -> Calls] /\ "main" \in Threads /\ "mgmt" \in Threads
       /\ toMgmt \in Seq(Messages)
  BY DEF HoldTypeOK, TypeOK, Threads
<1>old. /\ network # PENDINGDISCONNECT /\ ~testing /\ ~Has(toMgmt, "BYTECOUNT")
        /\ call["main"].op \in Releases => shouldBeRunning
  BY DEF ReleaseIsWanted
<1>net. SHOULDBECONNECTED # PENDINGDISCONNECT /\ DISCONNECTED # PENDINGDISCONNECT
  BY DEF SHOULDBECONNECTED, PENDINGDISCONNECT, DISCONNECTED
<1>no. /\ NoCall.op \notin Releases /\ \A r : PauseCall(r).op \notin Releases
       /\ Idle("main") => call["main"].op \notin Releases
  BY DEF NoCall, Call, PauseCall, Releases, Idle
\* The receiver and the main looper's call rest.
<1>1. ASSUME UNCHANGED <<receiverVars, mPauseCallback>>, call'["main"] = call["main"],
             ~Has(toMgmt', "BYTECOUNT")
      PROVE  ReleaseIsWanted'
  BY <1>1, <1>old DEF ReleaseIsWanted, receiverVars, shouldBeRunning, shouldBeConnected
\* The main looper's call ends, or starts as one that releases nothing.
<1>2. ASSUME network' # PENDINGDISCONNECT, UNCHANGED <<testing, toMgmt>>,
             call'["main"].op \notin Releases
      PROVE  ReleaseIsWanted'
  BY <1>2, <1>old DEF ReleaseIsWanted
\* It starts as one that releases, with the VPN wanted.
<1>3. ASSUME network' # PENDINGDISCONNECT, UNCHANGED <<testing, toMgmt>>, shouldBeRunning'
      PROVE  ReleaseIsWanted'
  BY <1>3, <1>old DEF ReleaseIsWanted
<1>4. CASE DeviceEvent
  <2>0. UNCHANGED toMgmt /\ mPauseCallback /\ mPauseCallback'
    BY <1>4 DEF DeviceEvent, processVars, mgmtVars
  <2>1. CASE UserPause
    BY <2>0, <2>1, <1>2, <1>ty, <1>old, <1>no DEF UserPause, Issue
  <2>2. CASE UserResume
    <3>1. CASE Connected(screen, SHOULDBECONNECTED, network)
      <4>1. shouldBeConnected'
        BY <2>2, <3>1 DEF UserResume, Connected, shouldBeConnected
      <4> QED BY <2>0, <2>2, <4>1, <1>3, <1>old DEF UserResume, shouldBeRunning
    <3>2. CASE ~Connected(screen, SHOULDBECONNECTED, network)
      BY <2>0, <2>2, <3>2, <1>2, <1>ty, <1>old, <1>no DEF UserResume, Issue
    <3> QED BY <3>1, <3>2
  <2>3. CASE ScreenOff
    BY <2>0, <2>3, <1>2, <1>old, <1>no DEF ScreenOff
  <2>4. CASE ScreenOn
    <3>1. CASE Connected(SHOULDBECONNECTED, userpause, network)
      <4>1. shouldBeConnected'
        BY <2>4, <3>1 DEF ScreenOn, Connected, shouldBeConnected
      <4> QED BY <2>0, <2>4, <4>1, <1>3, <1>old DEF ScreenOn, shouldBeRunning
    <3>2. CASE ~Connected(SHOULDBECONNECTED, userpause, network)
      <4>1. shouldBeConnected = FALSE /\ Connected(SHOULDBECONNECTED, userpause, network) = FALSE
        BY <3>2 DEF shouldBeConnected, Connected
      <4>2. ScreenOnCall = PauseCall(getPauseReason(SHOULDBECONNECTED, userpause, network))
        BY <4>1 DEF ScreenOnCall
      <4> QED BY <2>0, <2>4, <4>2, <1>2, <1>ty, <1>old, <1>no DEF ScreenOn, Issue
    <3> QED BY <3>1, <3>2
  <2>5. ASSUME NEW n \in Nets, SameNetworkBack(n) PROVE FALSE
    BY <2>5, <1>old DEF SameNetworkBack
  <2>6. ASSUME NEW n \in Nets, OtherNetwork(n) PROVE ReleaseIsWanted'
    <3>1. CASE Connected(screen', userpause, SHOULDBECONNECTED)
      <4>1. shouldBeConnected'
        BY <2>6, <3>1 DEF OtherNetwork, shouldBeConnected, Connected
      <4> QED BY <2>0, <2>6, <4>1, <1>3, <1>net DEF OtherNetwork, shouldBeRunning
    <3>2. CASE ~Connected(screen', userpause, SHOULDBECONNECTED)
      BY <2>0, <2>6, <3>2, <1>2, <1>net, <1>no DEF OtherNetwork
    <3> QED BY <3>1, <3>2
  <2> QED BY <1>4, <2>1, <2>2, <2>3, <2>4, <2>5, <2>6
        DEF DeviceEvent, ScreenEvent, UserEvent, Quiet
<1>5. CASE DisconnectTimer
  BY <1>5, <1>2, <1>old, <1>no DEF DisconnectTimer, DelayDisconnect, processVars
<1>6. ASSUME NEW t \in Threads, Pause(t) PROVE ReleaseIsWanted'
  <2>1. call'["main"] \in {call["main"], NoCall}
    BY <1>6, <1>ty DEF Pause, Issue
  <2> QED BY <1>6, <2>1, <1>1, <1>2, <1>old, <1>no DEF Pause, receiverVars
<1>7. CASE Resume \/ NetworkChange
  <2>1. CASE ReleaseBegins
    BY <2>1, <1>1, <1>old DEF ReleaseBegins, vars, processVars
  <2>2. CASE ~ReleaseBegins
    BY <1>7, <2>2, <1>2, <1>ty, <1>old, <1>no
       DEF Resume, NetworkChange, Issue, receiverVars, processVars
  <2> QED BY <2>1, <2>2
<1>8. CASE ResumeHold
  <2>1. CASE shouldBeRunning
    <3>1. shouldBeRunning'
      BY <1>8, <2>1 DEF ResumeHold, shouldBeRunning, shouldBeConnected, receiverVars
    <3> QED BY <1>8, <3>1, <1>3, <1>old DEF ResumeHold, receiverVars, processVars
  <2>2. CASE ~shouldBeRunning
    BY <1>8, <2>2, <1>1, <1>old DEF ResumeHold, processVars
  <2> QED BY <2>1, <2>2
<1>9. CASE ReleaseHoldCmd
  BY <1>9, <1>2, <1>ty, <1>old, <1>no DEF ReleaseHoldCmd, Issue, receiverVars
<1>10. CASE RegisterReceiver
  BY <1>10, <1>old DEF RegisterReceiver, ReleaseIsWanted, vars, receiverVars, processVars,
                       shouldBeRunning, shouldBeConnected
\* The queue to the management thread never holds a byte count.
<1>11. ASSUME NEW msg \in Messages, Receive(msg) PROVE ~Has(toMgmt', "BYTECOUNT")
  BY <1>11, <1>ty, <1>old, ReceiveAny DEF Receive
<1>12. CASE HandleHold
  BY <1>12, <1>11, <1>1 DEF HandleHold, Messages, vars
<1>13. CASE HoldBranch
  BY <1>13, <1>1, <1>old DEF HoldBranch, vars, processVars
<1>14. CASE HandleState
  BY <1>14, <1>11, <1>1 DEF HandleState, Messages, vars
<1>15. CASE HandleByteCount
  <2>1. toMgmt # <<>> /\ Head(toMgmt) = "BYTECOUNT"
    BY <1>15 DEF HandleByteCount, Receive
  <2>2. toMgmt[1] = "BYTECOUNT" /\ 1 \in DOMAIN toMgmt
    BY <2>1, <1>ty
  <2> QED BY <2>2, <1>old DEF Has
<1>16. CASE ByteCountEnds
  BY <1>16, <1>old DEF ByteCountEnds, ByteCountDecide
<1>17. ASSUME Restarts PROVE ~Has(toMgmt', "BYTECOUNT")
  <2> DEFINE q == Append(toMgmt, "STATE")
  <2>1. toMgmt' = Append(q, "HOLD") /\ q \in Seq(Messages)
    BY <1>17, <1>ty DEF Restarts, Messages
  <2>2. ~Has(q, "BYTECOUNT")
    BY <1>ty, <1>old, SendOther DEF Messages
  <2> HIDE DEF q
  <2>3. ~Has(Append(q, "HOLD"), "BYTECOUNT")
    BY <2>1, <2>2, SendOther DEF Messages
  <2> QED BY <2>1, <2>3
<1>18. CASE ProcessCommand
  <2>1. ~Has(Append(toMgmt, "HOLD"), "BYTECOUNT") /\ ~Has(Append(toMgmt, "STATE"), "BYTECOUNT")
    BY <1>ty, <1>old, SendOther DEF Messages
  <2>2. \/ Restarts \/ toMgmt' = toMgmt
        \/ toMgmt' = Append(toMgmt, "HOLD") \/ toMgmt' = Append(toMgmt, "STATE")
    BY <1>18 DEF ProcessCommand
  <2>3. ~Has(toMgmt', "BYTECOUNT")
    BY <2>1, <2>2, <1>17, <1>old
  <2> QED BY <1>18, <2>3, <1>1 DEF ProcessCommand, vars, mgmtVars
<1>19. CASE ProcessRestart
  BY <1>19, <1>17, <1>1 DEF ProcessRestart, vars, mgmtVars
<1>20. CASE ProcessTraffic
  BY <1>20 DEF ProcessTraffic, Quiet
<1>21. CASE UNCHANGED holdVars
  BY <1>21, <1>1, <1>old DEF holdVars, vars, mgmtVars, processVars
<1> QED
  BY <1>4, <1>5, <1>6, <1>7, <1>8, <1>9, <1>10, <1>12, <1>13, <1>14, <1>15, <1>16, <1>18,
     <1>19, <1>20, <1>21, <1>ty DEF HoldNext, MainStep, MgmtStep

\* A release begins only in a call that releases, or in mResumeHoldRunnable's
\* own test of shouldBeRunning.
LEMMA ReleaseStep ==
    ReleaseIsWanted /\ [HoldNext]_holdVars => (~releasing /\ releasing' => shouldBeRunning)
<1> SUFFICES ASSUME ReleaseIsWanted, [HoldNext]_holdVars, ~releasing, releasing'
             PROVE  shouldBeRunning
  OBVIOUS
<1>1. CASE Resume \/ NetworkChange
  BY <1>1 DEF Resume, NetworkChange, mgmtVars, ReleaseIsWanted, Releases
<1>2. CASE ResumeHold
  BY <1>2 DEF ResumeHold
<1>3. CASE UNCHANGED releasing
  BY <1>3
<1> QED
  BY <1>1, <1>2, <1>3
     DEF HoldNext, MainStep, MgmtStep, RegisterReceiver, DeviceEvent, DisconnectTimer, Pause,
         ReleaseHoldCmd, HandleHold, HoldBranch, HandleState, HandleByteCount, ByteCountEnds,
         ProcessCommand, ProcessRestart, ProcessTraffic, mgmtVars, holdVars

\* releaseHoldCmd starts only while shouldBeRunning(), whatever the order of
\* resume, networkChange, mResumeHoldRunnable and the process' restarts.
THEOREM ReleasesAreWanted == Quiet => (HoldSpec => ReleaseOnlyWhenWanted)
<1> SUFFICES ASSUME Quiet PROVE HoldSpec => ReleaseOnlyWhenWanted
  OBVIOUS
<1>1. HoldInit => HoldTypeOK /\ ReleaseIsWanted
  <2> SUFFICES ASSUME HoldInit PROVE ReleaseIsWanted
    BY HoldInitType
  <2>1. ~Has(toMgmt, "BYTECOUNT")
    BY DEF HoldInit, Has
  <2> QED BY <2>1 DEF HoldInit, Init, ReleaseIsWanted, Threads, NoCall, Call, Releases,
                      DISCONNECTED, PENDINGDISCONNECT
<1>2. (HoldTypeOK /\ ReleaseIsWanted) /\ [HoldNext]_holdVars => (HoldTypeOK /\ ReleaseIsWanted)'
  BY HoldStepType, ReleaseIsWantedStep
<1>3. ReleaseIsWanted /\ [HoldNext]_holdVars =>
          [(~releasing /\ releasing') => shouldBeRunning]_holdVars
  BY ReleaseStep
<1> QED BY <1>1, <1>2, <1>3, PTL DEF HoldSpec, ReleaseOnlyWhenWanted
-----------------------------------------------------------------------------
(* A user's pause, with every event allowed: a call that releases is made     *)
(* with userpause reset, and userpause is set only between two calls.         *)

ReleaseNotPaused ==
    call["main"].op \in Releases \ {"sameNetwork"} => userpause = SHOULDBECONNECTED

LEMMA ReleaseNotPausedStep ==
    HoldTypeOK /\ ReleaseNotPaused /\ [HoldNext]_holdVars => ReleaseNotPaused'
<1> SUFFICES ASSUME HoldTypeOK, ReleaseNotPaused, [HoldNext]_holdVars
             PROVE  ReleaseNotPaused'
  OBVIOUS
<1>ty. call \in [Threads -> Calls] /\ "main" \in Threads /\ "mgmt" \in Threads
  BY DEF HoldTypeOK, TypeOK, Threads
<1>no. /\ NoCall.op \notin Releases /\ \A r : PauseCall(r).op \notin Releases
       /\ Call("sameNetwork").op = "sameNetwork"
  BY DEF NoCall, Call, PauseCall, Releases
\* The main looper's call and the user's pause rest.
<1>1. ASSUME UNCHANGED userpause, call'["main"] = call["main"] PROVE ReleaseNotPaused'
  BY <1>1 DEF ReleaseNotPaused
\* The main looper's call ends, or starts as one that releases nothing.
<1>2. ASSUME call'["main"].op \notin Releases \ {"sameNetwork"} PROVE ReleaseNotPaused'
  BY <1>2 DEF ReleaseNotPaused
\* The VPN is not paused by the user.
<1>3. ASSUME userpause' = SHOULDBECONNECTED PROVE ReleaseNotPaused'
  BY <1>3 DEF ReleaseNotPaused
<1>4. CASE DeviceEvent
  <2>1. CASE UserPause
    BY <2>1, <1>2, <1>ty, <1>no DEF UserPause, Issue
  <2>2. CASE UserResume
    BY <2>2, <1>3 DEF UserResume
  <2>3. CASE ScreenOff
    BY <2>3, <1>1 DEF ScreenOff
  <2>4. CASE ScreenOn
    <3>1. CASE Connected(SHOULDBECONNECTED, userpause, network)
      BY <2>4, <3>1, <1>3 DEF ScreenOn, Connected
    <3>2. CASE ~Connected(SHOULDBECONNECTED, userpause, network)
      <4>1. shouldBeConnected = FALSE /\ Connected(SHOULDBECONNECTED, userpause, network) = FALSE
        BY <3>2 DEF shouldBeConnected, Connected
      <4>2. ScreenOnCall = PauseCall(getPauseReason(SHOULDBECONNECTED, userpause, network))
        BY <4>1 DEF ScreenOnCall
      <4> QED BY <2>4, <4>2, <1>2, <1>ty, <1>no DEF ScreenOn, Issue
    <3> QED BY <3>1, <3>2
  <2>5. ASSUME NEW n \in Nets, SameNetworkBack(n) PROVE ReleaseNotPaused'
    BY <2>5, <1>2, <1>ty, <1>no DEF SameNetworkBack, Issue
  <2>6. ASSUME NEW n \in Nets, OtherNetwork(n) PROVE ReleaseNotPaused'
    <3>1. CASE Connected(screen', userpause, SHOULDBECONNECTED)
      BY <2>6, <3>1, <1>3 DEF OtherNetwork, Connected
    <3>2. CASE ~Connected(screen', userpause, SHOULDBECONNECTED)
      BY <2>6, <3>2, <1>1 DEF OtherNetwork
    <3> QED BY <3>1, <3>2
  <2>7. CASE NetworkLost
    BY <2>7, <1>1 DEF NetworkLost
  <2> QED BY <1>4, <2>1, <2>2, <2>3, <2>4, <2>5, <2>6, <2>7
        DEF DeviceEvent, ScreenEvent, UserEvent
<1>5. CASE DisconnectTimer
  <2>1. CASE network = PENDINGDISCONNECT
    BY <1>5, <2>1, <1>2, <1>ty, <1>no DEF DisconnectTimer, DelayDisconnect, Issue
  <2>2. CASE network # PENDINGDISCONNECT
    BY <1>5, <2>2, <1>1 DEF DisconnectTimer, DelayDisconnect
  <2> QED BY <2>1, <2>2
<1>6. ASSUME NEW t \in Threads, Pause(t) PROVE ReleaseNotPaused'
  <2>1. call'["main"] \in {call["main"], NoCall}
    BY <1>6, <1>ty DEF Pause, Issue
  <2> QED BY <1>6, <2>1, <1>1, <1>2, <1>no DEF Pause, receiverVars
<1>7. CASE Resume \/ NetworkChange
  <2>1. CASE ReleaseBegins
    BY <2>1, <1>1 DEF ReleaseBegins, vars, receiverVars
  <2>2. CASE ~ReleaseBegins
    BY <1>7, <2>2, <1>2, <1>ty, <1>no DEF Resume, NetworkChange, Issue
  <2> QED BY <2>1, <2>2
<1>8. CASE ResumeHold
  <2>1. CASE shouldBeRunning
    BY <1>8, <2>1, <1>3 DEF ResumeHold, shouldBeRunning, shouldBeConnected, Connected, receiverVars
  <2>2. CASE ~shouldBeRunning
    BY <1>8, <2>2, <1>1 DEF ResumeHold, receiverVars
  <2> QED BY <2>1, <2>2
<1>9. CASE ReleaseHoldCmd
  BY <1>9, <1>2, <1>ty, <1>no DEF ReleaseHoldCmd, Issue
<1>10. CASE ByteCountEnds
  <2>1. UNCHANGED userpause /\ call'["main"] = call["main"]
    BY <1>10, <1>ty DEF ByteCountEnds, ByteCountDecide, Issue
  <2> QED BY <2>1, <1>1
<1>11. CASE HandleByteCount
  BY <1>11, <1>1 DEF HandleByteCount, ByteCountTest, vars, receiverVars
<1>12. CASE UNCHANGED vars
  BY <1>12, <1>1 DEF vars, receiverVars
<1> QED
  BY <1>4, <1>5, <1>6, <1>7, <1>8, <1>9, <1>10, <1>11, <1>12, <1>ty
     DEF HoldNext, MainStep, MgmtStep, RegisterReceiver, HandleHold, HoldBranch, HandleState,
         ProcessCommand, ProcessRestart, ProcessTraffic, holdVars

\* The step that begins a release, with the call it begins in.
LEMMA PausedReleaseStep ==
    ReleaseNotPaused /\ [HoldNext]_holdVars =>
        (~releasing /\ releasing' =>
            userpause = SHOULDBECONNECTED \/ call["main"].op = "sameNetwork")
<1> SUFFICES ASSUME ReleaseNotPaused, [HoldNext]_holdVars, ~releasing, releasing'
             PROVE  userpause = SHOULDBECONNECTED \/ call["main"].op = "sameNetwork"
  OBVIOUS
<1>1. CASE Resume \/ NetworkChange
  BY <1>1 DEF Resume, NetworkChange, ReleaseNotPaused, Releases
<1>2. CASE ResumeHold
  BY <1>2 DEF ResumeHold, shouldBeRunning, shouldBeConnected, Connected
<1>3. CASE UNCHANGED releasing
  BY <1>3
<1> QED
  BY <1>1, <1>2, <1>3
     DEF HoldNext, MainStep, MgmtStep, RegisterReceiver, DeviceEvent, DisconnectTimer, Pause,
         ReleaseHoldCmd, HandleHold, HoldBranch, HandleState, HandleByteCount, ByteCountEnds,
         ProcessCommand, ProcessRestart, ProcessTraffic, mgmtVars, holdVars

\* A process the user has paused is released by nothing but the user's resume
\* and networkChange(true), with every device and process event allowed.
THEOREM UserPauseIsKept == HoldSpec => UserPauseHolds
<1>1. HoldInit => HoldTypeOK /\ ReleaseNotPaused
  <2> SUFFICES ASSUME HoldInit PROVE ReleaseNotPaused
    BY HoldInitType
  <2> QED BY DEF HoldInit, Init, ReleaseNotPaused
<1>2. (HoldTypeOK /\ ReleaseNotPaused) /\ [HoldNext]_holdVars => (HoldTypeOK /\ ReleaseNotPaused)'
  BY HoldStepType, ReleaseNotPausedStep
<1>3. ReleaseNotPaused /\ [HoldNext]_holdVars =>
          [(~releasing /\ releasing') =>
              userpause = SHOULDBECONNECTED \/ call["main"].op = "sameNetwork"]_holdVars
  BY PausedReleaseStep
<1> QED BY <1>1, <1>2, <1>3, PTL DEF HoldSpec, UserPauseHolds
-----------------------------------------------------------------------------
(* The status shown is the state of the process. *)

\* Every unread STATE is followed by an unread HOLD.
HoldFollows(queue) ==
    \A i \in DOMAIN queue : queue[i] = "STATE" =>
        \E j \in DOMAIN queue : j > i /\ queue[j] = "HOLD"

\* StatusAgrees at every moment: a held process has announced its hold after
\* everything else, so no older STATE overwrites the pause once it is shown; a
\* process that runs shows no pause, or its STATE is still unread.
StatusFollows ==
    /\ process = "hold" => HoldFollows(toMgmt)
    /\ mWaitingForRelease => status \in pauseReason
    /\ process = "run" => status \notin pauseReason \/ Has(toMgmt, "STATE")

LEMMA HoldFollowsTail ==
    ASSUME NEW q \in Seq(Messages), q # <<>>, HoldFollows(q)
    PROVE  HoldFollows(Tail(q))
<1>1. Tail(q) \in Seq(Messages) /\ Len(Tail(q)) = Len(q) - 1 /\ Len(q) \in Nat \ {0}
  OBVIOUS
<1>2. \A i \in DOMAIN Tail(q) : i \in Nat /\ i + 1 \in DOMAIN q /\ Tail(q)[i] = q[i + 1]
  BY <1>1
<1> SUFFICES ASSUME NEW i \in DOMAIN Tail(q), Tail(q)[i] = "STATE"
             PROVE  \E j \in DOMAIN Tail(q) : j > i /\ Tail(q)[j] = "HOLD"
  BY DEF HoldFollows
<1>3. PICK j \in DOMAIN q : j > i + 1 /\ q[j] = "HOLD"
  BY <1>2 DEF HoldFollows
<1>4. j - 1 \in DOMAIN Tail(q) /\ j - 1 > i /\ (j - 1) + 1 = j
  BY <1>1, <1>2, <1>3
<1> QED BY <1>2, <1>3, <1>4

LEMMA HoldFollowsRestart ==
    ASSUME NEW q \in Seq(Messages), NEW r, r = q \o <<"STATE", "HOLD">>
    PROVE  HoldFollows(r)
<1>1. /\ Len(q) \in Nat
      /\ DOMAIN r = 1..(Len(q) + 2)
      /\ Len(q) + 2 \in DOMAIN r
      /\ r[Len(q) + 2] = "HOLD" /\ "HOLD" # "STATE"
  OBVIOUS
<1>2. \A i \in DOMAIN r : r[i] = "STATE" => Len(q) + 2 > i
  BY <1>1
<1> QED BY <1>1, <1>2 DEF HoldFollows

\* Without an unread HOLD there is no unread STATE of a held process.
LEMMA NoHoldNoState ==
    ASSUME NEW q, HoldFollows(q), ~Has(q, "HOLD")
    PROVE  ~Has(q, "STATE")
BY DEF HoldFollows, Has

\* Steps of the main looper and of the receiver, which read no message.
LEMMA StatusStable ==
    ASSUME StatusFollows, UNCHANGED <<process, toMgmt>>,
           mWaitingForRelease' => mWaitingForRelease,
           status' = status \/ (mWaitingForRelease /\ status' \in pauseReason /\ process = "hold")
    PROVE  StatusFollows'
BY DEF StatusFollows

LEMMA StatusStep ==
    HoldIgnoresUsr1 /\ HoldTypeOK /\ OneOwner /\ StatusFollows /\ [HoldNext]_holdVars
        => StatusFollows'
<1> SUFFICES ASSUME HoldIgnoresUsr1, HoldTypeOK, OneOwner, StatusFollows, [HoldNext]_holdVars
             PROVE  StatusFollows'
  OBVIOUS
<1>ty. /\ toMgmt \in Seq(Messages) /\ mWaitingForRelease \in BOOLEAN
       /\ process \in {"hold", "run"} /\ lastPauseReason \in pauseReason
       /\ call \in [Threads -> Calls]
  BY DEF HoldTypeOK, TypeOK
<1>not. "STATE" \notin pauseReason /\ "CONNECTRETRY" \notin pauseReason
  BY DEF pauseReason
<1>1. ASSUME UNCHANGED <<mWaitingForRelease, status, process, toMgmt>> PROVE StatusFollows'
  BY <1>1, StatusStable
<1>2. ASSUME NEW t \in Threads, Pause(t) PROVE StatusFollows'
  <2>1. call[t].reason \in pauseReason
    BY <1>ty DEF Calls
  <2>2. mWaitingForRelease => process = "hold"
    BY <1>ty DEF OneOwner
  <2> QED BY <1>2, <2>1, <2>2, StatusStable DEF Pause
<1>3. CASE Resume \/ NetworkChange \/ ResumeHold \/ RegisterReceiver
  BY <1>3, <1>1 DEF Resume, NetworkChange, ResumeHold, RegisterReceiver, ReleaseBegins,
                    processVars, mgmtVars
<1>4. CASE ReleaseHoldCmd
  BY <1>4, StatusStable DEF ReleaseHoldCmd
<1>5. ASSUME NEW msg, Receive(msg), UNCHANGED process
      PROVE  /\ (process = "hold" => HoldFollows(toMgmt))'
             /\ toMgmt # <<>> /\ toMgmt' = Tail(toMgmt) /\ Head(toMgmt) = msg
             /\ msg # "STATE" => (Has(toMgmt', "STATE") <=> Has(toMgmt, "STATE"))
  <2>1. toMgmt # <<>> /\ toMgmt' = Tail(toMgmt) /\ Head(toMgmt) = msg
    BY <1>5 DEF Receive
  <2>2. process = "hold" => HoldFollows(toMgmt')
    BY <2>1, <1>ty, HoldFollowsTail DEF StatusFollows
  <2>3. msg # "STATE" => (Has(toMgmt', "STATE") <=> Has(toMgmt, "STATE"))
    BY <2>1, <1>ty, ReceiveAny
  <2> QED BY <2>1, <2>2, <2>3, <1>5
<1>6. CASE HandleHold
  <2>1. Receive("HOLD") /\ UNCHANGED <<process, mWaitingForRelease>>
    BY <1>6 DEF HandleHold
  <2>2. Has(toMgmt, "HOLD")
    BY <2>1, <1>ty DEF Receive, Has
  <2>3. process = "hold" /\ ~mWaitingForRelease
    BY <2>2 DEF OneOwner, NoFlag
  <2>4. (process = "hold" => HoldFollows(toMgmt))'
    BY <2>1, <1>5
  <2> QED BY <2>1, <2>3, <2>4 DEF StatusFollows
<1>7. CASE HoldBranch
  <2>1. process = "hold" /\ ~mWaitingForRelease /\ UNCHANGED <<process, toMgmt>>
    BY <1>7, <1>ty DEF HoldBranch, OneOwner, processVars
  <2>2. mWaitingForRelease' => status' \in pauseReason
    BY <1>7, <2>1, <1>ty DEF HoldBranch
  <2> QED BY <2>1, <2>2 DEF StatusFollows
<1>8. CASE HandleState
  <2>1. Receive("STATE") /\ UNCHANGED <<process, mWaitingForRelease>> /\ status' = "STATE"
    BY <1>8 DEF HandleState
  <2>2. Has(toMgmt, "STATE")
    BY <2>1, <1>ty DEF Receive, Has
  <2>3. ~mWaitingForRelease
    <3>1. SUFFICES ASSUME mWaitingForRelease PROVE FALSE
      OBVIOUS
    <3>2. process = "hold" /\ ~Has(toMgmt, "HOLD")
      BY <3>1, <1>ty DEF OneOwner, NoFlag
    <3> QED BY <3>2, <2>2, NoHoldNoState DEF StatusFollows
  <2>4. (process = "hold" => HoldFollows(toMgmt))'
    BY <2>1, <1>5
  <2> QED BY <2>1, <2>3, <2>4, <1>not DEF StatusFollows
<1>9. CASE HandleByteCount
  <2>1. Receive("BYTECOUNT") /\ UNCHANGED <<process, mWaitingForRelease, status>>
    BY <1>9 DEF HandleByteCount, mgmtVars
  <2>2. /\ (process = "hold" => HoldFollows(toMgmt))'
        /\ Has(toMgmt', "STATE") <=> Has(toMgmt, "STATE")
    BY <2>1, <1>5
  <2> QED BY <2>1, <2>2 DEF StatusFollows
<1>10. ASSUME process = "run", Restarts, UNCHANGED mgmtVars PROVE StatusFollows'
  <2>1. ~mWaitingForRelease
    BY <1>10 DEF OneOwner
  <2>2. HoldFollows(toMgmt')
    BY <1>10, <1>ty, HoldFollowsRestart DEF Restarts
  <2> QED BY <1>10, <2>1, <2>2 DEF StatusFollows, Restarts, mgmtVars
<1>11. CASE ProcessCommand
  <2>1. UNCHANGED mgmtVars
    BY <1>11 DEF ProcessCommand
  <2>2. CASE process = "run" /\ Restarts
    BY <2>1, <2>2, <1>10
  <2>3. CASE UNCHANGED <<process, toMgmt>>
    BY <2>1, <2>3, <1>1 DEF mgmtVars
  <2>4. CASE process' = "run" /\ toMgmt' = Append(toMgmt, "STATE")
    <3>1. Has(toMgmt', "STATE")
      BY <2>4, <1>ty DEF Has
    <3> QED BY <2>1, <2>4, <3>1 DEF StatusFollows, mgmtVars
  <2> QED BY <1>11, <2>2, <2>3, <2>4 DEF ProcessCommand
<1>12. CASE ProcessRestart
  BY <1>12, <1>10 DEF ProcessRestart
<1>13. CASE ProcessTraffic
  <2>1. Has(toMgmt', "STATE") <=> Has(toMgmt, "STATE")
    BY <1>13, <1>ty, SendOther DEF ProcessTraffic, Messages
  <2> QED BY <1>13, <2>1 DEF ProcessTraffic, StatusFollows, mgmtVars
<1>14. CASE DeviceEvent \/ DisconnectTimer \/ ByteCountEnds \/ UNCHANGED holdVars
  BY <1>14, <1>1 DEF DeviceEvent, DisconnectTimer, ByteCountEnds, holdVars, mgmtVars, processVars
<1>th. "main" \in Threads /\ "mgmt" \in Threads
  BY DEF Threads
<1> QED
  BY <1>2, <1>3, <1>4, <1>6, <1>7, <1>8, <1>9, <1>11, <1>12, <1>13, <1>14, <1>th
     DEF HoldNext, MainStep, MgmtStep

\* With everything read, VpnStatus shows a pause exactly while releaseHold would
\* do something, although pause() on either thread and handleHold tell it
\* without a lock: nothing the process said before its HOLD is read after it.
THEOREM StatusIsTrue == HoldIgnoresUsr1 => (HoldSpec => []StatusAgrees)
<1> SUFFICES ASSUME HoldIgnoresUsr1 PROVE HoldSpec => []StatusAgrees
  OBVIOUS
<1> DEFINE SInv == HoldTypeOK /\ OneOwner /\ StatusFollows
<1>1. HoldInit => SInv
  <2>1. HoldInit => StatusFollows
    BY DEF HoldInit, StatusFollows, HoldFollows
  <2> QED BY <2>1, HoldInitType, OneOwnerInit
<1>2. SInv /\ [HoldNext]_holdVars => SInv'
  BY HoldStepType, OneOwnerStep, StatusStep
<1>3. SInv => StatusAgrees
  <2>1. toMgmt = <<>> => ~Has(toMgmt, "STATE")
    BY DEF Has
  <2> QED BY <2>1 DEF StatusAgrees, StatusFollows
<1> QED BY <1>1, <1>2, <1>3, PTL DEF HoldSpec
=============================================================================
