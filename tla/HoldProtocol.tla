---------------------------- MODULE HoldProtocol ----------------------------
(***************************************************************************)
(* The pause / hold / resume protocol of one connection: the device-state  *)
(* receiver, the management interface (OpenVpnManagementThread.java) and   *)
(* the OpenVPN process behind the management socket.                       *)
(*                                                                         *)
(* The process is started with management-hold: it waits in "hold", sends  *)
(* HOLD, and runs only after "hold release".  SIGUSR1 makes a running      *)
(* process restart into hold.  Both directions of the socket are FIFO.     *)
(*                                                                         *)
(* The main looper runs pause, resume, networkChange and                   *)
(* mResumeHoldRunnable; the management thread runs handleHold and          *)
(* updateByteCount.  None of them takes a lock, so handleHold is split     *)
(* between its test of shouldBeRunning() and what it does next, and        *)
(* releaseHoldCmd between its start and the write after Thread.sleep.      *)
(***************************************************************************)
EXTENDS DeviceStateReceiver, Sequences

CONSTANTS
    Events,            \* device and process events that happen: see EventKinds
    HoldIgnoresUsr1,   \* external: SIGUSR1 in hold is ignored, or repeats HOLD
    MaxCmds,           \* bound on unread commands in the socket
    MaxMsgs            \* bound on unread messages when BYTECOUNT is added

EventKinds == {"connected", "lost", "screen", "user", "traffic", "restart"}

ASSUME HoldAssumption ==
    /\ Events \subseteq EventKinds
    /\ HoldIgnoresUsr1 \in BOOLEAN
    /\ MaxCmds \in Nat \ {0}
    /\ MaxMsgs \in Nat \ {0}

VARIABLES
    mPauseCallback,       \* the receiver is registered
    mWaitingForRelease,
    lastPauseReason,
    resumePosted,         \* posted mResumeHoldRunnable instances
    handlingHold,         \* management thread in handleHold: "no", or its branch
    releasing,            \* main looper is inside releaseHoldCmd
    status,               \* what VpnStatus was last told
    process,              \* the OpenVPN process: "hold" or "run"
    toProcess, toMgmt     \* the two directions of the management socket

mgmtVars == <<mPauseCallback, mWaitingForRelease, lastPauseReason,
              resumePosted, handlingHold, releasing, status>>
processVars == <<process, toProcess, toMgmt>>
holdVars == <<vars, mgmtVars, processVars>>

Commands == {"SIGUSR1", "release", "networkChange", "sameNetwork"}
Messages == {"HOLD", "STATE", "BYTECOUNT"}
Statuses == pauseReason \cup {"STATE", "CONNECTRETRY"}

shouldBeRunning == mPauseCallback /\ shouldBeConnected

managmentCommand(cmd) ==
    /\ Len(toProcess) < MaxCmds
    /\ toProcess' = Append(toProcess, cmd)

HoldInit ==
    /\ Init
    /\ mPauseCallback = FALSE
    /\ mWaitingForRelease = FALSE
    /\ lastPauseReason = "noNetwork"
    /\ resumePosted = 0
    /\ handlingHold = "no"
    /\ releasing = FALSE
    /\ status = "STATE"
    /\ process = "hold"
    /\ toProcess = <<>>
    /\ toMgmt = <<"HOLD">>

-----------------------------------------------------------------------------
(* Main looper. *)

\* The runnable posted by startOpenVPN creates and registers the receiver.
RegisterReceiver ==
    /\ ~mPauseCallback
    /\ mPauseCallback' = TRUE
    /\ UNCHANGED <<vars, mWaitingForRelease, lastPauseReason, resumePosted,
                   handlingHold, releasing, status, processVars>>

\* Mutant of Pause: a pause for the reason that is already set is skipped.
PauseOncePerReason(t) ==
    /\ call[t].op = "pause"
    /\ lastPauseReason' = call[t].reason
    /\ resumePosted' = 0
    /\ IF mWaitingForRelease \/ lastPauseReason = call[t].reason
       THEN status' = call[t].reason /\ UNCHANGED toProcess
       ELSE managmentCommand("SIGUSR1") /\ UNCHANGED status
    /\ Issue(t, NoCall)
    /\ UNCHANGED <<receiverVars, mPauseCallback, mWaitingForRelease, handlingHold,
                   releasing, process, toMgmt>>

\* pause(reason) and the signalusr1() it ends in, on either thread.
Pause(t) ==
    /\ call[t].op = "pause"
    /\ lastPauseReason' = call[t].reason
    /\ resumePosted' = 0
    /\ IF mWaitingForRelease
       THEN status' = call[t].reason /\ UNCHANGED toProcess
       ELSE managmentCommand("SIGUSR1") /\ UNCHANGED status
    /\ Issue(t, NoCall)
    /\ UNCHANGED <<receiverVars, mPauseCallback, mWaitingForRelease, handlingHold,
                   releasing, process, toMgmt>>

\* releaseHoldCmd removes the posted runnable, then may sleep three seconds.
ReleaseBegins ==
    /\ releasing' = TRUE
    /\ resumePosted' = 0
    /\ UNCHANGED <<vars, mPauseCallback, mWaitingForRelease, lastPauseReason,
                   handlingHold, status, processVars>>

\* resume(): releaseHold, then the reset of lastPauseReason.
Resume ==
    /\ call["main"].op = "resume"
    /\ ~releasing
    /\ \/ mWaitingForRelease /\ ReleaseBegins
       \/ /\ ~mWaitingForRelease
          /\ lastPauseReason' = "noNetwork"
          /\ Issue("main", NoCall)
          /\ UNCHANGED <<receiverVars, mPauseCallback, mWaitingForRelease, resumePosted,
                         handlingHold, releasing, status, processVars>>

\* networkChange(samenetwork): a held process is released instead.
NetworkChange ==
    /\ call["main"].op \in {"networkChange", "sameNetwork"}
    /\ ~releasing
    /\ \/ mWaitingForRelease /\ ReleaseBegins
       \/ /\ ~mWaitingForRelease
          /\ managmentCommand(call["main"].op)
          /\ Issue("main", NoCall)
          /\ UNCHANGED <<receiverVars, mgmtVars, process, toMgmt>>

\* Mutant of ResumeHold: the runnable releases without asking shouldBeRunning.
ResumeHoldUnasked ==
    /\ Idle("main")
    /\ resumePosted > 0
    /\ Issue("main", Call("resumeHold"))
    /\ releasing' = TRUE
    /\ resumePosted' = 0
    /\ UNCHANGED <<receiverVars, mPauseCallback, mWaitingForRelease, lastPauseReason,
                   handlingHold, status, processVars>>

\* mResumeHoldRunnable, posted by handleHold, runs.
ResumeHold ==
    /\ Idle("main")
    /\ resumePosted > 0
    /\ IF shouldBeRunning
       THEN /\ Issue("main", Call("resumeHold"))
            /\ releasing' = TRUE
            /\ resumePosted' = 0
       ELSE /\ resumePosted' = resumePosted - 1
            /\ UNCHANGED <<call, releasing>>
    /\ UNCHANGED <<receiverVars, mPauseCallback, mWaitingForRelease, lastPauseReason,
                   handlingHold, status, processVars>>

\* Mutant of ReleaseHoldCmd: resume() clears lastPauseReason to no reason.
ReleaseHoldCmdNoReason ==
    /\ releasing
    /\ releasing' = FALSE
    /\ mWaitingForRelease' = FALSE
    /\ managmentCommand("release")
    /\ lastPauseReason' = IF call["main"].op = "resume" THEN "null" ELSE lastPauseReason
    /\ Issue("main", NoCall)
    /\ UNCHANGED <<receiverVars, mPauseCallback, resumePosted, handlingHold,
                   status, process, toMgmt>>

\* The end of releaseHoldCmd, after the sleep ("hold release", "bytecount" and
\* "state on" are one command here), and the return to its caller.
ReleaseHoldCmd ==
    /\ releasing
    /\ releasing' = FALSE
    /\ mWaitingForRelease' = FALSE
    /\ managmentCommand("release")
    /\ lastPauseReason' = IF call["main"].op = "resume" THEN "noNetwork" ELSE lastPauseReason
    /\ Issue("main", NoCall)
    /\ UNCHANGED <<receiverVars, mPauseCallback, resumePosted, handlingHold,
                   status, process, toMgmt>>

-----------------------------------------------------------------------------
(* Management thread: processCommand on the next message. *)

MgmtIdle == handlingHold = "no" /\ ~testing /\ Idle("mgmt")

Receive(msg) ==
    /\ MgmtIdle
    /\ toMgmt # <<>>
    /\ Head(toMgmt) = msg
    /\ toMgmt' = Tail(toMgmt)

\* handleHold: the test.  A wait time above one second is shown as CONNECTRETRY.
HandleHold ==
    /\ Receive("HOLD")
    /\ handlingHold' = IF shouldBeRunning THEN "post" ELSE "wait"
    /\ status' \in IF shouldBeRunning THEN {status, "CONNECTRETRY"} ELSE {status}
    /\ UNCHANGED <<vars, mPauseCallback, mWaitingForRelease, lastPauseReason,
                   resumePosted, releasing, process, toProcess>>

\* Mutant of HoldBranch: mWaitingForRelease is set in both branches.
HoldBranchAlwaysWaits ==
    /\ handlingHold # "no"
    /\ handlingHold' = "no"
    /\ mWaitingForRelease' = TRUE
    /\ IF handlingHold = "post"
       THEN resumePosted' = resumePosted + 1 /\ UNCHANGED status
       ELSE status' = lastPauseReason /\ UNCHANGED resumePosted
    /\ UNCHANGED <<vars, mPauseCallback, lastPauseReason, releasing, processVars>>

\* Mutant of HoldBranch: the pause is not shown.
HoldBranchSilent ==
    /\ handlingHold # "no"
    /\ handlingHold' = "no"
    /\ IF handlingHold = "post"
       THEN resumePosted' = resumePosted + 1 /\ UNCHANGED mWaitingForRelease
       ELSE mWaitingForRelease' = TRUE /\ UNCHANGED resumePosted
    /\ UNCHANGED <<vars, mPauseCallback, lastPauseReason, releasing, status, processVars>>

\* handleHold: the branch the test selected.
HoldBranch ==
    /\ handlingHold # "no"
    /\ handlingHold' = "no"
    /\ IF handlingHold = "post"
       THEN resumePosted' = resumePosted + 1 /\ UNCHANGED <<mWaitingForRelease, status>>
       ELSE /\ mWaitingForRelease' = TRUE
            /\ status' = lastPauseReason
            /\ UNCHANGED resumePosted
    /\ UNCHANGED <<vars, mPauseCallback, lastPauseReason, releasing, processVars>>

HandleState ==
    /\ Receive("STATE")
    /\ status' = "STATE"
    /\ UNCHANGED <<vars, mPauseCallback, mWaitingForRelease, lastPauseReason,
                   resumePosted, handlingHold, releasing, process, toProcess>>

\* processByteCount up to the receiver's test of screen (a listener once the
\* receiver is registered).
HandleByteCount ==
    /\ Receive("BYTECOUNT")
    /\ IF mPauseCallback /\ screen = PENDINGDISCONNECT
       THEN ByteCountTest
       ELSE UNCHANGED vars
    /\ UNCHANGED <<mgmtVars, process, toProcess>>

-----------------------------------------------------------------------------
(* The OpenVPN process (external). *)

\* What a restart makes of the process and what it reports.
Restarts ==
    /\ process' = "hold"
    /\ toMgmt' = toMgmt \o <<"STATE", "HOLD">>

ProcessCommand ==
    /\ toProcess # <<>>
    /\ toProcess' = Tail(toProcess)
    /\ LET cmd == Head(toProcess) IN
       \/ cmd = "SIGUSR1" /\ process = "run" /\ Restarts
       \/ /\ cmd = "SIGUSR1" /\ process = "hold"
          /\ HoldIgnoresUsr1 \/ Len(toMgmt) <= MaxMsgs
          /\ toMgmt' = IF HoldIgnoresUsr1 THEN toMgmt ELSE Append(toMgmt, "HOLD")
          /\ UNCHANGED process
       \/ /\ cmd = "release" /\ process = "hold"
          /\ process' = "run"
          /\ toMgmt' = Append(toMgmt, "STATE")
       \/ cmd = "release" /\ process = "run" /\ UNCHANGED <<process, toMgmt>>
       \/ cmd = "networkChange" /\ process = "run" /\ Restarts
       \/ cmd \in {"networkChange", "sameNetwork"} /\ UNCHANGED <<process, toMgmt>>
    /\ UNCHANGED <<vars, mgmtVars>>

\* The connection is lost, or could not be set up: the process restarts.
ProcessRestart ==
    /\ "restart" \in Events
    /\ process = "run"
    /\ Restarts
    /\ UNCHANGED <<vars, mgmtVars, toProcess>>

ProcessTraffic ==
    /\ "traffic" \in Events
    /\ process = "run"
    /\ Len(toMgmt) < MaxMsgs
    /\ toMgmt' = Append(toMgmt, "BYTECOUNT")
    /\ UNCHANGED <<vars, mgmtVars, process, toProcess>>

-----------------------------------------------------------------------------
\* Broadcasts, user requests and timers the registered receiver handles.
DeviceEvent ==
    /\ mPauseCallback
    /\ \/ "connected" \in Events /\ \E n \in Nets : SameNetworkBack(n) \/ OtherNetwork(n)
       \/ "lost" \in Events /\ NetworkLost
       \/ "screen" \in Events /\ ScreenEvent
       \/ "user" \in Events /\ UserEvent
    /\ UNCHANGED <<mgmtVars, processVars>>

DisconnectTimer == DelayDisconnect /\ UNCHANGED <<mgmtVars, processVars>>

ByteCountEnds ==
    /\ \E low \in BOOLEAN : ByteCountDecide(low)
    /\ UNCHANGED <<mgmtVars, processVars>>

MainStep == Pause("main") \/ Resume \/ NetworkChange \/ ReleaseHoldCmd
MgmtStep == \/ Pause("mgmt") \/ HandleHold \/ HoldBranch \/ HandleState
            \/ HandleByteCount \/ ByteCountEnds

HoldNext ==
    \/ RegisterReceiver \/ DeviceEvent \/ DisconnectTimer \/ MainStep \/ ResumeHold
    \/ MgmtStep
    \/ ProcessCommand \/ ProcessRestart \/ ProcessTraffic

HoldSpec == HoldInit /\ [][HoldNext]_holdVars

\* The looper runs what was posted to it, each thread keeps running and the
\* process reads its socket.  The device and the user owe nothing.
Fairness ==
    /\ WF_holdVars(RegisterReceiver)
    /\ SF_holdVars(DisconnectTimer)
    /\ WF_holdVars(MainStep)
    /\ SF_holdVars(ResumeHold)
    /\ WF_holdVars(MgmtStep)
    /\ WF_holdVars(ProcessCommand)

FairHoldSpec == HoldSpec /\ Fairness

-----------------------------------------------------------------------------
HoldTypeOK ==
    /\ TypeOK
    /\ mPauseCallback \in BOOLEAN
    /\ mWaitingForRelease \in BOOLEAN
    /\ lastPauseReason \in pauseReason
    /\ resumePosted \in Nat
    /\ handlingHold \in {"no", "post", "wait"}
    /\ releasing \in BOOLEAN
    /\ status \in Statuses
    /\ process \in {"hold", "run"}
    /\ toProcess \in Seq(Commands)
    /\ toMgmt \in Seq(Messages)

\* Positions of x in a queue.
Unread(queue, x) == {i \in DOMAIN queue : queue[i] = x}

Owns(o) ==
    \/ o = "process" /\ process = "run"
    \/ o = "handleHold" /\ handlingHold # "no"
    \/ o = "waiting" /\ mWaitingForRelease
    \/ o = "releasing" /\ releasing /\ ~mWaitingForRelease

\* Where the answer to the last hold can be: each element is one place.
HoldOwners ==
    ({o \in {"process", "handleHold", "waiting", "releasing"} : Owns(o)} \X {1})
      \cup ({"message"} \X Unread(toMgmt, "HOLD"))
      \cup ({"posted"} \X (1..resumePosted))
      \cup ({"command"} \X Unread(toProcess, "release"))

\* A hold is owed to one place at a time: the process runs, or its HOLD is
\* unread, or handleHold has it, or mResumeHoldRunnable is posted, or
\* mWaitingForRelease is set, or the release is being sent or on its way.  Two
\* of them at once would send a second "hold release" to a process that runs.
HoldOwedOnce == \A o, p \in HoldOwners : o = p

\* A lost network whose disconnect timer is gone (onReceive removes it on
\* screen on) has been paused instead: the process is held, or about to be.
PendingIsCovered ==
    (network = PENDINGDISCONNECT /\ timers = 0) =>
        \/ process = "hold"
        \/ call["main"].op = "pause"
        \/ \E i \in DOMAIN toProcess : toProcess[i] = "SIGUSR1"

\* Once every message is handled, VpnStatus shows a pause exactly while
\* releaseHold would do something: updateStatePause is called from two threads.
StatusAgrees ==
    (MgmtIdle /\ toMgmt = <<>> /\ toProcess = <<>> /\ ~releasing) =>
        /\ mWaitingForRelease => status \in pauseReason
        /\ process = "run" => status \notin pauseReason

\* A process the user has paused is released only by the user's resume, or by
\* networkChange(true) when a lost network returns: no screen or network event
\* and no runnable posted before the pause does it.
UserPauseHolds ==
    [][(~releasing /\ releasing') =>
          userpause = SHOULDBECONNECTED \/ call["main"].op = "sameNetwork"]_holdVars

\* releaseHoldCmd starts only while the VPN should be running: a paused VPN
\* ("VPN pause requested by user", state_userpause) stays paused when
\* networkChange(true) is called to "Reprotect the sockets just be sure"
\* (DeviceStateReceiver.java:163).
ReleaseOnlyWhenWanted ==
    [][(~releasing /\ releasing') => shouldBeRunning]_holdVars

\* Every pause() reaches the process, on whichever thread it is called and
\* whatever restart, release or retry it overlaps with.
PauseTakesEffect == (\E t \in Threads : call[t].op = "pause") ~> process = "hold"

\* A network that stays lost holds the process, by the disconnect timer or by
\* the screen-on broadcast that removes it.
LostNetworkPauses ==
    network # SHOULDBECONNECTED ~> (process = "hold" \/ network = SHOULDBECONNECTED)

\* While the VPN should be running, the process is released in the end ("should
\* be connected has changed because the screen is on now, connect the VPN",
\* DeviceStateReceiver.java:120).
ConnectsWhenWanted == shouldBeRunning ~> (process = "run" \/ ~shouldBeRunning)
=============================================================================
