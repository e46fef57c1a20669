------------------------- MODULE DeviceStateReceiver -------------------------
(***************************************************************************)
(* The device-state receiver (DeviceStateReceiver.java): it turns network, *)
(* screen and user events into pause / resume / networkChange calls on the *)
(* management interface.                                                   *)
(*                                                                         *)
(* Two threads run its code.  The main looper delivers broadcasts, user    *)
(* requests and the delayed-disconnect timer; the management thread calls  *)
(* updateByteCount.  A main-looper handler updates the receiver in one     *)
(* step and leaves the management call it makes in call["main"]; the       *)
(* handler has returned when the call is NoCall again.  updateByteCount    *)
(* takes two steps, because it tests screen and writes it later without a  *)
(* lock, and leaves its call in call["mgmt"].                              *)
(*                                                                         *)
(* Preferences are read on every broadcast: a screen-off broadcast with    *)
(* "screenoff" unset, a lost network with "netchangereconnect" unset and a *)
(* network that is not yet CONNECTED change no state that is ever read, so *)
(* they are stuttering steps.                                              *)
(***************************************************************************)
EXTENDS Naturals

CONSTANTS
    Nets,       \* network identities: (type, extraInfo) of a NetworkInfo
    NoNet,      \* no network has been connected yet (a null NetworkInfo)
    MaxTimers   \* bound on delayed-disconnect runnables posted at once

ASSUME NetsAssumption == NoNet \notin Nets
ASSUME MaxTimersAssumption == MaxTimers \in Nat \ {0}

VARIABLES
    network, screen, userpause,  \* the three connectState fields
    lastConnectedNetwork,
    timers,     \* posted mDelayDisconnectRunnable instances
    testing,    \* management thread is between test and write of screen
    display,    \* what the last screen broadcast said: "on" or "off"
    call        \* management call each thread is executing

receiverVars == <<network, screen, userpause, lastConnectedNetwork,
                  timers, testing, display>>
vars == <<receiverVars, call>>

SHOULDBECONNECTED == "SHOULDBECONNECTED"
PENDINGDISCONNECT == "PENDINGDISCONNECT"
DISCONNECTED == "DISCONNECTED"
connectState == {SHOULDBECONNECTED, PENDINGDISCONNECT, DISCONNECTED}
pauseReason == {"noNetwork", "userPause", "screenOff"}

Threads == {"main", "mgmt"}
Ops == {"none", "pause", "resume", "networkChange", "sameNetwork", "resumeHold"}
Calls == [op : Ops, reason : pauseReason]

Call(op) == [op |-> op, reason |-> "noNetwork"]
NoCall == Call("none")
PauseCall(reason) == [op |-> "pause", reason |-> reason]

Idle(t) == call[t] = NoCall
Issue(t, c) == call' = [call EXCEPT ![t] = c]

-----------------------------------------------------------------------------
Connected(s, u, n) ==
    s = SHOULDBECONNECTED /\ u = SHOULDBECONNECTED /\ n = SHOULDBECONNECTED

shouldBeConnected == Connected(screen, userpause, network)

getPauseReason(s, u, n) ==
    IF u = DISCONNECTED THEN "userPause"
    ELSE IF s = DISCONNECTED THEN "screenOff"
    ELSE IF n = DISCONNECTED THEN "noNetwork"
    ELSE "userPause"

Init ==
    /\ network = DISCONNECTED
    /\ screen = SHOULDBECONNECTED
    /\ userpause = SHOULDBECONNECTED
    /\ lastConnectedNetwork = NoNet
    /\ timers = 0
    /\ testing = FALSE
    /\ display = "on"
    /\ call = [t \in Threads |-> NoCall]

-----------------------------------------------------------------------------
(* Main looper. *)

\* The user pauses the VPN.
UserPause ==
    /\ Idle("main")
    /\ userpause' = DISCONNECTED
    /\ Issue("main", PauseCall(getPauseReason(screen, DISCONNECTED, network)))
    /\ UNCHANGED <<network, screen, lastConnectedNetwork, timers, testing, display>>

\* Mutant of UserResume: resumes whenever the user had paused.
UserResumeAlways ==
    /\ Idle("main")
    /\ userpause' = SHOULDBECONNECTED
    /\ Issue("main", IF userpause = DISCONNECTED THEN Call("resume")
                     ELSE PauseCall(getPauseReason(screen, SHOULDBECONNECTED, network)))
    /\ UNCHANGED <<network, screen, lastConnectedNetwork, timers, testing, display>>

\* The user resumes it; a resume that changes nothing only renews the reason.
UserResume ==
    /\ Idle("main")
    /\ userpause' = SHOULDBECONNECTED
    /\ LET now == Connected(screen, SHOULDBECONNECTED, network)
           reason == getPauseReason(screen, SHOULDBECONNECTED, network)
       IN  Issue("main", IF now /\ ~shouldBeConnected
                         THEN Call("resume") ELSE PauseCall(reason))
    /\ UNCHANGED <<network, screen, lastConnectedNetwork, timers, testing, display>>

\* Screen-off broadcast with the "screenoff" preference set.
ScreenOff ==
    /\ Idle("main")
    /\ display' = "off"
    /\ screen' = IF network = DISCONNECTED \/ userpause = DISCONNECTED
                 THEN DISCONNECTED ELSE PENDINGDISCONNECT
    /\ UNCHANGED <<network, userpause, lastConnectedNetwork, timers, testing, call>>

\* Mutant of ScreenOnCall: connected is read after screen was set, so it never
\* seems to have changed.
ScreenOnCallLateRead ==
    IF Connected(SHOULDBECONNECTED, userpause, network) THEN NoCall
    ELSE PauseCall(getPauseReason(SHOULDBECONNECTED, userpause, network))

\* Mutant of ScreenOnCall: the update of the reason is left out.
ScreenOnCallNoReason ==
    IF Connected(SHOULDBECONNECTED, userpause, network) # shouldBeConnected
    THEN Call("resume") ELSE NoCall

\* The call a screen-on broadcast makes.
ScreenOnCall ==
    LET now == Connected(SHOULDBECONNECTED, userpause, network)
        reason == getPauseReason(SHOULDBECONNECTED, userpause, network)
    IN  IF now # shouldBeConnected THEN Call("resume")
        ELSE IF ~now THEN PauseCall(reason)
        ELSE NoCall

\* Screen-on broadcast: every posted disconnect timer is removed.
ScreenOn ==
    /\ Idle("main")
    /\ display' = "on"
    /\ screen' = SHOULDBECONNECTED
    /\ timers' = 0
    /\ Issue("main", ScreenOnCall)
    /\ UNCHANGED <<network, userpause, lastConnectedNetwork, testing>>

\* Connectivity broadcast, network n is CONNECTED: it is the network that was
\* lost less than DISCONNECT_WAIT ago, the connection is still established.
SameNetworkBack(n) ==
    /\ Idle("main")
    /\ network = PENDINGDISCONNECT
    /\ lastConnectedNetwork = n
    /\ network' = SHOULDBECONNECTED
    /\ timers' = 0
    /\ Issue("main", Call("sameNetwork"))
    /\ UNCHANGED <<screen, userpause, lastConnectedNetwork, testing, display>>

\* Connectivity broadcast, network n is CONNECTED: a different network, or the
\* connection is not established any more.
OtherNetwork(n) ==
    /\ Idle("main")
    /\ ~(network = PENDINGDISCONNECT /\ lastConnectedNetwork = n)
    /\ network' = SHOULDBECONNECTED
    /\ screen' = IF screen = PENDINGDISCONNECT THEN DISCONNECTED ELSE screen
    /\ IF Connected(screen', userpause, SHOULDBECONNECTED)
       THEN /\ timers' = 0
            /\ Issue("main", Call(IF lastConnectedNetwork # n
                                  THEN "networkChange" ELSE "resume"))
       ELSE UNCHANGED <<timers, call>>
    /\ lastConnectedNetwork' = n
    /\ UNCHANGED <<userpause, testing, display>>

\* Connectivity broadcast without an active network ("netchangereconnect" set).
NetworkLost ==
    /\ Idle("main")
    /\ timers < MaxTimers
    /\ network' = PENDINGDISCONNECT
    /\ timers' = timers + 1
    /\ UNCHANGED <<screen, userpause, lastConnectedNetwork, testing, display, call>>

\* mDelayDisconnectRunnable runs DISCONNECT_WAIT after a lost network.
DelayDisconnect ==
    /\ Idle("main")
    /\ timers > 0
    /\ timers' = timers - 1
    /\ IF network = PENDINGDISCONNECT
       THEN /\ network' = DISCONNECTED
            /\ screen' = IF screen = PENDINGDISCONNECT THEN DISCONNECTED ELSE screen
            /\ Issue("main", PauseCall(getPauseReason(screen', userpause, DISCONNECTED)))
       ELSE UNCHANGED <<network, screen, call>>
    /\ UNCHANGED <<userpause, lastConnectedNetwork, testing, display>>

-----------------------------------------------------------------------------
(* Management thread: updateByteCount. *)

\* The test of screen that guards the traffic-window sum.
ByteCountTest ==
    /\ Idle("mgmt")
    /\ ~testing
    /\ screen = PENDINGDISCONNECT
    /\ testing' = TRUE
    /\ UNCHANGED <<network, screen, userpause, lastConnectedNetwork, timers, display, call>>

\* The window holds less than TRAFFIC_LIMIT: pause.  Otherwise nothing.
ByteCountDecide(low) ==
    /\ testing
    /\ testing' = FALSE
    /\ IF low
       THEN /\ screen' = DISCONNECTED
            /\ Issue("mgmt", PauseCall(getPauseReason(DISCONNECTED, userpause, network)))
       ELSE UNCHANGED <<screen, call>>
    /\ UNCHANGED <<network, userpause, lastConnectedNetwork, timers, display>>

-----------------------------------------------------------------------------
NetworkEvent == \/ \E n \in Nets : SameNetworkBack(n) \/ OtherNetwork(n)
                \/ NetworkLost \/ DelayDisconnect
ScreenEvent == ScreenOff \/ ScreenOn
UserEvent == UserPause \/ UserResume
ByteCountEvent == ByteCountTest \/ \E low \in BOOLEAN : ByteCountDecide(low)
ReceiverEvent == NetworkEvent \/ ScreenEvent \/ UserEvent \/ ByteCountEvent

\* The receiver on its own: the management call returns at some point.
Return(t) ==
    /\ ~Idle(t)
    /\ Issue(t, NoCall)
    /\ UNCHANGED receiverVars

Next == ReceiverEvent \/ \E t \in Threads : Return(t)
Spec == Init /\ [][Next]_vars

-----------------------------------------------------------------------------
TypeOK ==
    /\ network \in connectState
    /\ screen \in connectState
    /\ userpause \in {SHOULDBECONNECTED, DISCONNECTED}
    /\ lastConnectedNetwork \in Nets \cup {NoNet}
    /\ timers \in 0..MaxTimers
    /\ testing \in BOOLEAN
    /\ display \in {"on", "off"}
    /\ call \in [Threads -> Calls]

\* onReceive, userPause and networkStateChange each have their own test for
\* "should be connected has changed ... connect the VPN".  Whichever handler
\* makes the VPN wanted again must also be the one that tells the management
\* interface: nobody else will.
WakeupIssued ==
    [][(~shouldBeConnected /\ shouldBeConnected') =>
          call'["main"].op \in {"resume", "networkChange", "sameNetwork"}]_vars

\* resume() is called only by a handler that leaves the VPN wanted: a user,
\* screen or network event never resumes while another of the three pauses.
ResumeOnlyWhenWanted ==
    [][(Idle("main") /\ call'["main"].op = "resume") => shouldBeConnected']_vars

\* While a screen-on broadcast is the last one delivered, the VPN is not paused
\* for screen off (line 120: "should be connected has changed because the
\* screen is on now, connect the VPN").
ScreenOnNotPaused == display = "on" => screen # DISCONNECTED
=============================================================================
