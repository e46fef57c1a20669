------------------------ MODULE CrashGenerationServer ------------------------
(***************************************************************************)
(* Out-of-process dumps on Windows (client/windows/crash_generation): the  *)
(* server's pipe state machine, its callbacks on pool threads, its         *)
(* destructor, and the clients that register and ask for dumps.            *)
(*                                                                         *)
(* OnPipeConnected runs on a wait thread, OnDumpRequest once at a time for *)
(* each client, OnClientEnd on a worker thread, the destructor on the      *)
(* owner's thread.  sync_ protects clients_ and shutting_down_; a critical *)
(* section is one step.  There is one pipe instance, so one client         *)
(* registers at a time.  The pipe, the events and the waits are Windows'   *)
(* (external).                                                             *)
(***************************************************************************)
EXTENDS Naturals

CONSTANTS
    Clients,
    None,
    MaxRequests,      \* bound on the RequestDump calls of each client
    WaitsStartLate    \* external: a wait that a wait-thread callback registers
                      \* is served only after the callback has returned

ASSUME NoneAssumption == None \notin Clients
ASSUME MaxRequestsAssumption == MaxRequests \in [Clients -> Nat]
ASSUME WaitsAssumption == WaitsStartLate \in BOOLEAN

VARIABLES
    server_state_,
    shutting_down_,
    event,            \* overlapped_.hEvent is signaled
    io, result,       \* the pending overlapped operation; how the last one ended
    msg_,
    client_info_,
    clients_,
    connected,        \* clients connect_callback_ was called for
    pipe,             \* "free", "connected" or "disconnected"
    peer, peerOpen,   \* the client at the pipe; its end is still open
    inbox, reply,     \* the message to the server; the reply is in the pipe
    worker,           \* what the wait thread is doing in OnPipeConnected
    info,             \* each client's ClientInfo: "none", "live" or "deleted"
    dumpWait, exitWait, \* its waits: "none" or "registered"
    dump_requested, dump_generated,
    dumping,          \* OnDumpRequest of a client
    ending,           \* OnClientEnd of a client
    client,           \* where each client process is
    requests,         \* RequestDump calls made
    owner             \* the thread that starts and destroys the server

pipeVars == <<event, io, result, pipe, peer, peerOpen, inbox, reply>>
infoVars == <<info, dumpWait, exitWait, clients_>>
requestVars == <<dump_requested, dump_generated, requests>>
vars == <<server_state_, shutting_down_, msg_, client_info_, worker, dumping,
          ending, client, owner, connected, pipeVars, infoVars, requestVars>>

States == {"UNINITIALIZED", "ERROR", "INITIAL", "CONNECTING", "CONNECTED", "READING",
           "READ_DONE", "WRITING", "WRITE_DONE", "READING_ACK", "DISCONNECTING"}
ProtocolMessage == {"REGISTRATION_REQUEST", "REGISTRATION_ACK", "UPLOAD_REQUEST", "invalid"}

Init ==
    /\ server_state_ = "UNINITIALIZED"
    /\ shutting_down_ = FALSE
    /\ event = FALSE
    /\ io = "none" /\ result = "ok"
    /\ msg_ = "invalid"
    /\ client_info_ = None
    /\ clients_ = {}
    /\ connected = {}
    /\ pipe = "disconnected" /\ peer = None /\ peerOpen = FALSE
    /\ inbox = {} /\ reply = FALSE
    /\ worker = "idle"
    /\ info = [c \in Clients |-> "none"]
    /\ dumpWait = [c \in Clients |-> "none"]
    /\ exitWait = [c \in Clients |-> "none"]
    /\ dump_requested = [c \in Clients |-> FALSE]
    /\ dump_generated = [c \in Clients |-> FALSE]
    /\ dumping = [c \in Clients |-> "no"]
    /\ ending = [c \in Clients |-> "no"]
    /\ client = [c \in Clients |-> "new"]
    /\ requests = [c \in Clients |-> 0]
    /\ owner = "new"

-----------------------------------------------------------------------------
(* OnPipeConnected on the wait thread. *)

EnterStateImmediately(state) == server_state_' = state /\ event' = TRUE
EnterStateWhenSignaled(state) == server_state_' = state
EnterErrorState == EnterStateImmediately("ERROR")

\* An overlapped operation is issued: it resets the event.
Issue(operation) == io' = operation /\ event' = FALSE /\ UNCHANGED result
NoIo == UNCHANGED <<io, result>>

\* DisconnectNamedPipe: a pending operation fails at once.
CutPipe ==
    /\ pipe' = "disconnected" /\ peer' = None /\ peerOpen' = FALSE
    /\ inbox' = {} /\ reply' = FALSE
    /\ io' = "none"
    /\ result' = IF io = "none" THEN result ELSE "failed"

\* The client's end is gone and left nothing to read.
Broken == pipe # "connected" \/ (~peerOpen /\ inbox = {})

\* HandleConnectionRequest: the event is signaled.
HandleConnectionRequest ==
    /\ worker = "idle" /\ event /\ owner \in {"started", "flagged", "waiting"}
    /\ IF shutting_down_
       THEN /\ server_state_' = "ERROR"
            /\ event' = FALSE
            /\ UNCHANGED worker
       ELSE worker' = "handler" /\ UNCHANGED <<server_state_, event>>
    /\ UNCHANGED <<shutting_down_, msg_, client_info_, dumping, ending, client, owner, connected,
                   io, result, pipe, peer, peerOpen, inbox, reply, infoVars, requestVars>>

Handling(state) == worker = "handler" /\ server_state_ = state

\* A client that has connected and gone before ConnectNamedPipe is an error.
HandleInitialState ==
    /\ Handling("INITIAL")
    /\ worker' = "idle"
    /\ IF pipe = "connected"
       THEN /\ IF peerOpen THEN EnterStateImmediately("CONNECTED") ELSE EnterErrorState
            /\ NoIo
            /\ UNCHANGED pipe
       ELSE EnterStateWhenSignaled("CONNECTING") /\ Issue("connect") /\ pipe' = "free"
    /\ UNCHANGED <<shutting_down_, msg_, client_info_, dumping, ending, client, owner, connected,
                   peer, peerOpen, inbox, reply, infoVars, requestVars>>

\* The states that only look at how the last operation ended.
HandleResult(state, next) ==
    /\ Handling(state)
    /\ worker' = "idle"
    /\ EnterStateImmediately(IF result = "ok" THEN next ELSE "DISCONNECTING")
    /\ NoIo
    /\ UNCHANGED <<shutting_down_, msg_, client_info_, dumping, ending, client, owner, connected,
                   pipe, peer, peerOpen, inbox, reply, infoVars, requestVars>>

HandleConnectingState == HandleResult("CONNECTING", "CONNECTED")
HandleReadingState == HandleResult("READING", "READ_DONE")
HandleWritingState == HandleResult("WRITING", "WRITE_DONE")

\* Mutant of HandleRead: the state is entered at once when the read is pending.
HandleReadUnsignaled(state, next) ==
    /\ Handling(state)
    /\ worker' = "idle"
    /\ IF Broken THEN server_state_' = "DISCONNECTING" /\ event' = FALSE /\ NoIo
       ELSE EnterStateWhenSignaled(next) /\ Issue("read")
    /\ UNCHANGED <<shutting_down_, msg_, client_info_, dumping, ending, client, owner, connected,
                   pipe, peer, peerOpen, inbox, reply, infoVars, requestVars>>

\* The states that issue a read.
HandleRead(state, next) ==
    /\ Handling(state)
    /\ worker' = "idle"
    /\ IF Broken THEN EnterStateImmediately("DISCONNECTING") /\ NoIo
       ELSE EnterStateWhenSignaled(next) /\ Issue("read")
    /\ UNCHANGED <<shutting_down_, msg_, client_info_, dumping, ending, client, owner, connected,
                   pipe, peer, peerOpen, inbox, reply, infoVars, requestVars>>

HandleConnectedState == HandleRead("CONNECTED", "READING")
HandleWriteDoneState == HandleRead("WRITE_DONE", "READING_ACK")

\* HandleReadDoneState without a new client: an invalid or upload request, or
\* Initialize or the reply failed and the ClientInfo is gone again.
HandleOtherRequest ==
    /\ Handling("READ_DONE")
    /\ worker' = "idle"
    /\ EnterStateImmediately("DISCONNECTING")
    /\ UNCHANGED <<shutting_down_, msg_, client_info_, dumping, ending, client, owner, connected,
                   io, result, pipe, peer, peerOpen, inbox, reply, infoVars, requestVars>>

\* HandleReadDoneState and RespondToClient up to the first wait of AddClient.
\* The reply is on its way before the waits exist.
RespondToClient ==
    /\ Handling("READ_DONE")
    /\ msg_ = "REGISTRATION_REQUEST"
    /\ ~Broken
    /\ client[peer] # "dead"
    /\ info' = [info EXCEPT ![peer] = "live"]
    /\ Issue("write")
    /\ dumpWait' = [dumpWait EXCEPT ![peer] = "registered"]
    /\ client_info_' = peer
    /\ worker' = "addDump"
    /\ UNCHANGED <<server_state_, shutting_down_, msg_, dumping, ending, client, owner, connected,
                   pipe, peer, peerOpen, inbox, reply, exitWait, clients_, requestVars>>

AddExitWait ==
    /\ worker = "addDump"
    /\ exitWait' = [exitWait EXCEPT ![client_info_] = "registered"]
    /\ worker' = "addExit"
    /\ UNCHANGED <<server_state_, shutting_down_, msg_, client_info_, dumping, ending,
                   client, owner, connected, pipeVars, info, dumpWait, clients_, requestVars>>

\* The end of AddClient, under sync_, and of HandleReadDoneState.
AddClient ==
    /\ worker = "addExit"
    /\ ~shutting_down_
    /\ clients_' = clients_ \cup {client_info_}
    /\ EnterStateWhenSignaled("WRITING")
    /\ worker' = "idle"
    /\ UNCHANGED <<shutting_down_, msg_, client_info_, dumping, ending, client, owner, connected,
                   pipeVars, info, dumpWait, exitWait, requestVars>>

\* A wait cannot be registered, or the server shuts down: the scoped_ptr deletes
\* the ClientInfo, whose destructor waits for its callbacks.
DropClient ==
    /\ worker = "addDump" \/ (worker = "addExit" /\ shutting_down_)
    /\ dumping[client_info_] = "no"
    /\ ending[client_info_] \in {"no", "returned", "done"}
    /\ info' = [info EXCEPT ![client_info_] = "deleted"]
    /\ dumpWait' = [dumpWait EXCEPT ![client_info_] = "none"]
    /\ exitWait' = [exitWait EXCEPT ![client_info_] = "none"]
    /\ client_info_' = None
    /\ EnterStateImmediately("DISCONNECTING")
    /\ worker' = "idle"
    /\ UNCHANGED <<shutting_down_, msg_, dumping, ending, client, owner, connected,
                   io, result, pipe, peer, peerOpen, inbox, reply, clients_, requestVars>>

\* The handshake is complete.  sync_ is held while the callback runs.
HandleReadingAckState ==
    /\ Handling("READING_ACK")
    /\ worker' = "idle"
    /\ connected' = IF result = "ok" /\ client_info_ \in clients_
                    THEN connected \cup {client_info_} ELSE connected
    /\ EnterStateImmediately("DISCONNECTING")
    /\ UNCHANGED <<shutting_down_, msg_, client_info_, dumping, ending, client, owner,
                   io, result, pipe, peer, peerOpen, inbox, reply, infoVars, requestVars>>

\* Disconnecting fails only when the destructor has disconnected the pipe.
HandleDisconnectingState ==
    /\ Handling("DISCONNECTING")
    /\ worker' = "idle"
    /\ client_info_' = None
    /\ IF pipe = "disconnected" THEN EnterErrorState
       ELSE IF shutting_down_ THEN event' = (io # "none") /\ UNCHANGED server_state_
       ELSE EnterStateImmediately("INITIAL")
    /\ CutPipe
    /\ UNCHANGED <<shutting_down_, msg_, dumping, ending, client, owner, connected,
                   infoVars, requestVars>>

\* The pipe and its wait are given up for good.
HandleErrorState ==
    /\ Handling("ERROR")
    /\ worker' = "idle"
    /\ IF shutting_down_ THEN UNCHANGED pipeVars ELSE event' = FALSE /\ CutPipe
    /\ UNCHANGED <<server_state_, shutting_down_, msg_, client_info_, dumping, ending,
                   client, owner, connected, infoVars, requestVars>>

-----------------------------------------------------------------------------
(* OnDumpRequest and OnClientEnd. *)

\* A wait is served, unless the pool still runs the callback that registered it.
Served(c) == WaitsStartLate => ~(worker \in {"addDump", "addExit"} /\ client_info_ = c)

Dumping(c, from, to) == dumping[c] = from /\ dumping' = [dumping EXCEPT ![c] = to]

OnDumpRequest(c) ==
    /\ Dumping(c, "no", "dumping")
    /\ dumpWait[c] = "registered" /\ dump_requested[c] /\ Served(c)
    /\ UNCHANGED <<server_state_, shutting_down_, msg_, client_info_, worker, ending,
                   client, owner, connected, pipeVars, infoVars, requestVars>>

\* Mutant of HandleDumpRequest: a dump that fails is not answered.
HandleDumpRequestIfWritten(c) ==
    /\ Dumping(c, "dumping", "answered")
    /\ dump_generated' \in {dump_generated, [dump_generated EXCEPT ![c] = TRUE]}
    /\ UNCHANGED <<server_state_, shutting_down_, msg_, client_info_, worker, ending,
                   client, owner, connected, pipeVars, infoVars, dump_requested, requests>>

\* The dump is written, or fails; the client is answered either way.
HandleDumpRequest(c) ==
    /\ Dumping(c, "dumping", "answered")
    /\ dump_generated' = [dump_generated EXCEPT ![c] = TRUE]
    /\ UNCHANGED <<server_state_, shutting_down_, msg_, client_info_, worker, ending,
                   client, owner, connected, pipeVars, infoVars, dump_requested, requests>>

\* The ResetEvent that ends OnDumpRequest.
ResetDumpRequested(c) ==
    /\ Dumping(c, "answered", "no")
    /\ dump_requested' = [dump_requested EXCEPT ![c] = FALSE]
    /\ UNCHANGED <<server_state_, shutting_down_, msg_, client_info_, worker, ending,
                   client, owner, connected, pipeVars, infoVars, dump_generated, requests>>

Ending(c, from, to) == ending[c] = from /\ ending' = [ending EXCEPT ![c] = to]

OnClientEnd(c) ==
    /\ Ending(c, "no", "started")
    /\ exitWait[c] = "registered" /\ client[c] = "dead" /\ Served(c)
    /\ UNCHANGED <<server_state_, shutting_down_, msg_, client_info_, worker, dumping,
                   client, owner, connected, pipeVars, infoVars, requestVars>>

\* Mutant of ExitCallback: running dump requests are not waited for.
ExitCallbackAtOnce(c) ==
    /\ Ending(c, "started", "exited")
    /\ dumpWait' = [dumpWait EXCEPT ![c] = "none"]
    /\ UNCHANGED <<server_state_, shutting_down_, msg_, client_info_, worker, dumping,
                   client, owner, connected, pipeVars, info, exitWait, clients_, requestVars>>

\* The blocking unregistration of the dump wait, then exit_callback_.
ExitCallback(c) ==
    /\ Ending(c, "started", "exited")
    /\ dumping[c] = "no"
    /\ dumpWait' = [dumpWait EXCEPT ![c] = "none"]
    /\ UNCHANGED <<server_state_, shutting_down_, msg_, client_info_, worker, dumping,
                   client, owner, connected, pipeVars, info, exitWait, clients_, requestVars>>

\* Mutant of RemoveClient: the client stays listed.
RemoveClientForgotten(c) ==
    /\ Ending(c, "exited", IF shutting_down_ THEN "returned" ELSE "removed")
    /\ UNCHANGED <<server_state_, shutting_down_, msg_, client_info_, worker, dumping,
                   client, owner, connected, pipeVars, infoVars, requestVars>>

\* Mutant of RemoveClient: the destructor keeps sync_ until it ends.
RemoveClientUnlessLocked(c) ==
    /\ owner = "started"
    /\ Ending(c, "exited", "removed")
    /\ clients_' = clients_ \ {c}
    /\ UNCHANGED <<server_state_, shutting_down_, msg_, client_info_, worker, dumping,
                   client, owner, connected, pipeVars, info, dumpWait, exitWait, requestVars>>

\* The critical section of HandleClientProcessExit.
RemoveClient(c) ==
    /\ Ending(c, "exited", IF shutting_down_ THEN "returned" ELSE "removed")
    /\ clients_' = IF shutting_down_ THEN clients_ ELSE clients_ \ {c}
    /\ UNCHANGED <<server_state_, shutting_down_, msg_, client_info_, worker, dumping,
                   client, owner, connected, pipeVars, info, dumpWait, exitWait, requestVars>>

\* UnregisterProcessExitWait(false) and delete.
DeleteClient(c) ==
    /\ Ending(c, "removed", "done")
    /\ exitWait' = [exitWait EXCEPT ![c] = "none"]
    /\ info' = [info EXCEPT ![c] = "deleted"]
    /\ UNCHANGED <<server_state_, shutting_down_, msg_, client_info_, worker, dumping,
                   client, owner, connected, pipeVars, dumpWait, clients_, requestVars>>

-----------------------------------------------------------------------------
(* The owner's thread. *)

\* A Start that fails leaves the state INITIAL and no event.
Start ==
    /\ owner = "new"
    /\ owner' = "started"
    /\ server_state_' = "INITIAL"
    /\ \/ event' = TRUE /\ pipe' = "free"
       \/ UNCHANGED <<event, pipe>>
    /\ UNCHANGED <<shutting_down_, msg_, client_info_, worker, dumping, ending, client,
                   connected, io, result, peer, peerOpen, inbox, reply, infoVars, requestVars>>

ShutDown ==
    /\ owner = "started"
    /\ owner' = "flagged"
    /\ shutting_down_' = TRUE
    /\ UNCHANGED <<server_state_, msg_, client_info_, worker, dumping, ending, client,
                   connected, pipeVars, infoVars, requestVars>>

Disconnect ==
    /\ owner = "flagged"
    /\ owner' = "waiting"
    /\ event' = (event \/ io # "none")
    /\ CutPipe
    /\ UNCHANGED <<server_state_, shutting_down_, msg_, client_info_, worker, dumping,
                   ending, client, connected, infoVars, requestVars>>

\* Mutant of UnregisterPipeWait: nobody waits for ERROR.
UnregisterPipeWaitUnseen ==
    /\ owner = "waiting"
    /\ worker = "idle"
    /\ owner' = "closing"
    /\ UNCHANGED <<server_state_, shutting_down_, msg_, client_info_, worker, dumping,
                   ending, client, connected, pipeVars, infoVars, requestVars>>

\* The loop sees ERROR, or a second has passed; then the blocking unregistration
\* of the pipe wait.
UnregisterPipeWait ==
    /\ owner = "waiting"
    /\ worker = "idle"
    /\ owner' = IF server_state_ = "ERROR" THEN "closing" ELSE "timedOut"
    /\ UNCHANGED <<server_state_, shutting_down_, msg_, client_info_, worker, dumping,
                   ending, client, connected, pipeVars, infoVars, requestVars>>

ClosePipe ==
    /\ owner \in {"closing", "timedOut"}
    /\ owner' = "clients"
    /\ io' = "none"
    /\ UNCHANGED <<server_state_, shutting_down_, msg_, client_info_, worker, dumping,
                   ending, client, connected, event, result, pipe, peer, peerOpen, inbox,
                   reply, infoVars, requestVars>>

\* UnregisterProcessExitWait(true) on a listed client.
UnregisterExitWait(c) ==
    /\ owner = "clients" /\ c \in clients_
    /\ exitWait[c] = "registered"
    /\ ending[c] \in {"no", "returned"}
    /\ exitWait' = [exitWait EXCEPT ![c] = "none"]
    /\ UNCHANGED <<server_state_, shutting_down_, msg_, client_info_, worker, dumping,
                   ending, client, owner, connected, pipeVars, info, dumpWait, clients_,
                   requestVars>>

\* Mutant of FreeClient: a running OnDumpRequest is not waited for.
FreeClientAtOnce(c) ==
    /\ owner = "clients" /\ c \in clients_
    /\ exitWait[c] = "none"
    /\ dumpWait' = [dumpWait EXCEPT ![c] = "none"]
    /\ info' = [info EXCEPT ![c] = "deleted"]
    /\ clients_' = clients_ \ {c}
    /\ UNCHANGED <<server_state_, shutting_down_, msg_, client_info_, worker, dumping,
                   ending, client, owner, connected, pipeVars, exitWait, requestVars>>

\* The blocking unregistration of its dump wait, and delete.
FreeClient(c) ==
    /\ owner = "clients" /\ c \in clients_
    /\ exitWait[c] = "none"
    /\ dumping[c] = "no"
    /\ dumpWait' = [dumpWait EXCEPT ![c] = "none"]
    /\ info' = [info EXCEPT ![c] = "deleted"]
    /\ clients_' = clients_ \ {c}
    /\ UNCHANGED <<server_state_, shutting_down_, msg_, client_info_, worker, dumping,
                   ending, client, owner, connected, pipeVars, exitWait, requestVars>>

\* The rest of the destructor: the server-alive mutex is released.
Destroyed ==
    /\ owner = "clients" /\ clients_ = {}
    /\ owner' = "done"
    /\ UNCHANGED <<server_state_, shutting_down_, msg_, client_info_, worker, dumping,
                   ending, client, connected, pipeVars, infoVars, requestVars>>

-----------------------------------------------------------------------------
(* Overlapped I/O (external). *)

Completes(how) == io' = "none" /\ result' = how /\ event' = TRUE

ReadCompletes ==
    /\ io = "read"
    /\ \/ inbox # {} /\ inbox' = {} /\ msg_' \in inbox /\ Completes("ok")
       \/ Broken /\ Completes("failed") /\ UNCHANGED <<inbox, msg_>>
    /\ UNCHANGED <<server_state_, shutting_down_, client_info_, worker, dumping, ending,
                   client, owner, connected, pipe, peer, peerOpen, reply, infoVars, requestVars>>

WriteCompletes ==
    /\ io = "write"
    /\ reply' = (pipe = "connected" /\ peerOpen)
    /\ Completes(IF reply' THEN "ok" ELSE "failed")
    /\ UNCHANGED <<server_state_, shutting_down_, msg_, client_info_, worker, dumping,
                   ending, client, owner, connected, pipe, peer, peerOpen, inbox, infoVars,
                   requestVars>>

-----------------------------------------------------------------------------
(* CrashGenerationClient in each client process. *)

AtClient(c, from, to) == client[c] = from /\ client' = [client EXCEPT ![c] = to]
Connected(c) == pipe = "connected" /\ peer = c
serverVars == <<server_state_, shutting_down_, msg_, client_info_, worker, dumping,
                ending, owner, connected, infoVars>>

\* ConnectToPipe: the instance is listening.
ConnectToPipe(c) ==
    /\ AtClient(c, "new", "connected")
    /\ pipe = "free"
    /\ pipe' = "connected" /\ peer' = c /\ peerOpen' = TRUE
    /\ IF io = "connect" THEN Completes("ok") ELSE UNCHANGED <<io, result, event>>
    /\ UNCHANGED <<inbox, reply, serverVars, requestVars>>

\* RegisterClient up to the reply.
SendRegistration(c) ==
    /\ AtClient(c, "connected", "registering")
    /\ Connected(c)
    /\ inbox' = {"REGISTRATION_REQUEST"}
    /\ UNCHANGED <<event, io, result, pipe, peer, peerOpen, reply, serverVars, requestVars>>

RequestUpload(c) ==
    /\ AtClient(c, "connected", "unregistered")
    /\ Connected(c)
    /\ inbox' = {"UPLOAD_REQUEST"}
    /\ peerOpen' = FALSE
    /\ UNCHANGED <<event, io, result, pipe, peer, reply, serverVars, requestVars>>

\* The reply arrives; the acknowledgement is sent and the pipe closed.
Acknowledge(c) ==
    /\ AtClient(c, "registering", "registered")
    /\ Connected(c) /\ reply
    /\ reply' = FALSE
    /\ inbox' = {"REGISTRATION_ACK"}
    /\ peerOpen' = FALSE
    /\ UNCHANGED <<event, io, result, pipe, peer, serverVars, requestVars>>

\* The transaction fails: the server has disconnected the pipe.
RegistrationFails(c) ==
    /\ client[c] \in {"connected", "registering"}
    /\ ~Connected(c)
    /\ client' = [client EXCEPT ![c] = "unregistered"]
    /\ UNCHANGED <<pipeVars, serverVars, requestVars>>

\* RequestDump up to the wait.
RequestDump(c) ==
    /\ AtClient(c, "registered", "waiting")
    /\ requests[c] < MaxRequests[c]
    /\ requests' = [requests EXCEPT ![c] = @ + 1]
    /\ dump_generated' = [dump_generated EXCEPT ![c] = FALSE]
    /\ dump_requested' = [dump_requested EXCEPT ![c] = TRUE]
    /\ UNCHANGED <<pipeVars, serverVars>>

\* The wait ends: answered, timed out, or the server is gone.
WaitEnds(c) ==
    /\ AtClient(c, "waiting", "registered")
    /\ UNCHANGED <<pipeVars, serverVars, requestVars>>

ClientDies(c) ==
    /\ client[c] \notin {"new", "dead"}
    /\ client' = [client EXCEPT ![c] = "dead"]
    /\ peerOpen' = (peerOpen /\ peer # c)
    /\ UNCHANGED <<event, io, result, pipe, peer, inbox, reply, serverVars, requestVars>>

-----------------------------------------------------------------------------
Handler ==
    \/ HandleInitialState \/ HandleConnectingState \/ HandleConnectedState
    \/ HandleReadingState \/ HandleOtherRequest \/ RespondToClient
    \/ HandleWritingState \/ HandleWriteDoneState \/ HandleReadingAckState
    \/ HandleDisconnectingState \/ HandleErrorState
WaitThread == HandleConnectionRequest \/ Handler \/ AddExitWait \/ AddClient \/ DropClient
Callback(c) ==
    \/ OnDumpRequest(c) \/ HandleDumpRequest(c) \/ ResetDumpRequested(c)
    \/ OnClientEnd(c) \/ ExitCallback(c) \/ RemoveClient(c) \/ DeleteClient(c)
Destructor ==
    \/ Disconnect \/ UnregisterPipeWait \/ ClosePipe \/ Destroyed
    \/ \E c \in Clients : UnregisterExitWait(c) \/ FreeClient(c)
Overlapped == ReadCompletes \/ WriteCompletes
Registering(c) ==
    SendRegistration(c) \/ RequestUpload(c) \/ Acknowledge(c) \/ RegistrationFails(c)

Next ==
    \/ Start \/ ShutDown \/ Destructor \/ WaitThread \/ Overlapped
    \/ \E c \in Clients :
        \/ Callback(c) \/ Registering(c)
        \/ ConnectToPipe(c) \/ RequestDump(c) \/ WaitEnds(c) \/ ClientDies(c)

Spec == Init /\ [][Next]_vars

\* Threads and I/O go on; a client that has connected finishes its registration.
\* Nobody has to connect, to ask for a dump, to time out or to die.
Fairness ==
    /\ WF_vars(WaitThread) /\ WF_vars(Overlapped) /\ WF_vars(Destructor)
    /\ \A c \in Clients : WF_vars(Registering(c))
    /\ \A c \in Clients : WF_vars(OnDumpRequest(c) \/ HandleDumpRequest(c))
    /\ \A c \in Clients : WF_vars(Callback(c))

FairSpec == Spec /\ Fairness

-----------------------------------------------------------------------------
FlagsOK ==
    /\ shutting_down_ \in BOOLEAN /\ event \in BOOLEAN
    /\ peerOpen \in BOOLEAN /\ reply \in BOOLEAN

TypeOK ==
    /\ FlagsOK
    /\ server_state_ \in States
    /\ io \in {"none", "connect", "read", "write"}
    /\ result \in {"ok", "failed"}
    /\ msg_ \in ProtocolMessage
    /\ client_info_ \in Clients \cup {None}
    /\ clients_ \subseteq Clients /\ connected \subseteq Clients
    /\ pipe \in {"free", "connected", "disconnected"}
    /\ peer \in Clients \cup {None}
    /\ inbox \subseteq ProtocolMessage
    /\ worker \in {"idle", "handler", "addDump", "addExit"}
    /\ worker \in {"addDump", "addExit"} => client_info_ \in Clients
    /\ info \in [Clients -> {"none", "live", "deleted"}]
    /\ dumpWait \in [Clients -> {"none", "registered"}]
    /\ exitWait \in [Clients -> {"none", "registered"}]
    /\ dump_requested \in [Clients -> BOOLEAN]
    /\ dump_generated \in [Clients -> BOOLEAN]
    /\ dumping \in [Clients -> {"no", "dumping", "answered"}]
    /\ ending \in [Clients -> {"no", "started", "exited", "removed", "returned", "done"}]
    /\ client \in [Clients -> {"new", "connected", "registering", "registered",
                               "waiting", "unregistered", "dead"}]
    /\ requests \in [Clients -> Nat]
    /\ owner \in {"new", "started", "flagged", "waiting", "closing", "timedOut",
                  "clients", "done"}

\* "as long as it is referenced by the clients_ list it is guaranteed to be
\* valid": a ClientInfo that is listed, or that a callback has been given, is not
\* deleted, whichever of OnClientEnd, AddClient and the destructor comes first.
InUse(c) == dumping[c] # "no" \/ ending[c] \in {"started", "exited", "removed"}
InfoIsValid == \A c \in Clients : c \in clients_ \/ InUse(c) => info[c] = "live"

\* exit_callback_ comes after the last dump of the client.
ExitAfterDumps ==
    \A c \in Clients : ending[c] \in {"exited", "removed", "done"} => dumping[c] = "no"

\* OnClientEnd and the destructor never unregister the dump wait of a client at
\* the same time: "such a race ... is undesirable".
NoUnregisterRace ==
    \A c \in clients_ : owner = "clients" /\ exitWait[c] = "none" => ending[c] # "started"

\* "wait for the server to get into error state so that the pending I/O will
\* fail and get cleared": when the destructor has seen ERROR, no I/O is pending
\* that "may write to invalid memory" later.
NoLateIo == owner = "closing" => io = "none"

\* No callback uses the server after its destructor, and every ClientInfo is
\* deleted, or about to be by an OnClientEnd that no longer needs the server.
ServerOutlivesCallbacks ==
    owner = "done" =>
        \A c \in Clients :
            /\ dumping[c] = "no"
            /\ ending[c] \notin {"started", "exited"}
            /\ info[c] = "live" => ending[c] = "removed"

\* A registered client that asks for a dump is answered without its timeout.
RequestAnswered ==
    \A c \in Clients :
        (client[c] = "waiting" /\ info[c] = "live") ~>
            (dump_generated[c] \/ client[c] # "waiting" \/ info[c] # "live" \/ shutting_down_)

\* The one pipe instance is free for the next client in the end.
NextClientServed ==
    server_state_ \notin {"UNINITIALIZED", "INITIAL"} ~>
        (io = "connect" \/ server_state_ = "ERROR" \/ shutting_down_)

\* The destructor ends: no callback waits for what it waits for.
DestructorEnds == owner = "flagged" ~> owner = "done"
=============================================================================
