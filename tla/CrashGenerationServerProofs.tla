--------------------- MODULE CrashGenerationServerProofs ---------------------
(***************************************************************************)
(* Proofs about CrashGenerationServer, for any clients and any number of   *)
(* dump requests, under WaitsStartLate.                                    *)
(*                                                                         *)
(* Neither InfoIsValid nor ServerOutlivesCallbacks is inductive.  Both     *)
(* follow a ClientInfo through its life: it is made once (MadeOnce), the   *)
(* wait thread alone has it until it is listed (AddedIsFresh), a wait that *)
(* is registered or served keeps it (WaitsKeepInfo), and it is deleted by  *)
(* whoever takes it off the list (ListKeepsInfo, EndingIsOrdered).         *)
(***************************************************************************)
EXTENDS CrashGenerationServer, TLAPS

Adding(c) == worker \in {"addDump", "addExit"} /\ client_info_ = c

\* The states of a connection whose registration has been answered.
Answered == {"WRITING", "WRITE_DONE", "READING_ACK", "DISCONNECTING", "ERROR"}

\* A connected pipe has its client at the other end, and that client is known.
PipeHasPeer ==
    /\ pipe = "connected" => peer \in Clients
    /\ \A c \in Clients : peer = c => client[c] # "new"

\* A client is registered once: its connection is not read again.
MadeOnce(c) ==
    /\ info[c] = "none" => /\ dumpWait[c] = "none" /\ exitWait[c] = "none"
                           /\ dumping[c] = "no" /\ ending[c] = "no"
                           /\ c \notin clients_ /\ ~Adding(c)
    /\ info[c] # "none" => client[c] # "new"
    /\ info[c] # "none" /\ peer = c => Adding(c) \/ server_state_ \in Answered

\* While AddClient runs, nobody else has the ClientInfo.
AddedIsFresh(c) ==
    Adding(c) => /\ info[c] = "live" /\ c \notin clients_
                 /\ dumping[c] = "no" /\ ending[c] = "no"
                 /\ worker = "addExit" => exitWait[c] = "registered"

\* A wait is registered, and a dump is written, only for a live ClientInfo.
WaitsKeepInfo(c) ==
    /\ dumpWait[c] = "registered" => info[c] = "live"
    /\ exitWait[c] = "registered" => info[c] = "live"
    /\ dumping[c] # "no" => dumpWait[c] = "registered"

\* What is listed is live, and its end is still watched or has been left to
\* the destructor; what is live is listed, being added or about to be deleted.
ListKeepsInfo(c) ==
    /\ c \in clients_ => /\ info[c] = "live"
                         /\ exitWait[c] = "registered" \/ ending[c] \in {"no", "returned"}
    /\ info[c] = "live" => c \in clients_ \/ Adding(c) \/ ending[c] = "removed"

\* OnClientEnd: listed until RemoveClient, without dumps after ExitCallback.
EndingIsOrdered(c) ==
    /\ ending[c] \in {"started", "exited"} => c \in clients_ /\ exitWait[c] = "registered"
    /\ ending[c] \in {"exited", "removed", "returned", "done"} =>
           dumpWait[c] = "none" /\ dumping[c] = "no"
    /\ ending[c] = "removed" => c \notin clients_ /\ info[c] = "live"

InfoInv ==
    \A c \in Clients :
        /\ MadeOnce(c) /\ AddedIsFresh(c) /\ WaitsKeepInfo(c)
        /\ ListKeepsInfo(c) /\ EndingIsOrdered(c)

\* The destructor: no handler starts after the flag, none runs after the wait
\* on the pipe is gone, and what may be pending is not followed by ERROR.
DestructorInv ==
    /\ owner = "new" => server_state_ = "UNINITIALIZED" /\ worker = "idle"
    /\ owner \notin {"new", "started"} => shutting_down_
    /\ owner \in {"closing", "timedOut", "clients", "done"} => worker = "idle"
    /\ owner = "waiting" /\ worker = "handler" => pipe = "disconnected"
    /\ owner \in {"waiting", "closing"} =>
           io = "none" \/ (worker = "idle" /\ ~event /\ server_state_ = "CONNECTING")
    /\ owner = "closing" => server_state_ = "ERROR"
    /\ owner = "done" => clients_ = {}

TypeInv == TypeOK /\ PipeHasPeer
IInv == TypeInv /\ InfoInv /\ DestructorInv

\* The steps that are one client's.
Client(c) ==
    \/ Callback(c) \/ UnregisterExitWait(c) \/ FreeClient(c) \/ Registering(c)
    \/ ConnectToPipe(c) \/ RequestDump(c) \/ WaitEnds(c) \/ ClientDies(c)

-----------------------------------------------------------------------------
(* TypeOK needs to know that a connected pipe has a peer. *)

LEMMA TypeInit == Init => TypeInv
  <1>. SUFFICES ASSUME Init PROVE TypeInv
    OBVIOUS
  <1>1. FlagsOK
    BY DEF Init, FlagsOK
  <1>2. PipeHasPeer
    BY NoneAssumption DEF Init, PipeHasPeer
  <1>3. TypeOK
    BY <1>1 DEF Init, TypeOK, States, ProtocolMessage
  <1>. QED  BY <1>2, <1>3 DEF TypeInv

LEMMA TypeStep == TypeInv /\ [Next]_vars => TypeInv'
  <1>. SUFFICES ASSUME TypeInv, [Next]_vars PROVE TypeInv'
    OBVIOUS
  <1>. USE NoneAssumption
  <1>1. CASE UNCHANGED vars
    BY <1>1 DEF vars, pipeVars, infoVars, requestVars, TypeInv, TypeOK, FlagsOK,
      PipeHasPeer, States, ProtocolMessage
  <1>2. CASE HandleConnectionRequest
    <2>1. FlagsOK'
      BY <1>2 DEF HandleConnectionRequest, TypeInv, TypeOK, FlagsOK
    <2>2. PipeHasPeer'
      BY <1>2 DEF HandleConnectionRequest, TypeInv, PipeHasPeer
    <2>3. server_state_' \in States /\ worker' \in {"idle", "handler"}
      BY <1>2 DEF HandleConnectionRequest, TypeInv, TypeOK, States
    <2>4. TypeOK'
      BY <2>1, <2>3, <1>2 DEF HandleConnectionRequest, infoVars, requestVars, TypeInv,
        TypeOK
    <2>. QED  BY <2>2, <2>4 DEF TypeInv
  <1>3. CASE HandleInitialState
    <2>1. FlagsOK'
      BY <1>3 DEF HandleInitialState, Handling, EnterStateImmediately,
        EnterErrorState, EnterStateWhenSignaled, NoIo, Issue, pipeVars, infoVars,
        requestVars, TypeInv, TypeOK, FlagsOK
    <2>2. QED
      BY <2>1, <1>3 DEF HandleInitialState, Handling, EnterStateImmediately,
        EnterErrorState, EnterStateWhenSignaled, NoIo, Issue, pipeVars, infoVars,
        requestVars, TypeInv, TypeOK, PipeHasPeer, States, ProtocolMessage
  <1>4. CASE HandleConnectingState
    BY <1>4 DEF HandleConnectingState, HandleResult, Handling, EnterStateImmediately,
      NoIo, pipeVars, infoVars, requestVars, TypeInv, TypeOK, FlagsOK, PipeHasPeer,
      States, ProtocolMessage
  <1>5. CASE HandleConnectedState
    <2>1. FlagsOK'
      BY <1>5 DEF HandleConnectedState, HandleRead, Handling, EnterStateImmediately,
        EnterStateWhenSignaled, NoIo, Issue, Broken, pipeVars, infoVars, requestVars,
        TypeInv, TypeOK, FlagsOK
    <2>2. QED
      BY <2>1, <1>5 DEF HandleConnectedState, HandleRead, Handling,
        EnterStateImmediately, EnterStateWhenSignaled, NoIo, Issue, Broken, pipeVars,
        infoVars, requestVars, TypeInv, TypeOK, PipeHasPeer, States, ProtocolMessage
  <1>6. CASE HandleReadingState
    BY <1>6 DEF HandleReadingState, HandleResult, Handling, EnterStateImmediately, NoIo,
      pipeVars, infoVars, requestVars, TypeInv, TypeOK, FlagsOK, PipeHasPeer, States,
      ProtocolMessage
  <1>7. CASE HandleOtherRequest
    BY <1>7 DEF HandleOtherRequest, Handling, EnterStateImmediately, pipeVars, infoVars,
      requestVars, TypeInv, TypeOK, FlagsOK, PipeHasPeer, States, ProtocolMessage
  <1>8. CASE RespondToClient
    BY <1>8 DEF RespondToClient, Handling, Issue, Broken, pipeVars, infoVars,
      requestVars, TypeInv, TypeOK, FlagsOK, PipeHasPeer, States, ProtocolMessage
  <1>9. CASE HandleWritingState
    BY <1>9 DEF HandleWritingState, HandleResult, Handling, EnterStateImmediately, NoIo,
      pipeVars, infoVars, requestVars, TypeInv, TypeOK, FlagsOK, PipeHasPeer, States,
      ProtocolMessage
  <1>10. CASE HandleWriteDoneState
    <2>1. FlagsOK'
      BY <1>10 DEF HandleWriteDoneState, HandleRead, Handling, EnterStateImmediately,
        EnterStateWhenSignaled, NoIo, Issue, Broken, pipeVars, infoVars, requestVars,
        TypeInv, TypeOK, FlagsOK
    <2>2. QED
      BY <2>1, <1>10 DEF HandleWriteDoneState, HandleRead, Handling,
        EnterStateImmediately, EnterStateWhenSignaled, NoIo, Issue, Broken, pipeVars,
        infoVars, requestVars, TypeInv, TypeOK, PipeHasPeer, States, ProtocolMessage
  <1>11. CASE HandleReadingAckState
    BY <1>11 DEF HandleReadingAckState, Handling, EnterStateImmediately, pipeVars,
      infoVars, requestVars, TypeInv, TypeOK, FlagsOK, PipeHasPeer, States,
      ProtocolMessage
  <1>12. CASE HandleDisconnectingState
    BY <1>12 DEF HandleDisconnectingState, Handling, EnterErrorState,
      EnterStateImmediately, CutPipe, pipeVars, infoVars, requestVars, TypeInv, TypeOK,
      FlagsOK, PipeHasPeer, States, ProtocolMessage
  <1>13. CASE HandleErrorState
    <2>1. FlagsOK'
      BY <1>13 DEF HandleErrorState, CutPipe, pipeVars, TypeInv, TypeOK, FlagsOK
    <2>2. PipeHasPeer'
      BY <1>13 DEF HandleErrorState, CutPipe, pipeVars, TypeInv, PipeHasPeer
    <2>3. TypeOK'
      BY <2>1, <1>13 DEF HandleErrorState, CutPipe, pipeVars, infoVars, requestVars,
        TypeInv, TypeOK,
        States
    <2>. QED  BY <2>2, <2>3 DEF TypeInv
  <1>14. CASE AddExitWait
    BY <1>14 DEF AddExitWait, pipeVars, infoVars, requestVars, TypeInv, TypeOK, FlagsOK,
      PipeHasPeer, States, ProtocolMessage
  <1>15. CASE AddClient
    BY <1>15 DEF AddClient, EnterStateWhenSignaled, pipeVars, infoVars, requestVars,
      TypeInv, TypeOK, FlagsOK, PipeHasPeer, States, ProtocolMessage
  <1>16. CASE DropClient
    BY <1>16 DEF DropClient, EnterStateImmediately, pipeVars, infoVars, requestVars,
      TypeInv, TypeOK, FlagsOK, PipeHasPeer, States, ProtocolMessage
  <1>17. CASE Disconnect
    <2>1. FlagsOK'
      BY <1>17 DEF Disconnect, CutPipe, pipeVars, infoVars, requestVars, TypeInv,
        TypeOK, FlagsOK
    <2>2. QED
      BY <2>1, <1>17 DEF Disconnect, CutPipe, pipeVars, infoVars, requestVars,
        TypeInv, TypeOK, PipeHasPeer, States, ProtocolMessage
  <1>18. CASE UnregisterPipeWait
    BY <1>18 DEF UnregisterPipeWait, pipeVars, infoVars, requestVars, TypeInv, TypeOK,
      FlagsOK, PipeHasPeer, States, ProtocolMessage
  <1>19. CASE ClosePipe
    BY <1>19 DEF ClosePipe, pipeVars, infoVars, requestVars, TypeInv, TypeOK, FlagsOK,
      PipeHasPeer, States, ProtocolMessage
  <1>20. CASE Destroyed
    BY <1>20 DEF Destroyed, pipeVars, infoVars, requestVars, TypeInv, TypeOK, FlagsOK,
      PipeHasPeer, States, ProtocolMessage
  <1>21. CASE Start
    <2>1. FlagsOK'
      BY <1>21 DEF Start, pipeVars, infoVars, requestVars, TypeInv, TypeOK, FlagsOK
    <2>2. QED
      BY <2>1, <1>21 DEF Start, pipeVars, infoVars, requestVars, TypeInv, TypeOK,
        PipeHasPeer, States, ProtocolMessage
  <1>22. CASE ShutDown
    BY <1>22 DEF ShutDown, pipeVars, infoVars, requestVars, TypeInv, TypeOK, FlagsOK,
      PipeHasPeer, States, ProtocolMessage
  <1>23. CASE ReadCompletes
    <2>1. FlagsOK'
      BY <1>23 DEF ReadCompletes, Completes, TypeInv, TypeOK, FlagsOK
    <2>2. PipeHasPeer'
      BY <1>23 DEF ReadCompletes, TypeInv, PipeHasPeer
    <2>3. io' = "none" /\ result' \in {"ok", "failed"}
      BY <1>23 DEF ReadCompletes, Completes
    <2>4. inbox' \subseteq ProtocolMessage /\ msg_' \in ProtocolMessage
      BY <1>23 DEF ReadCompletes, TypeInv, TypeOK
    <2>5. TypeOK'
      BY <2>1, <2>3, <2>4, <1>23 DEF ReadCompletes, infoVars, requestVars, TypeInv,
        TypeOK, States
    <2>. QED  BY <2>2, <2>5 DEF TypeInv
  <1>24. CASE WriteCompletes
    BY <1>24 DEF WriteCompletes, Completes, pipeVars, infoVars, requestVars, TypeInv,
      TypeOK, FlagsOK, PipeHasPeer, States, ProtocolMessage
  <1>25. ASSUME NEW d \in Clients, Client(d)
        PROVE  TypeInv'
    <2>1. CASE OnDumpRequest(d)
      BY <2>1 DEF OnDumpRequest, Dumping, Served, pipeVars, infoVars, requestVars,
        TypeInv, TypeOK, FlagsOK, PipeHasPeer, States, ProtocolMessage
    <2>2. CASE HandleDumpRequest(d)
      BY <2>2 DEF HandleDumpRequest, Dumping, pipeVars, infoVars, requestVars,
        TypeInv, TypeOK, FlagsOK, PipeHasPeer, States, ProtocolMessage
    <2>3. CASE ResetDumpRequested(d)
      BY <2>3 DEF ResetDumpRequested, Dumping, pipeVars, infoVars, requestVars,
        TypeInv, TypeOK, FlagsOK, PipeHasPeer, States, ProtocolMessage
    <2>4. CASE OnClientEnd(d)
      BY <2>4 DEF OnClientEnd, Ending, Served, pipeVars, infoVars, requestVars,
        TypeInv, TypeOK, FlagsOK, PipeHasPeer, States, ProtocolMessage
    <2>5. CASE ExitCallback(d)
      BY <2>5 DEF ExitCallback, Ending, pipeVars, infoVars, requestVars, TypeInv,
        TypeOK, FlagsOK, PipeHasPeer, States, ProtocolMessage
    <2>6. CASE RemoveClient(d)
      BY <2>6 DEF RemoveClient, Ending, pipeVars, infoVars, requestVars, TypeInv,
        TypeOK, FlagsOK, PipeHasPeer, States, ProtocolMessage
    <2>7. CASE DeleteClient(d)
      BY <2>7 DEF DeleteClient, Ending, pipeVars, infoVars, requestVars, TypeInv,
        TypeOK, FlagsOK, PipeHasPeer, States, ProtocolMessage
    <2>8. CASE UnregisterExitWait(d)
      BY <2>8 DEF UnregisterExitWait, pipeVars, infoVars, requestVars, TypeInv,
        TypeOK, FlagsOK, PipeHasPeer, States, ProtocolMessage
    <2>9. CASE FreeClient(d)
      BY <2>9 DEF FreeClient, pipeVars, infoVars, requestVars, TypeInv, TypeOK,
        FlagsOK, PipeHasPeer, States, ProtocolMessage
    <2>10. CASE SendRegistration(d)
      BY <2>10 DEF SendRegistration, AtClient, serverVars, Connected, pipeVars,
        infoVars, requestVars, TypeInv, TypeOK, FlagsOK, PipeHasPeer, States,
        ProtocolMessage
    <2>11. CASE RequestUpload(d)
      <3>1. FlagsOK'
        BY <2>11 DEF RequestUpload, AtClient, serverVars, Connected, pipeVars,
          infoVars, requestVars, TypeInv, TypeOK, FlagsOK
      <3>2. QED
        BY <3>1, <2>11 DEF RequestUpload, AtClient, serverVars, Connected, pipeVars,
          infoVars, requestVars, TypeInv, TypeOK, PipeHasPeer, States,
          ProtocolMessage
    <2>12. CASE Acknowledge(d)
      <3>1. FlagsOK'
        BY <2>12 DEF Acknowledge, AtClient, serverVars, Connected, pipeVars,
          infoVars, requestVars, TypeInv, TypeOK, FlagsOK
      <3>2. QED
        BY <3>1, <2>12 DEF Acknowledge, AtClient, serverVars, Connected, pipeVars,
          infoVars, requestVars, TypeInv, TypeOK, PipeHasPeer, States,
          ProtocolMessage
    <2>13. CASE RegistrationFails(d)
      BY <2>13 DEF RegistrationFails, Connected, serverVars, pipeVars, infoVars,
        requestVars, TypeInv, TypeOK, FlagsOK, PipeHasPeer, States, ProtocolMessage
    <2>14. CASE ConnectToPipe(d)
      <3>1. FlagsOK'
        BY <2>14 DEF ConnectToPipe, AtClient, serverVars, Completes, pipeVars,
          infoVars, requestVars, TypeInv, TypeOK, FlagsOK
      <3>2. QED
        BY <3>1, <2>14 DEF ConnectToPipe, AtClient, serverVars, Completes, pipeVars,
          infoVars, requestVars, TypeInv, TypeOK, PipeHasPeer, States,
          ProtocolMessage
    <2>15. CASE RequestDump(d)
      BY <2>15 DEF RequestDump, AtClient, serverVars, pipeVars, infoVars, requestVars,
        TypeInv, TypeOK, FlagsOK, PipeHasPeer, States, ProtocolMessage
    <2>16. CASE WaitEnds(d)
      BY <2>16 DEF WaitEnds, AtClient, serverVars, pipeVars, infoVars, requestVars,
        TypeInv, TypeOK, FlagsOK, PipeHasPeer, States, ProtocolMessage
    <2>17. CASE ClientDies(d)
      BY <2>17 DEF ClientDies, serverVars, pipeVars, infoVars, requestVars, TypeInv,
        TypeOK, FlagsOK, PipeHasPeer, States, ProtocolMessage
    <2>. QED  BY <1>25, <2>1, <2>2, <2>3, <2>4, <2>5, <2>6, <2>7, <2>8, <2>9, <2>10,
      <2>11, <2>12, <2>13, <2>14, <2>15, <2>16, <2>17 DEF Client, Callback, Registering
  <1>. QED  BY <1>1, <1>2, <1>3, <1>4, <1>5, <1>6, <1>7, <1>8, <1>9, <1>10, <1>11, <1>12,
    <1>13, <1>14, <1>15, <1>16, <1>17, <1>18, <1>19, <1>20, <1>21, <1>22, <1>23, <1>24,
    <1>25 DEF Next, Client, WaitThread, Handler, Destructor, Overlapped

-----------------------------------------------------------------------------
(* The life of a ClientInfo. *)

LEMMA InfoInit == Init => InfoInv
  BY DEF Init, InfoInv, MadeOnce, AddedIsFresh, WaitsKeepInfo, ListKeepsInfo,
    EndingIsOrdered,
    Adding

LEMMA InfoStep ==
  WaitsStartLate /\ TypeInv /\ InfoInv /\ DestructorInv /\ [Next]_vars => InfoInv'
  <1>. SUFFICES ASSUME WaitsStartLate, TypeInv, InfoInv, DestructorInv, [Next]_vars
                PROVE  InfoInv'
    OBVIOUS
  <1>. USE NoneAssumption
  <1>1. CASE UNCHANGED vars
    BY <1>1  DEF vars, pipeVars, infoVars, requestVars, InfoInv, MadeOnce, AddedIsFresh,
      WaitsKeepInfo, ListKeepsInfo, EndingIsOrdered, Adding, Answered, TypeInv, TypeOK
  <1>2. CASE HandleConnectionRequest
    BY <1>2 DEF HandleConnectionRequest, pipeVars, infoVars, requestVars, InfoInv,
      MadeOnce, AddedIsFresh, WaitsKeepInfo, ListKeepsInfo, EndingIsOrdered, Adding,
      Answered, TypeInv, TypeOK
  <1>3. CASE HandleInitialState
    BY <1>3 DEF HandleInitialState, Handling, EnterStateImmediately, EnterErrorState,
      EnterStateWhenSignaled, NoIo, Issue, pipeVars, infoVars, requestVars, InfoInv,
      MadeOnce, AddedIsFresh, WaitsKeepInfo, ListKeepsInfo, EndingIsOrdered, Adding,
      Answered, TypeInv, TypeOK
  <1>4. CASE HandleConnectingState
    BY <1>4 DEF HandleConnectingState, HandleResult, Handling, EnterStateImmediately,
      NoIo, pipeVars, infoVars, requestVars, InfoInv, MadeOnce, AddedIsFresh,
      WaitsKeepInfo, ListKeepsInfo, EndingIsOrdered, Adding, Answered, TypeInv, TypeOK
  <1>5. CASE HandleConnectedState
    BY <1>5 DEF HandleConnectedState, HandleRead, Handling, EnterStateImmediately,
      EnterStateWhenSignaled, NoIo, Issue, Broken, pipeVars, infoVars, requestVars,
      InfoInv, MadeOnce, AddedIsFresh, WaitsKeepInfo, ListKeepsInfo, EndingIsOrdered,
      Adding, Answered, TypeInv, TypeOK
  <1>6. CASE HandleReadingState
    BY <1>6 DEF HandleReadingState, HandleResult, Handling, EnterStateImmediately, NoIo,
      pipeVars, infoVars, requestVars, InfoInv, MadeOnce, AddedIsFresh, WaitsKeepInfo,
      ListKeepsInfo, EndingIsOrdered, Adding, Answered, TypeInv, TypeOK
  <1>7. CASE HandleOtherRequest
    BY <1>7 DEF HandleOtherRequest, Handling, EnterStateImmediately, pipeVars, infoVars,
      requestVars, InfoInv, MadeOnce, AddedIsFresh, WaitsKeepInfo, ListKeepsInfo,
      EndingIsOrdered, Adding, Answered, TypeInv, TypeOK
  <1>8. CASE RespondToClient
    <2>1. peer \in Clients /\ client[peer] # "new" /\ info[peer] = "none"
      BY <1>8 DEF RespondToClient, Handling, Broken, InfoInv, MadeOnce, Adding,
        Answered, TypeInv, TypeOK,
        PipeHasPeer
    <2>2. \A c \in Clients : c # peer => ~Adding(c) /\ ~Adding(c)' /\ info'[c] = info[c] /\ dumpWait'[c] = dumpWait[c]
      BY <1>8, <2>1 DEF RespondToClient, Handling, Adding, TypeInv, TypeOK
    <2>3. QED
      BY <2>1, <2>2, <1>8 DEF RespondToClient, Handling, Issue, infoVars, requestVars,
        InfoInv, MadeOnce,
        AddedIsFresh, WaitsKeepInfo, ListKeepsInfo, EndingIsOrdered, Adding, Answered, TypeInv, TypeOK
  <1>9. CASE HandleWritingState
    BY <1>9 DEF HandleWritingState, HandleResult, Handling, EnterStateImmediately, NoIo,
      pipeVars, infoVars, requestVars, InfoInv, MadeOnce, AddedIsFresh, WaitsKeepInfo,
      ListKeepsInfo, EndingIsOrdered, Adding, Answered, TypeInv, TypeOK
  <1>10. CASE HandleWriteDoneState
    BY <1>10 DEF HandleWriteDoneState, HandleRead, Handling, EnterStateImmediately,
      EnterStateWhenSignaled, NoIo, Issue, Broken, pipeVars, infoVars, requestVars,
      InfoInv, MadeOnce, AddedIsFresh, WaitsKeepInfo, ListKeepsInfo, EndingIsOrdered,
      Adding, Answered, TypeInv, TypeOK
  <1>11. CASE HandleReadingAckState
    BY <1>11 DEF HandleReadingAckState, Handling, EnterStateImmediately, pipeVars,
      infoVars, requestVars, InfoInv, MadeOnce, AddedIsFresh, WaitsKeepInfo,
      ListKeepsInfo, EndingIsOrdered, Adding, Answered, TypeInv, TypeOK
  <1>12. CASE HandleDisconnectingState
    BY <1>12 DEF HandleDisconnectingState, Handling, EnterErrorState,
      EnterStateImmediately, CutPipe, pipeVars, infoVars, requestVars, InfoInv,
      MadeOnce, AddedIsFresh, WaitsKeepInfo, ListKeepsInfo, EndingIsOrdered, Adding,
      Answered, TypeInv, TypeOK
  <1>13. CASE HandleErrorState
    BY <1>13 DEF HandleErrorState, Handling, CutPipe, pipeVars, infoVars, requestVars,
      InfoInv, MadeOnce, AddedIsFresh, WaitsKeepInfo, ListKeepsInfo, EndingIsOrdered,
      Adding, Answered, TypeInv, TypeOK
  <1>14. CASE AddExitWait
    BY <1>14 DEF AddExitWait, pipeVars, infoVars, requestVars, InfoInv, MadeOnce,
      AddedIsFresh, WaitsKeepInfo, ListKeepsInfo, EndingIsOrdered, Adding, Answered,
      TypeInv, TypeOK
  <1>15. CASE AddClient
    BY <1>15 DEF AddClient, EnterStateWhenSignaled, pipeVars, infoVars, requestVars,
      InfoInv, MadeOnce, AddedIsFresh, WaitsKeepInfo, ListKeepsInfo, EndingIsOrdered,
      Adding, Answered, TypeInv, TypeOK
  <1>16. CASE DropClient
    BY <1>16 DEF DropClient, EnterStateImmediately, pipeVars, infoVars, requestVars,
      InfoInv, MadeOnce, AddedIsFresh, WaitsKeepInfo, ListKeepsInfo, EndingIsOrdered,
      Adding, Answered, TypeInv, TypeOK
  <1>17. CASE Disconnect
    BY <1>17 DEF Disconnect, CutPipe, pipeVars, infoVars, requestVars, InfoInv,
      MadeOnce, AddedIsFresh, WaitsKeepInfo, ListKeepsInfo, EndingIsOrdered, Adding,
      Answered, TypeInv, TypeOK
  <1>18. CASE UnregisterPipeWait
    BY <1>18 DEF UnregisterPipeWait, pipeVars, infoVars, requestVars, InfoInv, MadeOnce,
      AddedIsFresh, WaitsKeepInfo, ListKeepsInfo, EndingIsOrdered, Adding, Answered,
      TypeInv, TypeOK
  <1>19. CASE ClosePipe
    BY <1>19 DEF ClosePipe, pipeVars, infoVars, requestVars, InfoInv, MadeOnce,
      AddedIsFresh, WaitsKeepInfo, ListKeepsInfo, EndingIsOrdered, Adding, Answered,
      TypeInv, TypeOK
  <1>20. CASE Destroyed
    BY <1>20 DEF Destroyed, pipeVars, infoVars, requestVars, InfoInv, MadeOnce,
      AddedIsFresh, WaitsKeepInfo, ListKeepsInfo, EndingIsOrdered, Adding, Answered,
      TypeInv, TypeOK
  <1>21. CASE Start
    BY <1>21 DEF Start, pipeVars, infoVars, requestVars, InfoInv, MadeOnce,
      AddedIsFresh, WaitsKeepInfo, ListKeepsInfo, EndingIsOrdered, Adding, Answered,
      TypeInv, TypeOK, DestructorInv
  <1>22. CASE ShutDown
    BY <1>22 DEF ShutDown, pipeVars, infoVars, requestVars, InfoInv, MadeOnce,
      AddedIsFresh, WaitsKeepInfo, ListKeepsInfo, EndingIsOrdered, Adding, Answered,
      TypeInv, TypeOK
  <1>23. CASE ReadCompletes
    BY <1>23 DEF ReadCompletes, Completes, Broken, pipeVars, infoVars, requestVars,
      InfoInv, MadeOnce, AddedIsFresh, WaitsKeepInfo, ListKeepsInfo, EndingIsOrdered,
      Adding, Answered, TypeInv, TypeOK
  <1>24. CASE WriteCompletes
    BY <1>24 DEF WriteCompletes, Completes, pipeVars, infoVars, requestVars, InfoInv,
      MadeOnce, AddedIsFresh, WaitsKeepInfo, ListKeepsInfo, EndingIsOrdered, Adding,
      Answered, TypeInv, TypeOK
  <1>25. ASSUME NEW d \in Clients, Client(d)
        PROVE  InfoInv'
    <2>1. CASE OnDumpRequest(d)
      BY <2>1 DEF OnDumpRequest, Dumping, Served, pipeVars, infoVars, requestVars,
        InfoInv, MadeOnce, AddedIsFresh, WaitsKeepInfo, ListKeepsInfo,
        EndingIsOrdered, Adding, Answered, TypeInv, TypeOK
    <2>2. CASE HandleDumpRequest(d)
      BY <2>2 DEF HandleDumpRequest, Dumping, pipeVars, infoVars, requestVars,
        InfoInv, MadeOnce, AddedIsFresh, WaitsKeepInfo, ListKeepsInfo,
        EndingIsOrdered, Adding, Answered, TypeInv, TypeOK
    <2>3. CASE ResetDumpRequested(d)
      BY <2>3 DEF ResetDumpRequested, Dumping, pipeVars, infoVars, requestVars,
        InfoInv, MadeOnce, AddedIsFresh, WaitsKeepInfo, ListKeepsInfo,
        EndingIsOrdered, Adding, Answered, TypeInv, TypeOK
    <2>4. CASE OnClientEnd(d)
      BY <2>4 DEF OnClientEnd, Ending, Served, pipeVars, infoVars, requestVars,
        InfoInv, MadeOnce, AddedIsFresh, WaitsKeepInfo, ListKeepsInfo,
        EndingIsOrdered, Adding, Answered, TypeInv, TypeOK
    <2>5. CASE ExitCallback(d)
      BY <2>5 DEF ExitCallback, Ending, pipeVars, infoVars, requestVars, InfoInv,
        MadeOnce, AddedIsFresh, WaitsKeepInfo, ListKeepsInfo, EndingIsOrdered, Adding,
        Answered, TypeInv, TypeOK
    <2>6. CASE RemoveClient(d)
      BY <2>6 DEF RemoveClient, Ending, pipeVars, infoVars, requestVars, InfoInv,
        MadeOnce, AddedIsFresh, WaitsKeepInfo, ListKeepsInfo, EndingIsOrdered, Adding,
        Answered, TypeInv, TypeOK
    <2>7. CASE DeleteClient(d)
      BY <2>7 DEF DeleteClient, Ending, pipeVars, infoVars, requestVars, InfoInv,
        MadeOnce, AddedIsFresh, WaitsKeepInfo, ListKeepsInfo, EndingIsOrdered, Adding,
        Answered, TypeInv, TypeOK
    <2>8. CASE UnregisterExitWait(d)
      BY <2>8 DEF UnregisterExitWait, pipeVars, infoVars, requestVars, InfoInv,
        MadeOnce, AddedIsFresh, WaitsKeepInfo, ListKeepsInfo, EndingIsOrdered, Adding,
        Answered, TypeInv, TypeOK
    <2>9. CASE FreeClient(d)
      BY <2>9 DEF FreeClient, pipeVars, infoVars, requestVars, InfoInv, MadeOnce,
        AddedIsFresh, WaitsKeepInfo, ListKeepsInfo, EndingIsOrdered, Adding, Answered,
        TypeInv, TypeOK
    <2>10. CASE SendRegistration(d)
      BY <2>10 DEF SendRegistration, AtClient, serverVars, Connected, pipeVars,
        infoVars, requestVars, InfoInv, MadeOnce, AddedIsFresh, WaitsKeepInfo,
        ListKeepsInfo, EndingIsOrdered, Adding, Answered, TypeInv, TypeOK
    <2>11. CASE RequestUpload(d)
      BY <2>11 DEF RequestUpload, AtClient, serverVars, Connected, pipeVars, infoVars,
        requestVars, InfoInv, MadeOnce, AddedIsFresh, WaitsKeepInfo, ListKeepsInfo,
        EndingIsOrdered, Adding, Answered, TypeInv, TypeOK
    <2>12. CASE Acknowledge(d)
      BY <2>12 DEF Acknowledge, AtClient, serverVars, Connected, pipeVars, infoVars,
        requestVars, InfoInv, MadeOnce, AddedIsFresh, WaitsKeepInfo, ListKeepsInfo,
        EndingIsOrdered, Adding, Answered, TypeInv, TypeOK
    <2>13. CASE RegistrationFails(d)
      BY <2>13 DEF RegistrationFails, Connected, serverVars, pipeVars, infoVars,
        requestVars, InfoInv, MadeOnce, AddedIsFresh, WaitsKeepInfo, ListKeepsInfo,
        EndingIsOrdered, Adding, Answered, TypeInv, TypeOK
    <2>14. CASE ConnectToPipe(d)
      BY <2>14 DEF ConnectToPipe, AtClient, serverVars, Completes, pipeVars, infoVars,
        requestVars, InfoInv, MadeOnce, AddedIsFresh, WaitsKeepInfo, ListKeepsInfo,
        EndingIsOrdered, Adding, Answered, TypeInv, TypeOK
    <2>15. CASE RequestDump(d)
      BY <2>15 DEF RequestDump, AtClient, serverVars, pipeVars, infoVars, requestVars,
        InfoInv, MadeOnce, AddedIsFresh, WaitsKeepInfo, ListKeepsInfo,
        EndingIsOrdered, Adding, Answered, TypeInv, TypeOK
    <2>16. CASE WaitEnds(d)
      BY <2>16 DEF WaitEnds, AtClient, serverVars, pipeVars, infoVars, requestVars,
        InfoInv, MadeOnce, AddedIsFresh, WaitsKeepInfo, ListKeepsInfo,
        EndingIsOrdered, Adding, Answered, TypeInv, TypeOK
    <2>17. CASE ClientDies(d)
      BY <2>17 DEF ClientDies, serverVars, pipeVars, infoVars, requestVars, InfoInv,
        MadeOnce, AddedIsFresh, WaitsKeepInfo, ListKeepsInfo, EndingIsOrdered, Adding,
        Answered, TypeInv, TypeOK
    <2>. QED  BY <1>25, <2>1, <2>2, <2>3, <2>4, <2>5, <2>6, <2>7, <2>8, <2>9, <2>10,
      <2>11, <2>12, <2>13, <2>14, <2>15, <2>16, <2>17 DEF Client, Callback, Registering
  <1>. QED  BY <1>1, <1>2, <1>3, <1>4, <1>5, <1>6, <1>7, <1>8, <1>9, <1>10, <1>11, <1>12,
    <1>13, <1>14, <1>15, <1>16, <1>17, <1>18, <1>19, <1>20, <1>21, <1>22, <1>23, <1>24,
    <1>25 DEF Next, Client, WaitThread, Handler, Destructor, Overlapped

-----------------------------------------------------------------------------
(* The destructor. *)

LEMMA DestructorInit == Init => DestructorInv
  BY DEF Init, DestructorInv

LEMMA DestructorStep == TypeInv /\ DestructorInv /\ [Next]_vars => DestructorInv'
  <1>. SUFFICES ASSUME TypeInv, DestructorInv, [Next]_vars PROVE DestructorInv'
    OBVIOUS
  <1>1. CASE UNCHANGED vars
    BY <1>1  DEF vars, pipeVars, infoVars, requestVars, DestructorInv, TypeInv, TypeOK
  <1>2. CASE HandleConnectionRequest
    BY <1>2 DEF HandleConnectionRequest, pipeVars, infoVars, requestVars, DestructorInv,
      TypeInv, TypeOK
  <1>3. CASE HandleInitialState
    BY <1>3 DEF HandleInitialState, Handling, EnterStateImmediately, EnterErrorState,
      EnterStateWhenSignaled, NoIo, Issue, pipeVars, infoVars, requestVars,
      DestructorInv, TypeInv, TypeOK
  <1>4. CASE HandleConnectingState
    BY <1>4 DEF HandleConnectingState, HandleResult, Handling, EnterStateImmediately,
      NoIo, pipeVars, infoVars, requestVars, DestructorInv, TypeInv, TypeOK
  <1>5. CASE HandleConnectedState
    BY <1>5 DEF HandleConnectedState, HandleRead, Handling, EnterStateImmediately,
      EnterStateWhenSignaled, NoIo, Issue, Broken, pipeVars, infoVars, requestVars,
      DestructorInv, TypeInv, TypeOK
  <1>6. CASE HandleReadingState
    BY <1>6 DEF HandleReadingState, HandleResult, Handling, EnterStateImmediately, NoIo,
      pipeVars, infoVars, requestVars, DestructorInv, TypeInv, TypeOK
  <1>7. CASE HandleOtherRequest
    BY <1>7 DEF HandleOtherRequest, Handling, EnterStateImmediately, pipeVars, infoVars,
      requestVars, DestructorInv, TypeInv, TypeOK
  <1>8. CASE RespondToClient
    BY <1>8 DEF RespondToClient, Handling, Issue, Broken, pipeVars, infoVars,
      requestVars, DestructorInv, TypeInv, TypeOK
  <1>9. CASE HandleWritingState
    BY <1>9 DEF HandleWritingState, HandleResult, Handling, EnterStateImmediately, NoIo,
      pipeVars, infoVars, requestVars, DestructorInv, TypeInv, TypeOK
  <1>10. CASE HandleWriteDoneState
    BY <1>10 DEF HandleWriteDoneState, HandleRead, Handling, EnterStateImmediately,
      EnterStateWhenSignaled, NoIo, Issue, Broken, pipeVars, infoVars, requestVars,
      DestructorInv, TypeInv, TypeOK
  <1>11. CASE HandleReadingAckState
    BY <1>11 DEF HandleReadingAckState, Handling, EnterStateImmediately, pipeVars,
      infoVars, requestVars, DestructorInv, TypeInv, TypeOK
  <1>12. CASE HandleDisconnectingState
    BY <1>12 DEF HandleDisconnectingState, Handling, EnterErrorState,
      EnterStateImmediately, CutPipe, pipeVars, infoVars, requestVars, DestructorInv,
      TypeInv, TypeOK
  <1>13. CASE HandleErrorState
    BY <1>13 DEF HandleErrorState, Handling, CutPipe, pipeVars, infoVars, requestVars,
      DestructorInv, TypeInv, TypeOK
  <1>14. CASE AddExitWait
    BY <1>14 DEF AddExitWait, pipeVars, infoVars, requestVars, DestructorInv, TypeInv,
      TypeOK
  <1>15. CASE AddClient
    BY <1>15 DEF AddClient, EnterStateWhenSignaled, pipeVars, infoVars, requestVars,
      DestructorInv, TypeInv, TypeOK
  <1>16. CASE DropClient
    BY <1>16 DEF DropClient, EnterStateImmediately, pipeVars, infoVars, requestVars,
      DestructorInv, TypeInv, TypeOK
  <1>17. CASE Disconnect
    BY <1>17 DEF Disconnect, CutPipe, pipeVars, infoVars, requestVars, DestructorInv,
      TypeInv, TypeOK
  <1>18. CASE UnregisterPipeWait
    BY <1>18 DEF UnregisterPipeWait, pipeVars, infoVars, requestVars, DestructorInv,
      TypeInv, TypeOK
  <1>19. CASE ClosePipe
    BY <1>19 DEF ClosePipe, pipeVars, infoVars, requestVars, DestructorInv, TypeInv, TypeOK
  <1>20. CASE Destroyed
    BY <1>20 DEF Destroyed, pipeVars, infoVars, requestVars, DestructorInv, TypeInv, TypeOK
  <1>21. CASE Start
    BY <1>21 DEF Start, pipeVars, infoVars, requestVars, DestructorInv, TypeInv, TypeOK
  <1>22. CASE ShutDown
    BY <1>22 DEF ShutDown, pipeVars, infoVars, requestVars, DestructorInv, TypeInv, TypeOK
  <1>23. CASE ReadCompletes
    BY <1>23 DEF ReadCompletes, Completes, Broken, pipeVars, infoVars, requestVars,
      DestructorInv, TypeInv, TypeOK
  <1>24. CASE WriteCompletes
    BY <1>24 DEF WriteCompletes, Completes, pipeVars, infoVars, requestVars,
      DestructorInv, TypeInv, TypeOK
  <1>25. ASSUME NEW d \in Clients, Client(d)
        PROVE  DestructorInv'
    <2>1. CASE OnDumpRequest(d)
      BY <2>1 DEF OnDumpRequest, Dumping, Served, pipeVars, infoVars, requestVars,
        DestructorInv, TypeInv, TypeOK
    <2>2. CASE HandleDumpRequest(d)
      BY <2>2 DEF HandleDumpRequest, Dumping, pipeVars, infoVars, requestVars,
        DestructorInv, TypeInv, TypeOK
    <2>3. CASE ResetDumpRequested(d)
      BY <2>3 DEF ResetDumpRequested, Dumping, pipeVars, infoVars, requestVars,
        DestructorInv, TypeInv, TypeOK
    <2>4. CASE OnClientEnd(d)
      BY <2>4 DEF OnClientEnd, Ending, Served, pipeVars, infoVars, requestVars,
        DestructorInv, TypeInv, TypeOK
    <2>5. CASE ExitCallback(d)
      BY <2>5 DEF ExitCallback, Ending, pipeVars, infoVars, requestVars,
        DestructorInv, TypeInv, TypeOK
    <2>6. CASE RemoveClient(d)
      BY <2>6 DEF RemoveClient, Ending, pipeVars, infoVars, requestVars,
        DestructorInv, TypeInv, TypeOK
    <2>7. CASE DeleteClient(d)
      BY <2>7 DEF DeleteClient, Ending, pipeVars, infoVars, requestVars,
        DestructorInv, TypeInv, TypeOK
    <2>8. CASE UnregisterExitWait(d)
      BY <2>8 DEF UnregisterExitWait, pipeVars, infoVars, requestVars, DestructorInv,
        TypeInv, TypeOK
    <2>9. CASE FreeClient(d)
      BY <2>9 DEF FreeClient, pipeVars, infoVars, requestVars, DestructorInv, TypeInv,
        TypeOK
    <2>10. CASE SendRegistration(d)
      BY <2>10 DEF SendRegistration, AtClient, serverVars, Connected, pipeVars,
        infoVars, requestVars, DestructorInv, TypeInv, TypeOK
    <2>11. CASE RequestUpload(d)
      BY <2>11 DEF RequestUpload, AtClient, serverVars, Connected, pipeVars, infoVars,
        requestVars, DestructorInv, TypeInv, TypeOK
    <2>12. CASE Acknowledge(d)
      BY <2>12 DEF Acknowledge, AtClient, serverVars, Connected, pipeVars, infoVars,
        requestVars, DestructorInv, TypeInv, TypeOK
    <2>13. CASE RegistrationFails(d)
      BY <2>13 DEF RegistrationFails, Connected, serverVars, pipeVars, infoVars,
        requestVars, DestructorInv, TypeInv, TypeOK
    <2>14. CASE ConnectToPipe(d)
      BY <2>14 DEF ConnectToPipe, AtClient, serverVars, Completes, pipeVars, infoVars,
        requestVars, DestructorInv, TypeInv, TypeOK
    <2>15. CASE RequestDump(d)
      BY <2>15 DEF RequestDump, AtClient, serverVars, pipeVars, infoVars, requestVars,
        DestructorInv, TypeInv, TypeOK
    <2>16. CASE WaitEnds(d)
      BY <2>16 DEF WaitEnds, AtClient, serverVars, pipeVars, infoVars, requestVars,
        DestructorInv, TypeInv, TypeOK
    <2>17. CASE ClientDies(d)
      BY <2>17 DEF ClientDies, serverVars, pipeVars, infoVars, requestVars,
        DestructorInv, TypeInv, TypeOK
    <2>. QED  BY <1>25, <2>1, <2>2, <2>3, <2>4, <2>5, <2>6, <2>7, <2>8, <2>9, <2>10,
      <2>11, <2>12, <2>13, <2>14, <2>15, <2>16, <2>17 DEF Client, Callback, Registering
  <1>. QED  BY <1>1, <1>2, <1>3, <1>4, <1>5, <1>6, <1>7, <1>8, <1>9, <1>10, <1>11, <1>12,
    <1>13, <1>14, <1>15, <1>16, <1>17, <1>18, <1>19, <1>20, <1>21, <1>22, <1>23, <1>24,
    <1>25 DEF Next, Client, WaitThread, Handler, Destructor, Overlapped

-----------------------------------------------------------------------------
LEMMA ServerInv == Spec => [](TypeInv /\ DestructorInv)
  BY TypeInit, TypeStep, DestructorInit, DestructorStep, PTL DEF Spec

LEMMA LifeInv == ASSUME WaitsStartLate PROVE Spec => []IInv
  <1>1. Init => IInv
    BY TypeInit, InfoInit, DestructorInit DEF IInv
  <1>2. IInv /\ [Next]_vars => IInv'
    BY TypeStep, InfoStep, DestructorStep DEF IInv
  <1>. QED  BY <1>1, <1>2, PTL DEF Spec

\* The server's, the pipe's and the clients' variables keep their types: the
\* wait thread never goes on without the client it is adding.
THEOREM TypeCorrect == Spec => []TypeOK
  <1>1. TypeInv => TypeOK
    BY DEF TypeInv
  <1>. QED  BY ServerInv, <1>1, PTL

\* When the destructor has seen ERROR, nothing is pending on the pipe: no I/O
\* "may write to invalid memory" (crash_generation_server.cc:155) later.
THEOREM LateIo == Spec => []NoLateIo
  <1>1. DestructorInv => NoLateIo
    BY DEF DestructorInv, NoLateIo
  <1>. QED  BY ServerInv, <1>1, PTL

\* Nobody uses a deleted ClientInfo, however many clients register, ask and die
\* while OnClientEnd, AddClient and the destructor work on the list.
THEOREM InfoIsKept == ASSUME WaitsStartLate PROVE Spec => []InfoIsValid
  <1>1. IInv => InfoIsValid
    BY DEF IInv, InfoInv, InfoIsValid, InUse, WaitsKeepInfo, ListKeepsInfo, EndingIsOrdered,
      TypeInv, TypeOK
  <1>. QED  BY LifeInv, <1>1, PTL

\* The exit callback of a client comes after its last dump.
THEOREM ExitIsLast == ASSUME WaitsStartLate PROVE Spec => []ExitAfterDumps
  <1>1. IInv => ExitAfterDumps
    BY DEF IInv, InfoInv, ExitAfterDumps, EndingIsOrdered
  <1>. QED  BY LifeInv, <1>1, PTL

\* OnClientEnd and the destructor do not both unregister one dump wait.
THEOREM UnregistersOnce == ASSUME WaitsStartLate PROVE Spec => []NoUnregisterRace
  <1>1. IInv => NoUnregisterRace
    BY DEF IInv, InfoInv, NoUnregisterRace, EndingIsOrdered, ListKeepsInfo, TypeInv, TypeOK
  <1>. QED  BY LifeInv, <1>1, PTL

\* When the destructor has ended, no callback uses the server any more and every
\* ClientInfo is deleted or about to be.
THEOREM CallbacksAreOver == ASSUME WaitsStartLate PROVE Spec => []ServerOutlivesCallbacks
  <1>1. IInv => ServerOutlivesCallbacks
    BY DEF IInv, InfoInv, DestructorInv, ServerOutlivesCallbacks, EndingIsOrdered,
      ListKeepsInfo,
      WaitsKeepInfo, Adding, TypeInv, TypeOK
  <1>. QED  BY LifeInv, <1>1, PTL
=============================================================================
