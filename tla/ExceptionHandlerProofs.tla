------------------------ MODULE ExceptionHandlerProofs ------------------------
(***************************************************************************)
(* Proofs about ExceptionHandler, for any threads, signals, objects and    *)
(* plans: whatever crashes, is constructed, destroyed, stripped or called  *)
(* in any order.                                                           *)
(*                                                                         *)
(* Types and HandlersSerialized need each other: the object a thread asks  *)
(* next is stack[i - 1], which is one because the stack has not changed    *)
(* since the thread took the mutex.  How the process ends (EndInv) follows *)
(* for all plans.  What a dump does with pipe, clone and context (DumpInv) *)
(* needs that there is one dump at a time, and the alternate stack that an *)
(* object is destroyed where it was made; both are read off the plan,      *)
(* which is why PlanInv keeps the plan that the behaviour follows.         *)
(***************************************************************************)
EXTENDS ExceptionHandler, TLAPS

\* A thread that asks or dumps does so with an object.
AskedIsHandler == \A t \in Threads : pc[t] \in DumpLocations => at[t].h \in Handlers

IInv == TypeOK /\ HandlersSerialized /\ AskedIsHandler

-----------------------------------------------------------------------------
(* The handler stack stays a sequence of objects. *)

LEMMA RemoveAtIsSeq ==
    ASSUME NEW S, NEW s \in Seq(S), NEW i \in DOMAIN s
    PROVE  RemoveAt(s, i) \in Seq(S)
  BY DEF RemoveAt

LEMMA LastIsElement ==
    ASSUME NEW S, NEW s \in Seq(S), s # <<>>
    PROVE  Len(s) \in DOMAIN s /\ Len(s) \in Nat \ {0} /\ Last(s) = s[Len(s)] /\ Last(s) \in S
  BY DEF Last

LEMMA ToSetIsSubset ==
    ASSUME NEW S, NEW s \in Seq(S), NEW x \in ToSet(s) PROVE x \in S
  BY DEF ToSet

\* A frame with other fields of the right types is a frame.
LEMMA FrameFields ==
    ASSUME NEW f \in Frame
    PROVE  /\ \A v \in Dispositions \cup Calls : [f EXCEPT !.via = v] \in Frame
           /\ \A v \in Dispositions \cup Calls, h \in Handlers :
                 [f EXCEPT !.via = v, !.h = h] \in Frame
           /\ \A s \in Signals, k \in {"fault", "sent"} :
                 [f EXCEPT !.sig = s, !.kind = k] \in Frame
           /\ \A i \in Nat, h \in Handlers : [f EXCEPT !.i = i, !.h = h] \in Frame
           /\ \A i \in Nat, h \in Handlers :
                 [f EXCEPT !.i = i, !.h = h, !.handled = FALSE] \in Frame
           /\ \A b \in BOOLEAN : [f EXCEPT !.handled = b] \in Frame
  BY DEF Frame

\* What an answer does to the thread that has asked.
LEMMA AnswerKeeps ==
    ASSUME TypeOK, HandlersSerialized, AskedIsHandler,
           NEW t \in Threads, NEW v \in BOOLEAN,
           pc[t] \in DumpLocations, Answer(t, v), UNCHANGED <<mutex, stack>>
    PROVE  /\ at' \in [Threads -> Frame] /\ pc' \in [Threads -> Locations]
           /\ HandlersSerialized' /\ AskedIsHandler'
  <1>. USE DEF Goto
  <1>1. CASE at[t].via \in Calls
    BY <1>1 DEF Answer, TypeOK, Locations, HandlersSerialized, InCritical, AskedIsHandler,
      DumpLocations
  <1>2. CASE at[t].via \notin Calls /\ (v \/ at[t].i = 1)
    <2>1. at' = [at EXCEPT ![t] = [at[t] EXCEPT !.handled = v]] /\ at[t] \in Frame
      BY <1>2 DEF Answer, TypeOK
    <2>2. pc' = [pc EXCEPT ![t] = "decide"]
      BY <1>2 DEF Answer
    <2>3. [at[t] EXCEPT !.handled = v] \in Frame
      BY <2>1, FrameFields
    <2>4. at' \in [Threads -> Frame] /\ pc' \in [Threads -> Locations]
      BY <2>1, <2>2, <2>3 DEF TypeOK, Locations
    <2>5. \A f \in Frame :
            LET g == [f EXCEPT !.handled = v] IN g.h = f.h /\ g.i = f.i /\ g.via = f.via
      BY Zenon DEF Frame
    <2>6. \A u \in Threads : at'[u].h = at[u].h /\ at'[u].i = at[u].i /\ at'[u].via = at[u].via
      BY <2>1, <2>5 DEF TypeOK
    <2>7. HandlersSerialized' /\ AskedIsHandler'
      BY <1>2, <2>6, <2>2 DEF TypeOK, HandlersSerialized, InCritical, AskedIsHandler,
        DumpLocations
    <2>. QED  BY <2>4, <2>7
  <1>3. CASE at[t].via \notin Calls /\ ~v /\ at[t].i # 1
    <2>1. mutex = t /\ at[t].i \in DOMAIN stack
      BY <1>3 DEF HandlersSerialized, InCritical
    <2>2. at[t].i - 1 \in DOMAIN stack /\ at[t].i - 1 \in Nat /\ stack[at[t].i - 1] \in Handlers
      BY <1>3, <2>1 DEF TypeOK, Frame
    <2>3. /\ at' = [at EXCEPT ![t] = [at[t] EXCEPT !.i = at[t].i - 1, !.h = stack[at[t].i - 1]]]
          /\ pc' = [pc EXCEPT ![t] = "offer"]
      BY <1>3 DEF Answer
    <2>4. at' \in [Threads -> Frame] /\ pc' \in [Threads -> Locations]
      BY <2>2, <2>3, FrameFields DEF TypeOK, Locations
    <2>5. /\ at'[t].i = at[t].i - 1 /\ at'[t].h = stack[at[t].i - 1] /\ at'[t].via = at[t].via
          /\ \A u \in Threads \ {t} : at'[u] = at[u] /\ pc'[u] = pc[u]
      BY <2>3 DEF TypeOK, Frame
    <2>6. HandlersSerialized' /\ AskedIsHandler'
      BY <1>3, <2>1, <2>2, <2>3, <2>5 DEF TypeOK, HandlersSerialized, InCritical,
        AskedIsHandler,
        DumpLocations
    <2>. QED  BY <2>4, <2>6
  <1>. QED  BY <1>1, <1>2, <1>3

-----------------------------------------------------------------------------
(* The inductive invariant. *)

LEMMA InitInv == Init => IInv
  <1>. SUFFICES ASSUME Init PROVE IInv
    OBVIOUS
  <1>1. TypeOK
    <2>1. todo \in Plan /\ todo.previous \in Dispositions
      BY PlansAssumption DEF Init, Plan, Dispositions
    <2>2. action \in [Signals -> Dispositions] /\ old_handlers \in [Signals -> Dispositions]
      BY <2>1 DEF Init, Dispositions
    <2>3. (CHOOSE s \in Signals : TRUE) \in Signals
      BY SignalsAssumption
    <2>4. [sig |-> CHOOSE s \in Signals : TRUE, kind |-> "fault", via |-> "default", i |-> 0,
           h |-> None, handled |-> FALSE] \in Frame
      BY <2>3 DEF Frame, Dispositions
    <2>5. at \in [Threads -> Frame]
      BY <2>4 DEF Init
    <2>6. NoChild \in Child
      BY DEF NoChild, Child
    <2>7. child \in [Threads -> Child] /\ pc \in [Threads -> Locations]
      BY <2>6 DEF Init, Locations
    <2>8. stack \in Seq(Handlers) /\ mutex \in Threads \cup {None}
      BY DEF Init
    <2>9. ended \in {"no", "default", "previous", "killed", "exit"}
      BY DEF Init
    <2>10. handlers_installed \in BOOLEAN
      BY Zenon DEF Init
    <2>11. /\ new_stack \in Threads \cup {None} /\ altstack \subseteq Threads
           /\ context \in Threads \cup {None} /\ fdes \in [Handlers -> Threads \cup {None}]
           /\ open \subseteq Threads \X {"read", "write"} /\ data \subseteq Threads
           /\ ptracer \in Threads \cup {None} /\ offered \subseteq Threads
           /\ taken \subseteq Signals
      BY DEF Init
    <2>. QED
      BY <2>1, <2>2, <2>5, <2>7, <2>8, <2>9, <2>10, <2>11 DEF TypeOK
  <1>2. HandlersSerialized /\ AskedIsHandler
    BY DEF Init, HandlersSerialized, InCritical, AskedIsHandler, DumpLocations
  <1>. QED  BY <1>1, <1>2 DEF IInv

LEMMA StepInv == IInv /\ [Next]_vars => IInv'
  <1>. SUFFICES ASSUME TypeOK, HandlersSerialized, AskedIsHandler, [Next]_vars PROVE IInv'
    BY DEF IInv
  <1>. USE NoneAssumption
  <1>1. CASE UNCHANGED vars
    BY <1>1 DEF vars, sigVars, stackVars, dumpVars, history, IInv, TypeOK, HandlersSerialized,
      InCritical, AskedIsHandler
  <1>2. ASSUME NEW t \in Threads, NEW h \in Handlers, NEW ii \in BOOLEAN,
                Construct(t, h, ii)
         PROVE  IInv'
    <2>1. TypeOK'
      <3>1. todo' \in Plan
        BY <1>2 DEF Construct, InstallAlternateStackLocked, InstallHandlersLocked,
          TypeOK, Plan
      <3>2. stack' \in Seq(Handlers)
        BY <1>2 DEF Construct, InstallAlternateStackLocked, InstallHandlersLocked, TypeOK
      <3>. QED
        BY <3>1, <3>2, <1>2 DEF Construct, InstallAlternateStackLocked,
          InstallHandlersLocked, Goto, At, sigVars, stackVars, dumpVars, history, TypeOK,
          Locations, Dispositions
    <2>2. HandlersSerialized'
      BY <1>2 DEF Construct, InstallAlternateStackLocked, InstallHandlersLocked, Goto,
        At, sigVars, stackVars, dumpVars, history, HandlersSerialized, InCritical,
        DumpLocations, Calls, TypeOK, Locations, Frame, Dispositions
    <2>3. AskedIsHandler'
      BY <1>2 DEF Construct, InstallAlternateStackLocked, InstallHandlersLocked, Goto,
        At, sigVars, stackVars, dumpVars, history, AskedIsHandler, DumpLocations, TypeOK, Frame
    <2>. QED  BY <2>1, <2>2, <2>3 DEF IInv
  <1>3. ASSUME NEW t \in Threads, NEW h \in Handlers, Destroy(t, h) PROVE IInv'
    <2>1. TypeOK'
      <3>1. todo' \in Plan
        BY <1>3, RemoveAtIsSeq DEF Destroy, Erase, RestoreAlternateStackLocked,
          RestoreHandlersLocked, TypeOK, Plan
      <3>2. stack' \in Seq(Handlers)
        BY <1>3, RemoveAtIsSeq DEF Destroy, Erase, RestoreAlternateStackLocked,
          RestoreHandlersLocked, TypeOK
      <3>. QED
        BY <3>1, <3>2, <1>3, RemoveAtIsSeq DEF Destroy, Erase,
          RestoreAlternateStackLocked, RestoreHandlersLocked, Goto, At, sigVars,
          stackVars, dumpVars, history, TypeOK, Locations, Dispositions
    <2>2. HandlersSerialized'
      BY <1>3, RemoveAtIsSeq DEF Destroy, Erase, RestoreAlternateStackLocked,
        RestoreHandlersLocked, Goto, At, sigVars, stackVars, dumpVars, history,
        HandlersSerialized, InCritical, DumpLocations, Calls, TypeOK, Locations,
        Frame, Dispositions
    <2>3. AskedIsHandler'
      BY <1>3, RemoveAtIsSeq DEF Destroy, Erase, RestoreAlternateStackLocked,
        RestoreHandlersLocked, Goto, At, sigVars, stackVars, dumpVars, history, AskedIsHandler,
        DumpLocations, TypeOK, Frame
    <2>. QED  BY <2>1, <2>2, <2>3 DEF IInv
  <1>4. ASSUME NEW t \in Threads, NEW h \in Handlers, WriteMinidump(t, h) PROVE IInv'
    <2>1. TypeOK'
      <3>1. todo' \in Plan
        BY <1>4, ToSetIsSubset DEF WriteMinidump, CallHandler, Calls, TypeOK, Plan
      <3>2. at' \in [Threads -> Frame]
        <4>1. /\ at' = [at EXCEPT ![t] = [at[t] EXCEPT !.via = "WriteMinidump", !.h = h]]
              /\ h \in Handlers /\ at[t] \in Frame
          BY <1>4, ToSetIsSubset DEF WriteMinidump, CallHandler, TypeOK
        <4>2. [at[t] EXCEPT !.via = "WriteMinidump", !.h = h] \in Frame
          BY <4>1, FrameFields DEF Calls
        <4>. QED  BY <4>1, <4>2 DEF TypeOK
      <3>. QED
        BY <3>1, <3>2, <1>4, ToSetIsSubset DEF WriteMinidump, CallHandler, Calls,
          Goto, At, sigVars, stackVars, dumpVars, history, TypeOK, Locations
    <2>2. HandlersSerialized'
      BY <1>4, ToSetIsSubset DEF WriteMinidump, CallHandler, Calls, Goto, At, sigVars,
        stackVars, dumpVars, history, HandlersSerialized, InCritical, DumpLocations, TypeOK,
        Locations, Frame, Dispositions
    <2>3. AskedIsHandler'
      BY <1>4, ToSetIsSubset DEF WriteMinidump, CallHandler, Calls, Goto, At, sigVars,
        stackVars, dumpVars, history, AskedIsHandler, DumpLocations, TypeOK, Frame
    <2>. QED  BY <2>1, <2>2, <2>3 DEF IInv
  <1>5. ASSUME NEW t \in Threads, NEW h \in Handlers, SimulateSignalDelivery(t, h) PROVE IInv'
    <2>1. TypeOK'
      <3>1. todo' \in Plan
        BY <1>5, ToSetIsSubset DEF SimulateSignalDelivery, CallHandler, Calls, TypeOK, Plan
      <3>2. at' \in [Threads -> Frame]
        <4>1. /\ at' = [at EXCEPT ![t] = [at[t] EXCEPT !.via = "SimulateSignalDelivery", !.h = h]]
              /\ h \in Handlers /\ at[t] \in Frame
          BY <1>5, ToSetIsSubset DEF SimulateSignalDelivery, CallHandler, TypeOK
        <4>2. [at[t] EXCEPT !.via = "SimulateSignalDelivery", !.h = h] \in Frame
          BY <4>1, FrameFields DEF Calls
        <4>. QED  BY <4>1, <4>2 DEF TypeOK
      <3>. QED
        BY <3>1, <3>2, <1>5, ToSetIsSubset DEF SimulateSignalDelivery, CallHandler,
          Calls, Goto, At, sigVars, stackVars, dumpVars, history, TypeOK, Locations
    <2>2. HandlersSerialized'
      BY <1>5, ToSetIsSubset DEF SimulateSignalDelivery, CallHandler, Calls, Goto, At,
        sigVars, stackVars, dumpVars, history, HandlersSerialized, InCritical, DumpLocations,
        TypeOK, Locations, Frame, Dispositions
    <2>3. AskedIsHandler'
      BY <1>5, ToSetIsSubset DEF SimulateSignalDelivery, CallHandler, Calls, Goto, At,
        sigVars, stackVars, dumpVars, history, AskedIsHandler, DumpLocations, TypeOK, Frame
    <2>. QED  BY <2>1, <2>2, <2>3 DEF IInv
  <1>6. ASSUME NEW t \in Threads, Deliver(t) PROVE IInv'
    <2>1. TypeOK'
      <3>1. at' \in [Threads -> Frame]
        <4>1. CASE IsBreakpad(action[at[t].sig])
          <5>1. /\ at' = [at EXCEPT ![t] = [at[t] EXCEPT !.via = action[at[t].sig]]]
                /\ at[t] \in Frame /\ action[at[t].sig] \in Dispositions
            BY <1>6, <4>1 DEF Deliver, TypeOK, Frame
          <5>2. [at[t] EXCEPT !.via = action[at[t].sig]] \in Frame
            BY <5>1, FrameFields
          <5>. QED  BY <5>1, <5>2 DEF TypeOK
        <4>2. CASE ~IsBreakpad(action[at[t].sig])
          BY <1>6, <4>2 DEF Deliver, TypeOK
        <4>. QED  BY <4>1, <4>2
      <3>2. ended' \in {"no", "default", "previous", "killed", "exit"}
        <4>1. action[at[t].sig] \in Dispositions
          BY DEF TypeOK, Frame
        <4>2. CASE IsBreakpad(action[at[t].sig])
          BY <1>6, <4>2 DEF Deliver, TypeOK
        <4>3. CASE ~IsBreakpad(action[at[t].sig])
          BY <1>6, <4>1, <4>3 DEF Deliver, End, IsBreakpad, Dispositions
        <4>. QED  BY <4>2, <4>3
      <3>3. pc' \in [Threads -> Locations]
        BY <1>6 DEF Deliver, End, Goto, TypeOK, Locations
      <3>. QED
        BY <3>1, <3>2, <3>3, <1>6 DEF Deliver, sigVars, stackVars, dumpVars, history, TypeOK
    <2>2. HandlersSerialized'
      BY <1>6 DEF Deliver, End, Goto, At, sigVars, stackVars, dumpVars, history,
        HandlersSerialized, InCritical, DumpLocations, Calls, TypeOK, Locations,
        Frame, Dispositions
    <2>3. AskedIsHandler'
      BY <1>6 DEF Deliver, End, Goto, At, sigVars, stackVars, dumpVars, history,
        AskedIsHandler, DumpLocations, TypeOK, Frame
    <2>. QED  BY <2>1, <2>2, <2>3 DEF IInv
  <1>7. ASSUME NEW t \in Threads, RepairFlags(t) PROVE IInv'
    <2>1. TypeOK'
      BY <1>7 DEF RepairFlags, Goto, At, sigVars, stackVars, dumpVars, history, TypeOK,
        Dispositions, Locations
    <2>2. HandlersSerialized'
      BY <1>7 DEF RepairFlags, Goto, At, sigVars, stackVars, dumpVars, history,
        HandlersSerialized, InCritical, DumpLocations, Calls, TypeOK, Locations,
        Frame, Dispositions
    <2>3. AskedIsHandler'
      BY <1>7 DEF RepairFlags, Goto, At, sigVars, stackVars, dumpVars, history, AskedIsHandler,
        DumpLocations, TypeOK, Frame
    <2>. QED  BY <2>1, <2>2, <2>3 DEF IInv
  <1>8. ASSUME NEW t \in Threads, SignalHandler(t) PROVE IInv'
    <2>1. TypeOK'
      <3>1. at' \in [Threads -> Frame]
        <4>1. CASE stack = <<>>
          BY <1>8, <4>1 DEF SignalHandler, TypeOK
        <4>2. CASE stack # <<>>
          <5>1. /\ at' = [at EXCEPT ![t] = [at[t] EXCEPT !.i = Len(stack), !.h = Last(stack),
                                                      !.handled = FALSE]]
                /\ at[t] \in Frame
            BY <1>8, <4>2 DEF SignalHandler, TypeOK
          <5>2. [at[t] EXCEPT !.i = Len(stack), !.h = Last(stack), !.handled = FALSE] \in Frame
            BY <5>1, <4>2, FrameFields, LastIsElement DEF TypeOK
          <5>. QED  BY <5>1, <5>2 DEF TypeOK
        <4>. QED  BY <4>1, <4>2
      <3>. QED
        BY <3>1, <1>8, LastIsElement DEF SignalHandler, End, Goto, At, sigVars,
          stackVars, dumpVars, history, TypeOK, Locations
    <2>2. HandlersSerialized'
      BY <1>8, LastIsElement DEF SignalHandler, End, Goto, At, sigVars, stackVars,
        dumpVars, history, HandlersSerialized, InCritical, DumpLocations, Calls, TypeOK,
        Locations, Frame, Dispositions
    <2>3. AskedIsHandler'
      BY <1>8, LastIsElement DEF SignalHandler, End, Goto, At, sigVars, stackVars,
        dumpVars, history, AskedIsHandler, DumpLocations, TypeOK, Frame
    <2>. QED  BY <2>1, <2>2, <2>3 DEF IInv
  <1>9. ASSUME NEW t \in Threads, Decide(t) PROVE IInv'
    <2>1. TypeOK'
      <3>1. at[t].sig \in Signals
        BY DEF TypeOK, Frame
      <3>2. action' \in [Signals -> Dispositions] /\ handlers_installed' \in BOOLEAN
        BY <1>9, <3>1 DEF Decide, RestoreHandlersLocked, TypeOK, Dispositions
      <3>3. taken' \subseteq Signals
        BY <1>9, <3>1 DEF Decide, TypeOK
      <3>. QED
        BY <1>9, <3>2, <3>3 DEF Decide, Goto, At, stackVars, dumpVars, TypeOK, Locations
    <2>2. HandlersSerialized'
      BY <1>9 DEF Decide, RestoreHandlersLocked, Goto, At, sigVars, stackVars,
        dumpVars, history, HandlersSerialized, InCritical, DumpLocations, Calls, TypeOK,
        Locations, Frame, Dispositions
    <2>3. AskedIsHandler'
      BY <1>9 DEF Decide, RestoreHandlersLocked, Goto, At, sigVars, stackVars,
        dumpVars, history, AskedIsHandler, DumpLocations, TypeOK, Frame
    <2>. QED  BY <2>1, <2>2, <2>3 DEF IInv
  <1>10. ASSUME NEW t \in Threads, ReturnFromHandler(t) PROVE IInv'
    <2>1. TypeOK'
      BY <1>10 DEF ReturnFromHandler, End, Goto, At, sigVars, stackVars, dumpVars, history,
        TypeOK, Locations
    <2>2. HandlersSerialized'
      BY <1>10 DEF ReturnFromHandler, End, Goto, At, sigVars, stackVars, dumpVars, history,
        HandlersSerialized, InCritical, DumpLocations, Calls, TypeOK, Locations,
        Frame, Dispositions
    <2>3. AskedIsHandler'
      BY <1>10 DEF ReturnFromHandler, End, Goto, At, sigVars, stackVars, dumpVars, history,
        AskedIsHandler, DumpLocations, TypeOK, Frame
    <2>. QED  BY <2>1, <2>2, <2>3 DEF IInv
  <1>11. ASSUME NEW t \in Threads, HandleSignal(t) PROVE IInv'
    <2>1. PICK v \in BOOLEAN : Answer(t, v)
      BY <1>11 DEF HandleSignal, TypeOK, Plan
    <2>2. pc[t] \in DumpLocations /\ UNCHANGED <<mutex, stack>>
      BY <1>11 DEF HandleSignal, At, sigVars, DumpLocations
    <2>3. /\ at' \in [Threads -> Frame] /\ pc' \in [Threads -> Locations]
          /\ HandlersSerialized' /\ AskedIsHandler'
      BY <2>1, <2>2, AnswerKeeps
    <2>5. TypeOK'
      BY <2>3, <1>11 DEF HandleSignal, sigVars, stackVars, dumpVars, history, TypeOK
    <2>. QED  BY <2>3, <2>5 DEF IInv
  <1>12. ASSUME NEW t \in Threads, BogusInfo(t) PROVE IInv'
    <2>1. TypeOK'
      BY <1>12 DEF BogusInfo, End, Goto, At, sigVars, stackVars, dumpVars, history, TypeOK, Locations
    <2>2. HandlersSerialized'
      BY <1>12 DEF BogusInfo, End, Goto, At, sigVars, stackVars, dumpVars, history,
        HandlersSerialized, InCritical, DumpLocations, Calls, TypeOK, Locations,
        Frame, Dispositions
    <2>3. AskedIsHandler'
      BY <1>12 DEF BogusInfo, End, Goto, At, sigVars, stackVars, dumpVars, history,
        AskedIsHandler, DumpLocations, TypeOK, Frame
    <2>. QED  BY <2>1, <2>2, <2>3 DEF IInv
  <1>13. ASSUME NEW t \in Threads, GenerateDump(t) PROVE IInv'
    <2>1. TypeOK'
      BY <1>13 DEF GenerateDump, Ends, Goto, At, sigVars, stackVars, dumpVars, history, TypeOK,
        Locations, AskedIsHandler, DumpLocations
    <2>2. HandlersSerialized'
      BY <1>13 DEF GenerateDump, Ends, Goto, At, sigVars, stackVars, dumpVars, history,
        HandlersSerialized, InCritical, DumpLocations, Calls, TypeOK, Locations,
        Frame, Dispositions
    <2>3. AskedIsHandler'
      BY <1>13 DEF GenerateDump, Ends, Goto, At, sigVars, stackVars, dumpVars, history,
        AskedIsHandler, DumpLocations, TypeOK, Frame
    <2>. QED  BY <2>1, <2>2, <2>3 DEF IInv
  <1>14. ASSUME NEW t \in Threads, CloneFails(t) PROVE IInv'
    <2>1. PICK v \in BOOLEAN : Answer(t, v)
      BY <1>14 DEF CloneFails, TypeOK, Plan
    <2>2. pc[t] \in DumpLocations /\ UNCHANGED <<mutex, stack>>
      BY <1>14 DEF CloneFails, At, sigVars, DumpLocations
    <2>3. /\ at' \in [Threads -> Frame] /\ pc' \in [Threads -> Locations]
          /\ HandlersSerialized' /\ AskedIsHandler'
      BY <2>1, <2>2, AnswerKeeps
    <2>5. TypeOK'
      BY <2>3, <1>14 DEF CloneFails, sigVars, stackVars, dumpVars, history, TypeOK
    <2>. QED  BY <2>3, <2>5 DEF IInv
  <1>15. ASSUME NEW t \in Threads, CloneStarts(t) PROVE IInv'
    <2>1. TypeOK'
      <3>1. child' \in [Threads -> Child]
        BY <1>15 DEF CloneStarts, At, TypeOK, Child, AskedIsHandler, DumpLocations
      <3>. QED
        BY <3>1, <1>15 DEF CloneStarts, Goto, At, sigVars, stackVars, dumpVars, history,
          TypeOK, Locations
    <2>2. HandlersSerialized'
      BY <1>15 DEF CloneStarts, Goto, At, sigVars, stackVars, dumpVars, history,
        HandlersSerialized, InCritical, DumpLocations, Calls, TypeOK, Locations,
        Frame, Dispositions
    <2>3. AskedIsHandler'
      BY <1>15 DEF CloneStarts, Goto, At, sigVars, stackVars, dumpVars, history,
        AskedIsHandler, DumpLocations, TypeOK, Frame
    <2>. QED  BY <2>1, <2>2, <2>3 DEF IInv
  <1>16. ASSUME NEW t \in Threads, AllowPtrace(t) PROVE IInv'
    <2>1. TypeOK'
      BY <1>16 DEF AllowPtrace, Goto, At, sigVars, stackVars, dumpVars, history, TypeOK, Locations
    <2>2. HandlersSerialized'
      BY <1>16 DEF AllowPtrace, Goto, At, sigVars, stackVars, dumpVars, history,
        HandlersSerialized, InCritical, DumpLocations, Calls, TypeOK, Locations,
        Frame, Dispositions
    <2>3. AskedIsHandler'
      BY <1>16 DEF AllowPtrace, Goto, At, sigVars, stackVars, dumpVars, history,
        AskedIsHandler, DumpLocations, TypeOK, Frame
    <2>. QED  BY <2>1, <2>2, <2>3 DEF IInv
  <1>17. ASSUME NEW t \in Threads, SendContinueSignalToChild(t) PROVE IInv'
    <2>1. TypeOK'
      BY <1>17 DEF SendContinueSignalToChild, Goto, At, sigVars, stackVars, dumpVars, history,
        TypeOK, Locations
    <2>2. HandlersSerialized'
      BY <1>17 DEF SendContinueSignalToChild, Goto, At, sigVars, stackVars, dumpVars, history,
        HandlersSerialized, InCritical, DumpLocations, Calls, TypeOK, Locations,
        Frame, Dispositions
    <2>3. AskedIsHandler'
      BY <1>17 DEF SendContinueSignalToChild, Goto, At, sigVars, stackVars, dumpVars, history,
        AskedIsHandler, DumpLocations, TypeOK, Frame
    <2>. QED  BY <2>1, <2>2, <2>3 DEF IInv
  <1>18. ASSUME NEW t \in Threads, ChildReaped(t) PROVE IInv'
    <2>1. PICK v \in BOOLEAN : Answer(t, v)
      BY <1>18 DEF ChildReaped, TypeOK, Plan
    <2>2. pc[t] \in DumpLocations /\ UNCHANGED <<mutex, stack>>
      BY <1>18 DEF ChildReaped, At, sigVars, DumpLocations
    <2>3. /\ at' \in [Threads -> Frame] /\ pc' \in [Threads -> Locations]
          /\ HandlersSerialized' /\ AskedIsHandler'
      BY <2>1, <2>2, AnswerKeeps
    <2>4. child' \in [Threads -> Child]
      BY <1>18 DEF ChildReaped, TypeOK, Child, NoChild
    <2>5. TypeOK'
      BY <2>3, <2>4, <1>18 DEF ChildReaped, sigVars, stackVars, dumpVars, history, TypeOK
    <2>. QED  BY <2>3, <2>5 DEF IInv
  <1>19. ASSUME NEW t \in Threads, WaitForContinueSignal(t) PROVE IInv'
    <2>1. TypeOK'
      <3>1. child' \in [Threads -> Child]
        BY <1>19 DEF WaitForContinueSignal, At, TypeOK, Child, AskedIsHandler, DumpLocations
      <3>. QED
        BY <3>1, <1>19 DEF WaitForContinueSignal, Goto, At, sigVars, stackVars,
          dumpVars, history, TypeOK, Locations
    <2>2. HandlersSerialized'
      BY <1>19 DEF WaitForContinueSignal, Goto, At, sigVars, stackVars, dumpVars, history,
        HandlersSerialized, InCritical, DumpLocations, Calls, TypeOK, Locations,
        Frame, Dispositions
    <2>3. AskedIsHandler'
      BY <1>19 DEF WaitForContinueSignal, Goto, At, sigVars, stackVars, dumpVars, history,
        AskedIsHandler, DumpLocations, TypeOK, Frame
    <2>. QED  BY <2>1, <2>2, <2>3 DEF IInv
  <1>20. ASSUME NEW t \in Threads, DoDump(t) PROVE IInv'
    <2>1. TypeOK'
      <3>1. child' \in [Threads -> Child]
        <4>1. child' = [child EXCEPT ![t] = [child[t] EXCEPT !.state = "exited", !.held = {}]]
          BY <1>20 DEF DoDump
        <4>2. child[t] \in Child
          BY DEF TypeOK
        <4>3. [child[t] EXCEPT !.state = "exited", !.held = {}] \in Child
          BY <4>2 DEF Child
        <4>. QED  BY <4>1, <4>3 DEF TypeOK
      <3>. QED
        BY <3>1, <1>20 DEF DoDump, Goto, At, sigVars, stackVars, dumpVars, history, TypeOK, Locations
    <2>2. HandlersSerialized'
      BY <1>20 DEF DoDump, Goto, At, sigVars, stackVars, dumpVars, history, HandlersSerialized,
        InCritical, DumpLocations, Calls, TypeOK, Locations, Frame, Dispositions
    <2>3. AskedIsHandler'
      BY <1>20 DEF DoDump, Goto, At, sigVars, stackVars, dumpVars, history, AskedIsHandler,
        DumpLocations, TypeOK, Frame
    <2>. QED  BY <2>1, <2>2, <2>3 DEF IInv
  <1>21. ASSUME NEW t \in Threads, NEW s \in Signals, NestedFault(t, s) PROVE IInv'
    <2>1. TypeOK'
      <3>1. todo' \in Plan
        BY <1>21 DEF NestedFault, End, TypeOK, Plan
      <3>. QED
        BY <3>1, <1>21 DEF NestedFault, End, Goto, At, sigVars, stackVars, dumpVars, history,
          TypeOK, Locations
    <2>2. HandlersSerialized'
      BY <1>21 DEF NestedFault, End, Goto, At, sigVars, stackVars, dumpVars, history,
        HandlersSerialized, InCritical, DumpLocations, Calls, TypeOK, Locations,
        Frame, Dispositions
    <2>3. AskedIsHandler'
      BY <1>21 DEF NestedFault, End, Goto, At, sigVars, stackVars, dumpVars, history,
        AskedIsHandler, DumpLocations, TypeOK, Frame
    <2>. QED  BY <2>1, <2>2, <2>3 DEF IInv
  <1>22. ASSUME NEW c \in Crash, CrashHappens(c) PROVE IInv'
    <2>1. TypeOK'
      <3>1. todo' \in Plan
        BY <1>22 DEF CrashHappens, Crash, TypeOK, Plan
      <3>2. at' \in [Threads -> Frame]
        <4>1. /\ at' = [at EXCEPT ![c.thread] =
                [at[c.thread] EXCEPT !.sig = c.sig, !.kind = c.kind]]
              /\ c.sig \in Signals /\ c.kind \in {"fault", "sent"} /\ c.thread \in Threads
              /\ at[c.thread] \in Frame
          BY <1>22 DEF CrashHappens, Crash, TypeOK
        <4>2. [at[c.thread] EXCEPT !.sig = c.sig, !.kind = c.kind] \in Frame
          BY <4>1, FrameFields
        <4>. QED  BY <4>1, <4>2 DEF TypeOK
      <3>. QED
        BY <3>1, <3>2, <1>22 DEF CrashHappens, Crash, Goto, At, sigVars, stackVars,
          dumpVars, history, TypeOK, Locations
    <2>2. HandlersSerialized'
      BY <1>22 DEF CrashHappens, Crash, Goto, At, sigVars, stackVars, dumpVars, history,
        HandlersSerialized, InCritical, DumpLocations, Calls, TypeOK, Locations,
        Frame, Dispositions
    <2>3. AskedIsHandler'
      BY <1>22 DEF CrashHappens, Crash, Goto, At, sigVars, stackVars, dumpVars, history,
        AskedIsHandler, DumpLocations, TypeOK, Frame
    <2>. QED  BY <2>1, <2>2, <2>3 DEF IInv
  <1>23. ASSUME NEW s \in Signals, Strip(s) PROVE IInv'
    <2>1. TypeOK'
      <3>1. todo' \in Plan
        BY <1>23 DEF Strip, TypeOK, Plan
      <3>. QED
        BY <3>1, <1>23 DEF Strip, Goto, At, sigVars, stackVars, dumpVars, history, TypeOK,
          Locations, Dispositions
    <2>2. HandlersSerialized'
      BY <1>23 DEF Strip, Goto, At, sigVars, stackVars, dumpVars, history, HandlersSerialized,
        InCritical, DumpLocations, Calls, TypeOK, Locations, Frame, Dispositions
    <2>3. AskedIsHandler'
      BY <1>23 DEF Strip, Goto, At, sigVars, stackVars, dumpVars, history, AskedIsHandler,
        DumpLocations, TypeOK, Frame
    <2>. QED  BY <2>1, <2>2, <2>3 DEF IInv
  <1>. QED
    BY <1>1, <1>2, <1>3, <1>4, <1>5, <1>6, <1>7, <1>8, <1>9, <1>10, <1>11, <1>12, <1>13,
      <1>14, <1>15, <1>16, <1>17, <1>18, <1>19, <1>20, <1>21, <1>22, <1>23 DEF Next,
      Lifetime, ThreadStep, ChildStep, InHandler, Dumping

-----------------------------------------------------------------------------
(* What an answer, and a step of a dump, do to the threads. *)

LEMMA AnswerMoves ==
    ASSUME TypeOK, NEW t \in Threads, NEW v \in BOOLEAN, Answer(t, v)
    PROVE  /\ \A u \in Threads \ {t} : pc'[u] = pc[u] /\ at'[u] = at[u]
           /\ at'[t].via = at[t].via /\ at'[t].sig = at[t].sig
           /\ IF at[t].via \in Calls THEN pc'[t] = "run" ELSE pc'[t] \in {"offer", "decide"}
  <1>1. at[t] \in Frame /\ pc \in [Threads -> Locations] /\ at \in [Threads -> Frame]
    BY DEF TypeOK
  <1>2. CASE at[t].via \in Calls
    BY <1>1, <1>2 DEF Answer, Goto
  <1>3. CASE at[t].via \notin Calls /\ (v \/ at[t].i = 1)
    <2>1. at' = [at EXCEPT ![t] = [at[t] EXCEPT !.handled = v]]
      BY <1>3 DEF Answer
    <2>2. pc' = [pc EXCEPT ![t] = "decide"]
      BY <1>3 DEF Answer, Goto
    <2>3. \A f \in Frame :
            LET g == [f EXCEPT !.handled = v] IN g.via = f.via /\ g.sig = f.sig
      BY Zenon DEF Frame
    <2>. QED  BY <1>1, <1>3, <2>1, <2>2, <2>3
  <1>4. CASE at[t].via \notin Calls /\ ~v /\ at[t].i # 1
    BY <1>1, <1>4 DEF Answer, Goto, Frame
  <1>. QED  BY <1>2, <1>3, <1>4

\* The steps of a dump that stay in it, and those in which an object answers.
Dumps(t) ==
    GenerateDump(t) \/ CloneStarts(t) \/ AllowPtrace(t) \/ SendContinueSignalToChild(t)
Answers(t) == HandleSignal(t) \/ CloneFails(t) \/ ChildReaped(t)

LEMMA DumpMoves ==
    ASSUME TypeOK, NEW t \in Threads, Dumps(t)
    PROVE  /\ \A u \in Threads \ {t} : pc'[u] = pc[u]
           /\ pc[t] \in DumpLocations /\ pc'[t] \in DumpLocations \ {"offer"}
           /\ ended = "no"
           /\ UNCHANGED <<todo, ended, sigVars, stackVars, mutex, at, history>>
  BY DEF Dumps, GenerateDump, CloneStarts, AllowPtrace, SendContinueSignalToChild, At, Goto,
    DumpLocations, TypeOK

LEMMA AnswersMove ==
    ASSUME TypeOK, NEW t \in Threads, Answers(t)
    PROVE  /\ \E v \in BOOLEAN : Answer(t, v)
           /\ pc[t] \in DumpLocations /\ ended = "no"
           /\ UNCHANGED <<todo, ended, sigVars, stackVars, mutex, history>>
  <1>1. todo.answers \subseteq BOOLEAN
    BY DEF TypeOK, Plan
  <1>2. CASE HandleSignal(t)
    BY <1>1, <1>2 DEF HandleSignal, At, DumpLocations
  <1>3. CASE CloneFails(t)
    BY <1>3 DEF CloneFails, At, DumpLocations
  <1>4. CASE ChildReaped(t)
    BY <1>1, <1>4 DEF ChildReaped, At, DumpLocations
  <1>. QED  BY <1>2, <1>3, <1>4 DEF Answers

-----------------------------------------------------------------------------
(* How the process ends: every signal that has lost Breakpad's handler while *)
(* the handlers are installed is one that an object has handled.             *)

OwnerIsOffered == \A t \in Threads : mutex = t \/ pc[t] = "return" => t \in offered

InstalledIsBreakpad ==
    handlers_installed => \A s \in Signals : IsBreakpad(action[s]) \/ s \in taken

\* The default action of a signal that had another handler, now or saved for later.
DefaultIsTaken ==
    todo.previous = "previous" => \A s \in Signals :
        action[s] = "default" \/ (handlers_installed /\ old_handlers[s] = "default")
            => s \in taken

DeadHasEnded == \A t \in Threads : pc[t] = "dead" => ended # "no"

EndInv == OwnerIsOffered /\ InstalledIsBreakpad /\ DefaultIsTaken /\ DeadHasEnded

HistoryInv == IInv /\ EndInv /\ RejectedReachesPrevious /\ OfferedBeforeDeath

LEMMA InitEnd == Init => EndInv /\ RejectedReachesPrevious /\ OfferedBeforeDeath
  <1>. SUFFICES ASSUME Init PROVE EndInv /\ RejectedReachesPrevious /\ OfferedBeforeDeath
    OBVIOUS
  <1>1. OwnerIsOffered /\ DeadHasEnded /\ InstalledIsBreakpad
    BY NoneAssumption DEF Init, OwnerIsOffered, DeadHasEnded, InstalledIsBreakpad
  <1>2. DefaultIsTaken
    BY DEF Init, DefaultIsTaken
  <1>3. RejectedReachesPrevious /\ OfferedBeforeDeath
    BY DEF Init, RejectedReachesPrevious, OfferedBeforeDeath
  <1>. QED  BY <1>1, <1>2, <1>3 DEF EndInv

\* As long as the process goes on, only the invariant is to be shown.
LEMMA GoesOn ==
    ASSUME DeadHasEnded', ended' = "no"
    PROVE  RejectedReachesPrevious' /\ OfferedBeforeDeath'
  BY DEF DeadHasEnded, RejectedReachesPrevious, OfferedBeforeDeath

LEMMA StepEnd ==
    ASSUME IInv, EndInv, RejectedReachesPrevious, OfferedBeforeDeath, [Next]_vars
    PROVE  EndInv' /\ RejectedReachesPrevious' /\ OfferedBeforeDeath'
  <1>. DEFINE Goal == EndInv' /\ RejectedReachesPrevious' /\ OfferedBeforeDeath'
  <1>. SUFFICES Goal
    OBVIOUS
  <1>. USE NoneAssumption
  <1>0. /\ TypeOK /\ HandlersSerialized
        /\ OwnerIsOffered /\ InstalledIsBreakpad /\ DefaultIsTaken /\ DeadHasEnded
    BY DEF IInv, EndInv
  <1>01. /\ pc \in [Threads -> Locations] /\ at \in [Threads -> Frame]
         /\ action \in [Signals -> Dispositions] /\ old_handlers \in [Signals -> Dispositions]
         /\ \A t \in Threads : at[t].sig \in Signals
    BY <1>0 DEF TypeOK, Frame
  <1>1. CASE UNCHANGED vars
    <2>1. UNCHANGED <<todo, ended, action, old_handlers, handlers_installed, stack, mutex,
                      pc, at, offered, taken>>
      BY <1>1 DEF vars, sigVars, history
    <2>2. OwnerIsOffered' /\ InstalledIsBreakpad' /\ DefaultIsTaken' /\ DeadHasEnded'
      BY <1>0, <2>1 DEF OwnerIsOffered, InstalledIsBreakpad, DefaultIsTaken,
        DeadHasEnded
    <2>3. RejectedReachesPrevious' /\ OfferedBeforeDeath'
      BY <2>1 DEF RejectedReachesPrevious, OfferedBeforeDeath
    <2>. QED  BY <2>2, <2>3 DEF EndInv
  <1>2. ASSUME NEW t \in Threads, NEW h \in Handlers, NEW ii \in BOOLEAN,
                Construct(t, h, ii)
         PROVE  Goal
    <2>1. UNCHANGED <<ended, mutex, pc, offered, taken>> /\ ended = "no"
      BY <1>2 DEF Construct, At, history
    <2>2. todo'.previous = todo.previous
      BY <1>0, <1>2 DEF Construct, TypeOK, Plan
    <2>3. OwnerIsOffered' /\ DeadHasEnded'
      BY <1>0, <2>1 DEF OwnerIsOffered, DeadHasEnded
    <2>4. InstalledIsBreakpad' /\ DefaultIsTaken'
      <3>1. CASE ii /\ ~handlers_installed
        <4>1. old_handlers' = action /\ action' = [s \in Signals |-> "breakpad"]
          BY <1>2, <3>1 DEF Construct, InstallHandlersLocked
        <4>. QED
          BY <1>0, <4>1, <2>1, <2>2 DEF InstalledIsBreakpad, DefaultIsTaken, IsBreakpad
      <3>2. CASE ~(ii /\ ~handlers_installed)
        <4>1. UNCHANGED <<action, old_handlers, handlers_installed>>
          BY <1>2, <3>2 DEF Construct, InstallHandlersLocked
        <4>. QED
          BY <1>0, <4>1, <2>1, <2>2 DEF InstalledIsBreakpad, DefaultIsTaken
      <3>. QED  BY <3>1, <3>2
    <2>. QED  BY <2>1, <2>3, <2>4, GoesOn DEF EndInv
  <1>3. ASSUME NEW t \in Threads, NEW h \in Handlers, Destroy(t, h) PROVE Goal
    <2>1. UNCHANGED <<ended, mutex, pc, offered, taken, old_handlers>> /\ ended = "no"
      BY <1>3 DEF Destroy, At, history
    <2>2. todo'.previous = todo.previous
      BY <1>0, <1>3 DEF Destroy, TypeOK, Plan
    <2>3. OwnerIsOffered' /\ DeadHasEnded'
      BY <1>0, <2>1 DEF OwnerIsOffered, DeadHasEnded
    <2>4. \/ UNCHANGED <<action, handlers_installed>>
          \/ handlers_installed /\ ~handlers_installed' /\ action' = old_handlers
      BY <1>3 DEF Destroy, RestoreHandlersLocked
    <2>5. InstalledIsBreakpad' /\ DefaultIsTaken'
      BY <1>0, <2>1, <2>2, <2>4 DEF InstalledIsBreakpad, DefaultIsTaken
    <2>. QED  BY <2>1, <2>3, <2>5, GoesOn DEF EndInv
  <1>4. ASSUME NEW t \in Threads, NEW call \in Calls, NEW h \in Handlers,
                CallHandler(t, call, h)
         PROVE  Goal
    <2>1. /\ UNCHANGED <<ended, mutex, action, old_handlers, handlers_installed, offered, taken>>
          /\ ended = "no" /\ pc' = [pc EXCEPT ![t] = "offer"]
      BY <1>4 DEF CallHandler, At, Goto, sigVars, history
    <2>2. todo'.previous = todo.previous
      BY <1>0, <1>4 DEF CallHandler, TypeOK, Plan
    <2>3. OwnerIsOffered' /\ DeadHasEnded'
      BY <1>0, <1>01, <2>1 DEF OwnerIsOffered, DeadHasEnded
    <2>4. InstalledIsBreakpad' /\ DefaultIsTaken'
      BY <1>0, <2>1, <2>2 DEF InstalledIsBreakpad, DefaultIsTaken
    <2>. QED  BY <2>1, <2>3, <2>4, GoesOn DEF EndInv
  <1>5. ASSUME NEW t \in Threads, Deliver(t) PROVE Goal
    <2>1. /\ UNCHANGED <<todo, mutex, action, old_handlers, handlers_installed, stack, offered,
                         taken>>
          /\ ended = "no" /\ pc[t] = "crash"
      BY <1>5 DEF Deliver, At, sigVars, history
    <2>2. InstalledIsBreakpad' /\ DefaultIsTaken'
      BY <1>0, <2>1 DEF InstalledIsBreakpad, DefaultIsTaken
    <2>3. CASE IsBreakpad(action[at[t].sig])
      <3>1. UNCHANGED ended /\ pc' = [pc EXCEPT ![t] = "handler"]
        BY <1>5, <2>3 DEF Deliver, Goto
      <3>2. OwnerIsOffered' /\ DeadHasEnded'
        BY <1>0, <1>01, <2>1, <3>1 DEF OwnerIsOffered, DeadHasEnded
      <3>. QED  BY <2>1, <2>2, <3>1, <3>2, GoesOn DEF EndInv
    <2>4. CASE ~IsBreakpad(action[at[t].sig])
      <3>1. /\ ended' = action[at[t].sig] /\ pc' = [pc EXCEPT ![t] = "dead"]
            /\ UNCHANGED at
        BY <1>5, <2>4 DEF Deliver, End, Goto
      <3>2. ended' # "no" /\ action[at[t].sig] \in Dispositions
        BY <1>01, <3>1 DEF Dispositions
      <3>3. OwnerIsOffered' /\ DeadHasEnded'
        BY <1>0, <1>01, <2>1, <3>1, <3>2 DEF OwnerIsOffered, DeadHasEnded
      <3>4. \A u \in Threads : pc'[u] = "dead" => u = t
        BY <1>0, <1>01, <2>1, <3>1 DEF DeadHasEnded
      <3>5. pc'[t] = "dead"
        BY <1>01, <3>1
      <3>6. RejectedReachesPrevious'
        BY <1>0, <1>01, <2>1, <3>1, <3>5 DEF RejectedReachesPrevious, DefaultIsTaken
      <3>7. OfferedBeforeDeath'
        BY <1>0, <1>01, <2>1, <2>4, <3>1, <3>4 DEF OfferedBeforeDeath, InstalledIsBreakpad
      <3>. QED  BY <2>2, <3>3, <3>6, <3>7 DEF EndInv
    <2>. QED  BY <2>3, <2>4
  <1>6. ASSUME NEW t \in Threads, RepairFlags(t) PROVE Goal
    <2>1. /\ UNCHANGED <<todo, ended, mutex, old_handlers, handlers_installed, offered, taken>>
          /\ ended = "no" /\ action' = [action EXCEPT ![at[t].sig] = "reset"]
          /\ pc'[t] \in {"crash", "run"} /\ \A u \in Threads \ {t} : pc'[u] = pc[u]
      BY <1>6, <1>01 DEF RepairFlags, At, Goto, history
    <2>2. OwnerIsOffered' /\ DeadHasEnded'
      BY <1>0, <2>1 DEF OwnerIsOffered, DeadHasEnded
    <2>3. InstalledIsBreakpad' /\ DefaultIsTaken'
      BY <1>0, <1>01, <2>1 DEF InstalledIsBreakpad, DefaultIsTaken, IsBreakpad
    <2>. QED  BY <2>1, <2>2, <2>3, GoesOn DEF EndInv
  <1>7. ASSUME NEW t \in Threads, SignalHandler(t) PROVE Goal
    <2>1. /\ UNCHANGED <<todo, action, old_handlers, handlers_installed, stack, taken>>
          /\ ended = "no" /\ mutex = None /\ \A u \in Threads \ {t} : pc'[u] = pc[u]
      BY <1>7, <1>01 DEF SignalHandler, At, End, Goto, sigVars
    <2>2. InstalledIsBreakpad' /\ DefaultIsTaken'
      BY <1>0, <2>1 DEF InstalledIsBreakpad, DefaultIsTaken
    <2>3. CASE stack = <<>>
      <3>1. ended' = "killed" /\ pc' = [pc EXCEPT ![t] = "dead"] /\ UNCHANGED <<mutex, offered>>
        BY <1>7, <2>3 DEF SignalHandler, End, Goto
      <3>2. OwnerIsOffered' /\ DeadHasEnded'
        BY <1>0, <1>01, <3>1 DEF OwnerIsOffered, DeadHasEnded
      <3>3. RejectedReachesPrevious' /\ OfferedBeforeDeath'
        BY <2>1, <2>3, <3>1 DEF RejectedReachesPrevious, OfferedBeforeDeath
      <3>. QED  BY <2>2, <3>2, <3>3 DEF EndInv
    <2>4. CASE stack # <<>>
      <3>1. UNCHANGED ended /\ pc'[t] = "offer" /\ offered' = offered \cup {t} /\ mutex' = t
        BY <1>7, <1>01, <2>4 DEF SignalHandler, Goto
      <3>2. OwnerIsOffered' /\ DeadHasEnded'
        BY <1>0, <2>1, <3>1 DEF OwnerIsOffered, DeadHasEnded
      <3>. QED  BY <2>1, <2>2, <3>1, <3>2, GoesOn DEF EndInv
    <2>. QED  BY <2>3, <2>4
  <1>8. ASSUME NEW t \in Threads, Decide(t) PROVE Goal
    <2>1. /\ UNCHANGED <<todo, ended, old_handlers, at, offered>> /\ ended = "no"
          /\ pc[t] = "decide" /\ pc' = [pc EXCEPT ![t] = "return"] /\ mutex' = None
      BY <1>8 DEF Decide, At, Goto
    <2>9. t \in offered
      BY <1>0, <2>1 DEF OwnerIsOffered, HandlersSerialized, InCritical
    <2>2. OwnerIsOffered' /\ DeadHasEnded'
      BY <1>0, <1>01, <2>1, <2>9 DEF OwnerIsOffered, DeadHasEnded
    <2>3. \/ /\ action' = [action EXCEPT ![at[t].sig] = "default"]
             /\ taken' = taken \cup {at[t].sig} /\ UNCHANGED handlers_installed
          \/ UNCHANGED <<action, handlers_installed, taken>>
          \/ /\ handlers_installed /\ ~handlers_installed' /\ action' = old_handlers
             /\ UNCHANGED taken
      BY <1>8 DEF Decide, RestoreHandlersLocked
    <2>4. InstalledIsBreakpad' /\ DefaultIsTaken'
      BY <1>0, <1>01, <2>1, <2>3 DEF InstalledIsBreakpad, DefaultIsTaken
    <2>. QED  BY <2>1, <2>2, <2>4, GoesOn DEF EndInv
  <1>9. ASSUME NEW t \in Threads, ReturnFromHandler(t) \/ BogusInfo(t) PROVE Goal
    <2>1. /\ UNCHANGED <<todo, mutex, action, old_handlers, handlers_installed, at, offered,
                         taken>>
          /\ ended = "no"
      BY <1>9 DEF ReturnFromHandler, BogusInfo, At, sigVars, history
    <2>2. InstalledIsBreakpad' /\ DefaultIsTaken'
      BY <1>0, <2>1 DEF InstalledIsBreakpad, DefaultIsTaken
    <2>3. \/ ended' = "no" /\ pc' = [pc EXCEPT ![t] = "crash"]
          \/ ended' \in {"exit", "killed"} /\ pc' = [pc EXCEPT ![t] = "dead"]
      BY <1>9 DEF ReturnFromHandler, BogusInfo, At, End, Goto
    <2>4. t \in offered
      <3>1. CASE ReturnFromHandler(t)
        BY <1>0, <3>1 DEF ReturnFromHandler, At, OwnerIsOffered
      <3>2. CASE BogusInfo(t)
        BY <1>0, <3>2 DEF BogusInfo, Genuine, OwnerIsOffered, HandlersSerialized,
          InCritical, DumpLocations, Calls
      <3>. QED  BY <1>9, <3>1, <3>2
    <2>5. OwnerIsOffered' /\ DeadHasEnded'
      BY <1>0, <1>01, <2>1, <2>3 DEF OwnerIsOffered, DeadHasEnded
    <2>6. \A u \in Threads : pc'[u] = "dead" => u = t
      BY <1>0, <1>01, <2>1, <2>3 DEF DeadHasEnded
    <2>7. RejectedReachesPrevious' /\ OfferedBeforeDeath'
      BY <2>1, <2>3, <2>4, <2>6 DEF RejectedReachesPrevious, OfferedBeforeDeath
    <2>. QED  BY <2>2, <2>5, <2>7 DEF EndInv
  <1>10. ASSUME NEW t \in Threads, Answers(t) PROVE Goal
    <2>1. PICK v \in BOOLEAN : Answer(t, v)
      BY <1>0, <1>10, AnswersMove
    <2>2. /\ pc[t] \in DumpLocations /\ ended = "no"
          /\ UNCHANGED <<todo, ended, mutex, action, old_handlers, handlers_installed, offered,
                         taken>>
      BY <1>0, <1>10, AnswersMove DEF sigVars, history
    <2>3. OwnerIsOffered' /\ DeadHasEnded'
      BY <1>0, <2>1, <2>2, AnswerMoves DEF OwnerIsOffered, DeadHasEnded
    <2>4. InstalledIsBreakpad' /\ DefaultIsTaken'
      BY <1>0, <2>2 DEF InstalledIsBreakpad, DefaultIsTaken
    <2>. QED  BY <2>2, <2>3, <2>4, GoesOn DEF EndInv
  <1>11. ASSUME NEW t \in Threads, Dumps(t) PROVE Goal
    <2>1. /\ UNCHANGED <<todo, ended, mutex, action, old_handlers, handlers_installed, offered,
                         taken>>
          /\ ended = "no" /\ pc[t] \in DumpLocations /\ pc'[t] \in DumpLocations
          /\ \A u \in Threads \ {t} : pc'[u] = pc[u]
      BY <1>0, <1>11, DumpMoves DEF sigVars, history
    <2>2. OwnerIsOffered' /\ DeadHasEnded'
      BY <1>0, <2>1 DEF OwnerIsOffered, DeadHasEnded, DumpLocations
    <2>3. InstalledIsBreakpad' /\ DefaultIsTaken'
      BY <1>0, <2>1 DEF InstalledIsBreakpad, DefaultIsTaken
    <2>. QED  BY <2>1, <2>2, <2>3, GoesOn DEF EndInv
  <1>12. ASSUME NEW t \in Threads, ChildStep(t) PROVE Goal
    <2>1. /\ UNCHANGED <<todo, ended, mutex, action, old_handlers, handlers_installed, pc,
                         offered, taken>>
          /\ ended = "no"
      BY <1>12 DEF ChildStep, WaitForContinueSignal, DoDump, sigVars, history
    <2>2. OwnerIsOffered' /\ DeadHasEnded' /\ InstalledIsBreakpad' /\ DefaultIsTaken'
      BY <1>0, <2>1 DEF OwnerIsOffered, DeadHasEnded, InstalledIsBreakpad,
        DefaultIsTaken
    <2>. QED  BY <2>1, <2>2, GoesOn DEF EndInv
  <1>13. ASSUME NEW t \in Threads, NEW s \in Signals, NestedFault(t, s) PROVE Goal
    <2>1. /\ UNCHANGED <<mutex, action, old_handlers, handlers_installed, at, offered, taken>>
          /\ ended = "no" /\ mutex = t
      BY <1>13 DEF NestedFault, At, sigVars, history
    <2>2. todo'.previous = todo.previous
      BY <1>0, <1>13 DEF NestedFault, TypeOK, Plan
    <2>3. \/ ended' = "no" /\ pc' = [pc EXCEPT ![t] = "stuck"]
          \/ ended' = "killed" /\ pc' = [pc EXCEPT ![t] = "dead"]
      BY <1>13 DEF NestedFault, At, End, Goto
    <2>4. t \in offered
      BY <1>0, <2>1 DEF OwnerIsOffered
    <2>5. OwnerIsOffered' /\ DeadHasEnded' /\ InstalledIsBreakpad' /\ DefaultIsTaken'
      BY <1>0, <1>01, <2>1, <2>2, <2>3 DEF OwnerIsOffered, DeadHasEnded, InstalledIsBreakpad,
        DefaultIsTaken
    <2>6. \A u \in Threads : pc'[u] = "dead" => u = t
      BY <1>0, <1>01, <2>1, <2>3 DEF DeadHasEnded
    <2>7. RejectedReachesPrevious' /\ OfferedBeforeDeath'
      BY <2>1, <2>3, <2>4, <2>6 DEF RejectedReachesPrevious, OfferedBeforeDeath
    <2>. QED  BY <2>5, <2>7 DEF EndInv
  <1>14. ASSUME NEW c \in Crash, CrashHappens(c) PROVE Goal
    <2>1. c.thread \in Threads
      BY DEF Crash
    <2>2. /\ UNCHANGED <<ended, mutex, action, old_handlers, handlers_installed, offered, taken>>
          /\ ended = "no" /\ pc' = [pc EXCEPT ![c.thread] = "crash"]
      BY <1>14 DEF CrashHappens, At, Goto, sigVars, history
    <2>3. todo'.previous = todo.previous
      BY <1>0, <1>14 DEF CrashHappens, TypeOK, Plan
    <2>4. OwnerIsOffered' /\ DeadHasEnded'
      BY <1>0, <1>01, <2>1, <2>2 DEF OwnerIsOffered, DeadHasEnded
    <2>5. InstalledIsBreakpad' /\ DefaultIsTaken'
      BY <1>0, <2>2, <2>3 DEF InstalledIsBreakpad, DefaultIsTaken
    <2>. QED  BY <2>2, <2>4, <2>5, GoesOn DEF EndInv
  <1>15. ASSUME NEW s \in Signals, Strip(s) PROVE Goal
    <2>1. /\ UNCHANGED <<ended, mutex, old_handlers, handlers_installed, pc, offered, taken>>
          /\ ended = "no" /\ action' = [action EXCEPT ![s] = "stripped"]
      BY <1>15 DEF Strip, history
    <2>2. todo'.previous = todo.previous
      BY <1>0, <1>15 DEF Strip, TypeOK, Plan
    <2>3. OwnerIsOffered' /\ DeadHasEnded'
      BY <1>0, <2>1 DEF OwnerIsOffered, DeadHasEnded
    <2>4. InstalledIsBreakpad' /\ DefaultIsTaken'
      BY <1>0, <1>01, <2>1, <2>2 DEF InstalledIsBreakpad, DefaultIsTaken, IsBreakpad
    <2>. QED  BY <2>1, <2>3, <2>4, GoesOn DEF EndInv
  <1>16. ASSUME NEW t \in Threads, Lifetime(t) PROVE Goal
    BY <1>2, <1>3, <1>4, <1>16 DEF Lifetime, WriteMinidump, SimulateSignalDelivery, Calls
  <1>17. ASSUME NEW t \in Threads, ThreadStep(t) PROVE Goal
    BY <1>5, <1>6, <1>7, <1>8, <1>9, <1>10, <1>11, <1>17 DEF ThreadStep, InHandler, Dumping,
      Dumps, Answers
  <1>. HIDE DEF Goal
  <1>. QED
    BY <1>1, <1>12, <1>13, <1>14, <1>15, <1>16, <1>17 DEF Next

-----------------------------------------------------------------------------
(* What has happened is part of a plan; who owns the alternate stack.        *)

TodoLeft(p) ==
    /\ todo.crashes \subseteq p.crashes /\ todo.calls \subseteq p.calls
    /\ todo.constructs \subseteq p.constructs /\ todo.destroys \subseteq p.destroys

ActorsOnly(p) == \A t \in Threads : pc[t] # "run" => t \in Actors(p)

\* A thread that dumps holds the mutex or was asked to.
DumpIsDue(p) ==
    \A t \in Threads : pc[t] \in DumpLocations =>
        mutex = t \/ \E call \in Calls : <<t, call>> \in p.calls

\* The thread the stack was installed for constructed an object that is still
\* there or that is one of those to be destroyed.
StackHasOwner(p) ==
    new_stack # None => \E g \in Handlers :
        /\ <<new_stack, g>> \in p.constructs
        /\ g \in ToSet(stack) \/ \E u \in Threads : <<u, g>> \in p.destroys

Follows(p) == TodoLeft(p) /\ ActorsOnly(p) /\ DumpIsDue(p) /\ StackHasOwner(p)

LEMMA ErasedIsGone ==
    ASSUME NEW S, NEW s \in Seq(S), NEW i \in DOMAIN s, NEW g \in ToSet(s), g # s[i]
    PROVE  g \in ToSet(RemoveAt(s, i))
  <1>. DEFINE r == RemoveAt(s, i)
  <1>1. PICK j \in DOMAIN s : s[j] = g
    BY DEF ToSet
  <1>2. r \in Seq(S) /\ Len(r) = Len(s) - 1
    BY DEF RemoveAt
  <1>3. CASE j < i
    <2>1. j \in DOMAIN r /\ r[j] = g
      BY <1>1, <1>2, <1>3 DEF RemoveAt
    <2>. QED  BY <2>1 DEF ToSet
  <1>4. CASE j > i
    <2>. DEFINE a == SubSeq(s, 1, i - 1)
                b == SubSeq(s, i + 1, Len(s))
    <2>2. a \in Seq(S) /\ Len(a) = i - 1
      OBVIOUS
    <2>3. b \in Seq(S) /\ Len(b) = Len(s) - i /\ j - i \in DOMAIN b /\ b[j - i] = s[j]
      BY <1>4
    <2>4. j - 1 = Len(a) + (j - i) /\ j - 1 \in DOMAIN r
      BY <1>2, <1>4, <2>2
    <2>5. (a \o b)[Len(a) + (j - i)] = b[j - i]
      <3>. HIDE DEF a, b
      <3>. QED  BY <2>2, <2>3
    <2>1. j - 1 \in DOMAIN r /\ r[j - 1] = g
      BY <1>1, <2>3, <2>4, <2>5 DEF RemoveAt
    <2>. QED  BY <2>1 DEF ToSet
  <1>. QED  BY <1>1, <1>3, <1>4

LEMMA AppendIsThere ==
    ASSUME NEW S, NEW s \in Seq(S), NEW h \in S
    PROVE  h \in ToSet(Append(s, h)) /\ \A g \in ToSet(s) : g \in ToSet(Append(s, h))
  <1>1. Len(s) + 1 \in DOMAIN Append(s, h) /\ Append(s, h)[Len(s) + 1] = h
    OBVIOUS
  <1>2. \A j \in DOMAIN s : j \in DOMAIN Append(s, h) /\ Append(s, h)[j] = s[j]
    OBVIOUS
  <1>. QED  BY <1>1, <1>2 DEF ToSet

LEMMA InitFollows == ASSUME Init PROVE Follows(todo)
  <1>1. TodoLeft(todo) /\ ActorsOnly(todo) /\ DumpIsDue(todo) /\ StackHasOwner(todo)
    BY DEF Init, TodoLeft, ActorsOnly, DumpIsDue, StackHasOwner, DumpLocations
  <1>. QED  BY <1>1 DEF Follows

LEMMA StepFollows ==
    ASSUME IInv, NEW p \in Plans, Follows(p), [Next]_vars
    PROVE  Follows(p)'
  <1>. USE NoneAssumption
  <1>0. /\ TypeOK /\ HandlersSerialized
        /\ TodoLeft(p) /\ ActorsOnly(p) /\ DumpIsDue(p) /\ StackHasOwner(p)
    BY DEF IInv, Follows
  <1>01. /\ pc \in [Threads -> Locations] /\ stack \in Seq(Handlers) /\ p \in Plan
         /\ todo \in Plan
    BY <1>0, PlansAssumption DEF TypeOK
  <1>02. \A c \in p.crashes : c.thread \in Actors(p)
    BY DEF Actors
  <1>03. \A t, call : <<t, call>> \in p.calls => t \in Actors(p)
    <2>. SUFFICES ASSUME NEW t, NEW call, <<t, call>> \in p.calls PROVE t \in Actors(p)
      OBVIOUS
    <2>1. <<t, call>>[1] = t
      OBVIOUS
    <2>. QED  BY <2>1 DEF Actors
  \* The steps that leave the objects and their stack alone.
  <1>a. ASSUME UNCHANGED <<stack, new_stack>> PROVE StackHasOwner(p)'
    BY <1>0, <1>a DEF StackHasOwner
  <1>1. CASE UNCHANGED vars
    <2>1. UNCHANGED <<todo, stack, new_stack, mutex, pc>>
      BY <1>1 DEF vars, sigVars, stackVars
    <2>. QED
      BY <1>0, <1>a, <2>1 DEF Follows, TodoLeft, ActorsOnly, DumpIsDue
  <1>2. ASSUME NEW t \in Threads, NEW h \in Handlers, NEW ii \in BOOLEAN,
                Construct(t, h, ii)
         PROVE  Follows(p)'
    <2>1. /\ UNCHANGED <<mutex, pc>> /\ stack' = Append(stack, h)
          /\ <<t, h>> \in p.constructs
          /\ new_stack' = new_stack \/ new_stack' = t
      BY <1>0, <1>2 DEF Construct, InstallAlternateStackLocked, stackVars, TodoLeft
    <2>2. TodoLeft(p)'
      BY <1>0, <1>01, <1>2 DEF Construct, TodoLeft, Plan
    <2>3. ActorsOnly(p)' /\ DumpIsDue(p)'
      BY <1>0, <2>1 DEF ActorsOnly, DumpIsDue
    <2>4. h \in ToSet(stack') /\ \A g \in ToSet(stack) : g \in ToSet(stack')
      BY <1>01, <2>1, AppendIsThere
    <2>5. StackHasOwner(p)'
      BY <1>0, <2>1, <2>4 DEF StackHasOwner
    <2>. QED  BY <2>2, <2>3, <2>5 DEF Follows
  <1>3. ASSUME NEW t \in Threads, NEW h \in Handlers, Destroy(t, h) PROVE Follows(p)'
    <2>1. /\ UNCHANGED <<mutex, pc>> /\ Erase(h) /\ <<t, h>> \in p.destroys
          /\ new_stack' = new_stack \/ new_stack' = None
      BY <1>0, <1>3 DEF Destroy, RestoreAlternateStackLocked, stackVars, TodoLeft
    <2>2. TodoLeft(p)'
      BY <1>0, <1>01, <1>3 DEF Destroy, TodoLeft, Plan
    <2>3. ActorsOnly(p)' /\ DumpIsDue(p)'
      BY <1>0, <2>1 DEF ActorsOnly, DumpIsDue
    <2>4. PICK i \in DOMAIN stack : stack[i] = h /\ stack' = RemoveAt(stack, i)
      BY <2>1 DEF Erase
    <2>5. \A g \in ToSet(stack) : g = h \/ g \in ToSet(stack')
      BY <1>01, <2>4, ErasedIsGone
    <2>6. StackHasOwner(p)'
      BY <1>0, <2>1, <2>5 DEF StackHasOwner
    <2>. QED  BY <2>2, <2>3, <2>6 DEF Follows
  <1>4. ASSUME NEW t \in Threads, NEW call \in Calls, NEW h \in Handlers,
                CallHandler(t, call, h)
         PROVE  Follows(p)'
    <2>1. /\ UNCHANGED <<stack, new_stack, mutex>> /\ pc' = [pc EXCEPT ![t] = "offer"]
          /\ <<t, call>> \in p.calls
      BY <1>0, <1>4 DEF CallHandler, Goto, sigVars, stackVars, TodoLeft
    <2>2. TodoLeft(p)'
      BY <1>0, <1>01, <1>4 DEF CallHandler, TodoLeft, Plan
    <2>3. ActorsOnly(p)' /\ DumpIsDue(p)'
      BY <1>0, <1>01, <1>03, <2>1 DEF ActorsOnly, DumpIsDue
    <2>. QED  BY <1>a, <2>1, <2>2, <2>3 DEF Follows
  <1>5. ASSUME NEW t \in Threads,
                Deliver(t) \/ RepairFlags(t) \/ ReturnFromHandler(t) \/ BogusInfo(t)
         PROVE  Follows(p)'
    <2>1. /\ UNCHANGED <<todo, stack, new_stack, mutex>> /\ pc[t] # "run"
          /\ pc'[t] \in {"handler", "dead", "crash", "run"}
          /\ \A u \in Threads \ {t} : pc'[u] = pc[u]
      BY <1>01, <1>5 DEF Deliver, RepairFlags, ReturnFromHandler, BogusInfo, At, End, Goto,
        sigVars, stackVars
    <2>2. TodoLeft(p)' /\ ActorsOnly(p)' /\ DumpIsDue(p)'
      BY <1>0, <2>1 DEF TodoLeft, ActorsOnly, DumpIsDue, DumpLocations
    <2>. QED  BY <1>a, <2>1, <2>2 DEF Follows
  <1>6. ASSUME NEW t \in Threads, SignalHandler(t) PROVE Follows(p)'
    <2>1. /\ UNCHANGED <<todo, stack, new_stack>> /\ pc[t] = "handler" /\ mutex = None
          /\ \A u \in Threads \ {t} : pc'[u] = pc[u]
          /\ \/ UNCHANGED mutex /\ pc'[t] = "dead"
             \/ mutex' = t /\ pc'[t] = "offer"
      BY <1>01, <1>6 DEF SignalHandler, At, End, Goto, sigVars, stackVars
    <2>2. TodoLeft(p)' /\ ActorsOnly(p)' /\ DumpIsDue(p)'
      BY <1>0, <2>1 DEF TodoLeft, ActorsOnly, DumpIsDue, DumpLocations
    <2>. QED  BY <1>a, <2>1, <2>2 DEF Follows
  <1>7. ASSUME NEW t \in Threads, Decide(t) PROVE Follows(p)'
    <2>1. /\ UNCHANGED <<todo, stack, new_stack>> /\ pc[t] = "decide"
          /\ pc' = [pc EXCEPT ![t] = "return"]
      BY <1>7 DEF Decide, At, Goto, stackVars
    <2>2. mutex = t
      BY <1>0, <2>1 DEF HandlersSerialized, InCritical
    <2>3. TodoLeft(p)' /\ ActorsOnly(p)' /\ DumpIsDue(p)'
      BY <1>0, <1>01, <2>1, <2>2 DEF TodoLeft, ActorsOnly, DumpIsDue, DumpLocations
    <2>. QED  BY <1>a, <2>1, <2>3 DEF Follows
  <1>8. ASSUME NEW t \in Threads, Answers(t) PROVE Follows(p)'
    <2>1. PICK v \in BOOLEAN : Answer(t, v)
      BY <1>0, <1>8, AnswersMove
    <2>2. /\ UNCHANGED <<todo, stack, new_stack, mutex>> /\ pc[t] \in DumpLocations
      BY <1>0, <1>8, AnswersMove DEF sigVars, stackVars
    <2>3. pc'[t] \in {"run", "offer", "decide"} /\ \A u \in Threads \ {t} : pc'[u] = pc[u]
      BY <1>0, <2>1, AnswerMoves
    <2>4. TodoLeft(p)' /\ ActorsOnly(p)' /\ DumpIsDue(p)'
      BY <1>0, <2>2, <2>3 DEF TodoLeft, ActorsOnly, DumpIsDue, DumpLocations
    <2>. QED  BY <1>a, <2>2, <2>4 DEF Follows
  <1>9. ASSUME NEW t \in Threads, Dumps(t) PROVE Follows(p)'
    <2>1. /\ UNCHANGED <<todo, stack, new_stack, mutex>>
          /\ pc[t] \in DumpLocations /\ pc'[t] \in DumpLocations
          /\ \A u \in Threads \ {t} : pc'[u] = pc[u]
      BY <1>0, <1>9, DumpMoves DEF sigVars, stackVars
    <2>2. TodoLeft(p)' /\ ActorsOnly(p)' /\ DumpIsDue(p)'
      BY <1>0, <2>1 DEF TodoLeft, ActorsOnly, DumpIsDue, DumpLocations
    <2>. QED  BY <1>a, <2>1, <2>2 DEF Follows
  <1>10. ASSUME NEW t \in Threads, ChildStep(t) PROVE Follows(p)'
    <2>1. UNCHANGED <<todo, stack, new_stack, mutex, pc>>
      BY <1>10 DEF ChildStep, WaitForContinueSignal, DoDump, sigVars, stackVars
    <2>. QED
      BY <1>0, <1>a, <2>1 DEF Follows, TodoLeft, ActorsOnly, DumpIsDue
  <1>11. ASSUME NEW t \in Threads, NEW s \in Signals, NestedFault(t, s) PROVE Follows(p)'
    <2>1. /\ UNCHANGED <<stack, new_stack, mutex>> /\ pc[t] = "offer"
          /\ pc'[t] \in {"stuck", "dead"} /\ \A u \in Threads \ {t} : pc'[u] = pc[u]
      BY <1>01, <1>11 DEF NestedFault, At, End, Goto, sigVars, stackVars
    <2>2. TodoLeft(p)'
      BY <1>0, <1>01, <1>11 DEF NestedFault, TodoLeft, Plan
    <2>3. ActorsOnly(p)' /\ DumpIsDue(p)'
      BY <1>0, <2>1 DEF ActorsOnly, DumpIsDue, DumpLocations
    <2>. QED  BY <1>a, <2>1, <2>2, <2>3 DEF Follows
  <1>12. ASSUME NEW c \in Crash, CrashHappens(c) PROVE Follows(p)'
    <2>1. /\ UNCHANGED <<stack, new_stack, mutex>> /\ c \in p.crashes
          /\ pc' = [pc EXCEPT ![c.thread] = "crash"] /\ c.thread \in Threads
      BY <1>0, <1>12 DEF CrashHappens, Goto, sigVars, stackVars, TodoLeft, Crash
    <2>2. TodoLeft(p)'
      BY <1>0, <1>01, <1>12 DEF CrashHappens, TodoLeft, Plan
    <2>3. ActorsOnly(p)' /\ DumpIsDue(p)'
      BY <1>0, <1>01, <1>02, <2>1 DEF ActorsOnly, DumpIsDue, DumpLocations
    <2>. QED  BY <1>a, <2>1, <2>2, <2>3 DEF Follows
  <1>13. ASSUME NEW s \in Signals, Strip(s) PROVE Follows(p)'
    <2>1. UNCHANGED <<stack, new_stack, mutex, pc>>
      BY <1>13 DEF Strip, stackVars
    <2>2. TodoLeft(p)'
      BY <1>0, <1>01, <1>13 DEF Strip, TodoLeft, Plan
    <2>. QED
      BY <1>0, <1>a, <2>1, <2>2 DEF Follows, ActorsOnly, DumpIsDue
  <1>14. ASSUME NEW t \in Threads, Lifetime(t) PROVE Follows(p)'
    BY <1>2, <1>3, <1>4, <1>14 DEF Lifetime, WriteMinidump, SimulateSignalDelivery, Calls
  <1>15. ASSUME NEW t \in Threads, ThreadStep(t) PROVE Follows(p)'
    BY <1>5, <1>6, <1>7, <1>8, <1>9, <1>15 DEF ThreadStep, InHandler, Dumping, Dumps, Answers
  <1>. QED
    BY <1>1, <1>10, <1>11, <1>12, <1>13, <1>14, <1>15 DEF Next

PlanInv == IInv /\ \E p \in Plans : Follows(p)

LEMMA PlanHolds == Spec => []PlanInv
  <1>1. Init => PlanInv
    <2>. SUFFICES ASSUME Init PROVE PlanInv
      OBVIOUS
    <2>1. todo \in Plans /\ Follows(todo) /\ IInv
      BY InitFollows, InitInv DEF Init
    <2>2. PICK p \in Plans : p = todo
      BY <2>1
    <2>3. Follows(p)
      BY <2>1, <2>2
    <2>. QED  BY <2>1, <2>3 DEF PlanInv
  <1>2. PlanInv /\ [Next]_vars => PlanInv'
    <2>. SUFFICES ASSUME PlanInv, [Next]_vars PROVE PlanInv'
      OBVIOUS
    <2>1. IInv'
      BY StepInv DEF PlanInv
    <2>2. PICK p \in Plans : Follows(p)
      BY DEF PlanInv
    <2>3. Follows(p)'
      BY <2>2, StepFollows DEF PlanInv
    <2>. QED  BY <2>1, <2>3 DEF PlanInv
  <1>. QED  BY <1>1, <1>2, PTL DEF Spec

LEMMA StepAltStack ==
    ASSUME DestroyedWhereMade, PlanInv, AltStackIsAllocated, [Next]_vars
    PROVE  AltStackIsAllocated'
  <1>. USE NoneAssumption
  <1>1. PICK p \in Plans : Follows(p)
    BY DEF PlanInv
  <1>2. TypeOK /\ TodoLeft(p) /\ StackHasOwner(p)
    BY <1>1 DEF PlanInv, IInv, Follows
  <1>3. altstack \subseteq Threads /\ stack \in Seq(Handlers)
    BY <1>2 DEF TypeOK
  <1>4. ASSUME UNCHANGED stackVars PROVE AltStackIsAllocated'
    BY <1>4 DEF stackVars, AltStackIsAllocated
  <1>5. ASSUME NEW t \in Threads, NEW h \in Handlers, NEW ii \in BOOLEAN,
                Construct(t, h, ii)
         PROVE  AltStackIsAllocated'
    <2>1. \/ UNCHANGED stackVars
          \/ new_stack = None /\ new_stack' = t /\ altstack' = altstack \cup {t}
      BY <1>5 DEF Construct, InstallAlternateStackLocked
    <2>. QED  BY <1>3, <1>4, <2>1 DEF AltStackIsAllocated
  <1>6. ASSUME NEW t \in Threads, NEW h \in Handlers, Destroy(t, h) PROVE AltStackIsAllocated'
    <2>1. CASE stack' # <<>>
      BY <1>4, <1>6, <2>1 DEF Destroy
    <2>2. CASE stack' = <<>>
      <3>1. /\ <<t, h>> \in p.destroys
            /\ altstack' = IF new_stack = t THEN altstack \ {t} ELSE altstack
        BY <1>2, <1>6, <2>2 DEF Destroy, RestoreAlternateStackLocked, TodoLeft
      <3>2. PICK i \in DOMAIN stack : stack[i] = h /\ stack' = RemoveAt(stack, i)
        BY <1>6 DEF Destroy, Erase
      <3>3. \A g \in ToSet(stack) : g = h
        <4>1. ToSet(stack') = {}
          BY <2>2 DEF ToSet
        <4>. QED  BY <1>3, <3>2, <4>1, ErasedIsGone
      <3>4. new_stack \in {None, t}
        <4>. SUFFICES ASSUME new_stack # None PROVE new_stack = t
          OBVIOUS
        <4>1. PICK g \in Handlers :
                /\ <<new_stack, g>> \in p.constructs
                /\ g \in ToSet(stack) \/ \E u \in Threads : <<u, g>> \in p.destroys
          BY <1>2 DEF StackHasOwner
        <4>2. \E u \in Threads : <<u, g>> \in p.destroys
          BY <3>1, <3>3, <4>1
        <4>3. t = new_stack \/ \A e \in p.destroys : e[2] # g
          <5>1. <<t, h>>[1] = t /\ <<new_stack, g>>[1] = new_stack /\ <<new_stack, g>>[2] = g
            OBVIOUS
          <5>. QED  BY <3>1, <4>1, <5>1 DEF DestroyedWhereMade
        <4>. QED  BY <4>2, <4>3
      <3>5. altstack' = {}
        BY <1>3, <3>1, <3>4 DEF AltStackIsAllocated
      <3>. QED  BY <3>5 DEF AltStackIsAllocated
    <2>. QED  BY <2>1, <2>2
  <1>7. ASSUME NEW t \in Threads, Lifetime(t) PROVE AltStackIsAllocated'
    BY <1>4, <1>5, <1>6, <1>7 DEF Lifetime, WriteMinidump, SimulateSignalDelivery, CallHandler
  <1>8. ASSUME NEW t \in Threads, ThreadStep(t) PROVE AltStackIsAllocated'
    BY <1>4, <1>8 DEF ThreadStep, Deliver, InHandler, RepairFlags, SignalHandler, Decide,
      ReturnFromHandler, HandleSignal, BogusInfo, Dumping, GenerateDump, CloneFails,
      CloneStarts, AllowPtrace, SendContinueSignalToChild, ChildReaped
  <1>9. ASSUME NEW t \in Threads, ChildStep(t) PROVE AltStackIsAllocated'
    BY <1>4, <1>9 DEF ChildStep, WaitForContinueSignal, DoDump
  <1>10. ASSUME NEW t \in Threads, NEW s \in Signals, NestedFault(t, s)
          PROVE  AltStackIsAllocated'
    BY <1>4, <1>10 DEF NestedFault
  <1>11. ASSUME NEW c \in Crash, CrashHappens(c) PROVE AltStackIsAllocated'
    BY <1>4, <1>11 DEF CrashHappens
  <1>12. ASSUME NEW s \in Signals, Strip(s) PROVE AltStackIsAllocated'
    BY <1>4, <1>12 DEF Strip
  <1>13. CASE UNCHANGED vars
    BY <1>4, <1>13 DEF vars
  <1>. QED
    BY <1>7, <1>8, <1>9, <1>10, <1>11, <1>12, <1>13 DEF Next

-----------------------------------------------------------------------------
(* One dump at a time has the pipe, the ptrace permission and the context.   *)

Piped == DumpLocations \ {"offer"}

\* The pipe of a dump is its own or failed; its ends are the only ones open.
PipeIsOwn(t) ==
    pc[t] \in Piped =>
        /\ fdes[at[t].h] \in {t, None}
        /\ open = IF fdes[at[t].h] = None THEN {}
                  ELSE IF pc[t] \in {"piped", "cloned"} THEN Ends(t) ELSE {<<t, "write">>}
        /\ fdes[at[t].h] = t /\ pc[t] # "wait" => t \notin data

\* The clone has been given this thread's pipe and context, and waits for a
\* message that is sent only after it may ptrace.
CloneIsOwn(t) ==
    /\ pc[t] \in {"allowed", "wait"} => ptracer = t
    /\ pc[t] \in Piped \ {"piped"} =>
        /\ child[t].pipe = fdes[at[t].h] /\ child[t].context = t
        /\ fdes[at[t].h] = t /\ pc[t] # "wait" => child[t].state = "waiting"
        /\ fdes[at[t].h] = t /\ child[t].state = "waiting" => <<t, "read">> \in child[t].held
    /\ pc[t] \notin Piped \ {"piped"} => child[t].state = "none"

ContextIsOwn(t) == pc[t] = "piped" /\ at[t].via # "WriteMinidump" => context = t

DumpInv ==
    /\ \A t \in Threads : PipeIsOwn(t) /\ CloneIsOwn(t) /\ ContextIsOwn(t)
    /\ PipesClosed

OneDumper == \A t, u \in Threads : pc[t] \in DumpLocations /\ pc[u] \in DumpLocations => t = u

LEMMA OneDumps == ASSUME RequestsAlone, PlanInv PROVE OneDumper
  <1>1. PICK p \in Plans : ActorsOnly(p) /\ DumpIsDue(p)
    BY DEF PlanInv, Follows
  <1>2. ASSUME NEW t \in Threads, NEW u \in Threads, NEW call, <<t, call>> \in p.calls,
               pc[u] \in DumpLocations
        PROVE  t = u
    <2>1. <<t, call>>[1] = t /\ u \in Actors(p)
      BY <1>1, <1>2 DEF ActorsOnly, DumpLocations
    <2>. QED  BY <1>2, <2>1 DEF RequestsAlone
  <1>. QED  BY <1>1, <1>2 DEF OneDumper, DumpIsDue

\* An object is constructed while no signal handler has the context, and by the
\* thread itself if a dump was asked for.
LEMMA ConstructsApart ==
    ASSUME RequestsAlone, PlanInv, NEW t \in Threads, NEW h \in Handlers, NEW ii \in BOOLEAN,
           Construct(t, h, ii), NEW u \in Threads
    PROVE  pc[u] \notin DumpLocations
  <1>1. PICK p \in Plans : TodoLeft(p) /\ DumpIsDue(p)
    BY DEF PlanInv, Follows
  <1>2. mutex = None /\ pc[t] = "run" /\ <<t, h>> \in p.constructs
    BY <1>1 DEF Construct, At, TodoLeft
  <1>. SUFFICES ASSUME pc[u] \in DumpLocations PROVE FALSE
    OBVIOUS
  <1>3. PICK call \in Calls : <<u, call>> \in p.calls
    BY <1>1, <1>2, NoneAssumption DEF DumpIsDue
  <1>4. <<u, call>>[1] = u /\ <<t, h>>[1] = t
    OBVIOUS
  <1>5. t \in Actors(p)
    BY <1>2, <1>4 DEF Actors
  <1>6. t = u
    BY <1>3, <1>4, <1>5 DEF RequestsAlone
  <1>. QED  BY <1>2, <1>6 DEF DumpLocations

\* A step of a thread outside its dump leaves all dumps alone.
LEMMA StepElsewhere ==
    ASSUME DumpInv, NEW t \in Threads, UNCHANGED <<fdes, open, data, ptracer, child>>,
           \A u \in Threads \ {t} : pc'[u] = pc[u] /\ at'[u] = at[u],
           pc[t] \notin Piped, pc'[t] \notin Piped,
           context' = context \/ \A u \in Threads : pc[u] # "piped"
    PROVE  DumpInv'
  <1>1. ASSUME NEW u \in Threads PROVE (PipeIsOwn(u) /\ CloneIsOwn(u) /\ ContextIsOwn(u))'
    <2>1. PipeIsOwn(u) /\ CloneIsOwn(u) /\ ContextIsOwn(u)
      BY DEF DumpInv
    <2>2. CASE u = t
      BY <2>1, <2>2 DEF PipeIsOwn, CloneIsOwn, ContextIsOwn, Piped, DumpLocations
    <2>3. CASE u # t
      <3>1. pc'[u] = pc[u] /\ at'[u] = at[u]
        BY <2>3
      <3>2. PipeIsOwn(u)'
        BY <2>1, <3>1 DEF PipeIsOwn
      <3>3. CloneIsOwn(u)'
        BY <2>1, <3>1 DEF CloneIsOwn
      <3>4. ContextIsOwn(u)'
        BY <2>1, <3>1 DEF ContextIsOwn
      <3>. QED  BY <3>2, <3>3, <3>4
    <2>. QED  BY <2>2, <2>3
  <1>2. PipesClosed'
    BY DEF DumpInv, PipesClosed, Piped
  <1>. QED  BY <1>1, <1>2 DEF DumpInv

\* A step of the one dump there is needs a look at that dump only.
LEMMA StepInDump ==
    ASSUME DumpInv, OneDumper, NEW t \in Threads, pc[t] \in DumpLocations,
           \A u \in Threads \ {t} : pc'[u] = pc[u] /\ child'[u] = child[u],
           (PipeIsOwn(t) /\ CloneIsOwn(t) /\ ContextIsOwn(t))',
           pc'[t] \notin Piped => open' = {}
    PROVE  DumpInv'
  <1>1. ASSUME NEW u \in Threads \ {t}
        PROVE  pc'[u] \notin Piped /\ (PipeIsOwn(u) /\ CloneIsOwn(u) /\ ContextIsOwn(u))'
    <2>1. pc'[u] = pc[u] /\ pc[u] \notin Piped /\ child'[u] = child[u] /\ CloneIsOwn(u)
      BY DEF OneDumper, Piped, DumpInv
    <2>. QED
      BY <2>1 DEF PipeIsOwn, CloneIsOwn, ContextIsOwn, Piped, DumpLocations
  <1>2. PipesClosed'
    BY DEF PipesClosed, Piped
  <1>. QED  BY <1>1, <1>2 DEF DumpInv

LEMMA NoOtherOpen ==
    ASSUME DumpInv, OneDumper, NEW t \in Threads, pc[t] = "offer"
    PROVE  open = {}
  BY DEF DumpInv, OneDumper, PipesClosed, Piped, DumpLocations

LEMMA StepDump ==
    ASSUME RequestsAlone, PlanInv, DumpInv, [Next]_vars
    PROVE  DumpInv'
  <1>. USE NoneAssumption
  <1>0. TypeOK /\ AskedIsHandler /\ OneDumper
    BY OneDumps DEF PlanInv, IInv
  <1>01. /\ pc \in [Threads -> Locations] /\ at \in [Threads -> Frame]
         /\ child \in [Threads -> Child] /\ fdes \in [Handlers -> Threads \cup {None}]
         /\ data \subseteq Threads
    BY <1>0 DEF TypeOK
  <1>02. \A t \in Threads : PipeIsOwn(t) /\ CloneIsOwn(t) /\ ContextIsOwn(t)
    BY DEF DumpInv
  <1>03. \A t \in Threads : pc[t] \in DumpLocations => at[t].h \in Handlers
    BY <1>0 DEF AskedIsHandler
  <1>04. None \notin Threads
    OBVIOUS
  <1>1. ASSUME UNCHANGED <<pc, at, dumpVars>> PROVE DumpInv'
    BY <1>1 DEF dumpVars, DumpInv, PipeIsOwn, CloneIsOwn, ContextIsOwn, PipesClosed
  <1>2. ASSUME NEW t \in Threads, NEW h \in Handlers, NEW ii \in BOOLEAN,
                Construct(t, h, ii)
         PROVE  DumpInv'
    <2>1. \A u \in Threads : pc[u] \notin DumpLocations
      BY <1>2, ConstructsApart
    <2>2. UNCHANGED <<pc, at, fdes, open, data, ptracer, child>>
      BY <1>2 DEF Construct
    <2>. QED
      BY <2>1, <2>2, StepElsewhere DEF DumpLocations, Piped
  <1>3. ASSUME NEW t \in Threads, NEW h \in Handlers, Destroy(t, h) PROVE DumpInv'
    BY <1>1, <1>3 DEF Destroy
  <1>4. ASSUME NEW t \in Threads, NEW call \in Calls, NEW h \in Handlers,
                CallHandler(t, call, h)
         PROVE  DumpInv'
    <2>1. /\ UNCHANGED dumpVars /\ pc[t] = "run" /\ pc'[t] = "offer"
          /\ \A u \in Threads \ {t} : pc'[u] = pc[u] /\ at'[u] = at[u]
      BY <1>01, <1>4 DEF CallHandler, At, Goto
    <2>. QED
      BY <2>1, StepElsewhere DEF dumpVars, DumpLocations, Piped
  <1>5. ASSUME NEW t \in Threads, Deliver(t) \/ InHandler(t) \/ BogusInfo(t) PROVE DumpInv'
    <2>1. /\ UNCHANGED dumpVars /\ pc[t] \notin Piped /\ pc'[t] \notin Piped
          /\ \A u \in Threads \ {t} : pc'[u] = pc[u] /\ at'[u] = at[u]
      <3>1. CASE Deliver(t)
        BY <1>01, <3>1 DEF Deliver, At, End, Goto, Piped, DumpLocations
      <3>2. CASE RepairFlags(t)
        BY <1>01, <3>2 DEF RepairFlags, At, Goto, Piped, DumpLocations
      <3>3. CASE SignalHandler(t)
        BY <1>01, <3>3 DEF SignalHandler, At, End, Goto, Piped, DumpLocations
      <3>4. CASE Decide(t)
        BY <1>01, <3>4 DEF Decide, At, Goto, Piped, DumpLocations
      <3>5. CASE ReturnFromHandler(t)
        BY <1>01, <3>5 DEF ReturnFromHandler, At, End, Goto, Piped, DumpLocations
      <3>6. CASE BogusInfo(t)
        BY <1>01, <3>6 DEF BogusInfo, At, End, Goto, Piped, DumpLocations
      <3>. QED  BY <1>5, <3>1, <3>2, <3>3, <3>4, <3>5, <3>6 DEF InHandler
    <2>. QED
      BY <2>1, StepElsewhere DEF dumpVars
  <1>6. ASSUME NEW t \in Threads, HandleSignal(t) PROVE DumpInv'
    <2>1. PICK v \in BOOLEAN : Answer(t, v)
      BY <1>0, <1>6, AnswersMove DEF Answers
    <2>2. UNCHANGED <<fdes, open, data, ptracer, child>> /\ pc[t] = "offer"
      BY <1>6 DEF HandleSignal, At
    <2>3. pc'[t] \notin Piped /\ \A u \in Threads \ {t} : pc'[u] = pc[u] /\ at'[u] = at[u]
      BY <1>0, <2>1, AnswerMoves DEF Piped, DumpLocations
    <2>4. \A u \in Threads : pc[u] # "piped"
      BY <1>0, <2>2 DEF OneDumper, DumpLocations
    <2>. QED
      BY <2>2, <2>3, <2>4, StepElsewhere DEF Piped, DumpLocations
  <1>7. ASSUME NEW t \in Threads, GenerateDump(t) PROVE DumpInv'
    <2>1. /\ pc[t] = "offer" /\ pc' = [pc EXCEPT ![t] = "piped"]
          /\ UNCHANGED <<at, ptracer, child>>
          /\ context' = IF at[t].via = "WriteMinidump" THEN context ELSE t
          /\ \/ /\ fdes' = [fdes EXCEPT ![at[t].h] = t]
                /\ open' = open \cup Ends(t) /\ data' = data \ {t}
             \/ /\ fdes' = [fdes EXCEPT ![at[t].h] = None]
                /\ UNCHANGED <<open, data>>
      BY <1>7 DEF GenerateDump, At, Goto
    <2>2. open = {}
      BY <1>0, <2>1, NoOtherOpen
    <2>3. at[t].h \in Handlers
      BY <1>03, <2>1 DEF DumpLocations
    <2>4. PipeIsOwn(t)'
      BY <1>01, <1>04, <2>1, <2>2, <2>3 DEF PipeIsOwn
    <2>5. CloneIsOwn(t)' /\ ContextIsOwn(t)'
      BY <1>01, <1>02, <2>1 DEF CloneIsOwn, ContextIsOwn, Piped
    <2>. QED
      BY <1>0, <1>01, <2>1, <2>4, <2>5, StepInDump DEF DumpLocations, Piped
  <1>8. ASSUME NEW t \in Threads, CloneFails(t) PROVE DumpInv'
    <2>1. PICK v \in BOOLEAN : Answer(t, v)
      BY <1>0, <1>8, AnswersMove DEF Answers
    <2>2. /\ pc[t] = "piped" /\ open' = open \ Ends(fdes[at[t].h])
          /\ UNCHANGED <<context, fdes, data, ptracer, child>>
      BY <1>8 DEF CloneFails, At
    <2>3. pc'[t] \notin Piped /\ \A u \in Threads \ {t} : pc'[u] = pc[u]
      BY <1>0, <2>1, AnswerMoves DEF Piped, DumpLocations
    <2>4. open' = {}
      BY <1>02, <2>2 DEF PipeIsOwn, Piped, DumpLocations
    <2>5. (PipeIsOwn(t) /\ CloneIsOwn(t) /\ ContextIsOwn(t))'
      BY <1>02, <2>2, <2>3 DEF PipeIsOwn, CloneIsOwn, ContextIsOwn, Piped, DumpLocations
    <2>. QED
      BY <1>0, <2>2, <2>3, <2>4, <2>5, StepInDump DEF DumpLocations
  <1>9. ASSUME NEW t \in Threads, CloneStarts(t) PROVE DumpInv'
    <2>. DEFINE pipe == fdes[at[t].h]
    <2>1. /\ pc[t] = "piped" /\ pc' = [pc EXCEPT ![t] = "cloned"]
          /\ UNCHANGED <<at, context, fdes, open, data, ptracer>>
          /\ child' = [child EXCEPT ![t] =
               [state |-> "waiting", pipe |-> pipe, held |-> open \ {<<pipe, "write">>},
                context |-> IF at[t].via = "WriteMinidump" THEN t ELSE context]]
      BY <1>9 DEF CloneStarts, At, Goto
    <2>2. PipeIsOwn(t) /\ ContextIsOwn(t)
      BY <1>02
    <2>3. PipeIsOwn(t)' /\ ContextIsOwn(t)'
      BY <1>01, <2>1, <2>2 DEF PipeIsOwn, ContextIsOwn, Piped, DumpLocations
    <2>4. /\ child'[t].state = "waiting" /\ child'[t].pipe = pipe /\ child'[t].context = t
          /\ child'[t].held = open \ {<<pipe, "write">>}
      BY <1>01, <2>1, <2>2 DEF ContextIsOwn
    <2>5. pipe = t => <<t, "read">> \in child'[t].held
      BY <1>04, <2>1, <2>2, <2>4 DEF PipeIsOwn, Piped, DumpLocations, Ends
    <2>6. CloneIsOwn(t)'
      BY <1>01, <2>1, <2>4, <2>5 DEF CloneIsOwn, Piped, DumpLocations
    <2>. QED
      BY <1>0, <1>01, <2>1, <2>3, <2>6, StepInDump DEF DumpLocations, Piped
  <1>10. ASSUME NEW t \in Threads, AllowPtrace(t) PROVE DumpInv'
    <2>1. /\ pc[t] = "cloned" /\ pc' = [pc EXCEPT ![t] = "allowed"] /\ ptracer' = t
          /\ UNCHANGED <<at, context, fdes, data, child>>
          /\ open' = open \ {<<fdes[at[t].h], "read">>}
      BY <1>10 DEF AllowPtrace, At, Goto
    <2>2. PipeIsOwn(t)'
      BY <1>01, <1>02, <1>04, <2>1 DEF PipeIsOwn, Piped, DumpLocations, Ends
    <2>3. CloneIsOwn(t)' /\ ContextIsOwn(t)'
      BY <1>01, <1>02, <2>1 DEF CloneIsOwn, ContextIsOwn, Piped, DumpLocations
    <2>. QED
      BY <1>0, <1>01, <2>1, <2>2, <2>3, StepInDump DEF DumpLocations, Piped
  <1>11. ASSUME NEW t \in Threads, SendContinueSignalToChild(t) PROVE DumpInv'
    <2>1. /\ pc[t] = "allowed" /\ pc' = [pc EXCEPT ![t] = "wait"]
          /\ UNCHANGED <<at, context, fdes, open, ptracer, child>>
      BY <1>11 DEF SendContinueSignalToChild, At, Goto
    <2>2. PipeIsOwn(t)'
      BY <1>01, <1>02, <2>1 DEF PipeIsOwn, Piped, DumpLocations
    <2>3. CloneIsOwn(t)' /\ ContextIsOwn(t)'
      BY <1>01, <1>02, <2>1 DEF CloneIsOwn, ContextIsOwn, Piped, DumpLocations
    <2>. QED
      BY <1>0, <1>01, <2>1, <2>2, <2>3, StepInDump DEF DumpLocations, Piped
  <1>12. ASSUME NEW t \in Threads, ChildReaped(t) PROVE DumpInv'
    <2>1. PICK v \in BOOLEAN : Answer(t, v)
      BY <1>0, <1>12, AnswersMove DEF Answers
    <2>2. /\ pc[t] = "wait" /\ open' = open \ {<<fdes[at[t].h], "write">>}
          /\ child' = [child EXCEPT ![t] = NoChild]
      BY <1>12 DEF ChildReaped, At
    <2>3. pc'[t] \notin Piped /\ \A u \in Threads \ {t} : pc'[u] = pc[u]
      BY <1>0, <2>1, AnswerMoves DEF Piped, DumpLocations
    <2>4. open' = {}
      BY <1>02, <1>04, <2>2 DEF PipeIsOwn, Piped, DumpLocations
    <2>5. (PipeIsOwn(t) /\ CloneIsOwn(t) /\ ContextIsOwn(t))'
      BY <1>01, <2>2, <2>3 DEF PipeIsOwn, CloneIsOwn, ContextIsOwn, Piped, DumpLocations,
        NoChild
    <2>. QED
      BY <1>0, <1>01, <2>2, <2>3, <2>4, <2>5, StepInDump DEF DumpLocations
  <1>13. ASSUME NEW t \in Threads, WaitForContinueSignal(t) PROVE DumpInv'
    <2>1. pc[t] \in Piped \ {"piped"}
      BY <1>02, <1>13 DEF WaitForContinueSignal, CloneIsOwn
    <2>2. /\ UNCHANGED <<pc, at, context, fdes, open, ptracer>> /\ data' \subseteq data
          /\ child' = [child EXCEPT ![t] = [child[t] EXCEPT !.state = "dumping"]]
          /\ child[t].state = "waiting"
      BY <1>13 DEF WaitForContinueSignal
    <2>3. fdes[at[t].h] = t => pc[t] = "wait"
      <3>. SUFFICES ASSUME fdes[at[t].h] = t, pc[t] # "wait" PROVE FALSE
        OBVIOUS
      <3>1. child[t].pipe = t /\ <<t, "read">> \in child[t].held /\ t \notin data
        BY <1>02, <2>1, <2>2 DEF CloneIsOwn, PipeIsOwn
      <3>2. <<t, "write">> \in open
        BY <1>02, <1>04, <2>1 DEF PipeIsOwn, Ends
      <3>. QED
        BY <1>13, <3>1, <3>2 DEF WaitForContinueSignal, WriterLeft
    <2>4. /\ child'[t].state = "dumping" /\ child'[t].pipe = child[t].pipe
          /\ child'[t].context = child[t].context
      BY <1>01, <2>2 DEF Child
    <2>5. CloneIsOwn(t)'
      BY <1>02, <2>1, <2>2, <2>3, <2>4 DEF CloneIsOwn
    <2>6. PipeIsOwn(t)' /\ ContextIsOwn(t)'
      BY <1>02, <2>2 DEF PipeIsOwn, ContextIsOwn
    <2>. QED
      BY <1>0, <1>01, <2>1, <2>2, <2>5, <2>6, StepInDump DEF DumpLocations, Piped
  <1>14. ASSUME NEW t \in Threads, DoDump(t) PROVE DumpInv'
    <2>1. pc[t] \in Piped \ {"piped"}
      BY <1>02, <1>14 DEF DoDump, CloneIsOwn
    <2>2. /\ UNCHANGED <<pc, at, context, fdes, open, data, ptracer>>
          /\ child' = [child EXCEPT ![t] = [child[t] EXCEPT !.state = "exited", !.held = {}]]
          /\ child[t].state = "dumping"
      BY <1>14 DEF DoDump
    <2>4. /\ child'[t].state = "exited" /\ child'[t].pipe = child[t].pipe
          /\ child'[t].context = child[t].context
      BY <1>01, <2>2 DEF Child
    <2>5. CloneIsOwn(t)'
      BY <1>02, <2>1, <2>2, <2>4 DEF CloneIsOwn
    <2>6. PipeIsOwn(t)' /\ ContextIsOwn(t)'
      BY <1>02, <2>2 DEF PipeIsOwn, ContextIsOwn
    <2>. QED
      BY <1>0, <1>01, <2>1, <2>2, <2>5, <2>6, StepInDump DEF DumpLocations, Piped
  <1>15. ASSUME NEW t \in Threads, NEW s \in Signals, NestedFault(t, s) PROVE DumpInv'
    <2>1. /\ UNCHANGED <<at, dumpVars>> /\ pc[t] = "offer" /\ pc'[t] \in {"dead", "stuck"}
          /\ \A u \in Threads \ {t} : pc'[u] = pc[u]
      BY <1>01, <1>15 DEF NestedFault, At, End, Goto
    <2>. QED
      BY <2>1, StepElsewhere DEF dumpVars, Piped, DumpLocations
  <1>16. ASSUME NEW c \in Crash, CrashHappens(c) PROVE DumpInv'
    <2>1. c.thread \in Threads
      BY DEF Crash
    <2>2. /\ UNCHANGED dumpVars /\ pc[c.thread] = "run" /\ pc'[c.thread] = "crash"
          /\ \A u \in Threads \ {c.thread} : pc'[u] = pc[u] /\ at'[u] = at[u]
      BY <1>01, <1>16, <2>1 DEF CrashHappens, At, Goto
    <2>. QED
      BY <2>1, <2>2, StepElsewhere DEF dumpVars, Piped, DumpLocations
  <1>17. ASSUME NEW s \in Signals, Strip(s) PROVE DumpInv'
    BY <1>1, <1>17 DEF Strip
  <1>18. CASE UNCHANGED vars
    BY <1>1, <1>18 DEF vars
  <1>19. ASSUME NEW t \in Threads, Lifetime(t) PROVE DumpInv'
    BY <1>2, <1>3, <1>4, <1>19 DEF Lifetime, WriteMinidump, SimulateSignalDelivery, Calls
  <1>20. ASSUME NEW t \in Threads, ThreadStep(t) \/ ChildStep(t) PROVE DumpInv'
    BY <1>5, <1>6, <1>7, <1>8, <1>9, <1>10, <1>11, <1>12, <1>13, <1>14, <1>20
      DEF ThreadStep, Dumping, ChildStep
  <1>. QED
    BY <1>15, <1>16, <1>17, <1>18, <1>19, <1>20 DEF Next

-----------------------------------------------------------------------------
LEMMA Inv == Spec => []IInv
  BY InitInv, StepInv, PTL DEF Spec

\* Every variable keeps its type: no handler that is not on the stack is asked.
THEOREM TypeCorrect == Spec => []TypeOK
  <1>1. IInv => TypeOK
    BY DEF IInv
  <1>. QED  BY Inv, <1>1, PTL

\* "Exception handlers are serialized by the |g_handler_stack_mutex_|"
\* (exception_handler.cc:219), whatever else happens: the object that is asked
\* is on the stack until it has answered.
THEOREM Serialized == Spec => []HandlersSerialized
  <1>1. IInv => HandlersSerialized
    BY DEF IInv
  <1>. QED  BY Inv, <1>1, PTL

LEMMA HistoryHolds == Spec => []HistoryInv
  <1>1. Init => HistoryInv
    BY InitInv, InitEnd DEF HistoryInv
  <1>2. HistoryInv /\ [Next]_vars => HistoryInv'
    <2>. SUFFICES ASSUME HistoryInv, [Next]_vars PROVE HistoryInv'
      OBVIOUS
    <2>1. IInv /\ EndInv /\ RejectedReachesPrevious /\ OfferedBeforeDeath
      BY DEF HistoryInv
    <2>2. IInv'
      BY <2>1, StepInv
    <2>3. EndInv' /\ RejectedReachesPrevious' /\ OfferedBeforeDeath'
      BY <2>1, StepEnd
    <2>. QED  BY <2>2, <2>3 DEF HistoryInv
  <1>. QED  BY <1>1, <1>2, PTL DEF Spec

\* The default action takes a process that had another handler before Breakpad
\* only with a signal that an object has handled; a rejected one is "delivered to
\* the appropriate handler" (exception_handler.cc:377), whatever is constructed,
\* destroyed, stripped or asked for meanwhile.
THEOREM RejectedGoesOn == Spec => []RejectedReachesPrevious
  <1>1. HistoryInv => RejectedReachesPrevious
    BY DEF HistoryInv
  <1>. QED  BY HistoryHolds, <1>1, PTL

\* No thread's crash ends the process, while objects are on the stack and the
\* handlers installed, before an object was asked about it or has handled the same
\* signal of another thread: also when the flags were lost
\* (exception_handler.cc:354) and repaired.
THEOREM OfferedFirst == Spec => []OfferedBeforeDeath
  <1>1. HistoryInv => OfferedBeforeDeath
    BY DEF HistoryInv
  <1>. QED  BY HistoryHolds, <1>1, PTL

\* A thread that handles crashes on Breakpad's alternate stack uses one that is
\* allocated, if the program destroys its objects on the threads that constructed
\* them: RestoreAlternateStackLocked (exception_handler.cc:167) frees the stack
\* whichever thread calls it, and only the caller stops using it.
THEOREM AltStackIsKept == DestroyedWhereMade => (Spec => []AltStackIsAllocated)
  <1>. SUFFICES ASSUME DestroyedWhereMade PROVE Spec => []AltStackIsAllocated
    OBVIOUS
  <1>1. Init => AltStackIsAllocated
    BY DEF Init, AltStackIsAllocated
  <1>2. PlanInv /\ AltStackIsAllocated /\ [Next]_vars => AltStackIsAllocated'
    BY StepAltStack
  <1>. QED  BY <1>1, <1>2, PlanHolds, PTL DEF Spec

LEMMA DumpHolds == RequestsAlone => (Spec => []DumpInv)
  <1>. SUFFICES ASSUME RequestsAlone PROVE Spec => []DumpInv
    OBVIOUS
  <1>1. Init => DumpInv
    <2>. SUFFICES ASSUME Init PROVE DumpInv
      OBVIOUS
    <2>1. \A t \in Threads : pc[t] = "run" /\ child[t].state = "none"
      BY DEF Init, NoChild
    <2>2. open = {}
      BY DEF Init
    <2>. QED
      BY <2>1, <2>2 DEF DumpInv, PipeIsOwn, CloneIsOwn, ContextIsOwn, PipesClosed, Piped,
        DumpLocations
  <1>2. PlanInv /\ DumpInv /\ [Next]_vars => DumpInv'
    BY StepDump
  <1>. QED  BY <1>1, <1>2, PlanHolds, PTL DEF Spec

\* "at most one at a time can use |g_crash_context_|" (exception_handler.cc:219): a
\* clone dumps the thread that made it, unless dumps are asked for beside other
\* threads that crash, ask or construct.
THEOREM ContextIsOfCrash == RequestsAlone => (Spec => []DumpsOwnContext)
  <1>. SUFFICES ASSUME RequestsAlone PROVE Spec => []DumpsOwnContext
    OBVIOUS
  <1>1. DumpInv => DumpsOwnContext
    BY DEF DumpInv, CloneIsOwn, DumpsOwnContext
  <1>. QED  BY <1>1, DumpHolds, PTL

\* A clone that has a pipe starts to dump only when it may ptrace the process
\* (exception_handler.cc:543), under the same condition: the message it waits for
\* is not in its pipe, and the write end is open, until prctl has been called.
THEOREM DumpWaits == RequestsAlone => (Spec => []DumpIsAllowed)
  <1>. SUFFICES ASSUME RequestsAlone PROVE Spec => []DumpIsAllowed
    OBVIOUS
  <1>1. IInv /\ DumpInv => DumpIsAllowed
    <2>. SUFFICES ASSUME TypeOK, DumpInv, NEW t \in Threads, child[t].state = "dumping",
                         child[t].pipe # None
                  PROVE  ptracer = t
      BY DEF DumpIsAllowed, IInv
    <2>1. PipeIsOwn(t) /\ CloneIsOwn(t)
      BY DEF DumpInv
    <2>2. pc[t] \in Piped \ {"piped"} /\ fdes[at[t].h] = t
      BY <2>1 DEF PipeIsOwn, CloneIsOwn
    <2>3. pc[t] = "wait"
      BY <2>1, <2>2 DEF CloneIsOwn
    <2>. QED  BY <2>1, <2>3 DEF CloneIsOwn
  <1>. QED  BY <1>1, Inv, DumpHolds, PTL

\* Whatever fails on the way through GenerateDump (exception_handler.cc:492), no
\* end of its pipe stays open in the process, under the same condition.
THEOREM NoEndIsLeft == RequestsAlone => (Spec => []PipesClosed)
  <1>. SUFFICES ASSUME RequestsAlone PROVE Spec => []PipesClosed
    OBVIOUS
  <1>1. DumpInv => PipesClosed
    BY DEF DumpInv
  <1>. QED  BY <1>1, DumpHolds, PTL
===============================================================================
