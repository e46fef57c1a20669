-------------------------- MODULE ExceptionHandler --------------------------
(***************************************************************************)
(* Breakpad's crash handler (client/linux/handler/exception_handler.cc):   *)
(* the objects on the global handler stack, the signal dispositions they   *)
(* share, the crashing threads that go through SignalHandler, and the      *)
(* cloned processes that write the minidumps.                              *)
(*                                                                         *)
(* SignalHandler, the constructor and the destructor hold                  *)
(* g_handler_stack_mutex_; WriteMinidump and SimulateSignalDelivery do     *)
(* not.  GenerateDump is cut at each system call on the pipe of the        *)
(* continue signal, whose descriptors are a member of the object.  What    *)
(* the filter, the callbacks and the dump itself answer is any Boolean the *)
(* environment allows.                                                     *)
(***************************************************************************)
EXTENDS Naturals, Sequences, SequencesExt

CONSTANTS
    Threads,    \* threads of the process
    Signals,    \* kExceptionSignals
    Handlers,   \* ExceptionHandler objects
    Plans,      \* what the environment may do in one behaviour: see Plan
    None

\* A crash: which thread, which signal, and whether the fault comes again by
\* itself ("fault") or the signal was sent by kill or abort ("sent").
Crash == [thread : Threads, sig : Signals, kind : {"fault", "sent"}]
Calls == {"WriteMinidump", "SimulateSignalDelivery"}

\* crashes, strips (other code saves and restores the handler of a signal with
\* signal()), nested (faults inside a callback) and calls happen at most once
\* each, and so are the construction and the destruction of an object; previous is the disposition
\* before Breakpad; answers is what filters, callbacks and dumps may say.
Plan == [crashes : SUBSET Crash, strips : SUBSET Signals, nested : SUBSET Signals,
         calls : SUBSET (Threads \X Calls),
         constructs : SUBSET (Threads \X Handlers), destroys : SUBSET (Threads \X Handlers),
         previous : {"default", "previous"}, answers : SUBSET BOOLEAN]

ASSUME PlansAssumption == Plans \subseteq Plan
ASSUME SignalsAssumption == Signals # {}
ASSUME NoneAssumption == None \notin Threads \cup Handlers

VARIABLES
    todo,                \* what of the plan is still to happen
    ended,               \* "no", or how the process ended
    action,              \* the disposition of each signal
    old_handlers, handlers_installed,
    stack,               \* g_handler_stack_; empty is NULL
    new_stack,           \* thread the allocated alternate stack was installed for
    altstack,            \* threads whose alternate stack is one of Breakpad's
    mutex,               \* owner of g_handler_stack_mutex_
    pc,                  \* where each thread is
    at,                  \* each thread's frame: see Frame
    context,             \* thread whose state g_crash_context_ holds
    fdes,                \* the pipe in each object's fdes; None is -1
    open,                \* pipe ends open in the process
    data,                \* pipes the continue message is in
    ptracer,             \* thread whose clone may ptrace the process
    child,               \* clone of each thread: see Child
    offered,             \* threads for whose signal a handler was asked
    taken                \* signals of which an object handled one

sigVars == <<action, old_handlers, handlers_installed, stack>>
stackVars == <<new_stack, altstack>>
dumpVars == <<context, fdes, open, data, ptracer, child>>
\* What the properties remember; no guard reads it.
history == <<offered, taken>>
vars == <<todo, ended, sigVars, stackVars, mutex, pc, at, dumpVars, history>>

\* "reset" is SignalHandler as the flag repair installs it (it blocks its own
\* signal only), "stripped" is SignalHandler without SA_SIGINFO.
Dispositions == {"default", "previous", "breakpad", "reset", "stripped"}
HasSigInfo(d) == d \in {"previous", "breakpad", "reset"}
IsBreakpad(d) == d \in {"breakpad", "reset", "stripped"}

\* Pipes are named by the thread that made them.
Ends(pipe) == {pipe} \X {"read", "write"}

\* via is the disposition a signal was delivered under, or the call that is made.
Frame == [sig : Signals, kind : {"fault", "sent"}, via : Dispositions \cup Calls,
          i : Nat, h : Handlers \cup {None}, handled : BOOLEAN]
Child == [state : {"none", "waiting", "dumping", "exited"},
          pipe : Threads \cup {None},
          held : SUBSET (Threads \X {"read", "write"}),
          context : Threads \cup {None}]
NoChild == [state |-> "none", pipe |-> None, held |-> {}, context |-> None]

Locations == {"run", "crash", "handler", "offer", "piped", "cloned", "allowed",
              "wait", "decide", "return", "stuck", "dead"}

Init ==
    /\ todo \in Plans
    /\ ended = "no"
    /\ action = [s \in Signals |-> todo.previous]
    /\ old_handlers = [s \in Signals |-> "default"]
    /\ handlers_installed = FALSE
    /\ stack = <<>>
    /\ new_stack = None /\ altstack = {}
    /\ mutex = None
    /\ pc = [t \in Threads |-> "run"]
    /\ at \in [Threads -> {[sig |-> CHOOSE s \in Signals : TRUE, kind |-> "fault",
                            via |-> "default", i |-> 0, h |-> None, handled |-> FALSE]}]
    /\ context = None
    /\ fdes = [h \in Handlers |-> None]
    /\ open = {}
    /\ data = {}
    /\ ptracer = None
    /\ child = [t \in Threads |-> NoChild]
    /\ offered = {} /\ taken = {}

Goto(t, loc) == pc' = [pc EXCEPT ![t] = loc]
At(t, loc) == ended = "no" /\ pc[t] = loc
\* The process ends in thread t, one way or the other.
End(t, how) == ended' = how /\ Goto(t, "dead")

-----------------------------------------------------------------------------
(* Normal context. *)

\* A thread that has an alternate stack already keeps it, also one of Breakpad's.
InstallAlternateStackLocked(t) ==
    IF new_stack # None \/ t \in altstack THEN UNCHANGED stackVars
    ELSE new_stack' = t /\ altstack' = altstack \cup {t}

\* Mutant of RestoreAlternateStackLocked: the thread goes on using the stack.
RestoreAlternateStackFreed(t) == new_stack' = None /\ UNCHANGED altstack

\* The stack is freed whichever thread calls; only the caller stops using it.
RestoreAlternateStackLocked(t) ==
    /\ new_stack' = None
    /\ altstack' = IF new_stack = t THEN altstack \ {t} ELSE altstack

\* Mutant of InstallHandlersLocked: handlers_installed is not asked.
InstallHandlersAgain ==
    /\ old_handlers' = action
    /\ action' = [s \in Signals |-> "breakpad"]
    /\ handlers_installed' = TRUE

InstallHandlersLocked ==
    IF handlers_installed THEN UNCHANGED <<action, old_handlers, handlers_installed>>
    ELSE /\ old_handlers' = action
         /\ action' = [s \in Signals |-> "breakpad"]
         /\ handlers_installed' = TRUE

\* Mutant of RestoreHandlersLocked: the default handler is restored.
RestoreHandlersDefault ==
    IF handlers_installed
    THEN /\ action' = [s \in Signals |-> "default"]
         /\ handlers_installed' = FALSE
    ELSE UNCHANGED <<action, handlers_installed>>

RestoreHandlersLocked ==
    IF handlers_installed
    THEN /\ action' = old_handlers
         /\ handlers_installed' = FALSE
    ELSE UNCHANGED <<action, handlers_installed>>

\* The constructor clears the crash context; install_handler is the caller's choice.
Construct(t, h, install_handler) ==
    /\ At(t, "run")
    /\ <<t, h>> \in todo.constructs
    /\ mutex = None
    /\ todo' = [todo EXCEPT !.constructs = @ \ {<<t, h>>}]
    /\ context' = None
    /\ IF install_handler
       THEN InstallAlternateStackLocked(t) /\ InstallHandlersLocked
       ELSE UNCHANGED <<action, old_handlers, handlers_installed, stackVars>>
    /\ stack' = Append(stack, h)
    /\ UNCHANGED <<ended, mutex, pc, at, fdes, open, data, ptracer, child, history>>

\* The first entry of the stack that is h goes.
Erase(h) ==
    \E i \in DOMAIN stack :
        /\ stack[i] = h /\ \A j \in 1..(i - 1) : stack[j] # h
        /\ stack' = RemoveAt(stack, i)

\* Mutant of Destroy: the mutex is not taken.
DestroyUnlocked(t, h) ==
    /\ At(t, "run")
    /\ <<t, h>> \in todo.destroys
    /\ todo' = [todo EXCEPT !.destroys = @ \ {<<t, h>>}]
    /\ Erase(h)
    /\ IF stack' = <<>> THEN RestoreAlternateStackLocked(t) /\ RestoreHandlersLocked
       ELSE UNCHANGED <<action, handlers_installed, stackVars>>
    /\ UNCHANGED <<ended, old_handlers, mutex, pc, at, dumpVars, history>>

\* The destructor; the last object restores the handlers.
Destroy(t, h) ==
    /\ At(t, "run")
    /\ <<t, h>> \in todo.destroys
    /\ mutex = None
    /\ todo' = [todo EXCEPT !.destroys = @ \ {<<t, h>>}]
    /\ Erase(h)
    /\ IF stack' = <<>> THEN RestoreAlternateStackLocked(t) /\ RestoreHandlersLocked
       ELSE UNCHANGED <<action, handlers_installed, stackVars>>
    /\ UNCHANGED <<ended, old_handlers, mutex, pc, at, dumpVars, history>>

\* A dump asked for by the program, without the mutex.
CallHandler(t, call, h) ==
    /\ At(t, "run")
    /\ <<t, call>> \in todo.calls
    /\ h \in ToSet(stack)
    /\ todo' = [todo EXCEPT !.calls = @ \ {<<t, call>>}]
    /\ at' = [at EXCEPT ![t].via = call, ![t].h = h]
    /\ Goto(t, "offer")
    /\ UNCHANGED <<ended, sigVars, stackVars, mutex, dumpVars, history>>

WriteMinidump(t, h) == CallHandler(t, "WriteMinidump", h)
SimulateSignalDelivery(t, h) == CallHandler(t, "SimulateSignalDelivery", h)

-----------------------------------------------------------------------------
(* The kernel and the rest of the program (external). *)

CrashHappens(c) ==
    /\ At(c.thread, "run")
    /\ c \in todo.crashes
    /\ todo' = [todo EXCEPT !.crashes = @ \ {c}]
    /\ at' = [at EXCEPT ![c.thread].sig = c.sig, ![c.thread].kind = c.kind]
    /\ Goto(c.thread, "crash")
    /\ UNCHANGED <<ended, stackVars, sigVars, mutex, dumpVars, history>>

\* Other code saves and restores the handler of s with signal().
Strip(s) ==
    /\ ended = "no"
    /\ s \in todo.strips
    /\ IsBreakpad(action[s])
    /\ action' = [action EXCEPT ![s] = "stripped"]
    /\ todo' = [todo EXCEPT !.strips = @ \ {s}]
    /\ UNCHANGED <<ended, stackVars, old_handlers, handlers_installed, stack, mutex, pc, at,
                   dumpVars, history>>

\* The signal is delivered.  A previous handler is taken to end the process.
Deliver(t) ==
    /\ At(t, "crash")
    /\ LET d == action[at[t].sig] IN
       IF IsBreakpad(d)
       THEN /\ at' = [at EXCEPT ![t].via = d]
            /\ Goto(t, "handler")
            /\ UNCHANGED ended
       ELSE End(t, d) /\ UNCHANGED at
    /\ UNCHANGED <<todo, stackVars, sigVars, mutex, dumpVars, history>>

Blocked(t) == IF at[t].via = "breakpad" THEN Signals ELSE {at[t].sig}

\* A filter or a callback faults inside the handler.  The kernel ends the
\* process if the signal is blocked; otherwise SignalHandler is entered again
\* and waits for the mutex its own thread holds.
NestedFault(t, s) ==
    /\ At(t, "offer") /\ mutex = t
    /\ s \in todo.nested
    /\ todo' = [todo EXCEPT !.nested = @ \ {s}]
    /\ IF s \in Blocked(t) \/ ~IsBreakpad(action[s])
       THEN End(t, "killed")
       ELSE Goto(t, "stuck") /\ UNCHANGED ended
    /\ UNCHANGED <<sigVars, stackVars, mutex, at, dumpVars, history>>

-----------------------------------------------------------------------------
(* The crashing thread. *)

\* Mutant of RepairFlags: the default handler is installed instead.
RepairFlagsDefault(t) ==
    /\ At(t, "handler")
    /\ mutex = None
    /\ ~HasSigInfo(action[at[t].sig])
    /\ action' = [action EXCEPT ![at[t].sig] = "default"]
    /\ Goto(t, IF at[t].kind = "fault" THEN "crash" ELSE "run")
    /\ UNCHANGED <<todo, ended, stackVars, old_handlers, handlers_installed, stack, mutex, at,
                   dumpVars, history>>

\* SignalHandler's early return: the disposition has lost SA_SIGINFO.  A fault
\* comes again, a sent signal does not.
RepairFlags(t) ==
    /\ At(t, "handler")
    /\ mutex = None
    /\ ~HasSigInfo(action[at[t].sig])
    /\ action' = [action EXCEPT ![at[t].sig] = "reset"]
    /\ Goto(t, IF at[t].kind = "fault" THEN "crash" ELSE "run")
    /\ UNCHANGED <<todo, ended, stackVars, old_handlers, handlers_installed, stack, mutex, at,
                   dumpVars, history>>

\* Mutant of SignalHandler: the mutex is not held while the handlers are asked.
SignalHandlerUnlocked(t) ==
    /\ At(t, "handler")
    /\ HasSigInfo(action[at[t].sig])
    /\ IF stack = <<>>
       THEN End(t, "killed") /\ UNCHANGED <<mutex, at, offered>>
       ELSE /\ at' = [at EXCEPT ![t].i = Len(stack), ![t].h = Last(stack),
                                ![t].handled = FALSE]
            /\ Goto(t, "offer")
            /\ offered' = offered \cup {t}
            /\ UNCHANGED <<ended, stackVars, mutex>>
    /\ UNCHANGED <<todo, stackVars, sigVars, dumpVars, taken>>

\* SignalHandler up to the first HandleSignal; a NULL stack is dereferenced
\* with every signal blocked.
SignalHandler(t) ==
    /\ At(t, "handler")
    /\ mutex = None
    /\ HasSigInfo(action[at[t].sig])
    /\ IF stack = <<>>
       THEN End(t, "killed") /\ UNCHANGED <<mutex, at, offered>>
       ELSE /\ mutex' = t
            /\ at' = [at EXCEPT ![t].i = Len(stack), ![t].h = Last(stack),
                                ![t].handled = FALSE]
            /\ Goto(t, "offer")
            /\ offered' = offered \cup {t}
            /\ UNCHANGED ended
    /\ UNCHANGED <<todo, stackVars, sigVars, dumpVars, taken>>

\* What HandleSignal answers: the loop ends or asks the next object down.
Answer(t, handled) ==
    LET f == at[t] IN
    IF f.via \in Calls THEN Goto(t, "run") /\ UNCHANGED at
    ELSE IF handled \/ f.i = 1
    THEN /\ at' = [at EXCEPT ![t].handled = handled]
         /\ Goto(t, "decide")
    ELSE /\ at' = [at EXCEPT ![t].i = f.i - 1, ![t].h = stack[f.i - 1]]
         /\ Goto(t, "offer")

Genuine(t) == at[t].via # "stripped"

\* HandleSignal without a dump of its own: the filter rejects, crash_handler_
\* takes the crash, or RequestDump has the server write it.
HandleSignal(t) ==
    /\ At(t, "offer")
    /\ \/ \E v \in todo.answers :
            /\ Genuine(t)
            /\ context' = IF at[t].via = "WriteMinidump" THEN context ELSE t
            /\ Answer(t, v)
       \/ /\ at[t].via # "WriteMinidump"
          /\ FALSE \in todo.answers
          /\ Answer(t, FALSE)
          /\ UNCHANGED context
    /\ UNCHANGED <<todo, ended, stackVars, sigVars, mutex, fdes, open, data, ptracer, child, history>>

\* HandleSignal reads info: a frame without SA_SIGINFO has none.
BogusInfo(t) ==
    /\ ended = "no" /\ pc[t] \in {"offer", "return"}
    /\ ~Genuine(t)
    /\ End(t, "killed")
    /\ UNCHANGED <<todo, stackVars, sigVars, mutex, at, dumpVars, history>>

\* Mutant of GenerateDump: fdes keeps what it was when there is no pipe.
GenerateDumpUnset(t) ==
    /\ At(t, "offer") /\ Genuine(t)
    /\ context' = IF at[t].via = "WriteMinidump" THEN context ELSE t
    /\ \/ /\ fdes' = [fdes EXCEPT ![at[t].h] = t]
          /\ open' = open \cup Ends(t)
          /\ data' = data \ {t}
       \/ /\ fdes' = [fdes EXCEPT ![at[t].h] = "unset"]
          /\ UNCHANGED <<open, data>>
    /\ Goto(t, "piped")
    /\ UNCHANGED <<todo, ended, stackVars, sigVars, mutex, at, ptracer, child, history>>

\* GenerateDump up to sys_pipe, which may fail.
GenerateDump(t) ==
    /\ At(t, "offer") /\ Genuine(t)
    /\ context' = IF at[t].via = "WriteMinidump" THEN context ELSE t
    /\ \/ /\ fdes' = [fdes EXCEPT ![at[t].h] = t]
          /\ open' = open \cup Ends(t)
          /\ data' = data \ {t}
       \/ /\ fdes' = [fdes EXCEPT ![at[t].h] = None]
          /\ UNCHANGED <<open, data>>
    /\ Goto(t, "piped")
    /\ UNCHANGED <<todo, ended, stackVars, sigVars, mutex, at, ptracer, child, history>>

\* Mutant of CloneFails: the write end is left open.
CloneFailsLeak(t) ==
    /\ At(t, "piped")
    /\ FALSE \in todo.answers
    /\ open' = open \ {<<fdes[at[t].h], "read">>}
    /\ Answer(t, FALSE)
    /\ UNCHANGED <<todo, ended, stackVars, sigVars, mutex, context, fdes, data, ptracer, child, history>>

CloneFails(t) ==
    /\ At(t, "piped")
    /\ FALSE \in todo.answers
    /\ open' = open \ Ends(fdes[at[t].h])
    /\ Answer(t, FALSE)
    /\ UNCHANGED <<todo, ended, stackVars, sigVars, mutex, context, fdes, data, ptracer, child, history>>

\* The clone has a copy of memory and descriptors; it closes its write end.
CloneStarts(t) ==
    /\ At(t, "piped")
    /\ LET pipe == fdes[at[t].h] IN
       child' = [child EXCEPT ![t] =
          [state |-> "waiting", pipe |-> pipe, held |-> open \ {<<pipe, "write">>},
           context |-> IF at[t].via = "WriteMinidump" THEN t ELSE context]]
    /\ Goto(t, "cloned")
    /\ UNCHANGED <<todo, ended, stackVars, sigVars, mutex, at, context, fdes, open, data, ptracer, history>>

\* Mutant of AllowPtrace: the clone is not allowed to ptrace the process.
AllowPtraceForgotten(t) ==
    /\ At(t, "cloned")
    /\ open' = open \ {<<fdes[at[t].h], "read">>}
    /\ Goto(t, "allowed")
    /\ UNCHANGED <<todo, ended, stackVars, sigVars, mutex, at, context, fdes, data, ptracer, child, history>>

AllowPtrace(t) ==
    /\ At(t, "cloned")
    /\ open' = open \ {<<fdes[at[t].h], "read">>}
    /\ ptracer' = t
    /\ Goto(t, "allowed")
    /\ UNCHANGED <<todo, ended, stackVars, sigVars, mutex, at, context, fdes, data, child, history>>

\* The message goes into the pipe fdes names now; without one the write fails.
SendContinueSignalToChild(t) ==
    /\ At(t, "allowed")
    /\ data' = IF <<fdes[at[t].h], "write">> \in open THEN data \cup {fdes[at[t].h]} ELSE data
    /\ Goto(t, "wait")
    /\ UNCHANGED <<todo, ended, stackVars, sigVars, mutex, at, context, fdes, open, ptracer, child, history>>

\* waitpid returns and the callback decides.
ChildReaped(t) ==
    /\ At(t, "wait")
    /\ child[t].state = "exited"
    /\ child' = [child EXCEPT ![t] = NoChild]
    /\ open' = open \ {<<fdes[at[t].h], "write">>}
    /\ \E v \in todo.answers : Answer(t, v)
    /\ UNCHANGED <<todo, ended, stackVars, sigVars, mutex, context, fdes, data, ptracer, history>>

\* The end of SignalHandler's critical section.
Decide(t) ==
    /\ At(t, "decide")
    /\ IF at[t].handled
       THEN /\ action' = [action EXCEPT ![at[t].sig] = "default"]
            /\ taken' = taken \cup {at[t].sig}
            /\ UNCHANGED handlers_installed
       ELSE RestoreHandlersLocked /\ UNCHANGED taken
    /\ mutex' = None
    /\ Goto(t, "return")
    /\ UNCHANGED <<todo, ended, stackVars, old_handlers, stack, at, dumpVars, offered>>

\* A fault comes again; a sent signal is sent again with tgkill, or _exit(1).
ReturnFromHandler(t) ==
    /\ At(t, "return") /\ Genuine(t)
    /\ \/ Goto(t, "crash") /\ UNCHANGED ended
       \/ at[t].kind = "sent" /\ End(t, "exit")
    /\ UNCHANGED <<todo, stackVars, sigVars, mutex, at, dumpVars, history>>

-----------------------------------------------------------------------------
(* The cloned process: ThreadEntry. *)

WriterLeft(pipe) ==
    \/ <<pipe, "write">> \in open
    \/ \E u \in Threads : <<pipe, "write">> \in child[u].held

\* read returns: the message, end of file, or EBADF.
WaitForContinueSignal(t) ==
    /\ ended = "no"
    /\ child[t].state = "waiting"
    /\ LET pipe == child[t].pipe
           readable == <<pipe, "read">> \in child[t].held
       IN  /\ readable => pipe \in data \/ ~WriterLeft(pipe)
           /\ data' = IF readable THEN data \ {pipe} ELSE data
    /\ child' = [child EXCEPT ![t].state = "dumping"]
    /\ UNCHANGED <<todo, ended, stackVars, sigVars, mutex, pc, at, context, fdes, open, ptracer, history>>

DoDump(t) ==
    /\ ended = "no"
    /\ child[t].state = "dumping"
    /\ child' = [child EXCEPT ![t].state = "exited", ![t].held = {}]
    /\ UNCHANGED <<todo, ended, stackVars, sigVars, mutex, pc, at, context, fdes, open, data, ptracer, history>>

-----------------------------------------------------------------------------
InHandler(t) == RepairFlags(t) \/ SignalHandler(t) \/ Decide(t) \/ ReturnFromHandler(t)
Dumping(t) ==
    \/ GenerateDump(t) \/ CloneFails(t) \/ CloneStarts(t) \/ AllowPtrace(t)
    \/ SendContinueSignalToChild(t) \/ ChildReaped(t)
ChildStep(t) == WaitForContinueSignal(t) \/ DoDump(t)
ThreadStep(t) == Deliver(t) \/ InHandler(t) \/ HandleSignal(t) \/ BogusInfo(t) \/ Dumping(t)

Lifetime(t) == \E h \in Handlers :
    \/ \E install_handler \in BOOLEAN : Construct(t, h, install_handler)
    \/ Destroy(t, h)
    \/ WriteMinidump(t, h) \/ SimulateSignalDelivery(t, h)

Next ==
    \/ \E t \in Threads : Lifetime(t) \/ ThreadStep(t) \/ ChildStep(t)
    \/ \E t \in Threads, s \in Signals : NestedFault(t, s)
    \/ \E c \in Crash : CrashHappens(c)
    \/ \E s \in Signals : Strip(s)

Spec == Init /\ [][Next]_vars

\* A crashed thread and a clone keep running; nobody has to crash.
Fairness == \A t \in Threads : WF_vars(ThreadStep(t)) /\ WF_vars(ChildStep(t))

FairSpec == Spec /\ Fairness

-----------------------------------------------------------------------------
TypeOK ==
    /\ todo \in Plan
    /\ ended \in {"no", "default", "previous", "killed", "exit"}
    /\ action \in [Signals -> Dispositions]
    /\ old_handlers \in [Signals -> Dispositions]
    /\ handlers_installed \in BOOLEAN
    /\ stack \in Seq(Handlers)
    /\ new_stack \in Threads \cup {None} /\ altstack \subseteq Threads
    /\ mutex \in Threads \cup {None}
    /\ pc \in [Threads -> Locations]
    /\ at \in [Threads -> Frame]
    /\ context \in Threads \cup {None}
    /\ fdes \in [Handlers -> Threads \cup {None}]
    /\ open \subseteq Threads \X {"read", "write"}
    /\ data \subseteq Threads
    /\ ptracer \in Threads \cup {None}
    /\ child \in [Threads -> Child]
    /\ offered \subseteq Threads /\ taken \subseteq Signals

(* Conditions on the plans. *)

Actors(p) ==
    {c.thread : c \in p.crashes} \cup {c[1] : c \in p.calls} \cup {c[1] : c \in p.constructs}

\* A program that asks for dumps has one thread that crashes, asks or constructs.
RequestsAlone == \A p \in Plans : \A c \in p.calls : Actors(p) \subseteq {c[1]}

\* An object that is ever destroyed was constructed on the thread that destroys:
\* the others stay on the stack.
DestroyedWhereMade ==
    \A p \in Plans : \A d \in p.destroys, c \in p.constructs :
        d[1] = c[1] \/ \A e \in p.destroys : e[2] # c[2]

DumpLocations == {"offer", "piped", "cloned", "allowed", "wait"}
InCritical(t) ==
    \/ pc[t] \in {"decide", "stuck"}
    \/ pc[t] \in DumpLocations /\ at[t].via \notin Calls

\* "Exception handlers are serialized by the |g_handler_stack_mutex_|": one
\* thread at a time asks the handlers, and the object it is asking stays on the
\* stack until it has answered.
HandlersSerialized ==
    \A t \in Threads : InCritical(t) =>
        /\ mutex = t
        /\ pc[t] \in DumpLocations => at[t].i \in DOMAIN stack /\ at[t].h = stack[at[t].i]

\* "at most one at a time can use |g_crash_context_|": a clone dumps the state
\* of the thread that crashed.
DumpsOwnContext ==
    \A t \in Threads : child[t].state # "none" => child[t].context = t

\* "unblocks us when we're allowed to use ptrace": unless there was no pipe.
DumpIsAllowed ==
    \A t \in Threads :
        child[t].state = "dumping" /\ child[t].pipe # None => ptracer = t

\* A crash is handled on the alternate stack "since the signal might have been
\* caused by a stack overflow": a thread that uses Breakpad's uses an allocated one.
AltStackIsAllocated == \A t \in altstack : new_stack = t

\* Whatever fails on the way, no descriptor of a dump outlives it.
PipesClosed ==
    (\A t \in Threads : pc[t] \notin DumpLocations \ {"offer"}) => open = {}

\* The default action ends a process that had another handler before Breakpad
\* only with a signal that an object has handled: a rejected signal is
\* "delivered to the appropriate handler".
RejectedReachesPrevious ==
    (ended = "default" /\ todo.previous = "previous") =>
        \E t \in Threads : pc[t] = "dead" /\ at[t].sig \in taken

\* While objects are on the stack, the thread whose crash ends the process has
\* had one of them asked, also when the flags had to be repaired first, unless
\* an object has already handled this signal for another thread.
OfferedBeforeDeath ==
    (stack # <<>> /\ handlers_installed) =>
        \A t \in Threads : pc[t] = "dead" => t \in offered \/ at[t].sig \in taken

\* "set signal handler to SIG_DFL and rethrow, killing the crashed process".
CrashKills == \A t \in Threads : (pc[t] = "crash" ~> ended # "no")
=============================================================================
