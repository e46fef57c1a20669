------------------------- MODULE MCExceptionHandler -------------------------
(* TLC instance of ExceptionHandler: two threads, two signals, two objects. *)
EXTENDS ExceptionHandler

CONSTANTS t1, t2, segv, abrt, h1, h2

MCThreads == {t1, t2}
MCSignals == {segv, abrt}

Quiet == [crashes |-> {}, strips |-> {}, nested |-> {}, calls |-> {},
          constructs |-> {t1} \X {h1, h2}, destroys |-> {},
          previous |-> "default", answers |-> BOOLEAN]
Fault(t, s) == [thread |-> t, sig |-> s, kind |-> "fault"]
Sent(t, s) == [thread |-> t, sig |-> s, kind |-> "sent"]

\* Two threads crash with different signals, callbacks may fault.
DifferentSignals ==
    [Quiet EXCEPT !.crashes = {Sent(t1, abrt), Fault(t2, segv)}, !.nested = {segv}]
\* One thread crashes and other code has stripped its flags.
FlagsLost == [Quiet EXCEPT !.crashes = {Fault(t2, segv)}, !.strips = MCSignals]
\* An object is destroyed while the thread that constructs another one crashes.
Destroyed == [Quiet EXCEPT !.crashes = {Fault(t2, segv)},
                           !.constructs = {<<t1, h1>>, <<t2, h2>>},
                           !.destroys = {<<t1, h1>>}]
\* One thread dumps on request before it crashes.
DumpsOnRequest == [Quiet EXCEPT !.crashes = {Fault(t1, segv)}, !.calls = {t1} \X Calls]
\* Two threads crash with one signal whose flags are lost; objects reject it.
Rejected == [Quiet EXCEPT !.crashes = {Fault(t1, segv), Fault(t2, segv)},
                          !.strips = {segv}, !.answers = {FALSE}]

CleanPlans ==
    {DifferentSignals, FlagsLost, Destroyed, DumpsOnRequest}
      \cup {[p EXCEPT !.previous = "previous"] :
                p \in {DifferentSignals, FlagsLost, Destroyed, DumpsOnRequest, Rejected}}

\* The plans are ones that the conditional theorems speak of.
ASSUME PlansAreCovered == RequestsAlone /\ DestroyedWhereMade
=============================================================================
