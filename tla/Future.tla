------------------------------- MODULE Future -------------------------------
(***************************************************************************)
(* Promises and (shared) futures of a VM (future.cpp).  A pair is named by *)
(* its shared state.                                                       *)
(***************************************************************************)
EXTENDS VmContext

CONSTANT Pair   \* the promise/future pairs that future.new() returned

\* Promises and futures never leave their VM, so there is one VM.
ASSUME FutureAssumption ==
    /\ Nil \notin Pair \cup {"value", "error"}
    /\ \A f, g \in Fiber : VmOf[f] = VmOf[g]

VARIABLES
    state,        \* future_shared_state::state
    waiters,      \* future_shared_state::waiters
    promiseLive,  \* the promise userdata has not been collected
    asked,        \* [Fiber -> Pair or Nil]: the future of the fiber's latest get()
    outcome       \* [Pair -> what set_value()/set_error() stored, or Nil]

futureVars == <<state, waiters, promiseLive, asked, outcome>>
vars == <<coreVars, fiberData, ret, futureVars>>

Suspended == {"start", "yield", "get"}

Result == {"none", "value", "error", "broken_promise", "interrupted",
           "forbid_suspend_block", "promise_already_satisfied",
           "interruption_already_allowed", "suspension_already_allowed"}

TypeOK ==
    /\ strand \in [Vm -> Seq(ResumeHandler(Fiber, Result))]
    /\ CoreTypeOK(Suspended, Result, Pair)
    /\ state \in [Pair -> {"empty", "broken", "value", "error"}]
    /\ waiters \in [Pair -> Seq(Fiber)]
    /\ promiseLive \in [Pair -> BOOLEAN]
    /\ asked \in [Fiber -> Pair \cup {Nil}]
    /\ outcome \in [Pair -> {"value", "error", Nil}]

Init ==
    /\ CoreInit
    /\ state = [p \in Pair |-> "empty"]
    /\ waiters = [p \in Pair |-> <<>>]
    /\ promiseLive = [p \in Pair |-> TRUE]
    /\ asked = [f \in Fiber |-> Nil]
    /\ outcome = [p \in Pair |-> Nil]

-----------------------------------------------------------------------------
\* Fault: only the first waiter is resumed.
WakeFirst(v, p, val) ==
    /\ strand' = IF waiters[p] = <<>> THEN strand
                 ELSE Post(v, Resume(Head(waiters[p]), val))
    /\ waiters' = [waiters EXCEPT ![p] = <<>>]

\* Every waiter's resume is posted with val, and the list cleared.
WakeWaiters(v, p, val) ==
    /\ strand' = [strand EXCEPT ![v] =
                    @ \o ResumeAll(waiters[p], val)]
    /\ waiters' = [waiters EXCEPT ![p] = <<>>]

\* Fault: a promise is satisfied again.
SetResultAgain(f, p, result) ==
    /\ Running(f)
    /\ promiseLive[p]
    /\ state' = [state EXCEPT ![p] = result]
    /\ outcome' = [outcome EXCEPT ![p] = result]
    /\ WakeWaiters(VmOf[f], p, result)
    /\ Return(f, "none")
    /\ UNCHANGED <<valid, fiberData, promiseLive, asked>>

\* promise_set_value() and promise_set_error().
SetResult(f, p, result) ==
    /\ Running(f)
    /\ promiseLive[p]
    /\ state[p] = "empty"
    /\ state' = [state EXCEPT ![p] = result]
    /\ outcome' = [outcome EXCEPT ![p] = result]
    /\ WakeWaiters(VmOf[f], p, result)
    /\ Return(f, "none")
    /\ UNCHANGED <<valid, fiberData, promiseLive, asked>>

SetResultRaises(f, p) ==
    /\ Running(f)
    /\ promiseLive[p]
    /\ state[p] # "empty"
    /\ Return(f, "promise_already_satisfied")
    /\ UNCHANGED <<strand, valid, fiberData, futureVars>>

\* promise_mt_gc(): the collector runs while f allocates.
PromiseGc(f, p) ==
    /\ Running(f)
    /\ promiseLive[p]
    /\ promiseLive' = [promiseLive EXCEPT ![p] = FALSE]
    /\ state' = [state EXCEPT ![p] = "broken"]
    /\ WakeWaiters(VmOf[f], p, "broken_promise")
    /\ UNCHANGED <<running, valid, at, fiberData, ret, asked, outcome>>

-----------------------------------------------------------------------------
\* future_get() when it returns or raises at once.
GetReturns(f, p) ==
    /\ Running(f)
    /\ ~CanSuspend(f) \/ state[p] # "empty"
    /\ asked' = [asked EXCEPT ![f] = p]
    /\ Return(f, IF ~CanSuspend(f) THEN SuspendError(f)
                 ELSE IF state[p] = "broken" THEN "broken_promise"
                 ELSE state[p])
    /\ UNCHANGED <<strand, valid, fiberData, state, waiters, promiseLive, outcome>>

GetWaits(f, p) ==
    /\ Running(f)
    /\ CanSuspend(f) /\ state[p] = "empty"
    /\ asked' = [asked EXCEPT ![f] = p]
    /\ interrupter' = SetInterrupter(f, p)
    /\ waiters' = [waiters EXCEPT ![p] = Append(@, f)]
    /\ Suspend(f, "get")
    /\ UNCHANGED <<strand, valid, counters, interrupted, state, promiseLive, outcome>>

\* Fault: the fiber is resumed and stays a waiter.
GetInterrupterKeepsPlace(g, p) ==
    /\ strand' = Post(VmOf[g], Resume(g, "interrupted"))
    /\ UNCHANGED waiters

\* The closure set by future_get().  If g is no waiter any more, it has been
\* woken already.
GetInterrupter(g, p) ==
    \/ \E i \in DOMAIN waiters[p] :
          /\ FoundAt(waiters[p], i, g)
          /\ waiters' = [waiters EXCEPT ![p] = SeqExt!RemoveAt(@, i)]
          /\ strand' = Post(VmOf[g], Resume(g, "interrupted"))
    \/ /\ \A i \in DOMAIN waiters[p] : waiters[p][i] # g
       /\ UNCHANGED <<waiters, strand>>

\* fiber_interrupt() of a fiber g whose handle is alive.
Interrupt(f, g) ==
    /\ Running(f)
    /\ VmOf[g] = VmOf[f] /\ ~IsMain(g) /\ at[g] \notin Gone
    /\ interrupted' = [interrupted EXCEPT ![g] = TRUE]
    /\ IF g # f /\ interrupter[g] # Nil
       THEN /\ GetInterrupter(g, interrupter[g])
            /\ interrupter' = [interrupter EXCEPT ![g] = Nil]
       ELSE UNCHANGED <<strand, waiters, interrupter>>
    /\ Return(f, "none")
    /\ UNCHANGED <<valid, counters, state, promiseLive, asked, outcome>>

-----------------------------------------------------------------------------
Spawn(f, g) == SpawnFiber(f, g) /\ UNCHANGED futureVars

End(f) ==
    /\ Running(f)
    /\ Suspend(f, "dead")
    /\ UNCHANGED <<strand, valid, fiberData, futureVars>>

ThisFiber(f) ==
    /\ \/ DisableInterruption(f)
       \/ RestoreInterruption(f)
       \/ ForbidSuspend(f)
       \/ AllowSuspend(f)
       \/ Yield(f)
    /\ UNCHANGED futureVars

RunStrand(v) == RunResume(v) /\ UNCHANGED futureVars

FutureCall(f, p) ==
    \/ \E result \in {"value", "error"} : SetResult(f, p, result)
    \/ SetResultRaises(f, p)
    \/ PromiseGc(f, p)
    \/ GetReturns(f, p)
    \/ GetWaits(f, p)

Next ==
    \/ \E v \in Vm : RunStrand(v)
    \/ \E f \in Fiber : ThisFiber(f) \/ End(f)
    \/ \E f, g \in Fiber : Spawn(f, g) \/ Interrupt(f, g)
    \/ \E f \in Fiber, p \in Pair : FutureCall(f, p)

Spec == Init /\ [][Next]_vars

\* The io_context runs the strand's handlers and no fiber keeps the VM for ever.
Fairness ==
    /\ \A v \in Vm : WF_vars(RunStrand(v))
    /\ \A f \in Fiber : WF_vars(End(f))

FairSpec == Spec /\ Fairness

-----------------------------------------------------------------------------
(* Properties.                                                               *)

WakeUps(f) == {i \in DOMAIN strand[VmOf[f]] : strand[VmOf[f]][i].fiber = f}
Waits(f) == Places(waiters, f)

\* A fiber in get() is a waiter of one future or has one resume queued, never
\* both, whatever the order of set_value(), collection and interrupt().
WakeOnce ==
    \A f \in Fiber :
        Cardinality(WakeUps(f)) + Cardinality(Waits(f))
            = IF at[f] \in Suspended THEN 1 ELSE 0

\* A fiber suspended in get() comes back with what was stored, with
\* broken_promise if nothing ever was, or because it was interrupted.
WaitDelivers ==
    [][\A f \in Fiber : at[f] = "get" /\ at'[f] = "running" =>
          LET o == outcome[asked[f]] IN
          \/ ret'[f] = "interrupted" /\ interrupted[f]
          \/ o # Nil /\ ret'[f] = o
          \/ o = Nil /\ ret'[f] = "broken_promise"]_vars

\* Nobody is left waiting on a future whose promise was satisfied or lost.
AnsweredWaitsEnd ==
    \A f \in Fiber, p \in Pair :
        (at[f] = "get" /\ asked[f] = p /\ state[p] # "empty") ~> at[f] # "get"

\* A result that was stored stays available: get() never says broken_promise
\* of a promise that had been satisfied.
ResultStaysAvailable ==
    \A f \in Fiber :
        ret[f] = "broken_promise" => outcome[asked[f]] = Nil

=============================================================================
