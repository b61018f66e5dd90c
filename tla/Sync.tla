-------------------------------- MODULE Sync --------------------------------
(***************************************************************************)
(* mutex and condition_variable (mutex.cpp, condition_variable.cpp,        *)
(* bytecode/cond_wait.lua).                                                *)
(*                                                                         *)
(* The mutex does not know its owner.  The programs modelled use it as its *)
(* documentation does: a fiber unlocks, or waits with, a mutex it has      *)
(* locked, does not lock it twice and has unlocked it when it ends.        *)
(***************************************************************************)
EXTENDS VmContext

CONSTANTS Mutex, Cond

\* Mutexes and condition variables never leave their VM, so there is one VM.
ASSUME SyncAssumption ==
    /\ Nil \notin Mutex \cup Cond
    /\ \A f, g \in Fiber : VmOf[f] = VmOf[g]

VARIABLES
    locked,    \* mutex_handle::locked
    mpending,  \* mutex_handle::pending
    cpending,  \* cond_handle::pending
    want,      \* [Fiber -> Mutex or Nil]: the mutex a fiber in lock() waits for
    wmutex,    \* [Fiber -> Mutex or Nil]: the mtx of the cond:wait() in progress
    werr,      \* [Fiber -> BOOLEAN]: its e, errc::interrupted or nil
    inside     \* [Mutex -> SUBSET Fiber]: who locked it and has not unlocked it

syncVars == <<locked, mpending, cpending, want, wmutex, werr, inside>>
vars == <<coreVars, fiberData, ret, syncVars>>

Suspended == {"start", "yield", "lock", "cond_wait"}

Result == {"none", "ok", "busy", "notified", "interrupted", "forbid_suspend_block",
           "operation_not_permitted", "interruption_already_allowed",
           "suspension_already_allowed"}

TypeOK ==
    /\ strand \in [Vm -> Seq(ResumeHandler(Fiber, Result))]
    /\ CoreTypeOK(Suspended, Result, Cond)
    /\ locked \in [Mutex -> BOOLEAN]
    /\ mpending \in [Mutex -> Seq(Fiber)]
    /\ cpending \in [Cond -> Seq(Fiber)]
    /\ want \in [Fiber -> Mutex \cup {Nil}]
    /\ wmutex \in [Fiber -> Mutex \cup {Nil}]
    /\ werr \in [Fiber -> BOOLEAN]
    /\ inside \in [Mutex -> SUBSET Fiber]

Init ==
    /\ CoreInit
    /\ locked = [m \in Mutex |-> FALSE]
    /\ mpending = [m \in Mutex |-> <<>>]
    /\ cpending = [c \in Cond |-> <<>>]
    /\ want = [f \in Fiber |-> Nil]
    /\ wmutex = [f \in Fiber |-> Nil]
    /\ werr = [f \in Fiber |-> FALSE]
    /\ inside = [m \in Mutex |-> {}]

\* The current fiber f runs user code: it is not inside the cond:wait() wrapper.
Calls(f) == Running(f) /\ wmutex[f] = Nil

-----------------------------------------------------------------------------
(* mutex.                                                                    *)

\* mutex_lock() after its checks: take the mutex or queue for it.
TakeOrQueue(f, m) ==
    IF locked[m]
    THEN /\ mpending' = [mpending EXCEPT ![m] = Append(@, f)]
         /\ want' = [want EXCEPT ![f] = m]
         /\ Suspend(f, "lock")
         /\ UNCHANGED <<locked, inside, wmutex>>
    ELSE /\ locked' = [locked EXCEPT ![m] = TRUE]
         /\ inside' = [inside EXCEPT ![m] = @ \cup {f}]
         /\ wmutex' = [wmutex EXCEPT ![f] = Nil]
         /\ UNCHANGED <<mpending, want>>

MutexLock(f, m) ==
    /\ Calls(f)
    /\ f \notin inside[m]
    /\ IF CanSuspend2(f)
       THEN /\ TakeOrQueue(f, m)
            /\ ~locked[m] => Return(f, "ok")
       ELSE /\ Return(f, "forbid_suspend_block")
            /\ UNCHANGED <<locked, mpending, want, wmutex, inside>>
    /\ UNCHANGED <<strand, valid, fiberData, cpending, werr>>

MutexTryLock(f, m) ==
    /\ Calls(f)
    /\ f \notin inside[m]
    /\ IF locked[m]
       THEN Return(f, "busy") /\ UNCHANGED <<locked, inside>>
       ELSE /\ locked' = [locked EXCEPT ![m] = TRUE]
            /\ inside' = [inside EXCEPT ![m] = @ \cup {f}]
            /\ Return(f, "ok")
    /\ UNCHANGED <<strand, valid, fiberData, mpending, cpending, want, wmutex, werr>>

\* Faults: a mutex that is handed over looks free; the latest waiter comes first.
UnlockAlwaysClears(f, m) ==
    /\ inside' = [inside EXCEPT ![m] = @ \ {f}]
    /\ locked' = [locked EXCEPT ![m] = FALSE]
    /\ IF mpending[m] = <<>>
       THEN UNCHANGED <<mpending, strand>>
       ELSE /\ mpending' = [mpending EXCEPT ![m] = Tail(@)]
            /\ strand' = Post(VmOf[f], ResumeSkipClear(Head(mpending[m])))

UnlockToTheLast(f, m) ==
    /\ inside' = [inside EXCEPT ![m] = @ \ {f}]
    /\ IF mpending[m] = <<>>
       THEN /\ locked' = [locked EXCEPT ![m] = FALSE]
            /\ UNCHANGED <<mpending, strand>>
       ELSE LET n == Len(mpending[m]) IN
            /\ mpending' = [mpending EXCEPT ![m] = SubSeq(@, 1, n - 1)]
            /\ strand' = Post(VmOf[f], ResumeSkipClear(mpending[m][n]))
            /\ UNCHANGED locked

\* Unlocking hands a mutex that others wait for to the first of them: locked
\* stays set and its resume is posted.
Unlock(f, m) ==
    /\ inside' = [inside EXCEPT ![m] = @ \ {f}]
    /\ IF mpending[m] = <<>>
       THEN /\ locked' = [locked EXCEPT ![m] = FALSE]
            /\ UNCHANGED <<mpending, strand>>
       ELSE /\ mpending' = [mpending EXCEPT ![m] = Tail(@)]
            /\ strand' = Post(VmOf[f], ResumeSkipClear(Head(mpending[m])))
            /\ UNCHANGED locked

MutexUnlock(f, m) ==
    /\ Calls(f)
    /\ f \in inside[m]
    /\ Unlock(f, m)
    /\ Return(f, "none")
    /\ UNCHANGED <<valid, fiberData, cpending, want, wmutex, werr>>

\* unlock() and cond:wait() of a mutex nobody has locked.
NotLocked(f, m) ==
    /\ Calls(f)
    /\ ~locked[m]
    /\ Return(f, "operation_not_permitted")
    /\ UNCHANGED <<strand, valid, fiberData, syncVars>>

-----------------------------------------------------------------------------
(* condition_variable.                                                       *)

\* Fault: the mutex stays locked during the wait.
CondWaitKeepsMutex(f, c, m) ==
    /\ Calls(f)
    /\ f \in inside[m]
    /\ CanSuspend(f)
    /\ interrupter' = SetInterrupter(f, c)
    /\ cpending' = [cpending EXCEPT ![c] = Append(@, f)]
    /\ wmutex' = [wmutex EXCEPT ![f] = m]
    /\ Suspend(f, "cond_wait")
    /\ UNCHANGED <<strand, valid, counters, interrupted, locked, mpending, want, werr, inside>>

\* cond_wait() suspends: the waiter is queued, then the mutex is unlocked.
CondWait(f, c, m) ==
    /\ Calls(f)
    /\ f \in inside[m]
    /\ CanSuspend(f)
    /\ interrupter' = SetInterrupter(f, c)
    /\ cpending' = [cpending EXCEPT ![c] = Append(@, f)]
    /\ Unlock(f, m)
    /\ wmutex' = [wmutex EXCEPT ![f] = m]
    /\ Suspend(f, "cond_wait")
    /\ UNCHANGED <<valid, counters, interrupted, want, werr>>

\* It raises at once, the mutex still locked.
CondWaitRaises(f, m) ==
    /\ Calls(f)
    /\ f \in inside[m]
    /\ ~CanSuspend(f)
    /\ Return(f, SuspendError(f))
    /\ UNCHANGED <<strand, valid, fiberData, syncVars>>

NotifyOne(f, c) ==
    /\ Calls(f)
    /\ IF cpending[c] = <<>>
       THEN UNCHANGED <<strand, cpending>>
       ELSE /\ cpending' = [cpending EXCEPT ![c] = Tail(@)]
            /\ strand' = Post(VmOf[f], Resume(Head(cpending[c]), "notified"))
    /\ Return(f, "none")
    /\ UNCHANGED <<valid, fiberData, locked, mpending, want, wmutex, werr, inside>>

NotifyAll(f, c) ==
    /\ Calls(f)
    /\ strand' = [strand EXCEPT ![VmOf[f]] =
                    @ \o ResumeAll(cpending[c], "notified")]
    /\ cpending' = [cpending EXCEPT ![c] = <<>>]
    /\ Return(f, "none")
    /\ UNCHANGED <<valid, fiberData, locked, mpending, want, wmutex, werr, inside>>

\* Fault: an interrupted wait raises before the mutex is locked again.
RelockUnlessInterrupted(f) ==
    /\ Running(f)
    /\ wmutex[f] # Nil
    /\ IF ret[f] = "interrupted"
       THEN /\ wmutex' = [wmutex EXCEPT ![f] = Nil]
            /\ UNCHANGED <<running, at, ret, locked, mpending, want, werr, inside>>
       ELSE /\ TakeOrQueue(f, wmutex[f])
            /\ ~locked[wmutex[f]] => UNCHANGED <<running, at, ret>>
            /\ UNCHANGED werr
    /\ UNCHANGED <<strand, valid, fiberData, cpending>>

\* bytecode/cond_wait.lua once the native function has returned e: lock the
\* mutex again, then raise e if there is one.
Relock(f) ==
    /\ Running(f)
    /\ wmutex[f] # Nil
    /\ TakeOrQueue(f, wmutex[f])
    /\ IF locked[wmutex[f]]
       THEN werr' = [werr EXCEPT ![f] = ret[f] = "interrupted"]
       ELSE UNCHANGED <<running, at, ret, werr>>
    /\ UNCHANGED <<strand, valid, fiberData, cpending>>

-----------------------------------------------------------------------------
(* The strand.                                                               *)

\* A fiber handed a mutex comes back from lock(): to user code, or to the end
\* of cond:wait().
LockReturns(v) ==
    /\ StrandReady(v)
    /\ LET f == Head(strand[v]).fiber IN
       /\ at[f] = "lock"
       /\ strand' = [strand EXCEPT ![v] = Tail(@)]
       /\ FiberResume(f, Head(strand[v]).clear,
                      IF wmutex[f] = Nil THEN "ok"
                      ELSE IF werr[f] THEN "interrupted" ELSE "notified")
       /\ inside' = [inside EXCEPT ![want[f]] = @ \cup {f}]
       /\ want' = [want EXCEPT ![f] = Nil]
       /\ wmutex' = [wmutex EXCEPT ![f] = Nil]
       /\ werr' = [werr EXCEPT ![f] = FALSE]
    /\ UNCHANGED <<valid, counters, interrupted, locked, mpending, cpending>>

OtherReturns(v) ==
    /\ StrandReady(v)
    /\ at[Head(strand[v]).fiber] # "lock"
    /\ RunResume(v)
    /\ UNCHANGED syncVars

RunStrand(v) == LockReturns(v) \/ OtherReturns(v)

-----------------------------------------------------------------------------
(* fiber_interrupt() of a fiber g whose handle is alive.                     *)

\* Faults: the waiter stays in the queue; or is taken out and not resumed.
CondInterrupterKeepsPlace(g, c) ==
    /\ strand' = Post(VmOf[g], Resume(g, "interrupted"))
    /\ UNCHANGED cpending

CondInterrupterForgets(g, c) ==
    /\ \E i \in DOMAIN cpending[c] :
          /\ FoundAt(cpending[c], i, g)
          /\ cpending' = [cpending EXCEPT ![c] = SeqExt!RemoveAt(@, i)]
    /\ UNCHANGED strand

\* The closure set by cond_wait().  If g is not pending, notify() came first
\* and will resume it.
CondInterrupter(g, c) ==
    \/ \E i \in DOMAIN cpending[c] :
          /\ FoundAt(cpending[c], i, g)
          /\ cpending' = [cpending EXCEPT ![c] = SeqExt!RemoveAt(@, i)]
          /\ strand' = Post(VmOf[g], Resume(g, "interrupted"))
    \/ /\ \A i \in DOMAIN cpending[c] : cpending[c][i] # g
       /\ UNCHANGED <<cpending, strand>>

Interrupt(f, g) ==
    /\ Calls(f)
    /\ VmOf[g] = VmOf[f] /\ ~IsMain(g) /\ at[g] \notin Gone
    /\ interrupted' = [interrupted EXCEPT ![g] = TRUE]
    /\ IF g # f /\ interrupter[g] # Nil
       THEN /\ CondInterrupter(g, interrupter[g])
            /\ interrupter' = [interrupter EXCEPT ![g] = Nil]
       ELSE UNCHANGED <<strand, cpending, interrupter>>
    /\ Return(f, "none")
    /\ UNCHANGED <<valid, counters, locked, mpending, want, wmutex, werr, inside>>

-----------------------------------------------------------------------------
Spawn(f, g) == SpawnFiber(f, g) /\ Calls(f) /\ UNCHANGED syncVars

\* The fiber ends; its scopes have unlocked what it had locked.
End(f) ==
    /\ Calls(f)
    /\ \A m \in Mutex : f \notin inside[m]
    /\ Suspend(f, "dead")
    /\ UNCHANGED <<strand, valid, fiberData, syncVars>>

ThisFiber(f) ==
    /\ Calls(f)
    /\ \/ DisableInterruption(f)
       \/ RestoreInterruption(f)
       \/ ForbidSuspend(f)
       \/ AllowSuspend(f)
       \/ Yield(f)
    /\ UNCHANGED syncVars

MutexCall(f, m) ==
    \/ MutexLock(f, m)
    \/ MutexTryLock(f, m)
    \/ MutexUnlock(f, m)
    \/ NotLocked(f, m)
    \/ CondWaitRaises(f, m)

CondCall(f, c) ==
    \/ NotifyOne(f, c)
    \/ NotifyAll(f, c)
    \/ \E m \in Mutex : CondWait(f, c, m)

Next ==
    \/ \E v \in Vm : RunStrand(v)
    \/ \E f \in Fiber : ThisFiber(f) \/ End(f) \/ Relock(f)
    \/ \E f, g \in Fiber : Spawn(f, g) \/ Interrupt(f, g)
    \/ \E f \in Fiber, m \in Mutex : MutexCall(f, m)
    \/ \E f \in Fiber, c \in Cond : CondCall(f, c)

Spec == Init /\ [][Next]_vars

\* The current fiber gives control back.
GiveUp(f) ==
    /\ \/ End(f)
       \/ ThisFiber(f)
       \/ \E m \in Mutex : MutexLock(f, m)
       \/ \E c \in Cond, m \in Mutex : CondWait(f, c, m)
    /\ running'[VmOf[f]] = Nil

\* The io_context runs the strand's handlers, the wrapper goes on, no fiber
\* keeps the VM for ever (the scheduler is cooperative), and a fiber that holds
\* a mutex and keeps being run unlocks it some day.
Fairness ==
    /\ \A v \in Vm : WF_vars(RunStrand(v))
    /\ \A f \in Fiber : WF_vars(Relock(f)) /\ SF_vars(GiveUp(f))
    /\ \A f \in Fiber, m \in Mutex : SF_vars(MutexUnlock(f, m))

FairSpec == Spec /\ Fairness

-----------------------------------------------------------------------------
(* Properties.                                                               *)

WakeUps(f) == {i \in DOMAIN strand[VmOf[f]] : strand[VmOf[f]][i].fiber = f}
InMutexQueues(f) == Places(mpending, f)
InCondQueues(f) == Places(cpending, f)

\* A suspended fiber is in exactly one place from which it will be resumed --
\* the strand, or the queue of one mutex or condition variable -- and a running
\* or dead one in none, however notify, unlock and interrupt interleave.
WakeOnce ==
    \A f \in Fiber :
        Cardinality(WakeUps(f)) + Cardinality(InMutexQueues(f))
            + Cardinality(InCondQueues(f))
        = IF at[f] \in Suspended THEN 1 ELSE 0

\* A fiber that was handed m and has not come back from lock() yet.
Granted(m) == {f \in Fiber : at[f] = "lock" /\ want[f] = m /\ WakeUps(f) # {}}

\* The locked flag is never orphaned and never stolen: it is set exactly while
\* one fiber is inside or one has been handed the mutex, never both, and
\* fibers queue only for a locked mutex.
LockedIsOwned ==
    \A m \in Mutex :
        /\ locked[m] <=> (inside[m] \cup Granted(m) # {})
        /\ Cardinality(inside[m] \cup Granted(m)) <= 1
        /\ mpending[m] # <<>> => locked[m]

\* An interrupter is only set while its fiber is inside the cond:wait() it was
\* set for; in particular lock() is no interruption point.
InterrupterIsCurrent ==
    \A f \in Fiber : interrupter[f] # Nil => at[f] = "cond_wait"

\* Why f is on its way back from cond:wait().
Why(f) ==
    IF \/ at[f] = "running" /\ ret[f] = "interrupted"
       \/ at[f] = "lock" /\ werr[f]
       \/ \E i \in WakeUps(f) : strand[VmOf[f]][i].val = "interrupted"
    THEN "interrupted" ELSE "notified"

Phase(where, m, c, why) == [at |-> where, mutex |-> m, cond |-> c, why |-> why]

PhaseOf(f) ==
    IF wmutex[f] # Nil
    THEN IF InCondQueues(f) # {}
         THEN Phase("waiting", wmutex[f], (CHOOSE p \in InCondQueues(f) : TRUE)[1], Nil)
         ELSE Phase("back", wmutex[f], Nil, Why(f))
    ELSE IF at[f] = "lock" THEN Phase("entering", want[f], Nil, Nil)
    ELSE Phase("free", Nil, Nil, Nil)

M == INSTANCE Monitor WITH
        holders <- inside,
        flagged <- interrupted,
        phase <- [f \in Fiber |-> PhaseOf(f)]

\* The queues and the strand implement the monitor: a wait releases the mutex
\* and starts to wait in one step, comes back only when notified or interrupted
\* while it waited, a notification is neither lost to nor taken back by an
\* interruption, and nobody enters, from a wait or not, while another is inside.
ImplementsMonitor == M!Spec

\* cond:wait() returns, or raises the interruption, with the mutex locked again
\* by the waiter, and raises only if it was interrupted before it was notified.
WaitEndsLocked ==
    [][\A f \in Fiber : wmutex[f] # Nil /\ wmutex'[f] = Nil =>
          f \in inside'[wmutex[f]] /\ ret'[f] = Why(f)]_vars

\* Every fiber waiting for a mutex gets it.
LockIsGranted == \A f \in Fiber : at[f] = "lock" ~> at[f] # "lock"

\* A fiber interrupted in an interruptible cond:wait() stops waiting, even if
\* nobody ever notifies.
InterruptedWaitEnds ==
    \A f \in Fiber :
        (at[f] = "cond_wait" /\ interrupted[f] /\ ~Disabled(f)) ~> at[f] # "cond_wait"

=============================================================================
