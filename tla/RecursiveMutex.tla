--------------------------- MODULE RecursiveMutex ---------------------------
(***************************************************************************)
(* recursive_mutex (recursive_mutex.cpp).  The mutex knows its owner, so   *)
(* no discipline is asked of the programs: any fiber may call anything.    *)
(***************************************************************************)
EXTENDS VmContext

CONSTANTS
    RMutex,
    MaxLocked   \* std::numeric_limits<std::size_t>::max(), scaled down

\* A mutex never leaves its VM, so there is one VM.
ASSUME RecursiveMutexAssumption ==
    /\ MaxLocked \in Nat \ {0}
    /\ Nil \notin RMutex
    /\ \A f, g \in Fiber : VmOf[f] = VmOf[g]

VARIABLES
    owner,     \* recursive_mutex_handle::owner
    nlocked,   \* recursive_mutex_handle::nlocked
    rpending,  \* recursive_mutex_handle::pending
    want,      \* [Fiber -> RMutex or Nil]: the mutex a fiber in lock() waits for
    depth      \* [RMutex -> [Fiber -> Nat]]: successful lock()s a fiber has not undone

lockVars == <<owner, nlocked, rpending, want, depth>>
vars == <<coreVars, fiberData, ret, lockVars>>

Suspended == {"start", "yield", "lock"}

Result == {"none", "ok", "busy", "interrupted", "forbid_suspend_block",
           "value_too_large", "operation_not_permitted",
           "interruption_already_allowed", "suspension_already_allowed"}

TypeOK ==
    /\ strand \in [Vm -> Seq(ResumeHandler(Fiber, Result))]
    /\ CoreTypeOK(Suspended, Result, {})
    /\ owner \in [RMutex -> Fiber \cup {Nil}]
    /\ nlocked \in [RMutex -> 0..MaxLocked]
    /\ rpending \in [RMutex -> Seq(Fiber)]
    /\ want \in [Fiber -> RMutex \cup {Nil}]
    /\ depth \in [RMutex -> [Fiber -> Nat]]

Init ==
    /\ CoreInit
    /\ owner = [r \in RMutex |-> Nil]
    /\ nlocked = [r \in RMutex |-> 0]
    /\ rpending = [r \in RMutex |-> <<>>]
    /\ want = [f \in Fiber |-> Nil]
    /\ depth = [r \in RMutex |-> [f \in Fiber |-> 0]]

-----------------------------------------------------------------------------
(* recursive_mutex_lock() and recursive_mutex_try_lock().                    *)

\* Fault: the limit is not checked.
TakeUnbounded(f, r) ==
    /\ owner[r] \in {f, Nil}
    /\ owner' = [owner EXCEPT ![r] = f]
    /\ nlocked' = [nlocked EXCEPT ![r] = IF owner[r] = f THEN @ + 1 ELSE 1]
    /\ depth' = [depth EXCEPT ![r][f] = @ + 1]
    /\ Return(f, "ok")
    /\ UNCHANGED <<rpending, want>>

\* The mutex is free, or f's and not at its limit: one more level for f.
Take(f, r) ==
    /\ owner[r] = Nil \/ (owner[r] = f /\ nlocked[r] # MaxLocked)
    /\ owner' = [owner EXCEPT ![r] = f]
    /\ nlocked' = [nlocked EXCEPT ![r] = IF owner[r] = f THEN @ + 1 ELSE 1]
    /\ depth' = [depth EXCEPT ![r][f] = @ + 1]
    /\ Return(f, "ok")
    /\ UNCHANGED <<rpending, want>>

TooDeep(f, r) ==
    /\ owner[r] = f /\ nlocked[r] = MaxLocked
    /\ Return(f, "value_too_large")
    /\ UNCHANGED lockVars

Queue(f, r) ==
    /\ owner[r] \notin {f, Nil}
    /\ rpending' = [rpending EXCEPT ![r] = Append(@, f)]
    /\ want' = [want EXCEPT ![f] = r]
    /\ Suspend(f, "lock")
    /\ UNCHANGED <<owner, nlocked, depth>>

Lock(f, r) ==
    /\ Running(f)
    /\ \/ CanSuspend2(f) /\ (Take(f, r) \/ TooDeep(f, r) \/ Queue(f, r))
       \/ ~CanSuspend2(f) /\ Return(f, "forbid_suspend_block") /\ UNCHANGED lockVars
    /\ UNCHANGED <<strand, valid, fiberData>>

TryLock(f, r) ==
    /\ Running(f)
    /\ \/ Take(f, r)
       \/ TooDeep(f, r)
       \/ owner[r] \notin {f, Nil} /\ Return(f, "busy") /\ UNCHANGED lockVars
    /\ UNCHANGED <<strand, valid, fiberData>>

-----------------------------------------------------------------------------
(* recursive_mutex_unlock().                                                 *)

NotOwner(f, r) ==
    /\ owner[r] # f
    /\ Return(f, "operation_not_permitted")
    /\ UNCHANGED <<strand, lockVars>>

\* Hands r over to its first waiter, who then owns it n times.
HandOver(f, r, n) ==
    /\ nlocked' = [nlocked EXCEPT ![r] = n]
    /\ owner' = [owner EXCEPT ![r] = Head(rpending[r])]
    /\ strand' = Post(VmOf[f], ResumeSkipClear(Head(rpending[r])))

Free(r) ==
    /\ nlocked' = [nlocked EXCEPT ![r] = 0]
    /\ owner' = [owner EXCEPT ![r] = Nil]
    /\ UNCHANGED <<rpending, strand>>

\* Faults: one unlock() undoes every level; the waiter is not taken out of the
\* queue; the new owner's first level is not counted.
ReleaseAllLevels(f, r) ==
    /\ owner[r] = f
    /\ depth' = [depth EXCEPT ![r][f] = @ - 1]
    /\ IF rpending[r] = <<>> THEN Free(r)
       ELSE HandOver(f, r, 1) /\ rpending' = [rpending EXCEPT ![r] = Tail(@)]
    /\ Return(f, "none")
    /\ UNCHANGED want

ReleaseKeepsWaiter(f, r) ==
    /\ owner[r] = f /\ nlocked[r] = 1
    /\ depth' = [depth EXCEPT ![r][f] = @ - 1]
    /\ IF rpending[r] = <<>> THEN Free(r) ELSE HandOver(f, r, 1) /\ UNCHANGED rpending
    /\ Return(f, "none")
    /\ UNCHANGED want

ReleaseUncounted(f, r) ==
    /\ owner[r] = f /\ nlocked[r] <= 1
    /\ depth' = [depth EXCEPT ![r][f] = @ - 1]
    /\ IF rpending[r] = <<>> THEN Free(r)
       ELSE HandOver(f, r, 0) /\ rpending' = [rpending EXCEPT ![r] = Tail(@)]
    /\ Return(f, "none")
    /\ UNCHANGED want

\* --nlocked; the last level frees the mutex or gives it to the first waiter,
\* which owns it before it is resumed.
Release(f, r) ==
    /\ owner[r] = f
    /\ depth' = [depth EXCEPT ![r][f] = @ - 1]
    /\ IF nlocked[r] > 1
       THEN /\ nlocked' = [nlocked EXCEPT ![r] = @ - 1]
            /\ UNCHANGED <<owner, rpending, strand>>
       ELSE IF rpending[r] = <<>>
       THEN Free(r)
       ELSE HandOver(f, r, 1) /\ rpending' = [rpending EXCEPT ![r] = Tail(@)]
    /\ Return(f, "none")
    /\ UNCHANGED want

Unlock(f, r) ==
    /\ Running(f)
    /\ NotOwner(f, r) \/ Release(f, r)
    /\ UNCHANGED <<valid, fiberData>>

-----------------------------------------------------------------------------
\* The strand resumes a fiber; one that was handed a mutex returns from lock().
RunStrand(v) ==
    /\ RunResume(v)
    /\ LET f == Head(strand[v]).fiber IN
       IF want[f] # Nil
       THEN /\ depth' = [depth EXCEPT ![want[f]][f] = @ + 1]
            /\ want' = [want EXCEPT ![f] = Nil]
       ELSE UNCHANGED <<depth, want>>
    /\ UNCHANGED <<owner, nlocked, rpending>>

\* fiber_interrupt() of a fiber g whose handle is alive: no operation here has
\* an interrupter.
Interrupt(f, g) ==
    /\ Running(f)
    /\ VmOf[g] = VmOf[f] /\ ~IsMain(g) /\ at[g] \notin Gone
    /\ interrupted' = [interrupted EXCEPT ![g] = TRUE]
    /\ Return(f, "none")
    /\ UNCHANGED <<strand, valid, counters, interrupter, lockVars>>

Spawn(f, g) == SpawnFiber(f, g) /\ UNCHANGED lockVars

End(f) ==
    /\ Running(f)
    /\ Suspend(f, "dead")
    /\ UNCHANGED <<strand, valid, fiberData, lockVars>>

ThisFiber(f) ==
    /\ \/ DisableInterruption(f)
       \/ RestoreInterruption(f)
       \/ ForbidSuspend(f)
       \/ AllowSuspend(f)
       \/ Yield(f)
    /\ UNCHANGED lockVars

Next ==
    \/ \E v \in Vm : RunStrand(v)
    \/ \E f \in Fiber : ThisFiber(f) \/ End(f)
    \/ \E f, g \in Fiber : Spawn(f, g) \/ Interrupt(f, g)
    \/ \E f \in Fiber, r \in RMutex : Lock(f, r) \/ TryLock(f, r) \/ Unlock(f, r)

Spec == Init /\ [][Next]_vars

-----------------------------------------------------------------------------
(* Properties.                                                               *)

WakeUps(f) == {i \in DOMAIN strand[VmOf[f]] : strand[VmOf[f]][i].fiber = f}
InQueues(f) == Places(rpending, f)

\* A suspended fiber is queued in exactly one place, a running or dead one in
\* none.
WakeOnce ==
    \A f \in Fiber :
        Cardinality(WakeUps(f)) + Cardinality(InQueues(f))
            = IF at[f] \in Suspended THEN 1 ELSE 0

\* The mutex counts what its owner did: nlocked is the number of lock()s the
\* owner has to undo, the one it was handed and has not returned from included;
\* nobody else is inside; and a free mutex has no level and no waiter.
CountsItsOwner ==
    \A r \in RMutex :
        /\ \A f \in Fiber : depth[r][f] > 0 => owner[r] = f
        /\ owner[r] # Nil =>
              nlocked[r] = depth[r][owner[r]] + (IF want[owner[r]] = r THEN 1 ELSE 0)
        /\ owner[r] = Nil => nlocked[r] = 0 /\ rpending[r] = <<>>

\* The mutex changes hands only from an owner that undid all its lock()s to
\* the fiber that has waited longest.
FairHandOff ==
    [][\A r \in RMutex : owner'[r] # owner[r] =>
          /\ owner[r] # Nil => depth'[r][owner[r]] = 0
          /\ rpending[r] # <<>> => owner'[r] = Head(rpending[r])]_vars

=============================================================================
