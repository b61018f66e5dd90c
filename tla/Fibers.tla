------------------------------- MODULE Fibers -------------------------------
(***************************************************************************)
(* Fibers of a VM: spawn(), the fiber handle (join, detach, interrupt, its *)
(* garbage collection) and what fiber_epilogue() does when a fiber ends    *)
(* (fiber.cpp, core.cpp).                                                  *)
(*                                                                         *)
(* A handle is a Lua value: every fiber of the VM may use it.  There is    *)
(* one per spawned fiber, so it is named by its fiber.                     *)
(***************************************************************************)
EXTENDS VmContext

CONSTANT Detached   \* JOINER = false: nobody will ever ask for the result

\* How a fiber ends: normally, with errc::interrupted, or with another error.
Outcome == {"ok", "interrupted", "error"}

ASSUME FibersAssumption ==
    /\ Detached \notin Fiber \cup {Nil}
    /\ Nil \notin Outcome

VARIABLES
    joiner,          \* FiberDataIndex::JOINER: Nil, Detached or the fiber in join()
    status,          \* FiberDataIndex::STATUS with the error object's kind: Nil or Outcome
    fiberList,       \* the keys of the (strong) table at fiber_list_key
    handleFiber,     \* fiber_handle::fiber # nullptr
    joinInProgress,  \* fiber_handle::join_in_progress
    caught,          \* fiber_handle::interruption_caught: Nil (unset) or a BOOLEAN
    handleLive       \* the handle userdata exists (created, not collected)

handleVars == <<handleFiber, joinInProgress, caught, handleLive>>
joinVars == <<joiner, status, fiberList>>
vars == <<coreVars, fiberData, ret, joinVars, handleVars>>

Suspended == {"start", "yield", "join"}

Result == {"none", "interrupted", "forbid_suspend_block", "invalid_argument",
           "resource_deadlock_would_occur", "ok", "error",
           "interruption_already_allowed", "suspension_already_allowed"}

TypeOK ==
    /\ strand \in [Vm -> Seq(ResumeHandler(Fiber, Result))]
    /\ CoreTypeOK(Suspended, Result, Fiber)
    /\ joiner \in [Fiber -> Fiber \cup {Nil, Detached}]
    /\ status \in [Fiber -> Outcome \cup {Nil}]
    /\ fiberList \subseteq Fiber
    /\ handleFiber \in [Fiber -> BOOLEAN]
    /\ joinInProgress \in [Fiber -> BOOLEAN]
    /\ caught \in [Fiber -> BOOLEAN \cup {Nil}]
    /\ handleLive \in [Fiber -> BOOLEAN]

-----------------------------------------------------------------------------
\* The main fiber is in fiber_list from the start, detached.
Init ==
    /\ CoreInit
    /\ joiner = [f \in Fiber |-> IF IsMain(f) THEN Detached ELSE Nil]
    /\ status = [f \in Fiber |-> Nil]
    /\ fiberList = {Main[v] : v \in Vm}
    /\ handleFiber = [f \in Fiber |-> FALSE]
    /\ joinInProgress = [f \in Fiber |-> FALSE]
    /\ caught = [f \in Fiber |-> Nil]
    /\ handleLive = [f \in Fiber |-> FALSE]

\* The current fiber f has a reference to g's handle.
HasHandle(f, g) == Running(f) /\ VmOf[g] = VmOf[f] /\ handleLive[g]

-----------------------------------------------------------------------------
\* spawn(): g is a new fiber, in fiber_list, with nil JOINER and STATUS.
Spawn(f, g) ==
    /\ SpawnFiber(f, g)
    /\ fiberList' = fiberList \cup {g}
    /\ handleFiber' = [handleFiber EXCEPT ![g] = TRUE]
    /\ handleLive' = [handleLive EXCEPT ![g] = TRUE]
    /\ UNCHANGED <<joiner, status, joinInProgress, caught>>

-----------------------------------------------------------------------------
(* fiber_join().  The check for a pending interruption comes first.          *)

JoinError(f, g) ==
    IF ~CanSuspend(f) THEN SuspendError(f)
    ELSE IF ~handleFiber[g] \/ joinInProgress[g] THEN "invalid_argument"
    ELSE IF g = f THEN "resource_deadlock_would_occur"
    ELSE "none"

JoinRaises(f, g) ==
    /\ HasHandle(f, g)
    /\ JoinError(f, g) # "none"
    /\ Return(f, JoinError(f, g))
    /\ UNCHANGED <<strand, valid, fiberData, joinVars, handleVars>>

\* g has not finished: f becomes its joiner and suspends, interruptibly.
JoinRunning(f, g) ==
    /\ HasHandle(f, g)
    /\ JoinError(f, g) = "none"
    /\ status[g] = Nil
    /\ joiner' = [joiner EXCEPT ![g] = f]
    /\ interrupter' = SetInterrupter(f, g)
    /\ joinInProgress' = [joinInProgress EXCEPT ![g] = TRUE]
    /\ Suspend(f, "join")
    /\ UNCHANGED <<strand, valid, counters, interrupted, status, fiberList,
                   handleFiber, caught, handleLive>>

\* Fault: the joiner sees the interruption of the fiber it joined.
RawOutcome(o) == o

\* What join() gives for the outcome o: an interrupted fiber is joined normally.
JoinResult(o) == IF o = "interrupted" THEN "ok" ELSE o

\* g has finished: its result is moved to f and g leaves fiber_list.
JoinFinished(f, g) ==
    /\ HasHandle(f, g)
    /\ JoinError(f, g) = "none"
    /\ status[g] # Nil
    /\ fiberList' = fiberList \ {g}
    /\ handleFiber' = [handleFiber EXCEPT ![g] = FALSE]
    /\ caught' = [caught EXCEPT ![g] = status[g] = "interrupted"]
    /\ Return(f, JoinResult(status[g]))
    /\ UNCHANGED <<strand, valid, fiberData, joiner, status, joinInProgress, handleLive>>

-----------------------------------------------------------------------------
(* fiber_detach() and fiber_mt_gc() give up the handle's fiber alike.        *)

\* Fault: handle->fiber is not reset.
LetGoKeepsFiber(g) ==
    /\ IF status[g] = Nil
       THEN joiner' = [joiner EXCEPT ![g] = Detached] /\ UNCHANGED fiberList
       ELSE fiberList' = fiberList \ {g} /\ UNCHANGED joiner
    /\ UNCHANGED handleFiber

LetGo(g) ==
    /\ IF status[g] = Nil
       THEN joiner' = [joiner EXCEPT ![g] = Detached] /\ UNCHANGED fiberList
       ELSE fiberList' = fiberList \ {g} /\ UNCHANGED joiner
    /\ handleFiber' = [handleFiber EXCEPT ![g] = FALSE]

Detach(f, g) ==
    /\ HasHandle(f, g)
    /\ IF ~handleFiber[g] \/ joinInProgress[g]
       THEN Return(f, "invalid_argument") /\ UNCHANGED <<joiner, fiberList, handleFiber>>
       ELSE LetGo(g) /\ Return(f, "none")
    /\ UNCHANGED <<strand, valid, fiberData, status, joinInProgress, caught, handleLive>>

\* The collector runs while f allocates.  A handle whose join() is in progress
\* is on the joiner's stack and in its interrupter, so it is not collected.
HandleGc(f, g) ==
    /\ HasHandle(f, g)
    /\ ~(handleFiber[g] /\ joinInProgress[g])
    /\ handleLive' = [handleLive EXCEPT ![g] = FALSE]
    /\ IF handleFiber[g] THEN LetGo(g)
                         ELSE UNCHANGED <<joiner, fiberList, handleFiber>>
    /\ UNCHANGED <<coreVars, fiberData, ret, status, joinInProgress, caught>>

-----------------------------------------------------------------------------
(* fiber_interrupt(): g's INTERRUPTED is set for good; its interrupter, if   *)
(* any, is called and cleared.                                               *)

\* handle->fiber is null: nothing happens.
InterruptNothing(f, g) ==
    /\ HasHandle(f, g)
    /\ ~handleFiber[g]
    /\ Return(f, "none")
    /\ UNCHANGED <<strand, valid, fiberData, joinVars, handleVars>>

\* g is the current fiber, or has no interrupter.
InterruptFlag(f, g) ==
    /\ HasHandle(f, g)
    /\ handleFiber[g]
    /\ g = f \/ interrupter[g] = Nil
    /\ interrupted' = [interrupted EXCEPT ![g] = TRUE]
    /\ Return(f, "none")
    /\ UNCHANGED <<strand, valid, counters, interrupter, joinVars, handleVars>>

\* Faults: JOINER is read back after it was reset, is not reset, or the handle
\* stays marked as being joined.
JoinInterrupterTooLate(g) ==
    LET target == interrupter[g] IN
    /\ joiner' = [joiner EXCEPT ![target] = Nil]
    /\ joinInProgress' = [joinInProgress EXCEPT ![target] = FALSE]
    /\ strand' = Post(VmOf[g], Resume(joiner'[target], "interrupted"))

JoinInterrupterKeepsJoiner(g) ==
    /\ joinInProgress' = [joinInProgress EXCEPT ![interrupter[g]] = FALSE]
    /\ strand' = Post(VmOf[g], Resume(g, "interrupted"))
    /\ UNCHANGED joiner

JoinInterrupterKeepsMark(g) ==
    /\ joiner' = [joiner EXCEPT ![interrupter[g]] = Nil]
    /\ strand' = Post(VmOf[g], Resume(g, "interrupted"))
    /\ UNCHANGED joinInProgress

\* The closure set by fiber_join(): g stops being the joiner of the fiber it
\* waits for and is resumed later with errc::interrupted.
JoinInterrupter(g) ==
    LET target == interrupter[g] IN
    /\ joiner' = [joiner EXCEPT ![target] = Nil]
    /\ joinInProgress' = [joinInProgress EXCEPT ![target] = FALSE]
    /\ strand' = Post(VmOf[g], Resume(g, "interrupted"))

\* Fault: the interrupter is dropped without being called.
InterruptJoinDrops(f, g) ==
    /\ HasHandle(f, g)
    /\ handleFiber[g]
    /\ g # f /\ interrupter[g] # Nil
    /\ interrupted' = [interrupted EXCEPT ![g] = TRUE]
    /\ interrupter' = [interrupter EXCEPT ![g] = Nil]
    /\ Return(f, "none")
    /\ UNCHANGED <<strand, valid, counters, joinVars, handleVars>>

InterruptJoin(f, g) ==
    /\ HasHandle(f, g)
    /\ handleFiber[g]
    /\ g # f /\ interrupter[g] # Nil
    /\ interrupted' = [interrupted EXCEPT ![g] = TRUE]
    /\ JoinInterrupter(g)
    /\ interrupter' = [interrupter EXCEPT ![g] = Nil]
    /\ Return(f, "none")
    /\ UNCHANGED <<valid, counters, status, fiberList, handleFiber, caught, handleLive>>

-----------------------------------------------------------------------------
(* fiber_epilogue(), for a fiber that ended with outcome o.                  *)

\* JOINER is false, and the VM goes on.
FinishDetached(f, o) ==
    /\ Running(f)
    /\ joiner[f] = Detached
    /\ ~(IsMain(f) /\ o # "ok")
    /\ fiberList' = fiberList \ {f}
    /\ Suspend(f, "dead")
    /\ UNCHANGED <<strand, valid, fiberData, joiner, status, handleVars>>

\* close() as seen from this module: fiber_list and the handles are freed too.
Close(v) ==
    /\ CloseVm(v)
    /\ joiner' = Freed(joiner, v, Nil)
    /\ status' = Freed(status, v, Nil)
    /\ fiberList' = {f \in fiberList : VmOf[f] # v}
    /\ handleFiber' = Freed(handleFiber, v, FALSE)
    /\ joinInProgress' = Freed(joinInProgress, v, FALSE)
    /\ caught' = Freed(caught, v, Nil)
    /\ handleLive' = Freed(handleLive, v, FALSE)

\* An error of the main fiber closes the VM.
FinishMainError(f, o) ==
    /\ Running(f)
    /\ joiner[f] = Detached
    /\ IsMain(f) /\ o # "ok"
    /\ Close(VmOf[f])
    /\ UNCHANGED strand

\* JOINER is nil: the outcome waits for join(), detach() or the collector.
FinishUnjoined(f, o) ==
    /\ Running(f)
    /\ joiner[f] = Nil
    /\ status' = [status EXCEPT ![f] = o]
    /\ Suspend(f, "dead")
    /\ UNCHANGED <<strand, valid, fiberData, joiner, fiberList, handleVars>>

\* Fault: the joiner is resumed with its interrupter still set.
FinishJoinedKeepsInterrupter(f, o) ==
    /\ Running(f)
    /\ joiner[f] \in Fiber
    /\ LET j == joiner[f] IN
       /\ status' = [status EXCEPT ![f] = o]
       /\ handleFiber' = [handleFiber EXCEPT ![f] = FALSE]
       /\ caught' = [caught EXCEPT ![f] = o = "interrupted"]
       /\ running' = [running EXCEPT ![VmOf[f]] = j]
       /\ at' = [at EXCEPT ![f] = "dead", ![j] = "running"]
       /\ ret' = [ret EXCEPT ![f] = "none", ![j] = JoinResult(o)]
    /\ UNCHANGED <<strand, valid, fiberData, joiner, fiberList, joinInProgress, handleLive>>

\* JOINER is a fiber: it is resumed on the spot, in the same handler.
FinishJoined(f, o) ==
    /\ Running(f)
    /\ joiner[f] \in Fiber
    /\ LET j == joiner[f] IN
       /\ status' = [status EXCEPT ![f] = o]
       /\ handleFiber' = [handleFiber EXCEPT ![f] = FALSE]
       /\ caught' = [caught EXCEPT ![f] = o = "interrupted"]
       /\ running' = [running EXCEPT ![VmOf[f]] = j]
       /\ at' = [at EXCEPT ![f] = "dead", ![j] = "running"]
       /\ interrupter' = SetInterrupter(j, Nil)
       /\ ret' = [ret EXCEPT ![f] = "none", ![j] = JoinResult(o)]
    /\ UNCHANGED <<strand, valid, counters, interrupted, joiner, fiberList,
                   joinInProgress, handleLive>>

\* os exit in a VM and a failing cleanup handler set a flag and yield:
\* fiber_epilogue() then closes the VM.
Terminate(f) ==
    /\ Running(f)
    /\ Close(VmOf[f])
    /\ UNCHANGED strand

Finish(f) ==
    \E o \in Outcome :
        \/ FinishDetached(f, o)
        \/ FinishMainError(f, o)
        \/ FinishUnjoined(f, o)
        \/ FinishJoined(f, o)

-----------------------------------------------------------------------------
\* The steps of this_fiber's functions and of the strand touch no handle.
ThisFiber(f) ==
    /\ \/ DisableInterruption(f)
       \/ RestoreInterruption(f)
       \/ ForbidSuspend(f)
       \/ AllowSuspend(f)
       \/ Yield(f)
    /\ UNCHANGED <<joinVars, handleVars>>

RunStrand(v) == RunResume(v) /\ UNCHANGED <<joinVars, handleVars>>

HandleCall(f, g) ==
    \/ Spawn(f, g)
    \/ JoinRaises(f, g)
    \/ JoinRunning(f, g)
    \/ JoinFinished(f, g)
    \/ Detach(f, g)
    \/ HandleGc(f, g)
    \/ InterruptNothing(f, g)
    \/ InterruptFlag(f, g)
    \/ InterruptJoin(f, g)

Next ==
    \/ \E v \in Vm : RunStrand(v)
    \/ \E f \in Fiber : ThisFiber(f) \/ Finish(f) \/ Terminate(f)
    \/ \E f, g \in Fiber : HandleCall(f, g)

Spec == Init /\ [][Next]_vars

\* The io_context keeps running the strand's handlers, and no fiber runs for
\* ever without suspending or ending (the scheduler is cooperative).
Fairness ==
    /\ \A v \in Vm : WF_vars(RunStrand(v))
    /\ \A f \in Fiber : WF_vars(Finish(f))

FairSpec == Spec /\ Fairness

-----------------------------------------------------------------------------
(* Properties.                                                               *)

\* Where f's wake-up is queued.
WakeUps(f) == {i \in DOMAIN strand[VmOf[f]] : strand[VmOf[f]][i].fiber = f}

\* The fibers whose end will resume f directly.
JoinedBy(f) == {g \in Fiber : joiner[g] = f /\ at[g] # "dead"}

\* The parties that owe f its resumption.
Owed(f) == {<<"strand", i>> : i \in WakeUps(f)} \cup {<<"join", g>> : g \in JoinedBy(f)}

\* Exactly one party owes a suspended fiber its resumption -- one queued
\* handler, or one fiber being joined -- and none will resume a fiber that is
\* running or dead.  This is what the assertion on lua_status() at the top of
\* fiber_resume() and the absence of lost wake-ups rest on.
WakeOnce ==
    \A f \in Fiber : valid[VmOf[f]] =>
        IF at[f] \in Suspended THEN \E w \in Owed(f) : Owed(f) = {w}
                               ELSE Owed(f) = {}

\* An interrupter outlives neither the suspension it was set for nor the
\* interruption that used it: it always refers to the join() that its fiber is
\* suspended in.  A stale one would resume the fiber out of another operation.
InterrupterIsCurrent ==
    \A f \in Fiber : valid[VmOf[f]] /\ interrupter[f] # Nil =>
        at[f] = "join" /\ joiner[interrupter[f]] = f

\* A handle with a non-null fiber can be dereferenced: the fiber still has its
\* entry in fiber_list, which join(), detach(), interrupt() and the collector
\* index without a check.
HandleNeverDangles ==
    \A g \in Fiber : valid[VmOf[g]] /\ handleLive[g] /\ handleFiber[g] =>
        g \in fiberList

\* join() ends with the outcome of the joined fiber, unless the joiner was
\* interrupted; an interrupted fiber joins as a success.
JoinDelivers ==
    [][\A f \in Fiber : at[f] = "join" /\ at'[f] = "running" =>
          \/ ret'[f] = "interrupted" /\ interrupted[f]
          \/ \E g \in JoinedBy(f) :
                /\ at[g] = "running" /\ at'[g] = "dead"
                /\ ret'[f] = IF status'[g] = "error" THEN "error" ELSE "ok"
                /\ caught'[g] = (status'[g] = "interrupted")]_vars

\* Nothing but join(), detach() and the collector disposes of the outcome of a
\* fiber that ended unjoined, an interrupted join() included: until then the
\* handle stays joinable and STATUS keeps the outcome.
OutcomeIsKept ==
    [][\A g \in Fiber :
          valid'[VmOf[g]] /\ at[g] = "dead" /\ handleFiber[g] =>
             /\ status'[g] = status[g] /\ status[g] # Nil
             /\ \/ handleFiber'[g] /\ ~joinInProgress'[g]
                \/ ~handleFiber'[g] /\ g \notin fiberList']_vars

\* A fiber interrupted inside an interruptible join() gets out of it, whether
\* or not the joined fiber ever ends.
InterruptedJoinReturns ==
    \A f \in Fiber :
        (at[f] = "join" /\ interrupted[f] /\ ~Disabled(f)) ~> (at[f] # "join")

\* INTERRUPTION_DISABLED is a boolean for the main fiber so that Lua code
\* cannot change it.
MainNeverInterruptible == \A v \in Vm : Disabled(Main[v])

=============================================================================
