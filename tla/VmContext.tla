----------------------------- MODULE VmContext -----------------------------
(***************************************************************************)
(* The execution engine shared by every component: VMs, their strands and  *)
(* the resumption of fibers (core.cpp, core.hpp).                          *)
(*                                                                         *)
(* A VM is a Lua state on a strand: handlers posted to the strand run one  *)
(* at a time, in FIFO order.  A handler normally resumes a suspended fiber,*)
(* which then runs until it calls a suspending function or finishes; while *)
(* it runs it is the VM's current fiber and may call any operation of the  *)
(* API.  VMs run in parallel, so the steps of different VMs interleave.    *)
(***************************************************************************)
EXTENDS Integers, Sequences, FiniteSets

SeqExt == INSTANCE SequencesExt

CONSTANTS
    Vm,        \* the VMs (vm_context objects)
    Fiber,     \* the fibers (Lua threads) a VM may create, its main one included
    VmOf,      \* the VM each fiber belongs to
    Main,      \* the main fiber of each VM
    Nil,       \* nil / nullptr
    MaxDisable,\* bound, for each fiber, on the nesting of disable_interruption()
    MaxForbid  \* bound, for each fiber, on the nesting of forbid_suspend()

ASSUME VmContextAssumption ==
    /\ VmOf \in [Fiber -> Vm]
    /\ Main \in [Vm -> Fiber]
    /\ \A v \in Vm : VmOf[Main[v]] = v
    /\ Nil \notin Fiber
    /\ MaxDisable \in [Fiber -> Nat]
    /\ MaxForbid \in [Fiber -> Nat]

VARIABLES
    strand,                \* [Vm -> Seq(handler)]: strand_, the queue of posted handlers
    running,               \* [Vm -> Fiber or Nil]: the fiber inside lua_resume()
    valid,                 \* [Vm -> BOOLEAN]: valid_
    at,                    \* [Fiber -> site]: where each fiber is suspended, if it is
    interruptionDisabled,  \* FiberDataIndex::INTERRUPTION_DISABLED
    suspensionDisallowed,  \* FiberDataIndex::SUSPENSION_DISALLOWED
    interrupted,           \* FiberDataIndex::INTERRUPTED
    interrupter,           \* FiberDataIndex::INTERRUPTER: what the closure refers to, or Nil
    ret                    \* [Fiber -> result]: what the running fiber's last call returned

coreVars == <<strand, running, valid, at>>
fiberData == <<interruptionDisabled, suspensionDisallowed, interrupted, interrupter>>
counters == <<interruptionDisabled, suspensionDisallowed>>

-----------------------------------------------------------------------------
(* Sites.  "unborn": not created; "start": created, its first resume still  *)
(* queued; "running"; "dead": finished, or freed by lua_close().  The other *)
(* sites, one per suspending function, are named by the component modules.  *)

Gone == {"unborn", "dead"}

\* INTERRUPTION_DISABLED is the boolean `true` for main fibers, an integer for
\* the others.
AlwaysDisabled == -1

Disabled(f) == interruptionDisabled[f] # 0

IsMain(f) == Main[VmOf[f]] = f

-----------------------------------------------------------------------------
(* Handlers of the strand.  Most of them only call fiber_resume(): with      *)
(* arguments (val) and clearing the interrupter, or with the option          *)
(* skip_clear_interrupter and no arguments.                                  *)

Resume(f, val) == [op |-> "resume", fiber |-> f, clear |-> TRUE, val |-> val]

ResumeSkipClear(f) == [op |-> "resume", fiber |-> f, clear |-> FALSE, val |-> "none"]

\* The handlers that resume everybody in a list, in its order.
ResumeAll(q, val) == [i \in DOMAIN q |-> Resume(q[i], val)]

\* std::find() in the list q stops at its first x, at place i.
FoundAt(q, i, x) == q[i] = x /\ \A j \in 1..(i - 1) : q[j] # x

\* What strand holds after one more post().
Post(v, h) == [strand EXCEPT ![v] = Append(@, h)]

\* The strand is free to run its next handler.
StrandReady(v) == running[v] = Nil /\ strand[v] # <<>>

-----------------------------------------------------------------------------
(* set_interrupter(), with the current fiber f: ignored while interruption   *)
(* is disabled.                                                              *)

SetInterrupter(f, closure) ==
    IF Disabled(f) THEN interrupter ELSE [interrupter EXCEPT ![f] = closure]

\* unsafe_can_suspend2(): for operations that are no interruption point.
CanSuspend2(f) == suspensionDisallowed[f] = 0

\* unsafe_can_suspend(): a pending interruption is raised instead of suspending.
CanSuspend(f) == CanSuspend2(f) /\ (Disabled(f) \/ ~interrupted[f])

\* The error unsafe_can_suspend() pushes when it returns false.
SuspendError(f) == IF CanSuspend2(f) THEN "interrupted" ELSE "forbid_suspend_block"

\* Fault: the interrupter survives the suspension it was set for.
NeverCleared(f, clear) == interrupter

\* What set_interrupter() leaves, for the fiber fiber_resume() wakes.
ClearedInterrupter(f, clear) == IF clear THEN SetInterrupter(f, Nil) ELSE interrupter

-----------------------------------------------------------------------------
(* Pieces of actions.                                                        *)

Running(f) == running[VmOf[f]] = f

\* The current fiber f makes a call that returns r to it at once.
Return(f, r) ==
    /\ ret' = [ret EXCEPT ![f] = r]
    /\ UNCHANGED <<running, at>>

\* lua_yield(): the current fiber f gives control back to the strand.
Suspend(f, site) ==
    /\ running' = [running EXCEPT ![VmOf[f]] = Nil]
    /\ at' = [at EXCEPT ![f] = site]
    /\ ret' = [ret EXCEPT ![f] = "none"]

\* fiber_resume(f, ...) up to lua_resume(): f is current and sees val.
FiberResume(f, clear, val) ==
    /\ running' = [running EXCEPT ![VmOf[f]] = f]
    /\ at' = [at EXCEPT ![f] = "running"]
    /\ interrupter' = ClearedInterrupter(f, clear)
    /\ ret' = [ret EXCEPT ![f] = val]

\* The strand runs a handler that only resumes a fiber.  fiber_resume() does
\* nothing once the VM has been closed.
RunResume(v) ==
    /\ StrandReady(v)
    /\ Head(strand[v]).op = "resume"
    /\ strand' = [strand EXCEPT ![v] = Tail(@)]
    /\ LET h == Head(strand[v]) IN
       IF valid[v]
       THEN FiberResume(h.fiber, h.clear, h.val)
       ELSE UNCHANGED <<running, at, interrupter, ret>>
    /\ UNCHANGED <<valid, counters, interrupted>>

\* What a function of the fibers holds once lua_close() has freed VM v: nothing.
Freed(fun, v, nothing) == [f \in Fiber |-> IF VmOf[f] = v THEN nothing ELSE fun[f]]

\* close(): lua_close() frees every fiber of the VM and its data.
CloseVm(v) ==
    /\ valid' = [valid EXCEPT ![v] = FALSE]
    /\ running' = [running EXCEPT ![v] = Nil]
    /\ at' = Freed(at, v, "dead")
    /\ interruptionDisabled' = Freed(interruptionDisabled, v, 0)
    /\ suspensionDisallowed' = Freed(suspensionDisallowed, v, 0)
    /\ interrupted' = Freed(interrupted, v, FALSE)
    /\ interrupter' = Freed(interrupter, v, Nil)
    /\ ret' = Freed(ret, v, "none")

-----------------------------------------------------------------------------
\* The part of the state every component has.  Fibers suspend at sites, calls
\* return results, interrupters refer to closures.
CoreTypeOK(sites, results, closures) ==
    /\ running \in [Vm -> Fiber \cup {Nil}]
    /\ valid \in [Vm -> BOOLEAN]
    /\ at \in [Fiber -> sites \cup Gone \cup {"running"}]
    /\ interruptionDisabled \in [Fiber -> Int]
    /\ suspensionDisallowed \in [Fiber -> Int]
    /\ \A f \in Fiber :
          /\ \/ interruptionDisabled[f] \in 0..MaxDisable[f]
             \/ IsMain(f) /\ interruptionDisabled[f] = AlwaysDisabled
          /\ suspensionDisallowed[f] \in 0..MaxForbid[f]
    /\ interrupted \in [Fiber -> BOOLEAN]
    /\ interrupter \in [Fiber -> closures \cup {Nil}]
    /\ ret \in [Fiber -> results]

\* The handlers that resume a fiber of fs.
ResumeHandler(fs, results) ==
    [op : {"resume"}, fiber : fs, clear : BOOLEAN, val : results]

\* Where fiber f is in a family of waiting lists: which list, which position.
Places(lists, f) ==
    UNION {{k} \X {i \in DOMAIN lists[k] : lists[k][i] = f} : k \in DOMAIN lists}

-----------------------------------------------------------------------------
\* A VM starts with its main fiber in fiber_list, interruption disabled, and
\* its first resume posted.
CoreInit ==
    /\ strand = [v \in Vm |-> <<ResumeSkipClear(Main[v])>>]
    /\ running = [v \in Vm |-> Nil]
    /\ valid = [v \in Vm |-> TRUE]
    /\ at = [f \in Fiber |-> IF IsMain(f) THEN "start" ELSE "unborn"]
    /\ interruptionDisabled =
          [f \in Fiber |-> IF IsMain(f) THEN AlwaysDisabled ELSE 0]
    /\ suspensionDisallowed = [f \in Fiber |-> 0]
    /\ interrupted = [f \in Fiber |-> FALSE]
    /\ interrupter = [f \in Fiber |-> Nil]
    /\ ret = [f \in Fiber |-> "none"]

\* spawn(): the current fiber f creates g; its first resume is posted.
SpawnFiber(f, g) ==
    /\ Running(f)
    /\ VmOf[g] = VmOf[f]
    /\ at[g] = "unborn"
    /\ at' = [at EXCEPT ![g] = "start"]
    /\ strand' = Post(VmOf[f], ResumeSkipClear(g))
    /\ ret' = [ret EXCEPT ![f] = "none"]
    /\ UNCHANGED <<running, valid, fiberData>>

-----------------------------------------------------------------------------
(* this_fiber: the nesting counters and yield().                             *)

\* increment_this_fiber_counter(): lua_tointeger() reads the boolean as 0.
Increment(n) == IF n = AlwaysDisabled THEN 1 ELSE n + 1

DisableInterruption(f) ==
    /\ Running(f)
    /\ Increment(interruptionDisabled[f]) <= MaxDisable[f]
    /\ interruptionDisabled' = [interruptionDisabled EXCEPT ![f] = Increment(@)]
    /\ Return(f, "none")
    /\ UNCHANGED <<strand, valid, suspensionDisallowed, interrupted, interrupter>>

\* Fault: the counter is decremented without a look at it.
RestoreUnchecked(f) ==
    /\ Running(f)
    /\ interruptionDisabled' = [interruptionDisabled EXCEPT ![f] = @ - 1]
    /\ Return(f, "none")
    /\ UNCHANGED <<strand, valid, suspensionDisallowed, interrupted, interrupter>>

RestoreInterruption(f) ==
    /\ Running(f)
    /\ IF interruptionDisabled[f] > 0
       THEN /\ interruptionDisabled' = [interruptionDisabled EXCEPT ![f] = @ - 1]
            /\ Return(f, "none")
       ELSE /\ Return(f, "interruption_already_allowed")
            /\ UNCHANGED interruptionDisabled
    /\ UNCHANGED <<strand, valid, suspensionDisallowed, interrupted, interrupter>>

ForbidSuspend(f) ==
    /\ Running(f)
    /\ suspensionDisallowed[f] < MaxForbid[f]
    /\ suspensionDisallowed' = [suspensionDisallowed EXCEPT ![f] = @ + 1]
    /\ Return(f, "none")
    /\ UNCHANGED <<strand, valid, interruptionDisabled, interrupted, interrupter>>

AllowSuspend(f) ==
    /\ Running(f)
    /\ IF suspensionDisallowed[f] > 0
       THEN /\ suspensionDisallowed' = [suspensionDisallowed EXCEPT ![f] = @ - 1]
            /\ Return(f, "none")
       ELSE /\ Return(f, "suspension_already_allowed")
            /\ UNCHANGED suspensionDisallowed
    /\ UNCHANGED <<strand, valid, interruptionDisabled, interrupted, interrupter>>

\* this_fiber.yield(): its own wake-up is queued before it suspends.
Yield(f) ==
    /\ Running(f)
    /\ IF CanSuspend(f)
       THEN strand' = Post(VmOf[f], ResumeSkipClear(f)) /\ Suspend(f, "yield")
       ELSE Return(f, SuspendError(f)) /\ UNCHANGED strand
    /\ UNCHANGED <<valid, fiberData>>

=============================================================================
