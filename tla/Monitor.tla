------------------------------ MODULE Monitor ------------------------------
(***************************************************************************)
(* What mutex and condition_variable promise together: monitors with       *)
(* signal-and-continue semantics whose waits can be interrupted.  No       *)
(* queues, no strand: which fiber proceeds is left open.                   *)
(***************************************************************************)
CONSTANTS Fiber, Mutex, Cond, Nil

VARIABLES
    holders,   \* [Mutex -> SUBSET Fiber]
    phase,     \* [Fiber -> Phase]
    flagged    \* [Fiber -> BOOLEAN]: interrupted at least once

vars == <<holders, phase, flagged>>

\* A fiber is out of the monitor's calls, blocked at its entry, waiting on a
\* condition, or on its way back from a wait, for one of two reasons.
Free == [at |-> "free", mutex |-> Nil, cond |-> Nil, why |-> Nil]
Entering(m) == [at |-> "entering", mutex |-> m, cond |-> Nil, why |-> Nil]
Waiting(c, m) == [at |-> "waiting", mutex |-> m, cond |-> c, why |-> Nil]
Back(m, why) == [at |-> "back", mutex |-> m, cond |-> Nil, why |-> why]

Init ==
    /\ holders = [m \in Mutex |-> {}]
    /\ phase = [f \in Fiber |-> Free]
    /\ flagged = [f \in Fiber |-> FALSE]

Block(f, m) ==
    /\ phase[f] = Free
    /\ phase' = [phase EXCEPT ![f] = Entering(m)]
    /\ UNCHANGED <<holders, flagged>>

\* The only way into the monitor, also for a fiber that comes back from a wait.
Enter(f, m) ==
    /\ phase[f] = Free \/ (phase[f].at \in {"entering", "back"} /\ phase[f].mutex = m)
    /\ holders[m] = {}
    /\ holders' = [holders EXCEPT ![m] = {f}]
    /\ phase' = [phase EXCEPT ![f] = Free]
    /\ UNCHANGED flagged

Leave(f, m) ==
    /\ phase[f] = Free
    /\ holders[m] = {f}
    /\ holders' = [holders EXCEPT ![m] = {}]
    /\ UNCHANGED <<phase, flagged>>

Wait(f, c, m) ==
    /\ phase[f] = Free
    /\ holders[m] = {f}
    /\ holders' = [holders EXCEPT ![m] = {}]
    /\ phase' = [phase EXCEPT ![f] = Waiting(c, m)]
    /\ UNCHANGED flagged

Waiters(c) == {f \in Fiber : phase[f].at = "waiting" /\ phase[f].cond = c}

\* Some of the waiters, and no other fiber, are notified.
Notify(c) ==
    /\ \E S \in (SUBSET Waiters(c)) \ {{}} :
          /\ \E f \in S : S = {f} \/ S = Waiters(c)
          /\ phase' = [f \in Fiber |->
                         IF f \in S THEN Back(phase[f].mutex, "notified") ELSE phase[f]]
    /\ UNCHANGED <<holders, flagged>>

\* An interruption is recorded, and ends a wait at most.
Interrupt(f) ==
    /\ flagged' = [flagged EXCEPT ![f] = TRUE]
    /\ \/ /\ phase[f].at = "waiting"
          /\ phase' = [phase EXCEPT ![f] = Back(phase[f].mutex, "interrupted")]
       \/ UNCHANGED phase
    /\ UNCHANGED holders

Next ==
    \/ \E f \in Fiber, m \in Mutex : Block(f, m) \/ Enter(f, m) \/ Leave(f, m)
    \/ \E f \in Fiber, c \in Cond, m \in Mutex : Wait(f, c, m)
    \/ \E c \in Cond : Notify(c)
    \/ \E f \in Fiber : Interrupt(f)

Spec == Init /\ [][Next]_vars
=============================================================================
