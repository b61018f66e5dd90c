------------------------------ MODULE MCFuture ------------------------------
(* One VM, one promise, the main fiber and two others.                         *)
EXTENDS Future, TLC

CONSTANTS v1, main, f1, f2

MCFiber == {main, f1, f2}
MCVmOf == [f \in MCFiber |-> v1]
MCMain == [v \in {v1} |-> main]

\* f1 uses this_fiber's counters.
MCMaxCount == [f \in MCFiber |-> IF f = f1 THEN 1 ELSE 0]
=============================================================================
