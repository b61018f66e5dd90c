------------------------------- MODULE MCSync -------------------------------
(* One VM, a mutex, a condition variable, the main fiber and two others.       *)
EXTENDS Sync, TLC

CONSTANTS v1, main, f1, f2

MCFiber == {main, f1, f2}
MCVmOf == [f \in MCFiber |-> v1]
MCMain == [v \in {v1} |-> main]

MCMaxDisable == [f \in MCFiber |-> IF f = f2 THEN 1 ELSE 0]
MCMaxForbid == [f \in MCFiber |-> 0]
=============================================================================
