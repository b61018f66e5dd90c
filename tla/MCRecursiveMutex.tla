-------------------------- MODULE MCRecursiveMutex --------------------------
(* One VM, one recursive mutex, the main fiber and two others.                 *)
EXTENDS RecursiveMutex, TLC

CONSTANTS v1, main, f1, f2

MCFiber == {main, f1, f2}
MCVmOf == [f \in MCFiber |-> v1]
MCMain == [v \in {v1} |-> main]
MCMaxDisable == [f \in MCFiber |-> 0]
MCMaxForbid == [f \in MCFiber |-> IF f = f1 THEN 1 ELSE 0]
=============================================================================
