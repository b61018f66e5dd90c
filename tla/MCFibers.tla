------------------------------ MODULE MCFibers ------------------------------
(* One VM: its main fiber and the fibers it may spawn.                        *)
EXTENDS Fibers, TLC

CONSTANTS v1, main, f1, f2

MCFiber == {main, f1, f2}
MCVmOf == [f \in MCFiber |-> v1]
MCMain == [v \in {v1} |-> main]

\* Only f1 uses this_fiber's counters, without nesting.
MCMaxDisable == [f \in MCFiber |-> IF f = f1 THEN 1 ELSE 0]
MCMaxForbid == [f \in MCFiber |-> 0]

\* The main fiber uses them too.
MCMainCounts == [f \in MCFiber |-> IF f = main THEN 1 ELSE 0]
=============================================================================
