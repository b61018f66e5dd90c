------------------------------ MODULE MCActor ------------------------------
(* Two actors.  The first has other fibers, which can be interrupted.          *)
EXTENDS Actor, TLC

CONSTANTS va, vb, a, a2, a3, a4, b

MCVmOf == [f \in Fiber |-> IF f = b THEN vb ELSE va]
MCMain == [v \in {va, vb} |-> IF v = va THEN a ELSE b]
MCNoCounters == [f \in Fiber |-> 0]

\* The other fibers of the first actor differ in nothing but their name.
MCSymmetry == Permutations({a2, a3, a4})
=============================================================================
