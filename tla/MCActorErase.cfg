CONSTANTS
    va = va
    vb = vb
    a = a
    a2 = a2
    a3 = a3
    a4 = a4
    b = b
    Vm = {va, vb}
    Fiber = {a, a2, a3, a4, b}
    VmOf <- MCVmOf
    Main <- MCMain
    Nil = Nil
    MaxDisable <- MCNoCounters
    MaxForbid <- MCNoCounters
    Root = va
    Receiving = Receiving
    MaxAddress = 2
SPECIFICATION Spec
INVARIANT LastSenderIsNoticed
CHECK_DEADLOCK FALSE
SYMMETRY MCSymmetry
