CONSTANTS
    va = va
    vb = vb
    a = a
    a2 = a2
    a3 = a3
    a4 = a4
    b = b
    Vm = {va, vb}
    Fiber = {a, a2, b}
    VmOf <- MCVmOf
    Main <- MCMain
    Nil = Nil
    MaxDisable <- MCNoCounters
    MaxForbid <- MCNoCounters
    Root = va
    Receiving = Receiving
    MaxAddress = 1
SPECIFICATION Spec
INVARIANT ResumesAFiber
CHECK_DEADLOCK FALSE
