CONSTANTS
    v1 = v1
    main = main
    f1 = f1
    f2 = f2
    Vm = {v1}
    Fiber <- MCFiber
    VmOf <- MCVmOf
    Main <- MCMain
    Nil = Nil
    MaxDisable <- MCMaxDisable
    MaxForbid <- MCMaxForbid
    RMutex = {r}
    MaxLocked = 2
SPECIFICATION Spec
INVARIANTS TypeOK WakeOnce CountsItsOwner
PROPERTIES FairHandOff
CHECK_DEADLOCK FALSE
