CONSTANTS
    v1 = v1
    main = main
    f1 = f1
    f2 = f2
    Vm = {v1}
    Fiber <- MCFiber
    VmOf <- MCVmOf
    Main <- MCMain
    Nil = Nil
    MaxDisable <- MCMaxCount
    MaxForbid <- MCMaxCount
    Pair = {p}
SPECIFICATION FairSpec
INVARIANTS TypeOK WakeOnce
PROPERTIES WaitDelivers AnsweredWaitsEnd
CHECK_DEADLOCK FALSE
