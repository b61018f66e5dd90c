CONSTANTS
    v1 = v1
    main = main
    f1 = f1
    f2 = f2
    Vm = {v1}
    Fiber <- MCFiber
    VmOf <- MCVmOf
    Main <- MCMain
    Nil = Nil
    Detached = Detached
    MaxDisable <- MCMaxDisable
    MaxForbid <- MCMaxForbid
SPECIFICATION FairSpec
INVARIANTS TypeOK WakeOnce InterrupterIsCurrent HandleNeverDangles
PROPERTIES JoinDelivers OutcomeIsKept InterruptedJoinReturns
CHECK_DEADLOCK FALSE
