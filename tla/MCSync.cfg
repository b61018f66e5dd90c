CONSTANTS
    v1 = v1
    main = main
    f1 = f1
    f2 = f2
    Vm = {v1}
    Fiber <- MCFiber
    VmOf <- MCVmOf
    Main <- MCMain
    Nil = Nil
    MaxDisable <- MCMaxDisable
    MaxForbid <- MCMaxForbid
    Mutex = {m}
    Cond = {c}
SPECIFICATION FairSpec
INVARIANTS TypeOK WakeOnce LockedIsOwned InterrupterIsCurrent
PROPERTIES ImplementsMonitor WaitEndsLocked LockIsGranted InterruptedWaitEnds
CHECK_DEADLOCK FALSE
