CONSTANTS
    v1 = v1
    main = main
    f1 = f1
    o1 = o1
    o2 = o2
    h1 = h1
    h2 = h2
    Vm = {v1}
    Fiber <- MCFiber
    VmOf <- MCVmOf
    Main <- MCMain
    Nil = Nil
    MaxDisable <- MCMaxDisable
    MaxForbid <- MCMaxForbid
    Obj = {o1, o2}
    Handle = {h1, h2}
    Fd <- MCFd
    Busy = Busy
    PipeFd <- MCPipeFd
    Program <- MCSpawn
    Maxfds = 1
    MaxSent = 2
SPECIFICATION Spec
INVARIANT SpawnFindsItsProgram
CHECK_DEADLOCK FALSE
