----------------------------- MODULE Sync_proofs -----------------------------
(***************************************************************************)
(* Proofs about Sync, for any number of fibers, mutexes and condition      *)
(* variables: its type invariant, that no waiter is lost or woken twice,   *)
(* that a mutex has one owner, that a wait ends with its mutex locked, and *)
(* that the queues implement the monitor of module Monitor.                *)
(***************************************************************************)
EXTENDS Sync, VmContext_proofs

-----------------------------------------------------------------------------
(* The inductive invariant.                                                  *)

InMutexList == {f \in Fiber : \E m \in Mutex : f \in Members(mpending[m])}
InCondList == {f \in Fiber : \E c \in Cond : f \in Members(cpending[c])}
Waiting == InMutexList \cup InCondList

AllValid == \A v \in Vm : valid[v]

\* Every suspended fiber is on its strand or in a queue, and never in both.
OwedOnce == Engine(running, at, strand, Waiting, Suspended, Result)

\* The queue of a mutex holds fibers in lock(), the queue of a condition
\* variable fibers in the native part of cond:wait().
MutexListsAreSound ==
    \A m \in Mutex :
        /\ NoRepeat(mpending[m])
        /\ \A f \in Members(mpending[m]) : want[f] = m /\ locked[m]

CondListsAreSound ==
    /\ \A c \in Cond : NoRepeat(cpending[c])
    /\ \A c \in Cond : \A f \in Members(cpending[c]) : at[f] = "cond_wait"
    /\ \A c, d \in Cond : \A f \in Fiber :
          f \in Members(cpending[c]) /\ f \in Members(cpending[d]) => c = d

WantsInLock ==
    \A f \in Fiber :
        /\ want[f] # Nil <=> at[f] = "lock"
        /\ want[f] # Nil => f \notin inside[want[f]]

\* A fiber inside cond:wait() does not hold the mutex; it is in the native
\* part, in the final lock(), or between the two with the result of the first.
WaitsOutside ==
    \A f \in Fiber :
        /\ at[f] = "cond_wait" => wmutex[f] # Nil
        /\ wmutex[f] # Nil =>
              /\ at[f] \in {"cond_wait", "lock", "running"}
              /\ f \notin inside[wmutex[f]]
              /\ at[f] = "lock" => want[f] = wmutex[f]
              /\ at[f] = "running" => ret[f] \in {"notified", "interrupted"}

InterrupterIsArmed ==
    \A f \in Fiber : interrupter[f] # Nil => at[f] = "cond_wait" /\ ~Disabled(f)

PostedIsSound ==
    \A v \in Vm : \A h \in Members(strand[v]) :
        /\ at[h.fiber] = "cond_wait" => h.clear /\ h.val \in {"notified", "interrupted"}
        /\ at[h.fiber] = "lock" => h.val = "none"

\* The owners of a mutex: inside, or handed it and on the way back from lock().
Handed(m) == {f \in Fiber : want[f] = m /\ f \notin Members(mpending[m])}
Owners(m) == inside[m] \cup Handed(m)

OneOwner ==
    \A m \in Mutex :
        /\ locked[m] <=> Owners(m) # {}
        /\ \A f, g \in Owners(m) : f = g

Inv ==
    /\ TypeOK
    /\ AllValid
    /\ OwedOnce
    /\ MutexListsAreSound
    /\ CondListsAreSound
    /\ WantsInLock
    /\ WaitsOutside
    /\ InterrupterIsArmed
    /\ PostedIsSound
    /\ OneOwner

-----------------------------------------------------------------------------
(* The type invariant in parts; the engine's is in OwedOnce.                 *)

DataOK ==
    /\ valid \in [Vm -> BOOLEAN]
    /\ interrupted \in [Fiber -> BOOLEAN]
    /\ interrupter \in [Fiber -> Cond \cup {Nil}]
    /\ ret \in [Fiber -> Result]
    /\ locked \in [Mutex -> BOOLEAN]
    /\ want \in [Fiber -> Mutex \cup {Nil}]
    /\ wmutex \in [Fiber -> Mutex \cup {Nil}]
    /\ werr \in [Fiber -> BOOLEAN]
    /\ inside \in [Mutex -> SUBSET Fiber]

ListsOK ==
    /\ mpending \in [Mutex -> Seq(Fiber)]
    /\ cpending \in [Cond -> Seq(Fiber)]

\* The invariant with its types next to what they are needed for.
LEMMA InvParts ==
    Inv <=> /\ DataOK /\ ListsOK /\ CountersOK
            /\ AllValid /\ OwedOnce /\ MutexListsAreSound /\ CondListsAreSound
            /\ WantsInLock /\ WaitsOutside /\ InterrupterIsArmed /\ PostedIsSound /\ OneOwner
  <1>1. Inv => DataOK /\ ListsOK /\ CountersOK
    BY DEF Inv, TypeOK, CoreTypeOK, DataOK, ListsOK, CountersOK
  <1>2. DataOK /\ ListsOK /\ CountersOK /\ OwedOnce => TypeOK
    BY DEF TypeOK, CoreTypeOK, DataOK, ListsOK, CountersOK, OwedOnce, Engine
  <1> QED
    BY <1>1, <1>2 DEF Inv

\* No fiber, mutex or condition variable is Nil; the sites and results are
\* those the engine needs.
LEMMA Names ==
    /\ \A f \in Fiber : VmOf[f] \in Vm /\ f # Nil
    /\ \A m \in Mutex : m # Nil
    /\ \A c \in Cond : c # Nil
    /\ \A f, g \in Fiber : VmOf[f] = VmOf[g]
    /\ Sites(Suspended) /\ Answers(Result)
  BY VmContextAssumption, SyncAssumption DEF Sites, Answers, Suspended, Result, Gone

\* It holds at first.
LEMMA InvInit == Init => Inv
  <1> SUFFICES ASSUME Init PROVE Inv
    OBVIOUS
  <1> USE Names
  <1>1. DataOK /\ ListsOK /\ CountersOK
    BY CountersInit DEF Init, CoreInit, DataOK, ListsOK, Result
  <1>2. /\ \A m \in Mutex : Members(mpending[m]) = {} /\ NoRepeat(mpending[m])
        /\ \A c \in Cond : Members(cpending[c]) = {} /\ NoRepeat(cpending[c])
    BY DEF Init, Members, NoRepeat
  <1>3. Waiting = {}
    BY <1>2 DEF Waiting, InMutexList, InCondList
  <1>4. OwedOnce
    BY <1>3, EngineInit DEF Init, OwedOnce
  <1>5. MutexListsAreSound /\ CondListsAreSound
    BY <1>2 DEF MutexListsAreSound, CondListsAreSound
  <1>6. \A f \in Fiber : /\ at[f] # "lock" /\ at[f] # "cond_wait" /\ want[f] = Nil
                         /\ wmutex[f] = Nil /\ interrupter[f] = Nil
    BY DEF Init, CoreInit
  <1>7. WantsInLock /\ WaitsOutside /\ InterrupterIsArmed
    BY <1>6 DEF WantsInLock, WaitsOutside, InterrupterIsArmed
  <1>8. PostedIsSound
    <2> SUFFICES ASSUME NEW v \in Vm, NEW h \in Members(strand[v])
                 PROVE  at[h.fiber] # "lock" /\ at[h.fiber] # "cond_wait"
      BY DEF PostedIsSound
    <2>1. strand[v] = <<ResumeSkipClear(Main[v])>>
      BY DEF Init, CoreInit
    <2>2. h.fiber = Main[v] /\ Main[v] \in Fiber
      BY <2>1, VmContextAssumption DEF Members, ResumeSkipClear
    <2> QED
      BY <1>6, <2>2
  <1>9. OneOwner
    <2>1. \A m \in Mutex : Owners(m) = {} /\ ~locked[m]
      BY <1>6 DEF Init, Owners, Handed
    <2> QED
      BY <2>1 DEF OneOwner
  <1> QED
    BY <1>1, <1>4, <1>5, <1>7, <1>8, <1>9, InvParts DEF AllValid, Init, CoreInit

-----------------------------------------------------------------------------
(* Every step preserves it.                                                  *)

\* The current fiber waits for nothing and has no interrupter.
LEMMA RunningFacts ==
    ASSUME Inv, NEW f \in Fiber, Running(f)
    PROVE  /\ at[f] = "running" /\ f \notin Waiting /\ interrupter[f] = Nil /\ want[f] = Nil
           /\ f \notin Resumed(strand[VmOf[f]])
           /\ \A m \in Mutex : f \notin Members(mpending[m])
           /\ \A c \in Cond : f \notin Members(cpending[c])
  <1>1. /\ Ledger(running, at, strand, Waiting, Suspended) /\ "running" \notin Suspended
        /\ running[VmOf[f]] = f
    BY DEF Inv, OwedOnce, Engine, Suspended, Running
  <1>2. at[f] = "running" /\ f \notin Waiting /\ f \notin Resumed(strand[VmOf[f]])
    BY <1>1, LedgerRunning
  <1> QED
    BY <1>2 DEF Inv, InterrupterIsArmed, WantsInLock, Waiting, InMutexList, InCondList

\* Whoever a handler resumes is on its strand's ledger.
LEMMA PostedFacts ==
    ASSUME Inv, NEW v \in Vm, NEW h \in Members(strand[v])
    PROVE  /\ h.fiber \in Fiber /\ h.fiber \in Resumed(strand[v]) /\ VmOf[h.fiber] = v
           /\ h.fiber \notin Waiting
  <1>1. strand[v] \in Seq(ResumeHandler(Fiber, Result)) /\ Ledger(running, at, strand, Waiting, Suspended)
    BY DEF Inv, OwedOnce, Engine
  <1>2. h \in ResumeHandler(Fiber, Result)
    BY <1>1, QueueFacts
  <1>3. h.fiber \in Fiber
    BY <1>2 DEF ResumeHandler
  <1>4. h.fiber \in Resumed(strand[v])
    BY DEF Members, Resumed
  <1> QED
    BY <1>1, <1>3, <1>4, LedgerQueued

\* Who is queued, and what for.
LEMMA QueuedFacts ==
    ASSUME Inv
    PROVE  /\ \A m \in Mutex : \A f \in Members(mpending[m]) :
                 f \in Fiber /\ want[f] = m /\ at[f] = "lock" /\ locked[m]
           /\ \A c \in Cond : \A f \in Members(cpending[c]) : f \in Fiber /\ at[f] = "cond_wait"
  <1>1. /\ \A m \in Mutex : Members(mpending[m]) \subseteq Fiber
        /\ \A c \in Cond : Members(cpending[c]) \subseteq Fiber
    BY InvParts, QueueFacts DEF ListsOK
  <1> QED
    BY <1>1, Names DEF Inv, MutexListsAreSound, CondListsAreSound, WantsInLock

\* A step that touches no mutex and no condition variable keeps the invariant if
\* it moves nobody in or out of lock() and cond:wait() and posts to nobody there.
LEMMA QuietStep ==
    ASSUME Inv, UNCHANGED <<syncVars, valid, interrupter>>, CountersOK',
           interrupted' \in [Fiber -> BOOLEAN], ret' \in [Fiber -> Result],
           Engine(running', at', strand', Waiting, Suspended, Result),
           \A g \in Fiber : at'[g] = "lock" <=> at[g] = "lock",
           \A g \in Fiber : at'[g] = "cond_wait" <=> at[g] = "cond_wait",
           \A g \in Fiber : wmutex[g] # Nil => at'[g] = at[g] /\ ret'[g] = ret[g],
           \A g \in Fiber : at[g] = "cond_wait" => interruptionDisabled'[g] = interruptionDisabled[g],
           \A w \in Vm : \A h \in Members(strand'[w]) :
              \/ h \in Members(strand[w])
              \/ h.fiber \in Fiber /\ at'[h.fiber] # "lock" /\ at'[h.fiber] # "cond_wait"
    PROVE  Inv'
  <1>0. UNCHANGED <<locked, mpending, cpending, want, wmutex, werr, inside, valid, interrupter>>
    BY DEF syncVars
  <1>1. Waiting' = Waiting
    BY <1>0 DEF Waiting, InMutexList, InCondList
  <1>2. OwedOnce' /\ AllValid'
    BY <1>0, <1>1 DEF Inv, OwedOnce, AllValid
  <1>3. DataOK' /\ ListsOK'
    BY <1>0, InvParts DEF DataOK, ListsOK
  <1>4. MutexListsAreSound' /\ OneOwner'
    BY <1>0 DEF Inv, MutexListsAreSound, OneOwner, Owners, Handed
  <1>5. CondListsAreSound'
    BY <1>0, QueuedFacts DEF Inv, CondListsAreSound
  <1>6. WantsInLock' /\ WaitsOutside'
    BY <1>0 DEF Inv, WantsInLock, WaitsOutside
  <1>7. InterrupterIsArmed'
    BY <1>0 DEF Inv, InterrupterIsArmed, Disabled
  <1>8. PostedIsSound'
    <2> SUFFICES ASSUME NEW w \in Vm, NEW h \in Members(strand'[w]),
                        at'[h.fiber] = "lock" \/ at'[h.fiber] = "cond_wait"
                 PROVE  /\ at'[h.fiber] = "cond_wait" => h.clear /\ h.val \in {"notified", "interrupted"}
                        /\ at'[h.fiber] = "lock" => h.val = "none"
      BY DEF PostedIsSound
    <2>1. h \in Members(strand[w])
      OBVIOUS
    <2>2. h.fiber \in Fiber
      BY <2>1, PostedFacts
    <2> QED
      BY <2>1, <2>2 DEF Inv, PostedIsSound
  <1> QED
    BY <1>2, <1>3, <1>4, <1>5, <1>6, <1>7, <1>8, InvParts, PTL

\* A call that returns at once and changes nothing but what is returned.
LEMMA ReturnStep ==
    ASSUME Inv, NEW f \in Fiber, Calls(f), NEW x \in Result, Return(f, x),
           UNCHANGED <<strand, valid, counters, interrupter, syncVars>>,
           interrupted' \in [Fiber -> BOOLEAN]
    PROVE  Inv'
  <1>1. running' = running /\ at' = at /\ ret' \in [Fiber -> Result]
    BY InvParts DEF Return, DataOK
  <1>2. CountersOK'
    BY InvParts DEF counters, CountersOK
  <1>3. Engine(running', at', strand', Waiting, Suspended, Result)
    BY <1>1 DEF Inv, OwedOnce
  <1>4. \A g \in Fiber : wmutex[g] # Nil => ret'[g] = ret[g]
    BY InvParts DEF Return, DataOK, Calls
  <1> QED
    BY <1>1, <1>2, <1>3, <1>4, QuietStep DEF counters

LEMMA SpawnStep ==
    ASSUME Inv, NEW f \in Fiber, NEW g \in Fiber, Spawn(f, g)
    PROVE  Inv'
  <1> USE Names
  <1>1. /\ SpawnFiber(f, g) /\ Calls(f) /\ at[g] = "unborn" /\ at' = [at EXCEPT ![g] = "start"]
        /\ ret' = [ret EXCEPT ![f] = "none"]
        /\ UNCHANGED <<running, valid, fiberData, syncVars>>
        /\ strand' = Posted(strand, VmOf[f], ResumeSkipClear(g))
    BY DEF Spawn, SpawnFiber, Post, Posted
  <1>2. Engine(running', at', strand', Waiting, Suspended, Result)
    BY <1>1, EngineSpawn DEF Inv, OwedOnce
  <1>3. \A w \in Vm : \A h \in Members(strand'[w]) : h \in Members(strand[w]) \/ h = ResumeSkipClear(g)
    <2>1. ResumeSkipClear(g) \in ResumeHandler(Fiber, Result)
      BY Handlers
    <2>2. strand \in [Vm -> Seq(ResumeHandler(Fiber, Result))]
      BY DEF Inv, TypeOK
    <2>3. Adds(Posted(strand, VmOf[f], ResumeSkipClear(g)), strand, {ResumeSkipClear(g)})
      BY <2>1, <2>2, PostMembers
    <2> QED
      BY <1>1, <2>3 DEF Adds
  <1>4. ResumeSkipClear(g).fiber = g
    BY DEF ResumeSkipClear
  <1>5. at'[g] = "start" /\ wmutex[g] = Nil /\ \A k \in Fiber : k # g => at'[k] = at[k]
    BY <1>1 DEF Inv, OwedOnce, Engine, WaitsOutside
  <1>6. \A w \in Vm : \A h \in Members(strand'[w]) :
            \/ h \in Members(strand[w])
            \/ h.fiber \in Fiber /\ at'[h.fiber] # "lock" /\ at'[h.fiber] # "cond_wait"
    BY <1>3, <1>4, <1>5
  <1>7. ret' \in [Fiber -> Result] /\ CountersOK' /\ interrupted' \in [Fiber -> BOOLEAN]
    BY <1>1, InvParts DEF DataOK, CountersOK, fiberData, Answers
  <1>8. \A k \in Fiber : wmutex[k] # Nil => at'[k] = at[k] /\ ret'[k] = ret[k]
    BY <1>1, <1>5, InvParts DEF DataOK, Calls
  <1>9. \A k \in Fiber : /\ at'[k] = "lock" <=> at[k] = "lock"
                         /\ at'[k] = "cond_wait" <=> at[k] = "cond_wait"
    BY <1>1, <1>5
  <1> QED
    BY <1>1, <1>2, <1>6, <1>7, <1>8, <1>9, QuietStep DEF fiberData

LEMMA EndStep ==
    ASSUME Inv, NEW f \in Fiber, End(f)
    PROVE  Inv'
  <1> USE Names
  <1>1. /\ Running(f) /\ wmutex[f] = Nil /\ Suspend(f, "dead") /\ at' = [at EXCEPT ![f] = "dead"]
        /\ ret' = [ret EXCEPT ![f] = "none"]
        /\ UNCHANGED <<strand, valid, fiberData, syncVars>>
    BY DEF End, Suspend, Calls
  <1>2. Engine(running', at', strand', Waiting, Suspended, Result)
    BY <1>1, EngineEnd DEF Inv, OwedOnce
  <1>3. at[f] = "running"
    BY <1>1, RunningFacts
  <1>4. at'[f] = "dead" /\ \A k \in Fiber : k # f => at'[k] = at[k]
    BY <1>1 DEF Inv, OwedOnce, Engine
  <1>5. ret' \in [Fiber -> Result] /\ CountersOK' /\ interrupted' \in [Fiber -> BOOLEAN]
    BY <1>1, InvParts DEF DataOK, CountersOK, fiberData, Answers
  <1>6. \A k \in Fiber : wmutex[k] # Nil => at'[k] = at[k] /\ ret'[k] = ret[k]
    BY <1>1, <1>4, InvParts DEF DataOK
  <1>7. \A k \in Fiber : /\ at'[k] = "lock" <=> at[k] = "lock"
                         /\ at'[k] = "cond_wait" <=> at[k] = "cond_wait"
    BY <1>3, <1>4
  <1> QED
    BY <1>1, <1>2, <1>5, <1>6, <1>7, QuietStep DEF fiberData

LEMMA YieldStep ==
    ASSUME Inv, NEW f \in Fiber, Yield(f), Calls(f), UNCHANGED syncVars
    PROVE  Inv'
  <1> USE Names
  <1>1. Engine(running', at', strand', Waiting, Suspended, Result)
    BY EngineYield DEF Inv, OwedOnce
  <1>2. Running(f) /\ wmutex[f] = Nil /\ UNCHANGED <<valid, fiberData, syncVars>>
    BY DEF Yield, Calls
  <1>3. PICK x \in Result : ret' = [ret EXCEPT ![f] = x]
    BY DEF SuspendError, Result, Yield, Return, Suspend
  <1>4. ret' \in [Fiber -> Result] /\ CountersOK' /\ interrupted' \in [Fiber -> BOOLEAN]
    BY <1>2, <1>3, InvParts DEF DataOK, CountersOK, fiberData
  <1>5. at[f] = "running"
    BY <1>2, RunningFacts
  <1>6. \/ at' = at /\ strand' = strand
        \/ /\ at' = [at EXCEPT ![f] = "yield"]
           /\ strand' = Posted(strand, VmOf[f], ResumeSkipClear(f))
    BY DEF Yield, Return, Suspend, Post, Posted
  <1>7. at'[f] \in {"running", "yield"} /\ \A k \in Fiber : k # f => at'[k] = at[k]
    BY <1>5, <1>6 DEF Inv, OwedOnce, Engine
  <1>8. \A w \in Vm : \A h \in Members(strand'[w]) : h \in Members(strand[w]) \/ h = ResumeSkipClear(f)
    <2>1. ResumeSkipClear(f) \in ResumeHandler(Fiber, Result)
      BY Handlers
    <2>2. strand \in [Vm -> Seq(ResumeHandler(Fiber, Result))]
      BY DEF Inv, TypeOK
    <2>3. Adds(Posted(strand, VmOf[f], ResumeSkipClear(f)), strand, {ResumeSkipClear(f)})
      BY <2>1, <2>2, PostMembers
    <2> QED
      BY <1>6, <2>3 DEF Adds
  <1>9. ResumeSkipClear(f).fiber = f
    BY DEF ResumeSkipClear
  <1>10. \A w \in Vm : \A h \in Members(strand'[w]) :
            \/ h \in Members(strand[w])
            \/ h.fiber \in Fiber /\ at'[h.fiber] # "lock" /\ at'[h.fiber] # "cond_wait"
    BY <1>7, <1>8, <1>9
  <1>11. \A k \in Fiber : wmutex[k] # Nil => at'[k] = at[k] /\ ret'[k] = ret[k]
    BY <1>2, <1>3, <1>7, InvParts DEF DataOK
  <1>12. \A k \in Fiber : /\ at'[k] = "lock" <=> at[k] = "lock"
                          /\ at'[k] = "cond_wait" <=> at[k] = "cond_wait"
    BY <1>5, <1>7
  <1> QED
    BY <1>1, <1>2, <1>4, <1>10, <1>11, <1>12, QuietStep DEF fiberData

LEMMA NestingStep ==
    ASSUME Inv, NEW f \in Fiber, Nesting(f), Calls(f), UNCHANGED syncVars
    PROVE  Inv'
  <1>1. PICK x \in Result : ret' = [ret EXCEPT ![f] = x]
    BY NestingIsQuiet DEF Result
  <1>2. UNCHANGED <<strand, running, valid, at, interrupted, interrupter>> /\ Running(f)
    BY NestingIsQuiet
  <1>3. CountersOK' /\ ret' \in [Fiber -> Result] /\ interrupted' \in [Fiber -> BOOLEAN]
    BY <1>1, <1>2, CountersStep, InvParts DEF DataOK
  <1>4. Engine(running', at', strand', Waiting, Suspended, Result)
    BY <1>2 DEF Inv, OwedOnce
  <1>5. \A g \in Fiber : at[g] = "cond_wait" => interruptionDisabled'[g] = interruptionDisabled[g]
    <2>1. at[f] = "running"
      BY <1>2, RunningFacts
    <2>2. \A g \in Fiber : g # f => interruptionDisabled'[g] = interruptionDisabled[g]
      BY InvParts DEF CountersOK, Nesting, DisableInterruption, RestoreInterruption,
                      ForbidSuspend, AllowSuspend
    <2> QED
      BY <2>1, <2>2
  <1>6. \A g \in Fiber : wmutex[g] # Nil => ret'[g] = ret[g]
    BY <1>1, InvParts DEF DataOK, Calls
  <1> QED
    BY <1>2, <1>3, <1>4, <1>5, <1>6, QuietStep

\* The fiber the strand resumes next, and what its handler carries.
LEMMA HeadFacts ==
    ASSUME Inv, NEW v \in Vm, StrandReady(v)
    PROVE  LET h == Head(strand[v]) IN
           /\ h \in Members(strand[v]) /\ h.fiber \in Fiber /\ h.val \in Result
           /\ h.fiber \notin Waiting /\ VmOf[h.fiber] = v /\ at[h.fiber] \in Suspended
           /\ at[h.fiber] = "cond_wait" => h.clear /\ h.val \in {"notified", "interrupted"}
           /\ at[h.fiber] = "lock" => h.val = "none"
  <1> DEFINE h == Head(strand[v])
  <1>1. /\ h \in Members(strand[v]) /\ h.fiber \in Fiber /\ h.val \in Result
        /\ h.fiber \notin Waiting /\ VmOf[h.fiber] = v /\ at[h.fiber] \in Suspended
    BY EngineHead DEF Inv, OwedOnce
  <1> QED
    BY <1>1 DEF Inv, PostedIsSound

\* What resuming a fiber does, whatever it returns to.
LEMMA ResumeFacts ==
    ASSUME Inv, NEW v \in Vm, StrandReady(v), NEW f, f = Head(strand[v]).fiber,
           strand' = Popped(strand, v), NEW x \in Result, FiberResume(f, Head(strand[v]).clear, x),
           UNCHANGED <<valid, counters, interrupted>>
    PROVE  /\ Engine(running', at', strand', Waiting, Suspended, Result)
           /\ at'[f] = "running" /\ \A g \in Fiber : g # f => at'[g] = at[g]
           /\ ret' \in [Fiber -> Result]
           /\ ret'[f] = x /\ \A g \in Fiber : g # f => ret'[g] = ret[g]
           /\ interrupter' \in [Fiber -> Cond \cup {Nil}]
           /\ CountersOK' /\ AllValid' /\ InterrupterIsArmed' /\ PostedIsSound'
  <1> USE Names
  <1> DEFINE h == Head(strand[v])
  <1>1. h \in Members(strand[v]) /\ f \in Fiber /\ (at[f] = "cond_wait" => h.clear)
    BY HeadFacts
  <1>2. FiberResume(f, h.clear, x)
    OBVIOUS
  <1> HIDE DEF h
  <1>3. Engine(running', at', strand', Waiting, Suspended, Result)
    BY <1>1, <1>2, EngineResume DEF Inv, OwedOnce
  <1>4. at'[f] = "running" /\ \A g \in Fiber : g # f => at'[g] = at[g]
    BY <1>1, <1>2 DEF FiberResume, Inv, OwedOnce, Engine
  <1>5. /\ ret' \in [Fiber -> Result]
        /\ ret'[f] = x /\ \A g \in Fiber : g # f => ret'[g] = ret[g]
    BY <1>1, <1>2, InvParts DEF FiberResume, DataOK
  <1>6. /\ interrupter' \in [Fiber -> Cond \cup {Nil}] /\ interrupter'[f] = Nil
        /\ \A g \in Fiber : g # f => interrupter'[g] = interrupter[g]
    <2>1. interrupter \in [Fiber -> Cond \cup {Nil}]
      BY InvParts DEF DataOK
    <2>2. interrupter[f] # Nil => h.clear /\ ~Disabled(f)
      BY <1>1 DEF Inv, InterrupterIsArmed
    <2>3. interrupter' = ClearedInterrupter(f, h.clear)
      BY <1>2 DEF FiberResume
    <2> QED
      BY <1>1, <2>1, <2>2, <2>3 DEF ClearedInterrupter, SetInterrupter
  <1>7. CountersOK' /\ AllValid'
    BY InvParts DEF CountersOK, counters, AllValid
  <1>8. InterrupterIsArmed'
    BY <1>1, <1>4, <1>6 DEF Inv, InterrupterIsArmed, Disabled, counters
  <1>9. PostedIsSound'
    <2> SUFFICES ASSUME NEW w \in Vm, NEW e \in Members(strand'[w]),
                        at'[e.fiber] = "lock" \/ at'[e.fiber] = "cond_wait"
                 PROVE  /\ at'[e.fiber] = "cond_wait" => e.clear /\ e.val \in {"notified", "interrupted"}
                        /\ at'[e.fiber] = "lock" => e.val = "none"
      BY DEF PostedIsSound
    <2>1. Adds(Popped(strand, v), strand, {})
      <3>1. strand \in [Vm -> Seq(ResumeHandler(Fiber, Result))] /\ strand[v] # <<>>
        BY DEF Inv, TypeOK, StrandReady
      <3> QED
        BY <3>1, PopMembers
    <2>2. e \in Members(strand[w])
      BY <2>1 DEF Adds
    <2>3. e.fiber \in Fiber /\ e.fiber # f
      BY <1>4, <2>2, PostedFacts
    <2> QED
      BY <1>4, <2>2, <2>3 DEF Inv, PostedIsSound
  <1> QED
    BY <1>3, <1>4, <1>5, <1>6, <1>7, <1>8, <1>9

LEMMA OtherReturnsStep ==
    ASSUME Inv, NEW v \in Vm, OtherReturns(v)
    PROVE  Inv'
  <1> USE Names
  <1> DEFINE h == Head(strand[v])
             f == h.fiber
  <1>1. /\ StrandReady(v) /\ at[f] # "lock" /\ strand' = Popped(strand, v)
        /\ FiberResume(f, h.clear, h.val)
        /\ UNCHANGED <<valid, counters, interrupted>>
        /\ UNCHANGED <<locked, mpending, cpending, want, wmutex, werr, inside>>
    BY DEF OtherReturns, RunResume, Inv, AllValid, Popped, syncVars
  <1>2. /\ f \in Fiber /\ h.val \in Result /\ f \notin Waiting
        /\ at[f] = "cond_wait" => h.val \in {"notified", "interrupted"}
        /\ at[f] \in Suspended
    BY <1>1, HeadFacts
  <1>3. /\ Engine(running', at', strand', Waiting, Suspended, Result)
        /\ at'[f] = "running" /\ \A g \in Fiber : g # f => at'[g] = at[g]
        /\ ret' \in [Fiber -> Result]
        /\ ret'[f] = h.val /\ \A g \in Fiber : g # f => ret'[g] = ret[g]
        /\ interrupter' \in [Fiber -> Cond \cup {Nil}]
        /\ CountersOK' /\ AllValid' /\ InterrupterIsArmed' /\ PostedIsSound'
    BY <1>1, <1>2, ResumeFacts
  <1> HIDE DEF h, f
  <1>4. OwedOnce'
    BY <1>1, <1>3 DEF OwedOnce, Waiting, InMutexList, InCondList
  <1>5. DataOK' /\ ListsOK'
    BY <1>1, <1>3, InvParts DEF DataOK, ListsOK
  <1>6. MutexListsAreSound' /\ OneOwner'
    BY <1>1 DEF Inv, MutexListsAreSound, OneOwner, Owners, Handed
  <1>7. CondListsAreSound'
    <2>1. \A c \in Cond : \A g \in Members(cpending[c]) : g \in Fiber /\ g # f
      BY <1>2, QueuedFacts DEF Waiting, InCondList
    <2> QED
      BY <1>1, <1>3, <2>1 DEF Inv, CondListsAreSound
  <1>8. WantsInLock'
    BY <1>1, <1>3 DEF Inv, WantsInLock
  <1>9. WaitsOutside'
    <2>1. wmutex[f] # Nil => h.val \in {"notified", "interrupted"}
      BY <1>1, <1>2 DEF Inv, WaitsOutside, Suspended
    <2> QED
      BY <1>1, <1>3, <2>1 DEF Inv, WaitsOutside
  <1> QED
    BY <1>3, <1>4, <1>5, <1>6, <1>7, <1>8, <1>9, InvParts, PTL

\* A fiber that was handed its mutex enters it.
LEMMA LockReturnsFacts ==
    ASSUME Inv, NEW v \in Vm, LockReturns(v)
    PROVE  LET f == Head(strand[v]).fiber IN
           /\ StrandReady(v) /\ f \in Fiber /\ at[f] = "lock" /\ want[f] \in Mutex
           /\ f \in Handed(want[f]) /\ f \notin Waiting
           /\ inside[want[f]] = {} /\ Owners(want[f]) = {f}
           /\ wmutex[f] # Nil => want[f] = wmutex[f]
  <1> DEFINE f == Head(strand[v]).fiber
  <1>1. StrandReady(v) /\ at[f] = "lock"
    BY DEF LockReturns
  <1>2. f \in Fiber /\ f \notin Waiting
    BY <1>1, HeadFacts
  <1> HIDE DEF f
  <1>3. want[f] \in Mutex /\ f \notin inside[want[f]]
    BY <1>1, <1>2, InvParts DEF DataOK, WantsInLock
  <1>4. f \in Handed(want[f])
    BY <1>2, <1>3 DEF Handed, Waiting, InMutexList
  <1>5. Owners(want[f]) = {f}
    BY <1>3, <1>4 DEF Inv, OneOwner, Owners
  <1>6. inside[want[f]] = {}
    BY <1>3, <1>5 DEF Owners
  <1>7. wmutex[f] # Nil => want[f] = wmutex[f]
    BY <1>1, <1>2 DEF Inv, WaitsOutside
  <1> QED
    BY <1>1, <1>2, <1>3, <1>4, <1>5, <1>6, <1>7 DEF f

LEMMA LockReturnsStep ==
    ASSUME Inv, NEW v \in Vm, LockReturns(v)
    PROVE  Inv'
  <1> USE Names
  <1> DEFINE h == Head(strand[v])
             f == h.fiber
             m == want[f]
             x == IF wmutex[f] = Nil THEN "ok"
                  ELSE IF werr[f] THEN "interrupted" ELSE "notified"
  <1>1. /\ StrandReady(v) /\ strand' = Popped(strand, v) /\ FiberResume(f, h.clear, x)
        /\ inside' = [inside EXCEPT ![m] = @ \cup {f}]
        /\ want' = [want EXCEPT ![f] = Nil] /\ wmutex' = [wmutex EXCEPT ![f] = Nil]
        /\ werr' = [werr EXCEPT ![f] = FALSE]
        /\ UNCHANGED <<valid, counters, interrupted, locked, mpending, cpending>>
    BY DEF LockReturns, Popped
  <1>2. /\ f \in Fiber /\ at[f] = "lock" /\ m \in Mutex /\ f \in Handed(m) /\ f \notin Waiting
        /\ inside[m] = {} /\ Owners(m) = {f}
    BY LockReturnsFacts
  <1>3. x \in Result
    BY DEF Result
  <1> HIDE DEF x
  <1>4. /\ Engine(running', at', strand', Waiting, Suspended, Result)
        /\ at'[f] = "running" /\ \A g \in Fiber : g # f => at'[g] = at[g]
        /\ ret' \in [Fiber -> Result]
        /\ ret'[f] = x /\ \A g \in Fiber : g # f => ret'[g] = ret[g]
        /\ interrupter' \in [Fiber -> Cond \cup {Nil}]
        /\ CountersOK' /\ AllValid' /\ InterrupterIsArmed' /\ PostedIsSound'
    BY <1>1, <1>2, <1>3, ResumeFacts
  <1> HIDE DEF h, f
  <1>5. OwedOnce'
    BY <1>1, <1>4 DEF OwedOnce, Waiting, InMutexList, InCondList
  <1>6. /\ DataOK' /\ ListsOK'
        /\ want'[f] = Nil /\ wmutex'[f] = Nil
        /\ \A g \in Fiber : g # f => want'[g] = want[g] /\ wmutex'[g] = wmutex[g]
        /\ \A g \in Fiber : want'[g] # Nil => want'[g] = want[g] /\ g # f
    BY <1>1, <1>2, <1>4, InvParts DEF DataOK, ListsOK
  <1> HIDE DEF m
  <1>7. inside'[m] = {f} /\ \A k \in Mutex : k # m => inside'[k] = inside[k]
    BY <1>1, <1>2, InvParts DEF DataOK
  <1>8. MutexListsAreSound'
    <2>1. \A k \in Mutex : \A g \in Members(mpending[k]) : g \in Fiber /\ g # f
      BY <1>2, QueuedFacts DEF Waiting, InMutexList
    <2> QED
      BY <1>1, <1>6, <2>1 DEF Inv, MutexListsAreSound
  <1>9. CondListsAreSound'
    <2>1. \A c \in Cond : \A g \in Members(cpending[c]) : g \in Fiber /\ g # f
      BY <1>2, QueuedFacts DEF Waiting, InCondList
    <2> QED
      BY <1>1, <1>4, <2>1 DEF Inv, CondListsAreSound
  <1>10. WantsInLock'
    <2> SUFFICES ASSUME NEW g \in Fiber
                 PROVE  /\ want'[g] # Nil <=> at'[g] = "lock"
                        /\ want'[g] # Nil => g \notin inside'[want'[g]]
      BY DEF WantsInLock
    <2>1. want[g] \in Mutex \cup {Nil}
      BY InvParts DEF DataOK
    <2> QED
      BY <1>4, <1>6, <1>7, <2>1 DEF Inv, WantsInLock
  <1>11. WaitsOutside'
    <2> SUFFICES ASSUME NEW g \in Fiber, g # f
                 PROVE  /\ at'[g] = "cond_wait" => wmutex'[g] # Nil
                        /\ wmutex'[g] # Nil =>
                              /\ at'[g] \in {"cond_wait", "lock", "running"}
                              /\ g \notin inside'[wmutex'[g]]
                              /\ at'[g] = "lock" => want'[g] = wmutex'[g]
                              /\ at'[g] = "running" => ret'[g] \in {"notified", "interrupted"}
      BY <1>4, <1>6 DEF WaitsOutside
    <2>1. wmutex[g] \in Mutex \cup {Nil}
      BY InvParts DEF DataOK
    <2> QED
      BY <1>4, <1>6, <1>7, <2>1 DEF Inv, WaitsOutside
  <1>12. OneOwner'
    <2>1. \A k \in Mutex : k # m => Owners(k)' = Owners(k)
      BY <1>1, <1>6, <1>7 DEF Owners, Handed, m
    <2>2. ASSUME NEW k \in Mutex, k = m
          PROVE  (locked[k] /\ Owners(k) # {} /\ \A g, j \in Owners(k) : g = j)'
      <3>1. \A g \in Fiber : want[g] = k /\ g \notin Members(mpending[k]) => g = f
        BY <1>2, <2>2 DEF Owners, Handed
      <3>2. \A g \in Owners(k)' : g = f
        BY <1>1, <1>6, <1>7, <2>2, <3>1 DEF Owners, Handed
      <3>3. f \in inside'[k] /\ locked[k]
        BY <1>2, <1>7, <2>2 DEF Inv, OneOwner
      <3> QED
        BY <1>1, <3>2, <3>3 DEF Owners
    <2> QED
      BY <1>1, <2>1, <2>2 DEF Inv, OneOwner
  <1> QED
    BY <1>4, <1>5, <1>6, <1>8, <1>9, <1>10, <1>11, <1>12, InvParts, PTL

\* The current fiber takes a free mutex: in lock(), try_lock(), or at once in the
\* lock() that ends cond:wait().
LEMMA TakeStep ==
    ASSUME Inv, NEW f \in Fiber, Running(f), NEW m \in Mutex, ~locked[m],
           locked' = [locked EXCEPT ![m] = TRUE],
           inside' = [inside EXCEPT ![m] = @ \cup {f}],
           wmutex' \in [Fiber -> Mutex \cup {Nil}], wmutex'[f] = Nil,
           \A g \in Fiber : g # f => wmutex'[g] = wmutex[g],
           ret' \in [Fiber -> Result], \A g \in Fiber : g # f => ret'[g] = ret[g],
           UNCHANGED <<strand, running, at, valid, fiberData, mpending, cpending, want, werr>>
    PROVE  Inv' /\ inside[m] = {} /\ inside'[m] = {f}
  <1> USE Names
  <1>1. at[f] = "running" /\ want[f] = Nil
    BY RunningFacts
  <1>2. inside[m] = {} /\ Owners(m) = {}
    BY DEF Inv, OneOwner, Owners
  <1>3. inside'[m] = {f} /\ \A k \in Mutex : k # m => inside'[k] = inside[k]
    BY <1>2, InvParts DEF DataOK
  <1>4. locked'[m] /\ \A k \in Mutex : k # m => locked'[k] = locked[k]
    BY InvParts DEF DataOK
  <1>5. DataOK' /\ ListsOK' /\ CountersOK'
    BY InvParts DEF DataOK, ListsOK, CountersOK, fiberData
  <1>6. AllValid' /\ OwedOnce' /\ CondListsAreSound' /\ PostedIsSound' /\ InterrupterIsArmed'
    BY DEF Inv, AllValid, OwedOnce, Waiting, InMutexList, InCondList, CondListsAreSound,
           PostedIsSound, InterrupterIsArmed, Disabled, fiberData
  <1>7. MutexListsAreSound'
    BY <1>4 DEF Inv, MutexListsAreSound
  <1>8. WantsInLock'
    <2> SUFFICES ASSUME NEW g \in Fiber
                 PROVE  /\ want[g] # Nil <=> at[g] = "lock"
                        /\ want[g] # Nil => g \notin inside'[want[g]]
      BY DEF WantsInLock
    <2>1. want[g] \in Mutex \cup {Nil}
      BY InvParts DEF DataOK
    <2> QED
      BY <1>1, <1>3, <2>1 DEF Inv, WantsInLock
  <1>9. WaitsOutside'
    <2> SUFFICES ASSUME NEW g \in Fiber, g # f
                 PROVE  /\ at[g] = "cond_wait" => wmutex[g] # Nil
                        /\ wmutex[g] # Nil =>
                              /\ at[g] \in {"cond_wait", "lock", "running"}
                              /\ g \notin inside'[wmutex[g]]
                              /\ at[g] = "lock" => want[g] = wmutex[g]
                              /\ at[g] = "running" => ret[g] \in {"notified", "interrupted"}
      BY <1>1 DEF WaitsOutside
    <2>1. wmutex[g] \in Mutex \cup {Nil}
      BY InvParts DEF DataOK
    <2> QED
      BY <1>3, <2>1 DEF Inv, WaitsOutside
  <1>10. OneOwner'
    <2>1. \A k \in Mutex : k # m => Owners(k)' = Owners(k)
      BY <1>3 DEF Owners, Handed
    <2>2. Owners(m)' = {f}
      BY <1>2, <1>3 DEF Owners, Handed
    <2> QED
      BY <1>4, <2>1, <2>2 DEF Inv, OneOwner
  <1> QED
    BY <1>2, <1>3, <1>5, <1>6, <1>7, <1>8, <1>9, <1>10, InvParts, PTL

\* The current fiber queues for a locked mutex.
LEMMA QueueStep ==
    ASSUME Inv, NEW f \in Fiber, Running(f), NEW m \in Mutex, locked[m], f \notin inside[m],
           wmutex[f] \in {Nil, m},
           mpending' = [mpending EXCEPT ![m] = Append(@, f)], want' = [want EXCEPT ![f] = m],
           Suspend(f, "lock"), werr' \in [Fiber -> BOOLEAN],
           UNCHANGED <<locked, inside, wmutex, strand, valid, fiberData, cpending>>
    PROVE  Inv'
  <1> USE Names
  <1>0. /\ running' = [running EXCEPT ![VmOf[f]] = Nil] /\ at' = [at EXCEPT ![f] = "lock"]
        /\ ret' = [ret EXCEPT ![f] = "none"]
    BY DEF Suspend
  <1>1. /\ at[f] = "running" /\ want[f] = Nil /\ interrupter[f] = Nil /\ f \notin Waiting
        /\ f \notin Resumed(strand[VmOf[f]])
        /\ \A k \in Mutex : f \notin Members(mpending[k])
        /\ \A c \in Cond : f \notin Members(cpending[c])
    BY RunningFacts
  <1>2. /\ mpending'[m] \in Seq(Fiber) /\ NoRepeat(mpending'[m])
        /\ Members(mpending'[m]) = Members(mpending[m]) \cup {f}
        /\ \A k \in Mutex : k # m => mpending'[k] = mpending[k]
        /\ ListsOK'
    <2>1. mpending[m] \in Seq(Fiber) /\ NoRepeat(mpending[m]) /\ ListsOK
      BY InvParts DEF ListsOK, MutexListsAreSound
    <2>2. /\ Append(mpending[m], f) \in Seq(Fiber) /\ NoRepeat(Append(mpending[m], f))
          /\ Members(Append(mpending[m], f)) = Members(mpending[m]) \cup {f}
      BY <1>1, <2>1, AppendFacts
    <2> QED
      BY <2>1, <2>2 DEF ListsOK
  <1>3. Waiting' = Waiting \cup {f}
    BY <1>2 DEF Waiting, InMutexList, InCondList
  <1>4. AllValid' /\ OwedOnce'
    <2>1. Engine(running, at, strand, Waiting, Suspended, Result) /\ "lock" \in Suspended
          /\ running[VmOf[f]] = f
      BY DEF Inv, OwedOnce, Suspended, Running
    <2>2. Engine([running EXCEPT ![VmOf[f]] = Nil], [at EXCEPT ![f] = "lock"], strand,
                 Waiting \cup {f}, Suspended, Result)
      BY <2>1, EngineSuspend
    <2> QED
      BY <1>0, <1>3, <2>2 DEF Inv, AllValid, OwedOnce
  <1>5. /\ at'[f] = "lock" /\ want'[f] = m
        /\ \A g \in Fiber : g # f => at'[g] = at[g] /\ want'[g] = want[g] /\ ret'[g] = ret[g]
    BY <1>0, InvParts DEF DataOK, OwedOnce, Engine
  <1>6. DataOK' /\ CountersOK'
    BY <1>0, InvParts DEF DataOK, CountersOK, fiberData, Answers
  <1>7. MutexListsAreSound'
    <2> SUFFICES ASSUME NEW k \in Mutex
                 PROVE  /\ NoRepeat(mpending'[k])
                        /\ \A g \in Members(mpending'[k]) : want'[g] = k /\ locked[k]
      BY DEF MutexListsAreSound
    <2>1. NoRepeat(mpending[k]) /\ \A g \in Members(mpending[k]) : g # f /\ g \in Fiber /\ want[g] = k /\ locked[k]
      BY <1>1, QueuedFacts DEF Inv, MutexListsAreSound
    <2> QED
      BY <1>2, <1>5, <2>1
  <1>8. CondListsAreSound'
    BY <1>1, <1>5, QueuedFacts DEF Inv, CondListsAreSound
  <1>9. WantsInLock' /\ WaitsOutside' /\ InterrupterIsArmed'
    BY <1>1, <1>5 DEF Inv, WantsInLock, WaitsOutside, InterrupterIsArmed, Disabled, fiberData
  <1>10. PostedIsSound'
    <2> SUFFICES ASSUME NEW w \in Vm, NEW e \in Members(strand[w])
                 PROVE  /\ at'[e.fiber] = "cond_wait" => e.clear /\ e.val \in {"notified", "interrupted"}
                        /\ at'[e.fiber] = "lock" => e.val = "none"
      BY DEF PostedIsSound
    <2>1. e.fiber \in Fiber /\ e.fiber # f
      BY <1>1, PostedFacts
    <2> QED
      BY <1>5, <2>1 DEF Inv, PostedIsSound
  <1>11. OneOwner'
    <2>1. \A k \in Mutex : Owners(k)' = Owners(k)
      <3> SUFFICES ASSUME NEW k \in Mutex, NEW g \in Fiber
                   PROVE  (want'[g] = k /\ g \notin Members(mpending'[k]))
                             <=> (want[g] = k /\ g \notin Members(mpending[k]))
        BY DEF Owners, Handed
      <3>1. CASE g = f
        BY <1>1, <1>2, <1>5, <3>1
      <3>2. CASE g # f
        BY <1>2, <1>5, <3>2
      <3> QED
        BY <3>1, <3>2
    <2> QED
      BY <2>1 DEF Inv, OneOwner
  <1> QED
    BY <1>2, <1>4, <1>6, <1>7, <1>8, <1>9, <1>10, <1>11, InvParts, PTL

LEMMA MutexLockStep ==
    ASSUME Inv, NEW f \in Fiber, NEW m \in Mutex, MutexLock(f, m)
    PROVE  Inv'
  <1>1. /\ Running(f) /\ wmutex[f] = Nil /\ f \notin inside[m] /\ Calls(f)
        /\ UNCHANGED <<strand, valid, fiberData, cpending, werr>>
        /\ DataOK
    BY InvParts DEF MutexLock, Calls
  <1>2. CASE ~CanSuspend2(f)
    <2>1. /\ Return(f, "forbid_suspend_block") /\ "forbid_suspend_block" \in Result
          /\ UNCHANGED <<strand, valid, counters, interrupted, interrupter, syncVars>>
      BY <1>1, <1>2 DEF MutexLock, syncVars, fiberData, counters, Result
    <2> QED
      BY <1>1, <2>1, ReturnStep DEF DataOK
  <1>3. CASE CanSuspend2(f) /\ ~locked[m]
    <2>1. /\ locked' = [locked EXCEPT ![m] = TRUE] /\ inside' = [inside EXCEPT ![m] = @ \cup {f}]
          /\ wmutex' = [wmutex EXCEPT ![f] = Nil] /\ ret' = [ret EXCEPT ![f] = "ok"]
          /\ "ok" \in Result /\ UNCHANGED <<mpending, want, running, at>>
      BY <1>3 DEF MutexLock, TakeOrQueue, Return, Result
    <2>2. /\ wmutex' \in [Fiber -> Mutex \cup {Nil}] /\ wmutex'[f] = Nil
          /\ \A g \in Fiber : g # f => wmutex'[g] = wmutex[g]
          /\ ret' \in [Fiber -> Result] /\ \A g \in Fiber : g # f => ret'[g] = ret[g]
      BY <1>1, <2>1 DEF DataOK
    <2> QED
      BY <1>1, <1>3, <2>1, <2>2, TakeStep
  <1>4. CASE CanSuspend2(f) /\ locked[m]
    <2>1. /\ mpending' = [mpending EXCEPT ![m] = Append(@, f)] /\ want' = [want EXCEPT ![f] = m]
          /\ Suspend(f, "lock") /\ UNCHANGED <<locked, inside, wmutex>>
      BY <1>4 DEF MutexLock, TakeOrQueue
    <2> QED
      BY <1>1, <1>4, <2>1, QueueStep DEF DataOK
  <1> QED
    BY <1>2, <1>3, <1>4

LEMMA MutexTryLockStep ==
    ASSUME Inv, NEW f \in Fiber, NEW m \in Mutex, MutexTryLock(f, m)
    PROVE  Inv'
  <1>1. /\ Running(f) /\ wmutex[f] = Nil /\ Calls(f)
        /\ UNCHANGED <<strand, valid, fiberData, mpending, cpending, want, wmutex, werr>>
        /\ DataOK
    BY InvParts DEF MutexTryLock, Calls
  <1>2. CASE locked[m]
    <2>1. /\ Return(f, "busy") /\ "busy" \in Result
          /\ UNCHANGED <<strand, valid, counters, interrupted, interrupter, syncVars>>
      BY <1>1, <1>2 DEF MutexTryLock, syncVars, fiberData, counters, Result
    <2> QED
      BY <1>1, <2>1, ReturnStep DEF DataOK
  <1>3. CASE ~locked[m]
    <2>1. /\ locked' = [locked EXCEPT ![m] = TRUE] /\ inside' = [inside EXCEPT ![m] = @ \cup {f}]
          /\ ret' = [ret EXCEPT ![f] = "ok"] /\ "ok" \in Result /\ UNCHANGED <<running, at>>
      BY <1>3 DEF MutexTryLock, Return, Result
    <2>2. /\ wmutex' \in [Fiber -> Mutex \cup {Nil}] /\ wmutex'[f] = Nil
          /\ \A g \in Fiber : g # f => wmutex'[g] = wmutex[g]
          /\ ret' \in [Fiber -> Result] /\ \A g \in Fiber : g # f => ret'[g] = ret[g]
      BY <1>1, <2>1 DEF DataOK
    <2> QED
      BY <1>1, <1>3, <2>1, <2>2, TakeStep
  <1> QED
    BY <1>2, <1>3

LEMMA RelockStep ==
    ASSUME Inv, NEW f \in Fiber, Relock(f)
    PROVE  Inv'
  <1> DEFINE m == wmutex[f]
  <1>1. /\ Running(f) /\ wmutex[f] # Nil /\ m \in Mutex /\ DataOK
        /\ UNCHANGED <<strand, valid, fiberData, cpending>>
    BY InvParts DEF Relock, DataOK
  <1>2. f \notin inside[m] /\ wmutex[f] = m
    BY <1>1 DEF Inv, WaitsOutside
  <1>3. CASE ~locked[m]
    <2>1. /\ locked' = [locked EXCEPT ![m] = TRUE] /\ inside' = [inside EXCEPT ![m] = @ \cup {f}]
          /\ wmutex' = [wmutex EXCEPT ![f] = Nil] /\ ret' = ret
          /\ UNCHANGED <<mpending, want, running, at, werr>>
      BY <1>3 DEF Relock, TakeOrQueue
    <2> HIDE DEF m
    <2>2. /\ wmutex' \in [Fiber -> Mutex \cup {Nil}] /\ wmutex'[f] = Nil
          /\ \A g \in Fiber : g # f => wmutex'[g] = wmutex[g]
          /\ ret' \in [Fiber -> Result] /\ \A g \in Fiber : g # f => ret'[g] = ret[g]
      BY <1>1, <2>1 DEF DataOK
    <2> QED
      BY <1>1, <1>3, <2>1, <2>2, TakeStep
  <1>4. CASE locked[m]
    <2>1. /\ mpending' = [mpending EXCEPT ![m] = Append(@, f)] /\ want' = [want EXCEPT ![f] = m]
          /\ Suspend(f, "lock") /\ UNCHANGED <<locked, inside, wmutex>>
          /\ werr' = [werr EXCEPT ![f] = ret[f] = "interrupted"]
      BY <1>4 DEF Relock, TakeOrQueue
    <2> HIDE DEF m
    <2>2. werr' \in [Fiber -> BOOLEAN]
      BY <1>1, <2>1 DEF DataOK
    <2> QED
      BY <1>1, <1>2, <1>4, <2>1, <2>2, QueueStep
  <1> QED
    BY <1>3, <1>4

\* Somebody in a mutex's queue is resumed.
HandsOver(g) ==
    /\ g \in InMutexList
    /\ strand' = Posted(strand, VmOf[g], ResumeSkipClear(g))
    /\ InMutexList' = InMutexList \ {g}

\* unlock() by its owner leaves the mutex free, or with the fiber it was handed.
LEMMA UnlockFacts ==
    ASSUME Inv, NEW f \in Fiber, NEW m \in Mutex, f \in inside[m], Unlock(f, m), UNCHANGED want
    PROVE  /\ inside' \in [Mutex -> SUBSET Fiber] /\ locked' \in [Mutex -> BOOLEAN]
           /\ mpending' \in [Mutex -> Seq(Fiber)]
           /\ inside[m] = {f} /\ inside'[m] = {}
           /\ \A k \in Mutex : k # m => inside'[k] = inside[k]
           /\ MutexListsAreSound' /\ OneOwner'
           /\ \/ strand' = strand /\ InMutexList' = InMutexList
              \/ \E g \in Fiber : HandsOver(g)
  <1> USE Names
  <1> DEFINE q == mpending[m]
  <1>0. Inv /\ DataOK /\ mpending \in [Mutex -> Seq(Fiber)]
    BY InvParts DEF ListsOK
  <1>1. q \in Seq(Fiber) /\ NoRepeat(q)
    BY <1>0 DEF Inv, MutexListsAreSound
  <1>2. inside' = [inside EXCEPT ![m] = @ \ {f}]
    BY DEF Unlock
  <1>3. Owners(m) = {f} /\ inside[m] = {f} /\ locked[m]
    BY <1>0 DEF Inv, OneOwner, Owners
  <1>4. /\ inside' \in [Mutex -> SUBSET Fiber] /\ inside'[m] = {}
        /\ \A k \in Mutex : k # m => inside'[k] = inside[k]
    BY <1>0, <1>2, <1>3 DEF DataOK
  <1>5. \A k \in Fiber : want[k] = m => k \in Members(q)
    <2> SUFFICES ASSUME NEW k \in Fiber, want[k] = m, k \notin Members(q) PROVE FALSE
      OBVIOUS
    <2>1. k \in Owners(m)
      BY DEF Owners, Handed
    <2>2. k \in inside[m]
      BY <1>3, <2>1
    <2> QED
      BY <1>0, <2>2 DEF Inv, WantsInLock
  <1>6. \A k \in Mutex : \A g \in Members(mpending[k]) :
           g \in Fiber /\ want[g] = k /\ locked[k] /\ at[g] = "lock"
    BY <1>0, QueuedFacts
  <1>7. \A k \in Mutex : NoRepeat(mpending[k])
    BY <1>0 DEF Inv, MutexListsAreSound
  <1>8. \A k \in Mutex : (locked[k] <=> Owners(k) # {}) /\ \A g, j \in Owners(k) : g = j
    BY <1>0 DEF Inv, OneOwner
  <1>9. CASE q = <<>>
    <2>1. locked' = [locked EXCEPT ![m] = FALSE] /\ UNCHANGED <<mpending, strand>>
      BY <1>9 DEF Unlock
    <2>2. Members(q) = {}
      BY <1>1, <1>9, QueueFacts
    <2>3. /\ locked' \in [Mutex -> BOOLEAN] /\ ~locked'[m]
          /\ \A k \in Mutex : k # m => locked'[k] = locked[k]
      BY <1>0, <2>1 DEF DataOK
    <2>4. InMutexList' = InMutexList
      BY <2>1 DEF InMutexList
    <2>5. MutexListsAreSound'
      BY <1>6, <1>7, <2>1, <2>2, <2>3 DEF MutexListsAreSound
    <2>6. OneOwner'
      <3>1. \A k \in Mutex : k # m => Owners(k)' = Owners(k)
        BY <1>4, <2>1 DEF Owners, Handed
      <3>2. Owners(m)' = {}
        BY <1>4, <1>5, <2>1, <2>2 DEF Owners, Handed
      <3> QED
        BY <1>8, <2>3, <3>1, <3>2 DEF OneOwner
    <2> QED
      BY <1>0, <1>3, <1>4, <2>1, <2>3, <2>4, <2>5, <2>6
  <1>10. CASE q # <<>>
    <2> DEFINE g == Head(q)
               r == Tail(q)
    <2>1. mpending' = [mpending EXCEPT ![m] = r] /\ UNCHANGED locked
          /\ strand' = Posted(strand, VmOf[f], ResumeSkipClear(g))
      BY <1>10 DEF Unlock, Post, Posted
    <2>2. g \in Members(q) /\ r \in Seq(Fiber) /\ NoRepeat(r) /\ Members(r) = Members(q) \ {g}
      BY <1>1, <1>10, TailFacts
    <2> HIDE DEF g, r
    <2>3. g \in Fiber /\ want[g] = m
      BY <1>6, <2>2
    <2>4. /\ mpending' \in [Mutex -> Seq(Fiber)] /\ mpending'[m] = r
          /\ \A k \in Mutex : k # m => mpending'[k] = mpending[k]
      BY <1>0, <2>1, <2>2
    <2>5. \A k \in Mutex : \A j : j \in Members(mpending'[k]) <=> j \in Members(mpending[k]) /\ j # g
      <3> SUFFICES ASSUME NEW k \in Mutex, NEW j
                   PROVE  j \in Members(mpending'[k]) <=> j \in Members(mpending[k]) /\ j # g
        OBVIOUS
      <3>1. CASE k = m
        BY <2>2, <2>4, <3>1
      <3>2. CASE k # m
        BY <1>6, <2>3, <2>4, <3>2
      <3> QED
        BY <3>1, <3>2
    <2>6. HandsOver(g)
      <3>1. VmOf[f] = VmOf[g]
        BY <2>3
      <3>2. g \in InMutexList
        BY <2>2, <2>3 DEF InMutexList
      <3>3. InMutexList' = InMutexList \ {g}
        BY <2>5 DEF InMutexList
      <3> QED
        BY <2>1, <3>1, <3>2, <3>3 DEF HandsOver
    <2>7. MutexListsAreSound'
      <3>1. \A k \in Mutex : NoRepeat(mpending'[k])
        BY <1>7, <2>2, <2>4
      <3> QED
        BY <1>6, <2>1, <2>5, <3>1 DEF MutexListsAreSound
    <2>8. OneOwner'
      <3>1. \A k \in Mutex : k # m => Owners(k)' = Owners(k)
        BY <1>4, <2>4 DEF Owners, Handed
      <3>2. \A j : j \in Owners(m)' <=> j = g
        BY <1>4, <1>5, <2>3, <2>5 DEF Owners, Handed
      <3> QED
        BY <1>3, <1>8, <2>1, <3>1, <3>2 DEF OneOwner
    <2>9. \E k \in Fiber : HandsOver(k)
      BY <2>3, <2>6
    <2> QED
      BY <1>0, <1>3, <1>4, <2>1, <2>4, <2>7, <2>8, <2>9 DEF DataOK
  <1> QED
    BY <1>9, <1>10

\* The mutex is handed to a fiber in lock(), by a resume that carries nothing.
LEMMA HandOverFacts ==
    ASSUME Inv, NEW g \in Fiber, HandsOver(g)
    PROVE  /\ at[g] = "lock" /\ g \in Waiting /\ g \notin InCondList
           /\ ResumeSkipClear(g) \in ResumeHandler(Fiber, Result)
           /\ ResumeSkipClear(g).fiber = g /\ ResumeSkipClear(g).val = "none"
           /\ \A w \in Vm : \A h \in Members(strand'[w]) :
                 h \in Members(strand[w]) \/ h = ResumeSkipClear(g)
  <1> USE Names
  <1>1. at[g] = "lock" /\ g \in Waiting /\ g \notin InCondList
    BY QueuedFacts DEF HandsOver, Waiting, InMutexList, InCondList
  <1>2. ResumeSkipClear(g) \in ResumeHandler(Fiber, Result)
    BY Handlers
  <1>3. strand \in [Vm -> Seq(ResumeHandler(Fiber, Result))]
    BY DEF Inv, TypeOK
  <1>4. Adds(Posted(strand, VmOf[g], ResumeSkipClear(g)), strand, {ResumeSkipClear(g)})
    BY <1>2, <1>3, PostMembers
  <1>5. \A w \in Vm : \A h \in Members(strand'[w]) :
           h \in Members(strand[w]) \/ h = ResumeSkipClear(g)
    BY <1>4 DEF HandsOver, Adds
  <1>6. ResumeSkipClear(g).fiber = g /\ ResumeSkipClear(g).val = "none"
    BY DEF ResumeSkipClear
  <1> QED
    BY <1>1, <1>2, <1>5, <1>6

LEMMA MutexUnlockStep ==
    ASSUME Inv, NEW f \in Fiber, NEW m \in Mutex, MutexUnlock(f, m)
    PROVE  Inv'
  <1> USE Names
  <1>1. /\ Running(f) /\ wmutex[f] = Nil /\ f \in inside[m] /\ Unlock(f, m)
        /\ ret' = [ret EXCEPT ![f] = "none"]
        /\ UNCHANGED <<running, at, valid, fiberData, cpending, want, wmutex, werr>>
    BY DEF MutexUnlock, Calls, Return
  <1>2. /\ inside' \in [Mutex -> SUBSET Fiber] /\ locked' \in [Mutex -> BOOLEAN]
        /\ mpending' \in [Mutex -> Seq(Fiber)]
        /\ inside'[m] = {} /\ \A k \in Mutex : k # m => inside'[k] = inside[k]
        /\ MutexListsAreSound' /\ OneOwner'
        /\ \/ strand' = strand /\ InMutexList' = InMutexList
           \/ \E g \in Fiber : HandsOver(g)
    BY <1>1, UnlockFacts
  <1>3. ret' \in [Fiber -> Result] /\ \A g \in Fiber : g # f => ret'[g] = ret[g]
    BY <1>1, InvParts DEF DataOK, Answers
  <1>4. DataOK' /\ ListsOK' /\ CountersOK'
    BY <1>1, <1>2, <1>3, InvParts DEF DataOK, ListsOK, CountersOK, fiberData
  <1>5. CondListsAreSound' /\ InterrupterIsArmed' /\ AllValid'
    BY <1>1 DEF Inv, CondListsAreSound, InterrupterIsArmed, AllValid, Disabled, fiberData
  <1>6. \A k \in Mutex : inside'[k] \subseteq inside[k]
    BY <1>2
  <1>7. WantsInLock' /\ WaitsOutside'
    <2>1. \A g \in Fiber : want[g] \in Mutex \cup {Nil} /\ wmutex[g] \in Mutex \cup {Nil}
      BY InvParts DEF DataOK
    <2> QED
      BY <1>1, <1>3, <1>6, <2>1 DEF Inv, WantsInLock, WaitsOutside
  <1>8. InCondList' = InCondList
    BY <1>1 DEF InCondList
  <1>9. OwedOnce' /\ PostedIsSound'
    <2>1. Engine(running, at, strand, Waiting, Suspended, Result)
      BY DEF Inv, OwedOnce
    <2>2. CASE strand' = strand /\ InMutexList' = InMutexList
      BY <1>1, <1>8, <2>1, <2>2 DEF Inv, OwedOnce, PostedIsSound, Waiting
    <2>3. ASSUME NEW g \in Fiber, HandsOver(g) PROVE OwedOnce' /\ PostedIsSound'
      <3> DEFINE h == ResumeSkipClear(g)
      <3>1. /\ g \in Waiting /\ g \notin InCondList /\ h.fiber = g /\ h.val = "none" /\ at[g] = "lock"
            /\ h \in ResumeHandler(Fiber, Result)
            /\ \A w \in Vm : \A e \in Members(strand'[w]) : e \in Members(strand[w]) \/ e = h
            /\ strand' = Posted(strand, VmOf[g], h) /\ InMutexList' = InMutexList \ {g}
        BY <2>3, HandOverFacts DEF HandsOver
      <3> HIDE DEF h
      <3>2. Waiting' = Waiting \ {g}
        BY <1>8, <3>1 DEF Waiting
      <3>3. Engine(running, at, Posted(strand, VmOf[g], h), Waiting \ {g}, Suspended, Result)
        BY <2>1, <3>1, EnginePost
      <3> QED
        BY <1>1, <3>1, <3>2, <3>3 DEF Inv, OwedOnce, PostedIsSound
    <2> QED
      BY <1>2, <2>2, <2>3
  <1> QED
    BY <1>2, <1>4, <1>5, <1>7, <1>9, InvParts, PTL

\* cond:wait() suspends: its fiber joins the queue of the condition variable
\* and another one may leave that of the mutex.
LEMMA CondWaitStep ==
    ASSUME Inv, NEW f \in Fiber, NEW c \in Cond, NEW m \in Mutex, CondWait(f, c, m)
    PROVE  Inv'
  <1> USE Names
  <1>1. /\ Running(f) /\ wmutex[f] = Nil /\ f \in inside[m] /\ Unlock(f, m)
        /\ interrupter' = SetInterrupter(f, c)
        /\ cpending' = [cpending EXCEPT ![c] = Append(@, f)]
        /\ wmutex' = [wmutex EXCEPT ![f] = m]
        /\ running' = [running EXCEPT ![VmOf[f]] = Nil] /\ at' = [at EXCEPT ![f] = "cond_wait"]
        /\ ret' = [ret EXCEPT ![f] = "none"]
        /\ UNCHANGED <<valid, counters, interrupted, want, werr>>
    BY DEF CondWait, Calls, Suspend
  <1>2. /\ inside' \in [Mutex -> SUBSET Fiber] /\ locked' \in [Mutex -> BOOLEAN]
        /\ mpending' \in [Mutex -> Seq(Fiber)]
        /\ inside'[m] = {} /\ \A k \in Mutex : k # m => inside'[k] = inside[k]
        /\ MutexListsAreSound' /\ OneOwner'
        /\ \/ strand' = strand /\ InMutexList' = InMutexList
           \/ \E g \in Fiber : HandsOver(g)
    BY <1>1, UnlockFacts
  <1>3. /\ at[f] = "running" /\ interrupter[f] = Nil /\ f \notin Waiting /\ want[f] = Nil
        /\ f \notin Resumed(strand[VmOf[f]])
        /\ \A d \in Cond : f \notin Members(cpending[d])
    BY <1>1, RunningFacts
  <1>4. /\ cpending' \in [Cond -> Seq(Fiber)] /\ NoRepeat(cpending'[c])
        /\ Members(cpending'[c]) = Members(cpending[c]) \cup {f}
        /\ \A d \in Cond : d # c => cpending'[d] = cpending[d]
    <2>1. cpending[c] \in Seq(Fiber) /\ NoRepeat(cpending[c]) /\ cpending \in [Cond -> Seq(Fiber)]
      BY InvParts DEF ListsOK, CondListsAreSound
    <2>2. /\ Append(cpending[c], f) \in Seq(Fiber) /\ NoRepeat(Append(cpending[c], f))
          /\ Members(Append(cpending[c], f)) = Members(cpending[c]) \cup {f}
      BY <1>3, <2>1, AppendFacts
    <2> QED
      BY <1>1, <2>1, <2>2
  <1>5. InCondList' = InCondList \cup {f}
    BY <1>4 DEF InCondList
  <1>6. /\ at'[f] = "cond_wait" /\ \A g \in Fiber : g # f => at'[g] = at[g]
    BY <1>1 DEF Inv, OwedOnce, Engine
  <1>7. /\ wmutex' \in [Fiber -> Mutex \cup {Nil}] /\ wmutex'[f] = m
        /\ \A g \in Fiber : g # f => wmutex'[g] = wmutex[g]
        /\ ret' \in [Fiber -> Result] /\ \A g \in Fiber : g # f => ret'[g] = ret[g]
        /\ interrupter' \in [Fiber -> Cond \cup {Nil}]
        /\ interrupter'[f] # Nil => ~Disabled(f)
        /\ \A g \in Fiber : g # f => interrupter'[g] = interrupter[g]
    BY <1>1, <1>3, InvParts DEF DataOK, Answers, SetInterrupter
  <1>8. DataOK' /\ ListsOK' /\ CountersOK'
    BY <1>1, <1>2, <1>4, <1>7, InvParts DEF DataOK, ListsOK, CountersOK, counters
  <1>9. CondListsAreSound'
    <2>1. \A d \in Cond : NoRepeat(cpending'[d])
      BY <1>4 DEF Inv, CondListsAreSound
    <2>2. \A d \in Cond : \A g \in Members(cpending'[d]) : at'[g] = "cond_wait"
      BY SMTT(30), <1>3, <1>4, <1>6, QueuedFacts
    <2>3. ASSUME NEW d \in Cond, NEW e \in Cond, NEW g \in Fiber,
                 g \in Members(cpending'[d]), g \in Members(cpending'[e])
          PROVE  d = e
      <3>1. CASE g = f
        BY <1>3, <1>4, <2>3, <3>1
      <3>2. CASE g # f
        <4>1. g \in Members(cpending[d]) /\ g \in Members(cpending[e])
          BY <1>4, <2>3, <3>2
        <4> QED
          BY <4>1 DEF Inv, CondListsAreSound
      <3> QED
        BY <3>1, <3>2
    <2> QED
      BY <2>1, <2>2, <2>3 DEF CondListsAreSound
  <1>10. InterrupterIsArmed' /\ AllValid'
    BY <1>1, <1>6, <1>7 DEF Inv, InterrupterIsArmed, AllValid, Disabled, counters
  <1>11. \A k \in Mutex : inside'[k] \subseteq inside[k]
    BY <1>2
  <1>12. WantsInLock' /\ WaitsOutside'
    <2>1. \A g \in Fiber : want[g] \in Mutex \cup {Nil} /\ wmutex[g] \in Mutex \cup {Nil}
      BY InvParts DEF DataOK
    <2>2. WantsInLock'
      BY <1>1, <1>3, <1>6, <1>11, <2>1 DEF Inv, WantsInLock
    <2>3. WaitsOutside'
      <3> SUFFICES ASSUME NEW g \in Fiber
                   PROVE  /\ at'[g] = "cond_wait" => wmutex'[g] # Nil
                          /\ wmutex'[g] # Nil =>
                                /\ at'[g] \in {"cond_wait", "lock", "running"}
                                /\ g \notin inside'[wmutex'[g]]
                                /\ at'[g] = "lock" => want'[g] = wmutex'[g]
                                /\ at'[g] = "running" => ret'[g] \in {"notified", "interrupted"}
        BY DEF WaitsOutside
      <3>1. CASE g = f
        BY <1>2, <1>6, <1>7, <3>1
      <3>2. CASE g # f
        BY <1>1, <1>6, <1>7, <1>11, <2>1, <3>2 DEF Inv, WaitsOutside
      <3> QED
        BY <3>1, <3>2
    <2> QED
      BY <2>2, <2>3
  <1>13. Engine(running', at', strand, Waiting \cup {f}, Suspended, Result)
    <2>1. Engine(running, at, strand, Waiting, Suspended, Result) /\ "cond_wait" \in Suspended
          /\ running[VmOf[f]] = f
      BY <1>1 DEF Inv, OwedOnce, Suspended, Running
    <2>2. Engine([running EXCEPT ![VmOf[f]] = Nil], [at EXCEPT ![f] = "cond_wait"], strand,
                 Waiting \cup {f}, Suspended, Result)
      BY <2>1, EngineSuspend
    <2> QED
      BY <1>1, <2>2
  <1>14. \A w \in Vm : \A e \in Members(strand[w]) :
            /\ at'[e.fiber] = "cond_wait" => e.clear /\ e.val \in {"notified", "interrupted"}
            /\ at'[e.fiber] = "lock" => e.val = "none"
    <2> SUFFICES ASSUME NEW w \in Vm, NEW e \in Members(strand[w])
                 PROVE  /\ at'[e.fiber] = "cond_wait" => e.clear /\ e.val \in {"notified", "interrupted"}
                        /\ at'[e.fiber] = "lock" => e.val = "none"
      OBVIOUS
    <2>1. e.fiber \in Fiber /\ e.fiber # f
      BY <1>3, PostedFacts
    <2> QED
      BY <1>6, <2>1 DEF Inv, PostedIsSound
  <1>15. OwedOnce' /\ PostedIsSound'
    <2>1. CASE strand' = strand /\ InMutexList' = InMutexList
      <3>1. Waiting' = Waiting \cup {f}
        BY <1>5, <2>1 DEF Waiting
      <3> QED
        BY <1>13, <1>14, <2>1, <3>1 DEF OwedOnce, PostedIsSound
    <2>2. ASSUME NEW g \in Fiber, HandsOver(g) PROVE OwedOnce' /\ PostedIsSound'
      <3> DEFINE h == ResumeSkipClear(g)
      <3>1. /\ g \in Waiting /\ g \notin InCondList /\ h.fiber = g /\ h.val = "none" /\ at[g] = "lock"
            /\ h \in ResumeHandler(Fiber, Result)
            /\ \A w \in Vm : \A e \in Members(strand'[w]) : e \in Members(strand[w]) \/ e = h
            /\ strand' = Posted(strand, VmOf[g], h) /\ InMutexList' = InMutexList \ {g}
        BY <2>2, HandOverFacts DEF HandsOver
      <3> HIDE DEF h
      <3>2. g # f /\ at'[g] = "lock"
        BY <1>3, <1>6, <3>1
      <3>3. Waiting' = (Waiting \cup {f}) \ {g}
        BY <1>5, <3>1, <3>2 DEF Waiting
      <3>4. Engine(running', at', Posted(strand, VmOf[g], h), (Waiting \cup {f}) \ {g}, Suspended, Result)
        <4> DEFINE W == Waiting \cup {f}
        <4>1. Engine(running', at', strand, W, Suspended, Result) /\ h.fiber \in W
          BY <1>13, <3>1
        <4> HIDE DEF W
        <4>2. Engine(running', at', Posted(strand, VmOf[g], h), W \ {h.fiber}, Suspended, Result)
          BY <3>1, <4>1, EnginePost
        <4> QED
          BY <3>1, <4>2 DEF W
      <3>5. OwedOnce'
        BY <3>1, <3>3, <3>4 DEF OwedOnce
      <3>6. PostedIsSound'
        BY <1>14, <3>1, <3>2 DEF PostedIsSound
      <3> QED
        BY <3>5, <3>6
    <2> QED
      BY <1>2, <2>1, <2>2
  <1> QED
    BY <1>2, <1>8, <1>9, <1>10, <1>12, <1>15, InvParts, PTL

\* Some fibers leave the queue of a condition variable; they were in no other.
LEMMA Dequeued ==
    ASSUME Inv, NEW c \in Cond, NEW gone, gone \subseteq Members(cpending[c]),
           NEW r \in Seq(Fiber), Members(r) = Members(cpending[c]) \ gone,
           cpending' = [cpending EXCEPT ![c] = r]
    PROVE  \A d \in Cond : \A g : g \in Members(cpending'[d]) <=> g \in Members(cpending[d]) /\ g \notin gone
  <1> SUFFICES ASSUME NEW d \in Cond, NEW g
               PROVE  g \in Members(cpending'[d]) <=> g \in Members(cpending[d]) /\ g \notin gone
    OBVIOUS
  <1>1. cpending'[c] = r /\ (d # c => cpending'[d] = cpending[d])
    BY InvParts DEF ListsOK
  <1>2. CASE d = c
    BY <1>1, <1>2
  <1>3. CASE d # c
    BY <1>1, <1>3, QueuedFacts DEF Inv, CondListsAreSound
  <1> QED
    BY <1>2, <1>3

\* Fibers leave the queue of a condition variable for the strand: notify_one()
\* takes the first, notify_all() all of them and interrupt() one wherever it is.
LEMMA CondListShrinks ==
    ASSUME Inv, NEW c \in Cond, NEW gone, gone \subseteq Members(cpending[c]),
           NEW r \in Seq(Fiber), NoRepeat(r), Members(r) = Members(cpending[c]) \ gone,
           cpending' = [cpending EXCEPT ![c] = r],
           UNCHANGED <<valid, counters, running, at, locked, mpending, want, wmutex, werr, inside>>,
           interrupted' \in [Fiber -> BOOLEAN],
           interrupter' \in [Fiber -> Cond \cup {Nil}],
           \A g \in Fiber : interrupter'[g] # Nil => interrupter[g] # Nil,
           ret' \in [Fiber -> Result], \A g \in Fiber : wmutex[g] # Nil => ret'[g] = ret[g],
           Engine(running, at, strand', Waiting \ gone, Suspended, Result),
           \A w \in Vm : \A h \in Members(strand'[w]) :
              \/ h \in Members(strand[w])
              \/ h.fiber \in gone /\ h.clear /\ h.val \in {"notified", "interrupted"}
    PROVE  Inv'
  <1> USE Names
  <1>1. \A d \in Cond : \A g \in Members(cpending[d]) : g \in Fiber /\ at[g] = "cond_wait"
    BY QueuedFacts
  <1>2. /\ cpending' \in [Cond -> Seq(Fiber)] /\ cpending'[c] = r
        /\ \A d \in Cond : d # c => cpending'[d] = cpending[d]
    BY InvParts DEF ListsOK
  <1>3. \A d \in Cond : \A g : g \in Members(cpending'[d]) <=> g \in Members(cpending[d]) /\ g \notin gone
    BY Dequeued
  <1>4. Waiting' = Waiting \ gone
    <2>1. \A g \in gone : g \notin InMutexList
      BY <1>1, QueuedFacts DEF InMutexList
    <2>2. InMutexList' = InMutexList /\ InCondList' = InCondList \ gone
      BY <1>3 DEF InMutexList, InCondList
    <2> QED
      BY <2>1, <2>2 DEF Waiting
  <1>5. OwedOnce' /\ AllValid'
    BY <1>4 DEF Inv, OwedOnce, AllValid
  <1>6. DataOK' /\ ListsOK' /\ CountersOK'
    BY <1>2, InvParts DEF DataOK, ListsOK, CountersOK, counters
  <1>7. MutexListsAreSound' /\ WantsInLock' /\ OneOwner'
    BY DEF Inv, MutexListsAreSound, WantsInLock, OneOwner, Owners, Handed
  <1>8. CondListsAreSound'
    <2>1. \A d \in Cond : NoRepeat(cpending'[d])
      BY <1>2 DEF Inv, CondListsAreSound
    <2> QED
      BY <1>1, <1>3, <2>1 DEF Inv, CondListsAreSound
  <1>9. WaitsOutside'
    BY DEF Inv, WaitsOutside
  <1>10. InterrupterIsArmed'
    BY DEF Inv, InterrupterIsArmed, Disabled, counters
  <1>11. PostedIsSound'
    BY <1>1 DEF Inv, PostedIsSound
  <1> QED
    BY <1>5, <1>6, <1>7, <1>8, <1>9, <1>10, <1>11, InvParts, PTL

\* One fiber g of the queue of c is posted, with val.
LEMMA WakeOne ==
    ASSUME Inv, NEW c \in Cond, NEW g \in Members(cpending[c]),
           NEW val \in {"notified", "interrupted"}, strand' = Post(VmOf[g], Resume(g, val))
    PROVE  /\ Engine(running, at, strand', Waiting \ {g}, Suspended, Result)
           /\ \A w \in Vm : \A h \in Members(strand'[w]) :
                 h \in Members(strand[w]) \/ (h.fiber = g /\ h.clear /\ h.val = val)
  <1> USE Names
  <1> DEFINE h == Resume(g, val)
  <1>1. g \in Fiber /\ g \in Waiting
    BY QueuedFacts DEF Waiting, InCondList
  <1>2. h \in ResumeHandler(Fiber, Result) /\ h.fiber = g /\ h.clear /\ h.val = val
    BY <1>1, Handlers DEF Result, Resume
  <1>3. strand' = Posted(strand, VmOf[g], h)
    BY DEF Post, Posted
  <1> HIDE DEF h
  <1>4. Engine(running, at, strand, Waiting, Suspended, Result) /\ VmOf[g] \in Vm
        /\ strand \in [Vm -> Seq(ResumeHandler(Fiber, Result))]
    BY <1>1 DEF Inv, OwedOnce, TypeOK
  <1>5. Engine(running, at, Posted(strand, VmOf[g], h), Waiting \ {g}, Suspended, Result)
    BY <1>1, <1>2, <1>4, EnginePost
  <1>6. Adds(Posted(strand, VmOf[g], h), strand, {h})
    BY <1>2, <1>4, PostMembers
  <1> QED
    BY <1>2, <1>3, <1>5, <1>6 DEF Adds

LEMMA NotifyOneStep ==
    ASSUME Inv, NEW f \in Fiber, NEW c \in Cond, NotifyOne(f, c)
    PROVE  Inv'
  <1> USE Names
  <1> DEFINE q == cpending[c]
  <1>1. /\ Calls(f) /\ Return(f, "none") /\ ret' = [ret EXCEPT ![f] = "none"]
        /\ UNCHANGED <<running, at, valid, fiberData, locked, mpending, want, wmutex, werr, inside>>
        /\ DataOK /\ "none" \in Result /\ wmutex[f] = Nil
    BY InvParts DEF NotifyOne, Return, Answers, Calls
  <1>2. CASE q = <<>>
    <2>1. UNCHANGED <<strand, cpending>>
      BY <1>2 DEF NotifyOne
    <2> QED
      BY <1>1, <2>1, ReturnStep DEF syncVars, fiberData, counters, DataOK
  <1>3. CASE q # <<>>
    <2> DEFINE g == Head(q)
               r == Tail(q)
    <2>1. cpending' = [cpending EXCEPT ![c] = r] /\ strand' = Post(VmOf[f], Resume(g, "notified"))
      BY <1>3 DEF NotifyOne
    <2>2. q \in Seq(Fiber) /\ NoRepeat(q)
      BY InvParts DEF ListsOK, CondListsAreSound
    <2>3. g \in Members(q) /\ r \in Seq(Fiber) /\ NoRepeat(r) /\ Members(r) = Members(q) \ {g}
      BY <1>3, <2>2, TailFacts
    <2> HIDE DEF g, r
    <2>4. VmOf[g] = VmOf[f] /\ g \in Members(cpending[c])
      BY <2>3, QueuedFacts
    <2>5. /\ Engine(running, at, strand', Waiting \ {g}, Suspended, Result)
          /\ \A w \in Vm : \A h \in Members(strand'[w]) :
                h \in Members(strand[w]) \/ (h.fiber = g /\ h.clear /\ h.val = "notified")
      BY <2>1, <2>4, WakeOne
    <2>6. /\ interrupted' \in [Fiber -> BOOLEAN] /\ interrupter' \in [Fiber -> Cond \cup {Nil}]
          /\ \A k \in Fiber : interrupter'[k] # Nil => interrupter[k] # Nil
          /\ ret' \in [Fiber -> Result] /\ \A k \in Fiber : wmutex[k] # Nil => ret'[k] = ret[k]
          /\ UNCHANGED <<valid, counters, running, at, locked, mpending, want, wmutex, werr, inside>>
      BY <1>1 DEF DataOK, fiberData, counters
    <2> DEFINE gone == {g}
    <2>7. /\ gone \subseteq Members(cpending[c]) /\ Members(r) = Members(cpending[c]) \ gone
          /\ Engine(running, at, strand', Waiting \ gone, Suspended, Result)
          /\ \A w \in Vm : \A h \in Members(strand'[w]) :
              \/ h \in Members(strand[w])
              \/ h.fiber \in gone /\ h.clear /\ h.val \in {"notified", "interrupted"}
      BY <2>3, <2>4, <2>5
    <2> HIDE DEF gone
    <2> QED
      BY <2>1, <2>3, <2>6, <2>7, CondListShrinks
  <1> QED
    BY <1>2, <1>3

LEMMA NotifyAllStep ==
    ASSUME Inv, NEW f \in Fiber, NEW c \in Cond, NotifyAll(f, c)
    PROVE  Inv'
  <1> USE Names
  <1> DEFINE q == cpending[c]
             H == ResumeHandler(Fiber, Result)
             r == <<>>
  <1>1. /\ wmutex[f] = Nil /\ ret' = [ret EXCEPT ![f] = "none"]
        /\ UNCHANGED <<running, at, valid, fiberData, locked, mpending, want, wmutex, werr, inside>>
        /\ cpending' = [cpending EXCEPT ![c] = r]
        /\ strand' = PostedAll(strand, VmOf[f], q, "notified")
        /\ DataOK /\ "none" \in Result /\ "notified" \in Result
    BY InvParts DEF NotifyAll, Return, Result, Calls, PostedAll
  <1>2. q \in Seq(Fiber) /\ NoRepeat(q) /\ strand \in [Vm -> Seq(H)]
    BY InvParts DEF ListsOK, CondListsAreSound, Inv, TypeOK
  <1>3. Members(q) \subseteq Waiting /\ Members(q) \subseteq Fiber
    BY QueuedFacts DEF Waiting, InCondList
  <1>4. r \in Seq(Fiber) /\ Members(r) = {} /\ NoRepeat(r)
    BY DEF Members, NoRepeat
  <1>5. \A g \in Fiber : Resume(g, "notified") \in H
    BY <1>1, Handlers
  <1> HIDE DEF q, H, r
  <1>6. Engine(running, at, strand', Waiting \ Members(q), Suspended, Result)
    <2>1. Engine(running, at, strand, Waiting, Suspended, Result)
      BY DEF Inv, OwedOnce
    <2>2. \A g \in Members(q) : VmOf[g] = VmOf[f]
      BY <1>3
    <2>3. Engine(running, at, PostedAll(strand, VmOf[f], q, "notified"), Waiting \ Members(q),
                 Suspended, Result)
      BY <1>1, <1>2, <1>3, <2>1, <2>2, EnginePostAll
    <2> QED
      BY <1>1, <2>3
  <1>7. /\ Adds(PostedAll(strand, VmOf[f], q, "notified"), strand, Members(ResumeAll(q, "notified")))
        /\ \A x \in Members(ResumeAll(q, "notified")) : \E g \in Members(q) : x = Resume(g, "notified")
    <2> DEFINE val == "notified"
    <2>1. \A g \in Fiber : Resume(g, val) \in H
      BY <1>5
    <2> HIDE DEF val
    <2>2. /\ Adds(PostedAll(strand, VmOf[f], q, val), strand, Members(ResumeAll(q, val)))
          /\ \A x \in Members(ResumeAll(q, val)) : \E g \in Members(q) : x = Resume(g, val)
      BY <1>2, <2>1, PostAllMembers
    <2> QED
      BY <2>2 DEF val
  <1>8. \A g : Resume(g, "notified").fiber = g /\ Resume(g, "notified").clear
               /\ Resume(g, "notified").val = "notified"
    BY DEF Resume
  <1>9. \A w \in Vm : \A h \in Members(strand'[w]) :
              \/ h \in Members(strand[w])
              \/ h.fiber \in Members(q) /\ h.clear /\ h.val \in {"notified", "interrupted"}
    BY <1>1, <1>7, <1>8 DEF Adds
  <1>10. /\ interrupted' \in [Fiber -> BOOLEAN] /\ interrupter' \in [Fiber -> Cond \cup {Nil}]
         /\ \A k \in Fiber : interrupter'[k] # Nil => interrupter[k] # Nil
         /\ ret' \in [Fiber -> Result] /\ \A k \in Fiber : wmutex[k] # Nil => ret'[k] = ret[k]
         /\ UNCHANGED <<valid, counters, running, at, locked, mpending, want, wmutex, werr, inside>>
    BY <1>1 DEF DataOK, fiberData, counters
  <1> DEFINE gone == Members(q)
  <1>11. /\ gone \subseteq Members(cpending[c]) /\ Members(r) = Members(cpending[c]) \ gone
         /\ Engine(running, at, strand', Waiting \ gone, Suspended, Result)
         /\ \A w \in Vm : \A h \in Members(strand'[w]) :
              \/ h \in Members(strand[w])
              \/ h.fiber \in gone /\ h.clear /\ h.val \in {"notified", "interrupted"}
    BY <1>4, <1>6, <1>9 DEF q
  <1> HIDE DEF gone
  <1>12. cpending' = [cpending EXCEPT ![c] = r] /\ r \in Seq(Fiber) /\ NoRepeat(r)
    BY <1>1, <1>4
  <1> QED
    BY <1>10, <1>11, <1>12, CondListShrinks

\* interrupt() of a fiber in cond:wait(): its place in the queue, if it still
\* has one, is traded for a resume.
LEMMA InterruptStep ==
    ASSUME Inv, NEW f \in Fiber, NEW g \in Fiber, Interrupt(f, g)
    PROVE  Inv'
  <1> USE Names
  <1>0. /\ Calls(f) /\ wmutex[f] = Nil /\ interrupted' = [interrupted EXCEPT ![g] = TRUE]
        /\ running' = running /\ at' = at /\ ret' = [ret EXCEPT ![f] = "none"]
        /\ Return(f, "none") /\ "none" \in Result /\ DataOK
        /\ UNCHANGED <<valid, counters, locked, mpending, want, wmutex, werr, inside>>
    BY InvParts DEF Interrupt, Return, Calls, Answers
  <1>1. /\ interrupted' \in [Fiber -> BOOLEAN]
        /\ ret' \in [Fiber -> Result] /\ \A k \in Fiber : wmutex[k] # Nil => ret'[k] = ret[k]
    BY <1>0 DEF DataOK
  <1>2. CASE ~(g # f /\ interrupter[g] # Nil)
    <2>1. UNCHANGED <<strand, cpending, interrupter>>
      BY <1>2 DEF Interrupt
    <2> QED
      BY <1>0, <1>1, <2>1, ReturnStep DEF syncVars
  <1>3. CASE g # f /\ interrupter[g] # Nil
    <2> DEFINE c == interrupter[g]
    <2>1. /\ CondInterrupter(g, c) /\ interrupter' = [interrupter EXCEPT ![g] = Nil]
          /\ c \in Cond /\ at[g] = "cond_wait"
      BY <1>3, InvParts DEF Interrupt, DataOK, InterrupterIsArmed
    <2> HIDE DEF c
    <2>2. /\ interrupter' \in [Fiber -> Cond \cup {Nil}]
          /\ \A k \in Fiber : interrupter'[k] # Nil => interrupter[k] # Nil
      BY <1>0, <2>1 DEF DataOK
    <2>3. CASE /\ \A i \in DOMAIN cpending[c] : cpending[c][i] # g
               /\ UNCHANGED <<cpending, strand>>
      <3>1. DataOK' /\ ListsOK' /\ CountersOK'
        BY <1>0, <1>1, <2>2, <2>3, InvParts DEF DataOK, ListsOK, CountersOK, counters
      <3>2. OwedOnce' /\ AllValid' /\ PostedIsSound' /\ CondListsAreSound'
        BY <1>0, <2>3 DEF Inv, OwedOnce, Waiting, InMutexList, InCondList, AllValid,
                          PostedIsSound, CondListsAreSound
      <3>3. MutexListsAreSound' /\ WantsInLock' /\ OneOwner'
        BY <1>0 DEF Inv, MutexListsAreSound, WantsInLock, OneOwner, Owners, Handed
      <3>4. WaitsOutside' /\ InterrupterIsArmed'
        BY <1>0, <1>1, <2>2 DEF Inv, WaitsOutside, InterrupterIsArmed, Disabled, counters
      <3> QED
        BY <3>1, <3>2, <3>3, <3>4, InvParts, PTL
    <2>4. ASSUME NEW i \in DOMAIN cpending[c], FoundAt(cpending[c], i, g),
                 cpending' = [cpending EXCEPT ![c] = SeqExt!RemoveAt(@, i)],
                 strand' = Post(VmOf[g], Resume(g, "interrupted"))
          PROVE  Inv'
      <3> DEFINE q == cpending[c]
                 r == SeqExt!RemoveAt(cpending[c], i)
                 gone == {g}
      <3>1. q \in Seq(Fiber) /\ NoRepeat(q)
        BY <2>1, InvParts DEF ListsOK, CondListsAreSound
      <3>2. i \in 1..Len(q) /\ q[i] = g
        BY <2>4, <3>1, QueueFacts DEF FoundAt
      <3>3. r \in Seq(Fiber) /\ Members(r) = Members(q) \ {g} /\ NoRepeat(r)
        BY <3>1, <3>2, RemoveFacts
      <3>4. g \in Members(q)
        BY <3>2 DEF Members
      <3>5. cpending' = [cpending EXCEPT ![c] = r]
        BY <2>4
      <3> HIDE DEF r
      <3>6. /\ Engine(running, at, strand', Waiting \ {g}, Suspended, Result)
            /\ \A w \in Vm : \A h \in Members(strand'[w]) :
                  h \in Members(strand[w]) \/ (h.fiber = g /\ h.clear /\ h.val = "interrupted")
        BY <2>1, <2>4, <3>4, WakeOne
      <3>7. /\ gone \subseteq Members(cpending[c]) /\ Members(r) = Members(cpending[c]) \ gone
            /\ Engine(running, at, strand', Waiting \ gone, Suspended, Result)
            /\ \A w \in Vm : \A h \in Members(strand'[w]) :
                  \/ h \in Members(strand[w])
                  \/ h.fiber \in gone /\ h.clear /\ h.val \in {"notified", "interrupted"}
        BY <3>3, <3>4, <3>6
      <3> HIDE DEF gone, q
      <3>8. UNCHANGED <<valid, counters, running, at, locked, mpending, want, wmutex, werr, inside>>
        BY <1>0
      <3> QED
        BY <1>1, <2>1, <2>2, <3>3, <3>5, <3>7, <3>8, CondListShrinks
    <2> QED
      BY <2>1, <2>3, <2>4 DEF CondInterrupter
  <1> QED
    BY <1>2, <1>3

\* Every step preserves the invariant.
LEMMA InvStep == Inv /\ [Next]_vars => Inv'
  <1> SUFFICES ASSUME Inv, [Next]_vars PROVE Inv'
    OBVIOUS
  <1>1. ASSUME NEW v \in Vm, RunStrand(v) PROVE Inv'
    BY <1>1, LockReturnsStep, OtherReturnsStep DEF RunStrand
  <1>2. ASSUME NEW f \in Fiber, ThisFiber(f) PROVE Inv'
    BY <1>2, NestingStep, YieldStep DEF ThisFiber, Nesting
  <1>3. ASSUME NEW f \in Fiber, End(f) PROVE Inv'
    BY <1>3, EndStep
  <1>4. ASSUME NEW f \in Fiber, Relock(f) PROVE Inv'
    BY <1>4, RelockStep
  <1>5. ASSUME NEW f \in Fiber, NEW g \in Fiber, Spawn(f, g) PROVE Inv'
    BY <1>5, SpawnStep
  <1>6. ASSUME NEW f \in Fiber, NEW g \in Fiber, Interrupt(f, g) PROVE Inv'
    BY <1>6, InterruptStep
  <1>7. ASSUME NEW f \in Fiber, NEW m \in Mutex, MutexCall(f, m) PROVE Inv'
    <2>1. CASE NotLocked(f, m)
      <3>1. interrupted \in [Fiber -> BOOLEAN] /\ "operation_not_permitted" \in Result
        BY InvParts DEF DataOK, Result
      <3> QED
        BY <2>1, <3>1, ReturnStep DEF NotLocked, fiberData, counters
    <2>2. CASE CondWaitRaises(f, m)
      <3>1. interrupted \in [Fiber -> BOOLEAN] /\ SuspendError(f) \in Result
        BY InvParts DEF DataOK, SuspendError, Result
      <3> QED
        BY <2>2, <3>1, ReturnStep DEF CondWaitRaises, fiberData, counters
    <2> QED
      BY <1>7, <2>1, <2>2, MutexLockStep, MutexTryLockStep, MutexUnlockStep DEF MutexCall
  <1>8. ASSUME NEW f \in Fiber, NEW c \in Cond, CondCall(f, c) PROVE Inv'
    BY <1>8, NotifyOneStep, NotifyAllStep, CondWaitStep DEF CondCall
  <1>9. CASE UNCHANGED vars
    <2>1. UNCHANGED <<strand, running, valid, at>> /\ UNCHANGED syncVars /\ UNCHANGED ret
          /\ UNCHANGED <<interruptionDisabled, suspensionDisallowed, interrupted, interrupter>>
      BY <1>9 DEF vars, coreVars, fiberData
    <2>2. DataOK /\ CountersOK'
      BY <2>1, InvParts DEF CountersOK
    <2>3. Engine(running', at', strand', Waiting, Suspended, Result)
      BY <2>1 DEF Inv, OwedOnce
    <2> QED
      BY <2>1, <2>2, <2>3, QuietStep DEF DataOK
  <1> QED
    BY <1>1, <1>2, <1>3, <1>4, <1>5, <1>6, <1>7, <1>8, <1>9 DEF Next

-----------------------------------------------------------------------------
(* The theorems.                                                             *)

\* The invariant holds in every reachable state.
THEOREM Invariance == Spec => []Inv
  BY InvInit, InvStep, PTL DEF Spec

\* Every variable keeps its type.
THEOREM TypeCorrect == Spec => []TypeOK
  <1>1. Inv => TypeOK
    BY DEF Inv
  <1> QED
    BY <1>1, Invariance, PTL

\* Who is on the strand, by index and by handler.
LEMMA WakeUpsFacts ==
    ASSUME Inv, NEW f \in Fiber
    PROVE  /\ Cardinality(WakeUps(f)) = IF f \in Resumed(strand[VmOf[f]]) THEN 1 ELSE 0
           /\ WakeUps(f) # {} <=> f \in Resumed(strand[VmOf[f]])
           /\ at[f] \in Suspended <=> f \in Resumed(strand[VmOf[f]]) \/ f \in Waiting
           /\ ~(f \in Resumed(strand[VmOf[f]]) /\ f \in Waiting)
  <1>1. /\ strand[VmOf[f]] \in Seq(ResumeHandler(Fiber, Result))
        /\ Ledger(running, at, strand, Waiting, Suspended)
    BY Names DEF Inv, OwedOnce, Engine
  <1>2. Cardinality(WakeUps(f)) = IF f \in Resumed(strand[VmOf[f]]) THEN 1 ELSE 0
    BY <1>1, Names, OnceInStrand DEF WakeUps, Ledger
  <1>3. WakeUps(f) # {} <=> f \in Resumed(strand[VmOf[f]])
    <2>1. DOMAIN strand[VmOf[f]] = 1..Len(strand[VmOf[f]])
      BY <1>1, QueueFacts
    <2> QED
      BY <2>1 DEF WakeUps, Resumed
  <1> QED
    BY <1>1, <1>2, <1>3 DEF Ledger

\* However lock(), unlock(), wait(), notify and interrupt() interleave, a fiber
\* suspended in lock() or cond:wait() is in one queue or has one resume posted,
\* never both and never neither, and no running or dead fiber is or has.
THEOREM NoWakeUpLostOrDoubled == Spec => []WakeOnce
  <1>1. Inv => WakeOnce
    <2> SUFFICES ASSUME Inv, NEW f \in Fiber
                 PROVE  Cardinality(WakeUps(f)) + Cardinality(InMutexQueues(f))
                           + Cardinality(InCondQueues(f))
                        = IF at[f] \in Suspended THEN 1 ELSE 0
      BY DEF WakeOnce
    <2>1. /\ mpending \in [Mutex -> Seq(Fiber)] /\ cpending \in [Cond -> Seq(Fiber)]
          /\ \A m \in Mutex : NoRepeat(mpending[m])
          /\ \A c \in Cond : NoRepeat(cpending[c])
      BY InvParts DEF ListsOK, MutexListsAreSound, CondListsAreSound
    <2>2. \A m, k \in Mutex : f \in Members(mpending[m]) /\ f \in Members(mpending[k]) => m = k
      BY QueuedFacts
    <2>3. \A c, d \in Cond : f \in Members(cpending[c]) /\ f \in Members(cpending[d]) => c = d
      BY DEF Inv, CondListsAreSound
    <2>4. Cardinality(InMutexQueues(f)) = IF f \in InMutexList THEN 1 ELSE 0
      BY <2>1, <2>2, OnceInLists DEF InMutexQueues, InMutexList
    <2>5. Cardinality(InCondQueues(f)) = IF f \in InCondList THEN 1 ELSE 0
      BY <2>1, <2>3, OnceInLists DEF InCondQueues, InCondList
    <2>6. ~(f \in InMutexList /\ f \in InCondList)
      BY QueuedFacts DEF InMutexList, InCondList
    <2> QED
      BY <2>4, <2>5, <2>6, WakeUpsFacts DEF Waiting
  <1> QED
    BY <1>1, Invariance, PTL

\* The mutex has at most one owner, inside it or handed it by unlock(), the
\* locked flag says exactly whether it has one, and nobody queues for a free one.
THEOREM OneOwnerAtATime == Spec => []LockedIsOwned
  <1>1. Inv => LockedIsOwned
    <2> SUFFICES ASSUME Inv, NEW m \in Mutex
                 PROVE  /\ locked[m] <=> (inside[m] \cup Granted(m) # {})
                        /\ Cardinality(inside[m] \cup Granted(m)) <= 1
                        /\ mpending[m] # <<>> => locked[m]
      BY DEF LockedIsOwned
    <2>1. ASSUME NEW f \in Fiber PROVE f \in Granted(m) <=> f \in Handed(m)
      <3>1. want[f] = m => at[f] = "lock" /\ "lock" \in Suspended
        BY Names DEF Inv, WantsInLock, Suspended
      <3>2. want[f] = m => (f \in Waiting <=> f \in Members(mpending[m]))
        BY <3>1, QueuedFacts DEF Waiting, InMutexList, InCondList
      <3> QED
        BY <3>1, <3>2, WakeUpsFacts DEF Granted, Handed
    <2>2. inside[m] \cup Granted(m) = Owners(m)
      BY <2>1 DEF Owners, Granted, Handed
    <2>3. Cardinality(Owners(m)) <= 1
      <3>1. CASE Owners(m) = {}
        BY <3>1, FS_EmptySet
      <3>2. CASE Owners(m) # {}
        <4>1. PICK f \in Owners(m) : TRUE
          BY <3>2
        <4>2. Owners(m) = {f}
          BY <4>1 DEF Inv, OneOwner
        <4> QED
          BY <4>2, FS_Singleton
      <3> QED
        BY <3>1, <3>2
    <2>4. mpending[m] # <<>> => locked[m]
      BY InvParts, QueueFacts DEF ListsOK, MutexListsAreSound
    <2> QED
      BY <2>2, <2>3, <2>4 DEF Inv, OneOwner
  <1> QED
    BY <1>1, Invariance, PTL

\* The interrupter of a fiber is gone by the time it leaves the native part of
\* cond:wait(): no interruption reaches the lock() that follows, or a later call.
THEOREM InterrupterEndsWithItsWait == Spec => []InterrupterIsCurrent
  <1>1. Inv => InterrupterIsCurrent
    BY DEF Inv, InterrupterIsArmed, InterrupterIsCurrent
  <1> QED
    BY <1>1, Invariance, PTL

-----------------------------------------------------------------------------
(* The way back from a wait.                                                 *)

\* Where the reason for which f comes back from cond:wait() is kept: in the
\* handler that resumes it, in what the native part returned, or in the
\* wrapper's e while it locks the mutex again.
Reason(f, why) ==
    \/ at[f] = "running" /\ ret[f] = why
    \/ at[f] = "lock" /\ why = IF werr[f] THEN "interrupted" ELSE "notified"
    \/ at[f] = "cond_wait" /\ \E h \in Members(strand[VmOf[f]]) : h.fiber = f /\ h.val = why

\* A fiber on its way back has one reason.
LEMMA ReasonIsKnown ==
    ASSUME Inv, NEW f \in Fiber, wmutex[f] # Nil, f \notin InCondList
    PROVE  \E why \in {"notified", "interrupted"} : Reason(f, why) /\ Why(f) = why
  <1> USE Names
  <1> DEFINE s == strand[VmOf[f]]
  <1>1. s \in Seq(ResumeHandler(Fiber, Result)) /\ DOMAIN s = 1..Len(s) /\ VmOf[f] \in Vm
    BY QueueFacts DEF Inv, TypeOK
  <1>2. at[f] \in {"cond_wait", "lock", "running"}
    BY DEF Inv, WaitsOutside
  <1>3. \A i \in WakeUps(f) : s[i] \in Members(s) /\ s[i].fiber = f
    BY <1>1 DEF WakeUps, Members
  <1>4. CASE at[f] = "running"
    <2>1. ret[f] \in {"notified", "interrupted"} /\ WakeUps(f) = {}
      BY <1>4, WakeUpsFacts DEF Inv, WaitsOutside, Suspended
    <2> QED
      BY <1>4, <2>1 DEF Reason, Why
  <1>5. CASE at[f] = "lock"
    <2>1. \A i \in WakeUps(f) : s[i].val = "none"
      BY <1>1, <1>3, <1>5 DEF Inv, PostedIsSound
    <2> QED
      BY <1>5, <2>1 DEF Reason, Why
  <1>6. CASE at[f] = "cond_wait"
    <2>1. f \notin Waiting /\ "cond_wait" \in Suspended
      BY <1>6, QueuedFacts DEF Waiting, InMutexList, Suspended
    <2>2. f \in Resumed(s) /\ WakeUps(f) # {}
      BY <1>6, <2>1, WakeUpsFacts
    <2>3. PICK i \in WakeUps(f) : TRUE
      BY <2>2
    <2>4. i \in 1..Len(s) /\ s[i] \in Members(s) /\ s[i].fiber = f
      BY <1>1, <1>3 DEF WakeUps
    <2>5. s[i].val \in {"notified", "interrupted"}
      BY <1>1, <1>6, <2>4 DEF Inv, PostedIsSound
    <2>6. \A j \in WakeUps(f) : j = i
      <3>1. ResumesOnce(s)
        BY <1>1 DEF Inv, OwedOnce, Engine, Ledger
      <3> QED
        BY <1>1, <2>4, <3>1 DEF WakeUps, ResumesOnce
    <2>7. Reason(f, s[i].val)
      BY <1>6, <2>4 DEF Reason
    <2>8. Why(f) = s[i].val
      BY <1>6, <2>5, <2>6 DEF Why
    <2> QED
      BY <2>5, <2>7, <2>8
  <1> QED
    BY <1>2, <1>4, <1>5, <1>6

\* And no other.
LEMMA ReasonIsOne ==
    ASSUME Inv, NEW f \in Fiber, NEW x, NEW y, Reason(f, x), Reason(f, y)
    PROVE  x = y
  <1> SUFFICES ASSUME at[f] = "cond_wait",
                      NEW h \in Members(strand[VmOf[f]]), h.fiber = f, h.val = x,
                      NEW k \in Members(strand[VmOf[f]]), k.fiber = f, k.val = y
               PROVE  h = k
    BY DEF Reason
  <1>1. ResumesOnce(strand[VmOf[f]])
    BY Names DEF Inv, OwedOnce, Engine, Ledger
  <1> QED
    BY <1>1 DEF Members, ResumesOnce

\* What phase of the monitor each fiber is in.
Phases ==
    \A f \in Fiber :
        /\ wmutex[f] = Nil /\ at[f] # "lock" => PhaseOf(f) = M!Free
        /\ wmutex[f] = Nil /\ at[f] = "lock" => PhaseOf(f) = M!Entering(want[f])
        /\ \A c \in Cond : f \in Members(cpending[c]) => PhaseOf(f) = M!Waiting(c, wmutex[f])
        /\ wmutex[f] # Nil /\ f \notin InCondList =>
              /\ \E why : Reason(f, why)
              /\ \A why : Reason(f, why) => PhaseOf(f) = M!Back(wmutex[f], why)

\* A fiber has a place in a queue of a condition variable if it is in that queue.
LEMMA CondPlaces ==
    ASSUME Inv, NEW f \in Fiber
    PROVE  /\ f \notin InCondList => InCondQueues(f) = {}
           /\ \A c \in Cond : f \in Members(cpending[c]) =>
                 InCondQueues(f) # {} /\ \A p \in InCondQueues(f) : p[1] = c
  <1>1. cpending \in [Cond -> Seq(Fiber)]
    BY InvParts DEF ListsOK
  <1>2. \A c \in Cond : DOMAIN cpending[c] = 1..Len(cpending[c])
    BY <1>1, QueueFacts
  <1>3. \A p : p \in InCondQueues(f) <=>
            \E c \in Cond : \E i \in 1..Len(cpending[c]) : cpending[c][i] = f /\ p = <<c, i>>
    BY <1>1, <1>2 DEF InCondQueues, Places
  <1>4. f \notin InCondList => InCondQueues(f) = {}
    BY <1>3 DEF InCondList, Members
  <1>5. ASSUME NEW c \in Cond, f \in Members(cpending[c])
        PROVE  InCondQueues(f) # {} /\ \A p \in InCondQueues(f) : p[1] = c
    <2>1. PICK i \in 1..Len(cpending[c]) : cpending[c][i] = f
      BY <1>5 DEF Members
    <2>2. <<c, i>> \in InCondQueues(f)
      BY <1>3, <2>1
    <2>3. ASSUME NEW d \in Cond, NEW j \in 1..Len(cpending[d]), cpending[d][j] = f PROVE d = c
      <3>1. f \in Members(cpending[d])
        BY <2>3 DEF Members
      <3> QED
        BY <1>5, <3>1 DEF Inv, CondListsAreSound
    <2>4. ASSUME NEW p \in InCondQueues(f) PROVE p[1] = c
      <3>1. PICK d \in Cond : \E j \in 1..Len(cpending[d]) : cpending[d][j] = f /\ p = <<d, j>>
        BY <1>3
      <3> QED
        BY <2>3, <3>1
    <2> QED
      BY <2>2, <2>4
  <1> QED
    BY <1>4, <1>5

LEMMA PhasesAreKnown == Inv => Phases
  <1> SUFFICES ASSUME Inv, NEW f \in Fiber
               PROVE  /\ wmutex[f] = Nil /\ at[f] # "lock" => PhaseOf(f) = M!Free
                      /\ wmutex[f] = Nil /\ at[f] = "lock" => PhaseOf(f) = M!Entering(want[f])
                      /\ \A c \in Cond : f \in Members(cpending[c]) =>
                            PhaseOf(f) = M!Waiting(c, wmutex[f])
                      /\ wmutex[f] # Nil /\ f \notin InCondList =>
                            /\ \E why : Reason(f, why)
                            /\ \A why : Reason(f, why) => PhaseOf(f) = M!Back(wmutex[f], why)
    BY DEF Phases
  <1>1. wmutex[f] = Nil /\ at[f] # "lock" => PhaseOf(f) = M!Free
    BY DEF PhaseOf, Phase, M!Free
  <1>2. wmutex[f] = Nil /\ at[f] = "lock" => PhaseOf(f) = M!Entering(want[f])
    BY DEF PhaseOf, Phase, M!Entering
  <1>3. ASSUME NEW c \in Cond, f \in Members(cpending[c])
        PROVE  PhaseOf(f) = M!Waiting(c, wmutex[f])
    <2>1. wmutex[f] # Nil
      BY <1>3, QueuedFacts DEF Inv, WaitsOutside
    <2>2. InCondQueues(f) # {} /\ \A p \in InCondQueues(f) : p[1] = c
      BY <1>3, CondPlaces
    <2>3. (CHOOSE p \in InCondQueues(f) : TRUE)[1] = c
      BY <2>2
    <2> QED
      BY <2>1, <2>2, <2>3 DEF PhaseOf, Phase, M!Waiting
  <1>4. ASSUME wmutex[f] # Nil, f \notin InCondList
        PROVE  /\ \E why : Reason(f, why)
               /\ \A why : Reason(f, why) => PhaseOf(f) = M!Back(wmutex[f], why)
    <2>1. PICK why \in {"notified", "interrupted"} : Reason(f, why) /\ Why(f) = why
      BY <1>4, ReasonIsKnown
    <2>2. \A x : Reason(f, x) => x = why
      BY <2>1, ReasonIsOne
    <2>3. InCondQueues(f) = {}
      BY <1>4, CondPlaces
    <2>4. PhaseOf(f) = M!Back(wmutex[f], why)
      BY <1>4, <2>1, <2>3 DEF PhaseOf, Phase, M!Back
    <2> QED
      BY <2>1, <2>2, <2>4
  <1> QED
    BY <1>1, <1>2, <1>3, <1>4

\* The steps in which cond:wait() ends.
LEMMA WaitEnds ==
    ASSUME Inv, Next, NEW f \in Fiber, wmutex[f] # Nil, wmutex'[f] = Nil
    PROVE  \/ \E v \in Vm : LockReturns(v) /\ f = Head(strand[v]).fiber
           \/ Relock(f) /\ ~locked[wmutex[f]]
  <1>1. wmutex \in [Fiber -> Mutex \cup {Nil}]
    BY InvParts DEF DataOK
  <1>2. wmutex' # wmutex
    OBVIOUS
  <1>3. ASSUME NEW v \in Vm, RunStrand(v) PROVE LockReturns(v) /\ f = Head(strand[v]).fiber
    <2>1. LockReturns(v)
      BY <1>2, <1>3 DEF RunStrand, OtherReturns, syncVars
    <2>2. wmutex' = [wmutex EXCEPT ![Head(strand[v]).fiber] = Nil]
      BY <2>1 DEF LockReturns
    <2> QED
      BY <1>1, <2>1, <2>2
  <1>4. ASSUME NEW g \in Fiber, Relock(g) PROVE Relock(f) /\ ~locked[wmutex[f]]
    <2>1. ~locked[wmutex[g]] /\ wmutex' = [wmutex EXCEPT ![g] = Nil]
      BY <1>2, <1>4 DEF Relock, TakeOrQueue
    <2>2. g = f
      BY <1>1, <2>1
    <2> QED
      BY <1>4, <2>1, <2>2
  <1>5. ASSUME NEW g \in Fiber, NEW m \in Mutex, MutexCall(g, m) PROVE FALSE
    <2>1. wmutex[g] = Nil
      BY <1>5 DEF MutexCall, MutexLock, MutexTryLock, MutexUnlock, NotLocked, CondWaitRaises, Calls
    <2>2. wmutex' = wmutex \/ wmutex' = [wmutex EXCEPT ![g] = Nil]
      BY <1>5 DEF MutexCall, MutexLock, MutexTryLock, MutexUnlock, NotLocked, CondWaitRaises,
                  TakeOrQueue, syncVars
    <2> QED
      BY <1>1, <2>1, <2>2
  <1>6. ASSUME NEW g \in Fiber, NEW c \in Cond, CondCall(g, c) PROVE FALSE
    <2>1. wmutex[g] = Nil
      BY <1>6 DEF CondCall, NotifyOne, NotifyAll, CondWait, Calls
    <2>2. wmutex' = wmutex \/ \E m \in Mutex : wmutex' = [wmutex EXCEPT ![g] = m]
      BY <1>6 DEF CondCall, NotifyOne, NotifyAll, CondWait
    <2> QED
      BY <1>1, <2>1, <2>2
  <1>7. ASSUME NEW g \in Fiber, ThisFiber(g) \/ End(g) PROVE FALSE
    BY <1>2, <1>7 DEF ThisFiber, End, syncVars
  <1>8. ASSUME NEW g \in Fiber, NEW k \in Fiber, Spawn(g, k) \/ Interrupt(g, k) PROVE FALSE
    BY <1>2, <1>8 DEF Spawn, Interrupt, syncVars
  <1> QED
    BY <1>3, <1>4, <1>5, <1>6, <1>7, <1>8 DEF Next

\* cond:wait() ends with its mutex locked by the waiter, and raises if and only
\* if it was interrupted before it was notified: what was posted to the fiber is
\* what it is told, though it may queue for the mutex in between.
THEOREM WaitEndsWithTheMutex == Spec => WaitEndsLocked
  <1> DEFINE Ends == \A f \in Fiber : wmutex[f] # Nil /\ wmutex'[f] = Nil =>
                        f \in inside'[wmutex[f]] /\ ret'[f] = Why(f)
  <1>1. Inv /\ [Next]_vars => [Ends]_vars
    <2> SUFFICES ASSUME Inv, Next, NEW f \in Fiber, wmutex[f] # Nil, wmutex'[f] = Nil
                 PROVE  f \in inside'[wmutex[f]] /\ ret'[f] = Why(f)
      OBVIOUS
    <2>0. DataOK /\ wmutex[f] \in Mutex
      BY InvParts DEF DataOK
    <2>1. ASSUME NEW v \in Vm, LockReturns(v), f = Head(strand[v]).fiber
          PROVE  f \in inside'[wmutex[f]] /\ ret'[f] = Why(f)
      <3>1. at[f] = "lock" /\ want[f] = wmutex[f]
        BY <2>1, LockReturnsFacts
      <3>2. /\ inside' = [inside EXCEPT ![want[f]] = @ \cup {f}]
            /\ ret' = [ret EXCEPT ![f] = IF werr[f] THEN "interrupted" ELSE "notified"]
        BY <2>1 DEF LockReturns, FiberResume
      <3>3. f \notin InCondList
        BY <3>1, QueuedFacts DEF InCondList
      <3>4. Why(f) = IF werr[f] THEN "interrupted" ELSE "notified"
        BY <3>1, <3>3, ReasonIsKnown DEF Reason
      <3> QED
        BY <2>0, <3>1, <3>2, <3>4 DEF DataOK
    <2>2. CASE Relock(f) /\ ~locked[wmutex[f]]
      <3>1. inside' = [inside EXCEPT ![wmutex[f]] = @ \cup {f}] /\ ret' = ret /\ Running(f)
        BY <2>2 DEF Relock, TakeOrQueue
      <3>2. at[f] = "running" /\ f \notin InCondList
        BY <3>1, RunningFacts DEF Waiting
      <3>3. Why(f) = ret[f]
        BY <3>2, ReasonIsKnown DEF Reason
      <3> QED
        BY <2>0, <3>1, <3>3 DEF DataOK
    <2> QED
      BY <2>1, <2>2, WaitEnds
  <1>2. Spec => [][Ends]_vars
    BY <1>1, Invariance, PTL DEF Spec
  <1> QED
    BY <1>2 DEF WaitEndsLocked

-----------------------------------------------------------------------------
(* The queues and the strand implement the monitor.                          *)

\* What a step leaves alone of a fiber in the monitor's calls, and a fiber out of
\* them before and after it.
Untouched(g) ==
    /\ at'[g] = at[g] /\ wmutex'[g] = wmutex[g] /\ want'[g] = want[g] /\ werr'[g] = werr[g]
    /\ wmutex[g] # Nil => ret'[g] = ret[g]
    /\ \A c \in Cond : g \in Members(cpending'[c]) <=> g \in Members(cpending[c])
    /\ \A h \in Members(strand[VmOf[g]]) : h.fiber = g => h \in Members(strand'[VmOf[g]])

StaysFree(g) ==
    wmutex[g] = Nil /\ wmutex'[g] = Nil /\ at[g] # "lock" /\ at'[g] # "lock"

\* Its phase is the same.
LEMMA PhaseKept ==
    ASSUME Phases, Phases', NEW g \in Fiber, Untouched(g) \/ StaysFree(g)
    PROVE  PhaseOf(g)' = PhaseOf(g)
  <1>1. CASE StaysFree(g)
    BY <1>1 DEF Phases, StaysFree
  <1>2. CASE Untouched(g)
    <2>1. CASE wmutex[g] = Nil
      BY <1>2, <2>1 DEF Phases, Untouched
    <2>2. CASE g \in InCondList
      <3>1. PICK c \in Cond : g \in Members(cpending[c])
        BY <2>2 DEF InCondList
      <3>2. g \in Members(cpending'[c])
        BY <1>2, <3>1 DEF Untouched
      <3>3. PhaseOf(g) = M!Waiting(c, wmutex[g])
        BY <3>1 DEF Phases
      <3>4. PhaseOf(g)' = M!Waiting(c, wmutex[g])
        BY <1>2, <3>2 DEF Phases, Untouched
      <3> QED
        BY <3>3, <3>4
    <2>3. CASE wmutex[g] # Nil /\ g \notin InCondList
      <3>1. g \notin InCondList' /\ wmutex'[g] = wmutex[g]
        BY <1>2, <2>3 DEF InCondList, Untouched
      <3>2. PICK why : Reason(g, why)
        BY <2>3 DEF Phases
      <3>3. Reason(g, why)'
        BY <1>2, <2>3, <3>2 DEF Untouched, Reason
      <3>4. PhaseOf(g) = M!Back(wmutex[g], why)
        BY <2>3, <3>2 DEF Phases
      <3>5. PhaseOf(g)' = M!Back(wmutex[g], why)
        BY <2>3, <3>1, <3>3 DEF Phases
      <3> QED
        BY <3>4, <3>5
    <2> QED
      BY <2>1, <2>2, <2>3
  <1> QED
    BY <1>1, <1>2

\* A step that leaves the phase of every fiber alone.
LEMMA MonitorStutters ==
    ASSUME Phases, Phases', UNCHANGED <<inside, interrupted>>,
           \A g \in Fiber : Untouched(g) \/ StaysFree(g)
    PROVE  UNCHANGED M!vars
  <1>1. \A g \in Fiber : PhaseOf(g)' = PhaseOf(g)
    BY PhaseKept
  <1> QED
    BY <1>1 DEF M!vars

\* A step that changes the phase of one fiber at most.
LEMMA OnePhase ==
    ASSUME Phases, Phases', NEW f \in Fiber, NEW p, PhaseOf(f)' = p,
           \A g \in Fiber : g # f => Untouched(g) \/ StaysFree(g)
    PROVE  [g \in Fiber |-> PhaseOf(g)]' = [[g \in Fiber |-> PhaseOf(g)] EXCEPT ![f] = p]
  <1>1. \A g \in Fiber : g # f => PhaseOf(g)' = PhaseOf(g)
    BY PhaseKept
  <1> QED
    BY <1>1

LEMMA QuietMaps ==
    ASSUME Phases, Phases', UNCHANGED <<syncVars, interrupted>>, Keeps(strand', strand, {}),
           \A g \in Fiber : \/ wmutex[g] = Nil /\ at[g] # "lock" /\ at'[g] # "lock"
                            \/ at'[g] = at[g] /\ ret'[g] = ret[g]
    PROVE  UNCHANGED M!vars
  <1>1. UNCHANGED <<locked, mpending, cpending, want, wmutex, werr, inside>>
    BY DEF syncVars
  <1>2. \A g \in Fiber : Untouched(g) \/ StaysFree(g)
    <2> SUFFICES ASSUME NEW g \in Fiber PROVE Untouched(g) \/ StaysFree(g)
      OBVIOUS
    <2>1. VmOf[g] \in Vm
      BY Names
    <2>2. \A h \in Members(strand[VmOf[g]]) : h.fiber = g => h \in Members(strand'[VmOf[g]])
      BY <2>1 DEF Keeps
    <2> QED
      BY <1>1, <2>2 DEF Untouched, StaysFree
  <1> QED
    BY <1>1, <1>2, MonitorStutters

\* A call that changes neither mutexes nor condition variables is no step of
\* the monitor.
LEMMA ReturnMaps ==
    ASSUME Inv, Phases, Phases', NEW f \in Fiber, Calls(f), NEW x, Return(f, x),
           UNCHANGED <<syncVars, interrupted, strand>>
    PROVE  UNCHANGED M!vars
  <1>1. at[f] = "running" /\ wmutex[f] = Nil /\ at' = at
    BY RunningFacts DEF Calls, Return
  <1>2. \A g \in Fiber : g # f => ret'[g] = ret[g]
    BY InvParts DEF Return, DataOK
  <1>3. Keeps(strand', strand, {})
    BY DEF Keeps
  <1> QED
    BY <1>1, <1>2, <1>3, QuietMaps

LEMMA ThisFiberMaps ==
    ASSUME Inv, Phases, Phases', NEW f \in Fiber, ThisFiber(f)
    PROVE  UNCHANGED M!vars
  <1> USE Names
  <1>1. Calls(f) /\ UNCHANGED syncVars /\ at[f] = "running" /\ wmutex[f] = Nil
    BY RunningFacts DEF ThisFiber, Calls
  <1>2. CASE Nesting(f)
    <2>1. /\ UNCHANGED <<strand, at, running, interrupted>>
          /\ \E x : ret' = [ret EXCEPT ![f] = x]
      BY <1>2, NestingIsQuiet
    <2>2. \E x : Return(f, x)
      BY <2>1 DEF Return
    <2> QED
      BY <1>1, <2>1, <2>2, ReturnMaps
  <1>3. CASE Yield(f)
    <2>1. UNCHANGED interrupted /\ \E x : ret' = [ret EXCEPT ![f] = x]
      BY <1>3 DEF Yield, Return, Suspend, fiberData
    <2>2. \/ at' = at /\ strand' = strand
          \/ /\ at' = [at EXCEPT ![f] = "yield"]
             /\ strand' = Posted(strand, VmOf[f], ResumeSkipClear(f))
      BY <1>3 DEF Yield, Return, Suspend, Post, Posted
    <2>3. Keeps(strand', strand, {})
      <3>1. ResumeSkipClear(f) \in ResumeHandler(Fiber, Result) /\ VmOf[f] \in Vm
        BY Handlers
      <3>2. strand \in [Vm -> Seq(ResumeHandler(Fiber, Result))]
        BY DEF Inv, TypeOK
      <3>3. Keeps(Posted(strand, VmOf[f], ResumeSkipClear(f)), strand, {})
        BY <3>1, <3>2, PostKeeps
      <3>4. Keeps(strand, strand, {})
        BY DEF Keeps
      <3> QED
        BY <2>2, <3>3, <3>4
    <2>4. at'[f] # "lock" /\ \A g \in Fiber : g # f => at'[g] = at[g] /\ ret'[g] = ret[g]
      BY <1>1, <2>1, <2>2, InvParts DEF DataOK, OwedOnce, Engine
    <2> QED
      BY <1>1, <2>1, <2>3, <2>4, QuietMaps
  <1> QED
    BY <1>2, <1>3 DEF ThisFiber, Nesting

LEMMA EndMaps ==
    ASSUME Inv, Phases, Phases', NEW f \in Fiber, End(f)
    PROVE  UNCHANGED M!vars
  <1>1. /\ Running(f) /\ wmutex[f] = Nil /\ at' = [at EXCEPT ![f] = "dead"]
        /\ ret' = [ret EXCEPT ![f] = "none"] /\ UNCHANGED <<strand, interrupted, syncVars>>
    BY DEF End, Suspend, Calls, fiberData
  <1>2. at[f] = "running"
    BY <1>1, RunningFacts
  <1>3. at'[f] # "lock" /\ \A g \in Fiber : g # f => at'[g] = at[g] /\ ret'[g] = ret[g]
    BY <1>1, InvParts DEF DataOK, OwedOnce, Engine
  <1>4. Keeps(strand', strand, {})
    BY <1>1 DEF Keeps
  <1> QED
    BY <1>1, <1>2, <1>3, <1>4, QuietMaps

LEMMA SpawnMaps ==
    ASSUME Inv, Phases, Phases', NEW f \in Fiber, NEW g \in Fiber, Spawn(f, g)
    PROVE  UNCHANGED M!vars
  <1> USE Names
  <1>1. /\ Running(f) /\ wmutex[f] = Nil /\ at[g] = "unborn" /\ at' = [at EXCEPT ![g] = "start"]
        /\ ret' = [ret EXCEPT ![f] = "none"]
        /\ UNCHANGED <<interrupted, syncVars>>
        /\ strand' = Posted(strand, VmOf[f], ResumeSkipClear(g))
    BY DEF Spawn, SpawnFiber, Post, Posted, Calls, fiberData
  <1>2. at[f] = "running" /\ f # g /\ wmutex[g] = Nil
    BY <1>1, RunningFacts DEF Inv, WaitsOutside
  <1>3. /\ at'[g] = "start" /\ \A k \in Fiber : k # g => at'[k] = at[k]
        /\ \A k \in Fiber : k # f => ret'[k] = ret[k]
    BY <1>1, InvParts DEF DataOK, OwedOnce, Engine
  <1>4. Keeps(strand', strand, {})
    <2>1. ResumeSkipClear(g) \in ResumeHandler(Fiber, Result) /\ VmOf[f] \in Vm
      BY Handlers
    <2>2. strand \in [Vm -> Seq(ResumeHandler(Fiber, Result))]
      BY DEF Inv, TypeOK
    <2> QED
      BY <1>1, <2>1, <2>2, PostKeeps
  <1> QED
    BY <1>1, <1>2, <1>3, <1>4, QuietMaps

\* A fiber resumed after the native part of cond:wait() takes its reason along.
LEMMA OtherReturnsMaps ==
    ASSUME Inv, Phases, Phases', NEW v \in Vm, OtherReturns(v)
    PROVE  UNCHANGED M!vars
  <1> USE Names
  <1> DEFINE h == Head(strand[v])
             f == h.fiber
  <1>1. /\ StrandReady(v) /\ at[f] # "lock" /\ strand' = Popped(strand, v)
        /\ FiberResume(f, h.clear, h.val)
        /\ UNCHANGED interrupted
        /\ UNCHANGED <<locked, mpending, cpending, want, wmutex, werr, inside>>
        /\ UNCHANGED <<valid, counters>>
    BY DEF OtherReturns, RunResume, Inv, AllValid, Popped, syncVars
  <1>2. /\ h \in Members(strand[v]) /\ f \in Fiber /\ h.val \in Result /\ f \notin Waiting
        /\ VmOf[f] = v /\ at[f] \in Suspended
    BY <1>1, HeadFacts
  <1>3. /\ at'[f] = "running" /\ \A g \in Fiber : g # f => at'[g] = at[g]
        /\ ret'[f] = h.val /\ \A g \in Fiber : g # f => ret'[g] = ret[g]
    BY <1>1, <1>2, ResumeFacts
  <1>4. Keeps(strand', strand, {f})
    <2>1. strand \in [Vm -> Seq(ResumeHandler(Fiber, Result))] /\ strand[v] # <<>>
      BY <1>1 DEF Inv, TypeOK, StrandReady
    <2> QED
      BY <1>1, <2>1, PopKeeps
  <1> HIDE DEF h, f
  <1>5. ASSUME NEW g \in Fiber, g # f PROVE Untouched(g)
    <2>1. \A e \in Members(strand[VmOf[g]]) : e.fiber = g => e \in Members(strand'[VmOf[g]])
      BY <1>4, <1>5 DEF Keeps
    <2> QED
      BY <1>1, <1>3, <1>5, <2>1 DEF Untouched
  <1>6. CASE wmutex[f] = Nil
    <2>1. StaysFree(f)
      BY <1>1, <1>3, <1>6 DEF StaysFree
    <2>2. \A g \in Fiber : Untouched(g) \/ StaysFree(g)
      BY <1>5, <2>1
    <2> QED
      BY <1>1, <2>2, MonitorStutters
  <1>7. CASE wmutex[f] # Nil
    <2>1. at[f] = "cond_wait" /\ f \notin InCondList
      BY <1>1, <1>2, <1>7 DEF Inv, WaitsOutside, Waiting, Suspended
    <2>2. Reason(f, h.val)
      BY <1>2, <2>1 DEF Reason, f
    <2>3. PhaseOf(f) = M!Back(wmutex[f], h.val)
      BY <1>2, <1>7, <2>1, <2>2 DEF Phases
    <2>4. ASSUME NEW k \in Fiber, k = f, NEW why, why = h.val
          PROVE  PhaseOf(k)' = M!Back(wmutex[k], why)
      <3>1. Reason(k, why)'
        BY <1>3, <2>4 DEF Reason
      <3>2. k \notin InCondList' /\ wmutex'[k] = wmutex[k] /\ wmutex[k] # Nil
        BY <1>1, <1>7, <2>1, <2>4 DEF InCondList
      <3> QED
        BY <3>1, <3>2 DEF Phases
    <2>5. \A g \in Fiber : PhaseOf(g)' = PhaseOf(g)
      BY <1>5, <2>3, <2>4, PhaseKept
    <2> QED
      BY <1>1, <2>5 DEF M!vars
  <1> QED
    BY <1>6, <1>7

\* The fibers a step does not name, when the strands lose no handler.
LEMMA OthersUntouched ==
    ASSUME NEW f \in Fiber, Keeps(strand', strand, {}),
           \A g \in Fiber : g # f =>
              /\ at'[g] = at[g] /\ wmutex'[g] = wmutex[g] /\ want'[g] = want[g] /\ werr'[g] = werr[g]
              /\ ret'[g] = ret[g]
              /\ \A c \in Cond : g \in Members(cpending'[c]) <=> g \in Members(cpending[c])
    PROVE  \A g \in Fiber : g # f => Untouched(g)
  <1> SUFFICES ASSUME NEW g \in Fiber, g # f PROVE Untouched(g)
    OBVIOUS
  <1>1. VmOf[g] \in Vm
    BY Names
  <1>2. \A h \in Members(strand[VmOf[g]]) : h.fiber = g => h \in Members(strand'[VmOf[g]])
    BY <1>1 DEF Keeps
  <1> QED
    BY <1>2 DEF Untouched

LEMMA EnterMaps ==
    ASSUME Inv, Phases, Phases', NEW f \in Fiber, NEW m \in Mutex,
           \/ PhaseOf(f) = M!Free
           \/ PhaseOf(f).at \in {"entering", "back"} /\ PhaseOf(f).mutex = m,
           inside[m] = {}, inside' = [inside EXCEPT ![m] = @ \cup {f}], UNCHANGED interrupted,
           wmutex'[f] = Nil, at'[f] # "lock",
           \A g \in Fiber : g # f => Untouched(g)
    PROVE  M!Enter(f, m)
  <1> DEFINE free == M!Free
  <1>1. PhaseOf(f)' = free
    BY DEF Phases
  <1> HIDE DEF free
  <1>2. [g \in Fiber |-> PhaseOf(g)]' = [[g \in Fiber |-> PhaseOf(g)] EXCEPT ![f] = free]
    BY <1>1, OnePhase
  <1>3. inside' = [inside EXCEPT ![m] = {f}]
    BY InvParts DEF DataOK
  <1> QED
    BY <1>2, <1>3 DEF M!Enter, free

LEMMA LockReturnsMaps ==
    ASSUME Inv, Phases, Phases', NEW v \in Vm, LockReturns(v)
    PROVE  \E f \in Fiber, m \in Mutex : M!Enter(f, m)
  <1> USE Names
  <1> DEFINE h == Head(strand[v])
             f == h.fiber
             m == want[f]
             x == IF wmutex[f] = Nil THEN "ok"
                  ELSE IF werr[f] THEN "interrupted" ELSE "notified"
  <1>1. /\ StrandReady(v) /\ strand' = Popped(strand, v) /\ FiberResume(f, h.clear, x)
        /\ inside' = [inside EXCEPT ![m] = @ \cup {f}]
        /\ want' = [want EXCEPT ![f] = Nil] /\ wmutex' = [wmutex EXCEPT ![f] = Nil]
        /\ werr' = [werr EXCEPT ![f] = FALSE]
        /\ UNCHANGED <<valid, counters, interrupted, locked, mpending, cpending>>
        /\ UNCHANGED interrupted
    BY DEF LockReturns, Popped
  <1>2. /\ f \in Fiber /\ at[f] = "lock" /\ m \in Mutex /\ inside[m] = {}
        /\ wmutex[f] # Nil => m = wmutex[f]
    BY LockReturnsFacts
  <1>3. x \in Result
    BY DEF Result
  <1> HIDE DEF x
  <1>4. /\ at'[f] = "running" /\ \A g \in Fiber : g # f => at'[g] = at[g]
        /\ \A g \in Fiber : g # f => ret'[g] = ret[g]
    BY <1>1, <1>2, <1>3, ResumeFacts
  <1>5. Keeps(strand', strand, {f})
    <2>1. strand \in [Vm -> Seq(ResumeHandler(Fiber, Result))] /\ strand[v] # <<>>
      BY <1>1 DEF Inv, TypeOK, StrandReady
    <2> QED
      BY <1>1, <2>1, PopKeeps
  <1> HIDE DEF h, f
  <1>6. PhaseOf(f).at \in {"entering", "back"} /\ PhaseOf(f).mutex = m
    <2>1. CASE wmutex[f] = Nil
      <3>1. PhaseOf(f) = M!Entering(m)
        BY <1>2, <2>1 DEF Phases
      <3> QED
        BY <3>1 DEF M!Entering
    <2>2. CASE wmutex[f] # Nil
      <3>1. f \notin InCondList
        BY <1>2, QueuedFacts DEF InCondList
      <3>2. \E why : PhaseOf(f) = M!Back(m, why)
        BY <1>2, <2>2, <3>1 DEF Phases
      <3> QED
        BY <3>2 DEF M!Back
    <2> QED
      BY <2>1, <2>2
  <1> HIDE DEF m
  <1>7. /\ wmutex'[f] = Nil
        /\ \A g \in Fiber : g # f => wmutex'[g] = wmutex[g] /\ want'[g] = want[g] /\ werr'[g] = werr[g]
    BY <1>1, <1>2, InvParts DEF DataOK
  <1>8. ASSUME NEW g \in Fiber, g # f PROVE Untouched(g)
    <2>1. \A e \in Members(strand[VmOf[g]]) : e.fiber = g => e \in Members(strand'[VmOf[g]])
      BY <1>5, <1>8 DEF Keeps
    <2> QED
      BY <1>1, <1>4, <1>7, <1>8, <2>1 DEF Untouched
  <1>9. PICK fc \in Fiber, mc \in Mutex : fc = f /\ mc = m
    BY <1>2
  <1>10. M!Enter(fc, mc)
    <2>1. /\ PhaseOf(fc).at \in {"entering", "back"} /\ PhaseOf(fc).mutex = mc
          /\ inside[mc] = {} /\ inside' = [inside EXCEPT ![mc] = @ \cup {fc}] /\ UNCHANGED interrupted
          /\ wmutex'[fc] = Nil /\ at'[fc] # "lock"
          /\ \A g \in Fiber : g # fc => Untouched(g)
      BY <1>1, <1>2, <1>4, <1>6, <1>7, <1>8, <1>9
    <2> QED
      BY <2>1, EnterMaps
  <1> QED
    BY <1>10

\* Taking a free mutex, from user code or at the end of a wait, enters the monitor.
LEMMA TakeMaps ==
    ASSUME Inv, Phases, Phases', NEW f \in Fiber, Running(f), NEW m \in Mutex, ~locked[m],
           wmutex[f] \in {Nil, m},
           inside' = [inside EXCEPT ![m] = @ \cup {f}],
           wmutex'[f] = Nil, \A g \in Fiber : g # f => wmutex'[g] = wmutex[g],
           \A g \in Fiber : g # f => ret'[g] = ret[g],
           UNCHANGED <<strand, at, interrupted, cpending, want, werr>>
    PROVE  M!Enter(f, m)
  <1> USE Names
  <1>1. at[f] = "running" /\ f \notin InCondList
    BY RunningFacts DEF Waiting
  <1>2. inside[m] = {}
    BY DEF Inv, OneOwner, Owners
  <1>3. \/ PhaseOf(f) = M!Free
        \/ PhaseOf(f).at \in {"entering", "back"} /\ PhaseOf(f).mutex = m
    <2>1. CASE wmutex[f] = Nil
      BY <1>1, <2>1 DEF Phases
    <2>2. CASE wmutex[f] # Nil
      <3>1. \E why : PhaseOf(f) = M!Back(m, why)
        BY <1>1, <2>2 DEF Phases
      <3> QED
        BY <3>1 DEF M!Back
    <2> QED
      BY <2>1, <2>2
  <1>4. Keeps(strand', strand, {})
    BY DEF Keeps
  <1>5. \A g \in Fiber : g # f => Untouched(g)
    BY <1>4, OthersUntouched
  <1> QED
    BY <1>1, <1>2, <1>3, <1>5, EnterMaps

LEMMA MutexLockMaps ==
    ASSUME Inv, Phases, Phases', NEW f \in Fiber, NEW m \in Mutex, MutexLock(f, m)
    PROVE  M!Enter(f, m) \/ M!Block(f, m) \/ UNCHANGED M!vars
  <1> USE Names
  <1>1. /\ Running(f) /\ wmutex[f] = Nil /\ Calls(f)
        /\ UNCHANGED <<strand, interrupted, cpending, werr>>
        /\ DataOK /\ at[f] = "running"
    BY InvParts, RunningFacts DEF MutexLock, Calls, fiberData
  <1>2. CASE ~CanSuspend2(f)
    <2>1. /\ Return(f, "forbid_suspend_block")
          /\ UNCHANGED <<syncVars, interrupted, strand>>
      BY <1>1, <1>2 DEF MutexLock, syncVars
    <2> QED
      BY <1>1, <2>1, ReturnMaps
  <1>3. CASE CanSuspend2(f) /\ ~locked[m]
    <2>1. /\ inside' = [inside EXCEPT ![m] = @ \cup {f}]
          /\ wmutex' = [wmutex EXCEPT ![f] = Nil] /\ ret' = [ret EXCEPT ![f] = "ok"]
          /\ UNCHANGED <<want, at>>
      BY <1>3 DEF MutexLock, TakeOrQueue, Return
    <2>2. /\ wmutex'[f] = Nil /\ \A g \in Fiber : g # f => wmutex'[g] = wmutex[g]
          /\ \A g \in Fiber : g # f => ret'[g] = ret[g]
      BY <1>1, <2>1 DEF DataOK
    <2> QED
      BY <1>1, <1>3, <2>1, <2>2, TakeMaps
  <1>4. CASE CanSuspend2(f) /\ locked[m]
    <2>1. /\ want' = [want EXCEPT ![f] = m] /\ at' = [at EXCEPT ![f] = "lock"]
          /\ ret' = [ret EXCEPT ![f] = "none"] /\ UNCHANGED <<inside, wmutex>>
      BY <1>4 DEF MutexLock, TakeOrQueue, Suspend
    <2>2. /\ want'[f] = m /\ at'[f] = "lock"
          /\ \A g \in Fiber : g # f => at'[g] = at[g] /\ want'[g] = want[g] /\ ret'[g] = ret[g]
      BY <2>1, InvParts DEF DataOK, OwedOnce, Engine
    <2>3. Keeps(strand', strand, {})
      BY <1>1 DEF Keeps
    <2>4. \A g \in Fiber : g # f => Untouched(g)
      BY <1>1, <2>1, <2>2, <2>3, OthersUntouched
    <2>5. PhaseOf(f) = M!Free
      BY <1>1 DEF Phases
    <2> DEFINE p == M!Entering(m)
    <2>6. PhaseOf(f)' = p
      BY <1>1, <2>1, <2>2 DEF Phases
    <2> HIDE DEF p
    <2>7. [g \in Fiber |-> PhaseOf(g)]' = [[g \in Fiber |-> PhaseOf(g)] EXCEPT ![f] = p]
      BY <2>4, <2>6, OnePhase
    <2>8. M!Block(f, m)
      BY <1>1, <2>1, <2>5, <2>7 DEF M!Block, p
    <2> QED
      BY <2>8
  <1> QED
    BY <1>2, <1>3, <1>4

LEMMA MutexTryLockMaps ==
    ASSUME Inv, Phases, Phases', NEW f \in Fiber, NEW m \in Mutex, MutexTryLock(f, m)
    PROVE  M!Enter(f, m) \/ UNCHANGED M!vars
  <1>1. /\ Running(f) /\ wmutex[f] = Nil /\ Calls(f)
        /\ UNCHANGED <<strand, interrupted, mpending, cpending, want, wmutex, werr>>
        /\ DataOK
    BY InvParts DEF MutexTryLock, Calls, fiberData
  <1>2. CASE locked[m]
    <2>1. Return(f, "busy") /\ UNCHANGED <<syncVars, interrupted, strand>>
      BY <1>1, <1>2 DEF MutexTryLock, syncVars
    <2> QED
      BY <1>1, <2>1, ReturnMaps
  <1>3. CASE ~locked[m]
    <2>1. /\ inside' = [inside EXCEPT ![m] = @ \cup {f}]
          /\ ret' = [ret EXCEPT ![f] = "ok"] /\ UNCHANGED at
      BY <1>3 DEF MutexTryLock, Return
    <2>2. \A g \in Fiber : g # f => ret'[g] = ret[g]
      BY <1>1, <2>1 DEF DataOK
    <2> QED
      BY <1>1, <1>3, <2>1, <2>2, TakeMaps
  <1> QED
    BY <1>2, <1>3

\* A fiber that queues for the mutex at the end of its wait keeps its reason.
LEMMA RelockMaps ==
    ASSUME Inv, Phases, Phases', NEW f \in Fiber, Relock(f)
    PROVE  (\E m \in Mutex : M!Enter(f, m)) \/ UNCHANGED M!vars
  <1> USE Names
  <1>1. PICK m \in Mutex : m = wmutex[f]
    BY InvParts DEF Relock, DataOK
  <1>2. /\ Running(f) /\ wmutex[f] # Nil /\ DataOK
        /\ UNCHANGED <<strand, interrupted, cpending>>
    BY InvParts DEF Relock, fiberData
  <1>3. at[f] = "running" /\ f \notin InCondList
    BY <1>2, RunningFacts DEF Waiting
  <1>4. CASE ~locked[m]
    <2>1. /\ inside' = [inside EXCEPT ![m] = @ \cup {f}]
          /\ wmutex' = [wmutex EXCEPT ![f] = Nil] /\ ret' = ret
          /\ UNCHANGED <<want, at, werr>>
      BY <1>1, <1>4 DEF Relock, TakeOrQueue
    <2>2. /\ wmutex'[f] = Nil /\ \A g \in Fiber : g # f => wmutex'[g] = wmutex[g]
          /\ \A g \in Fiber : g # f => ret'[g] = ret[g]
      BY <1>2, <2>1 DEF DataOK
    <2>3. M!Enter(f, m)
      BY <1>1, <1>2, <1>4, <2>1, <2>2, TakeMaps
    <2> QED
      BY <2>3
  <1>5. CASE locked[m]
    <2>1. /\ want' = [want EXCEPT ![f] = m] /\ at' = [at EXCEPT ![f] = "lock"]
          /\ ret' = [ret EXCEPT ![f] = "none"] /\ UNCHANGED <<inside, wmutex>>
          /\ werr' = [werr EXCEPT ![f] = ret[f] = "interrupted"]
      BY <1>1, <1>5 DEF Relock, TakeOrQueue, Suspend
    <2>2. /\ at'[f] = "lock" /\ werr'[f] = (ret[f] = "interrupted")
          /\ \A g \in Fiber : g # f => /\ at'[g] = at[g] /\ want'[g] = want[g] /\ ret'[g] = ret[g]
                                       /\ werr'[g] = werr[g]
      BY <2>1, InvParts DEF DataOK, OwedOnce, Engine
    <2>3. Keeps(strand', strand, {})
      BY <1>2 DEF Keeps
    <2>4. \A g \in Fiber : g # f => Untouched(g)
      BY <1>2, <2>1, <2>2, <2>3, OthersUntouched
    <2>5. PICK why \in {"notified", "interrupted"} : ret[f] = why
      BY <1>2, <1>3 DEF Inv, WaitsOutside
    <2>6. Reason(f, why)
      BY <1>3, <2>5 DEF Reason
    <2>7. Reason(f, why)'
      BY <2>2, <2>5 DEF Reason
    <2>8. f \notin InCondList'
      BY <1>2, <1>3 DEF InCondList
    <2>9. PhaseOf(f)' = PhaseOf(f)
      BY <1>2, <1>3, <2>1, <2>6, <2>7, <2>8 DEF Phases
    <2>10. \A g \in Fiber : PhaseOf(g)' = PhaseOf(g)
      BY <2>4, <2>9, PhaseKept
    <2> QED
      BY <1>2, <2>1, <2>10 DEF M!vars
  <1> QED
    BY <1>4, <1>5

\* unlock() takes no handler off a strand.
LEMMA UnlockKeeps ==
    ASSUME Inv, NEW f \in Fiber, NEW m \in Mutex, f \in inside[m], Unlock(f, m), UNCHANGED want
    PROVE  Keeps(strand', strand, {})
  <1> USE Names
  <1>1. strand' = strand \/ \E g \in Fiber : HandsOver(g)
    BY UnlockFacts
  <1>2. ASSUME NEW g \in Fiber, HandsOver(g) PROVE Keeps(strand', strand, {})
    <2>1. /\ ResumeSkipClear(g) \in ResumeHandler(Fiber, Result) /\ VmOf[g] \in Vm
          /\ strand' = Posted(strand, VmOf[g], ResumeSkipClear(g))
      BY <1>2, HandOverFacts DEF HandsOver
    <2>2. strand \in [Vm -> Seq(ResumeHandler(Fiber, Result))]
      BY DEF Inv, TypeOK
    <2> QED
      BY <2>1, <2>2, PostKeeps
  <1>3. Keeps(strand, strand, {})
    BY DEF Keeps
  <1> QED
    BY <1>1, <1>2, <1>3

LEMMA MutexUnlockMaps ==
    ASSUME Inv, Phases, Phases', NEW f \in Fiber, NEW m \in Mutex, MutexUnlock(f, m)
    PROVE  M!Leave(f, m)
  <1>1. /\ Running(f) /\ wmutex[f] = Nil /\ f \in inside[m] /\ Unlock(f, m)
        /\ ret' = [ret EXCEPT ![f] = "none"]
        /\ inside' = [inside EXCEPT ![m] = @ \ {f}]
        /\ UNCHANGED <<at, interrupted, cpending, want, wmutex, werr>>
    BY DEF MutexUnlock, Unlock, Calls, Return, fiberData
  <1>2. inside[m] = {f} /\ at[f] = "running"
    BY <1>1, UnlockFacts, RunningFacts
  <1>3. inside' = [inside EXCEPT ![m] = {}]
    BY <1>1, <1>2, InvParts DEF DataOK
  <1>4. \A g \in Fiber : g # f => ret'[g] = ret[g]
    BY <1>1, InvParts DEF DataOK
  <1>5. \A g \in Fiber : g # f => Untouched(g)
    BY <1>1, <1>4, UnlockKeeps, OthersUntouched
  <1>6. StaysFree(f) /\ PhaseOf(f) = M!Free
    BY <1>1, <1>2 DEF StaysFree, Phases
  <1>7. \A g \in Fiber : PhaseOf(g)' = PhaseOf(g)
    BY <1>5, <1>6, PhaseKept
  <1> QED
    BY <1>1, <1>2, <1>3, <1>6, <1>7 DEF M!Leave

LEMMA CondWaitMaps ==
    ASSUME Inv, Phases, Phases', NEW f \in Fiber, NEW c \in Cond, NEW m \in Mutex, CondWait(f, c, m)
    PROVE  M!Wait(f, c, m)
  <1> USE Names
  <1>1. /\ Running(f) /\ wmutex[f] = Nil /\ f \in inside[m] /\ Unlock(f, m)
        /\ cpending' = [cpending EXCEPT ![c] = Append(@, f)]
        /\ wmutex' = [wmutex EXCEPT ![f] = m]
        /\ at' = [at EXCEPT ![f] = "cond_wait"]
        /\ ret' = [ret EXCEPT ![f] = "none"]
        /\ inside' = [inside EXCEPT ![m] = @ \ {f}]
        /\ UNCHANGED <<interrupted, want, werr>>
    BY DEF CondWait, Unlock, Calls, Suspend
  <1>2. inside[m] = {f} /\ at[f] = "running"
    BY <1>1, UnlockFacts, RunningFacts
  <1>3. inside' = [inside EXCEPT ![m] = {}]
    BY <1>1, <1>2, InvParts DEF DataOK
  <1>4. /\ Members(cpending'[c]) = Members(cpending[c]) \cup {f}
        /\ \A d \in Cond : d # c => cpending'[d] = cpending[d]
    <2>1. cpending[c] \in Seq(Fiber) /\ cpending \in [Cond -> Seq(Fiber)]
      BY InvParts DEF ListsOK
    <2>2. Members(Append(cpending[c], f)) = Members(cpending[c]) \cup {f}
      BY <2>1, AppendFacts
    <2> QED
      BY <1>1, <2>1, <2>2
  <1>5. /\ wmutex'[f] = m
        /\ \A g \in Fiber : g # f => ret'[g] = ret[g] /\ wmutex'[g] = wmutex[g] /\ at'[g] = at[g]
    BY <1>1, InvParts DEF DataOK, OwedOnce, Engine
  <1>6. \A g \in Fiber : g # f =>
           \A d \in Cond : g \in Members(cpending'[d]) <=> g \in Members(cpending[d])
    BY <1>4
  <1>7. \A g \in Fiber : g # f => Untouched(g)
    BY <1>1, <1>5, <1>6, UnlockKeeps, OthersUntouched
  <1>8. PhaseOf(f) = M!Free
    BY <1>1, <1>2 DEF Phases
  <1> DEFINE p == M!Waiting(c, m)
  <1>9. PhaseOf(f)' = p
    BY <1>4, <1>5 DEF Phases
  <1> HIDE DEF p
  <1>10. [g \in Fiber |-> PhaseOf(g)]' = [[g \in Fiber |-> PhaseOf(g)] EXCEPT ![f] = p]
    BY <1>7, <1>9, OnePhase
  <1> QED
    BY <1>1, <1>2, <1>3, <1>8, <1>10 DEF M!Wait, p

\* A fiber taken out of the queue of c with val posted is on its way back.
LEMMA WokenIsBack ==
    ASSUME Inv, Phases, Phases', NEW c \in Cond, NEW g \in Members(cpending[c]), NEW val,
           UNCHANGED <<at, wmutex>>, \A d \in Cond : g \notin Members(cpending'[d]),
           Resume(g, val) \in Members(strand'[VmOf[g]])
    PROVE  /\ g \in Fiber /\ PhaseOf(g) = M!Waiting(c, wmutex[g])
           /\ PhaseOf(g)' = M!Back(wmutex[g], val)
  <1>1. g \in Fiber /\ at[g] = "cond_wait" /\ wmutex[g] # Nil
    BY QueuedFacts DEF Inv, WaitsOutside
  <1>2. PhaseOf(g) = M!Waiting(c, wmutex[g])
    BY <1>1 DEF Phases
  <1>3. Resume(g, val).fiber = g /\ Resume(g, val).val = val
    BY DEF Resume
  <1>4. g \notin InCondList'
    BY DEF InCondList
  <1>5. PICK k \in Fiber : k = g
    BY <1>1
  <1>6. Reason(k, val)'
    BY <1>1, <1>3, <1>5 DEF Reason
  <1>7. PhaseOf(k)' = M!Back(wmutex[k], val)
    BY <1>1, <1>4, <1>5, <1>6 DEF Phases
  <1> QED
    BY <1>1, <1>2, <1>5, <1>7

\* Only the fibers in the queue of c wait on c.
LEMMA WaitersAreQueued ==
    ASSUME Inv, Phases, NEW c \in Cond
    PROVE  M!Waiters(c) = Members(cpending[c])
  <1>1. ASSUME NEW g \in Members(cpending[c]) PROVE g \in M!Waiters(c)
    <2>1. g \in Fiber /\ PhaseOf(g) = M!Waiting(c, wmutex[g])
      BY QueuedFacts DEF Phases
    <2> QED
      BY <2>1 DEF M!Waiters, M!Waiting
  <1>2. ASSUME NEW g \in Fiber, PhaseOf(g).at = "waiting", PhaseOf(g).cond = c
        PROVE  g \in Members(cpending[c])
    <2>1. wmutex[g] # Nil
      BY <1>2 DEF Phases, M!Free, M!Entering
    <2>2. g \in InCondList
      BY <1>2, <2>1 DEF Phases, M!Back
    <2>3. PICK d \in Cond : g \in Members(cpending[d])
      BY <2>2 DEF InCondList
    <2>4. PhaseOf(g) = M!Waiting(d, wmutex[g])
      BY <2>3 DEF Phases
    <2>5. d = c
      BY <1>2, <2>4 DEF M!Waiting
    <2> QED
      BY <2>3, <2>5
  <1> QED
    BY <1>1, <1>2 DEF M!Waiters

\* notify, of one fiber or of all of them.
LEMMA NotifyMaps ==
    ASSUME Inv, Phases, Phases', NEW f \in Fiber, Calls(f), NEW c \in Cond, NEW gone,
           gone \subseteq Members(cpending[c]), gone # {},
           gone = Members(cpending[c]) \/ \E g \in gone : gone = {g},
           \A d \in Cond : \A g : g \in Members(cpending'[d]) <=> g \in Members(cpending[d]) /\ g \notin gone,
           \A g \in gone : Resume(g, "notified") \in Members(strand'[VmOf[g]]),
           Keeps(strand', strand, {}), Return(f, "none"),
           UNCHANGED <<interrupted, inside, want, wmutex, werr>>
    PROVE  M!Notify(c)
  <1> USE Names
  <1>1. at[f] = "running" /\ wmutex[f] = Nil /\ at' = at
    BY RunningFacts DEF Calls, Return
  <1>2. ASSUME NEW g \in gone
        PROVE  /\ g \in Fiber /\ PhaseOf(g) = M!Waiting(c, wmutex[g])
               /\ PhaseOf(g)' = M!Back(wmutex[g], "notified")
    <2> DEFINE val == "notified"
    <2>1. /\ g \in Members(cpending[c]) /\ \A d \in Cond : g \notin Members(cpending'[d])
          /\ Resume(g, val) \in Members(strand'[VmOf[g]]) /\ UNCHANGED <<at, wmutex>>
      BY <1>1
    <2> HIDE DEF val
    <2>2. /\ g \in Fiber /\ PhaseOf(g) = M!Waiting(c, wmutex[g])
          /\ PhaseOf(g)' = M!Back(wmutex[g], val)
      BY <2>1, WokenIsBack
    <2> QED
      BY <2>2 DEF val
  <1>3. \A g \in gone : PhaseOf(g).mutex = wmutex[g]
    BY <1>2 DEF M!Waiting
  <1>4. ASSUME NEW g \in Fiber, g \notin gone PROVE PhaseOf(g)' = PhaseOf(g)
    <2>1. CASE g = f
      <3>1. StaysFree(g)
        BY <1>1, <2>1 DEF StaysFree
      <3> QED
        BY <3>1, PhaseKept
    <2>2. CASE g # f
      <3>1. ret'[g] = ret[g]
        BY <2>2, InvParts DEF DataOK, Return
      <3>2. VmOf[g] \in Vm
        OBVIOUS
      <3>3. \A h \in Members(strand[VmOf[g]]) : h.fiber = g => h \in Members(strand'[VmOf[g]])
        BY <3>2 DEF Keeps
      <3>4. \A d \in Cond : g \in Members(cpending'[d]) <=> g \in Members(cpending[d])
        BY <1>4
      <3>5. Untouched(g)
        BY <1>1, <3>1, <3>3, <3>4 DEF Untouched
      <3> QED
        BY <3>5, PhaseKept
    <2> QED
      BY <2>1, <2>2
  <1>5. \A g \in Fiber : PhaseOf(g)' = IF g \in gone THEN M!Back(PhaseOf(g).mutex, "notified") ELSE PhaseOf(g)
    BY <1>2, <1>3, <1>4
  <1>6. gone \in (SUBSET M!Waiters(c)) \ {{}} /\ \E g \in gone : gone = {g} \/ gone = M!Waiters(c)
    BY WaitersAreQueued
  <1>7. [g \in Fiber |-> PhaseOf(g)]' =
           [g \in Fiber |-> IF g \in gone THEN M!Back([k \in Fiber |-> PhaseOf(k)][g].mutex, "notified")
                            ELSE [k \in Fiber |-> PhaseOf(k)][g]]
    BY <1>5
  <1> QED
    BY <1>6, <1>7 DEF M!Notify

LEMMA NotifyOneMaps ==
    ASSUME Inv, Phases, Phases', NEW f \in Fiber, NEW c \in Cond, NotifyOne(f, c)
    PROVE  M!Notify(c) \/ UNCHANGED M!vars
  <1> USE Names
  <1> DEFINE q == cpending[c]
  <1>1. /\ Calls(f) /\ Return(f, "none")
        /\ UNCHANGED <<interrupted, inside, locked, mpending, want, wmutex, werr>>
    BY DEF NotifyOne, fiberData
  <1>2. CASE q = <<>>
    <2>1. UNCHANGED <<syncVars, interrupted, strand>>
      BY <1>1, <1>2 DEF NotifyOne, syncVars
    <2> QED
      BY <1>1, <2>1, ReturnMaps
  <1>3. CASE q # <<>>
    <2> DEFINE g == Head(q)
               r == Tail(q)
               h == Resume(g, "notified")
    <2>1. cpending' = [cpending EXCEPT ![c] = r] /\ strand' = Posted(strand, VmOf[f], h)
      BY <1>3 DEF NotifyOne, Post, Posted
    <2>2. q \in Seq(Fiber) /\ NoRepeat(q)
      BY InvParts DEF ListsOK, CondListsAreSound
    <2>3. g \in Members(q) /\ r \in Seq(Fiber) /\ Members(r) = Members(q) \ {g}
      BY <1>3, <2>2, TailFacts
    <2> HIDE DEF g, r
    <2>4. g \in Fiber /\ VmOf[g] = VmOf[f] /\ VmOf[f] \in Vm
      BY <2>3, QueuedFacts
    <2>5. h \in ResumeHandler(Fiber, Result)
      BY <2>4, Handlers DEF Result
    <2>6. strand \in [Vm -> Seq(ResumeHandler(Fiber, Result))]
      BY DEF Inv, TypeOK
    <2> HIDE DEF h
    <2>7. Keeps(strand', strand, {}) /\ h \in Members(strand'[VmOf[g]])
      BY <2>1, <2>4, <2>5, <2>6, PostKeeps
    <2> DEFINE gone == {g}
    <2>8. /\ gone \subseteq Members(cpending[c]) /\ gone # {} /\ \E k \in gone : gone = {k}
          /\ Members(r) = Members(cpending[c]) \ gone
      BY <2>3
    <2>9. \A k \in gone : Resume(k, "notified") \in Members(strand'[VmOf[k]])
      BY <2>7 DEF h
    <2> HIDE DEF gone
    <2>10. \A d \in Cond : \A k : k \in Members(cpending'[d]) <=> k \in Members(cpending[d]) /\ k \notin gone
      BY <2>1, <2>3, <2>8, Dequeued
    <2>11. M!Notify(c)
      BY <1>1, <2>7, <2>8, <2>9, <2>10, NotifyMaps
    <2> QED
      BY <2>11
  <1> QED
    BY <1>2, <1>3

LEMMA NotifyAllMaps ==
    ASSUME Inv, Phases, Phases', NEW f \in Fiber, NEW c \in Cond, NotifyAll(f, c)
    PROVE  M!Notify(c) \/ UNCHANGED M!vars
  <1> USE Names
  <1> DEFINE q == cpending[c]
             r == <<>>
             val == "notified"
             gone == Members(q)
  <1>1. /\ Calls(f) /\ Return(f, "none")
        /\ UNCHANGED <<interrupted, inside, want, wmutex, werr>>
        /\ cpending' = [cpending EXCEPT ![c] = r]
        /\ strand' = PostedAll(strand, VmOf[f], q, val)
    BY DEF NotifyAll, PostedAll, fiberData
  <1>2. q \in Seq(Fiber) /\ strand \in [Vm -> Seq(ResumeHandler(Fiber, Result))] /\ VmOf[f] \in Vm
    BY InvParts DEF ListsOK, Inv, TypeOK
  <1>3. r \in Seq(Fiber) /\ Members(r) = Members(cpending[c]) \ gone
    BY DEF Members
  <1>4. \A g \in Fiber : Resume(g, val) \in ResumeHandler(Fiber, Result)
    BY Handlers DEF Result
  <1>5. \A g \in Members(q) : g \in Fiber /\ VmOf[g] = VmOf[f]
    BY QueuedFacts
  <1> HIDE DEF r, val, q
  <1>6. /\ Keeps(PostedAll(strand, VmOf[f], q, val), strand, {})
        /\ \A g \in Members(q) : Resume(g, val) \in Members(PostedAll(strand, VmOf[f], q, val)[VmOf[f]])
    BY <1>2, <1>4, PostAllKeeps
  <1>7. /\ Keeps(strand', strand, {})
        /\ \A g \in gone : Resume(g, val) \in Members(strand'[VmOf[g]])
    BY <1>1, <1>5, <1>6
  <1>8. gone = Members(cpending[c])
    BY DEF q
  <1> HIDE DEF gone
  <1>9. \A d \in Cond : \A g : g \in Members(cpending'[d]) <=> g \in Members(cpending[d]) /\ g \notin gone
    <2>1. gone \subseteq Members(cpending[c]) /\ cpending' = [cpending EXCEPT ![c] = r]
      BY <1>1, <1>8
    <2> QED
      BY <1>3, <2>1, Dequeued
  <1>10. CASE gone # {}
    <2>1. \A g \in gone : Resume(g, "notified") \in Members(strand'[VmOf[g]])
      BY <1>7 DEF val
    <2>2. gone \subseteq Members(cpending[c])
      BY <1>8
    <2>3. M!Notify(c)
      BY <1>1, <1>7, <1>8, <1>9, <1>10, <2>1, <2>2, NotifyMaps
    <2> QED
      BY <2>3
  <1>11. CASE gone = {}
    <2>1. /\ at' = at /\ at[f] = "running" /\ wmutex[f] = Nil
          /\ \A g \in Fiber : g # f => ret'[g] = ret[g]
      BY <1>1, RunningFacts, InvParts DEF Calls, Return, DataOK
    <2>2. \A d \in Cond : \A g : g \in Members(cpending'[d]) <=> g \in Members(cpending[d])
      BY <1>9, <1>11
    <2>3. \A g \in Fiber : g # f => Untouched(g)
      BY <1>1, <1>7, <2>1, <2>2, OthersUntouched
    <2>4. StaysFree(f)
      BY <1>1, <2>1 DEF StaysFree
    <2>5. \A g \in Fiber : Untouched(g) \/ StaysFree(g)
      BY <2>3, <2>4
    <2> QED
      BY <1>1, <2>5, MonitorStutters
  <1> QED
    BY <1>10, <1>11

\* interrupt() ends the wait of a fiber that is still queued, and of no other.
LEMMA InterruptMaps ==
    ASSUME Inv, Phases, Phases', NEW f \in Fiber, NEW g \in Fiber, Interrupt(f, g)
    PROVE  M!Interrupt(g)
  <1> USE Names
  <1>0. /\ Calls(f) /\ wmutex[f] = Nil /\ interrupted' = [interrupted EXCEPT ![g] = TRUE]
        /\ at' = at /\ ret' = [ret EXCEPT ![f] = "none"]
        /\ UNCHANGED <<want, wmutex, werr, inside>>
    BY DEF Interrupt, Return, Calls
  <1>1. at[f] = "running" /\ \A k \in Fiber : k # f => ret'[k] = ret[k]
    BY <1>0, RunningFacts, InvParts DEF Calls, DataOK
  <1>2. StaysFree(f)
    BY <1>0, <1>1 DEF StaysFree
  <1>3. CASE UNCHANGED <<strand, cpending>>
    <2>1. Keeps(strand', strand, {})
      BY <1>3 DEF Keeps
    <2>2. \A k \in Fiber : k # f => Untouched(k)
      BY <1>0, <1>1, <1>3, <2>1, OthersUntouched
    <2>3. \A k \in Fiber : PhaseOf(k)' = PhaseOf(k)
      BY <1>2, <2>2, PhaseKept
    <2> QED
      BY <1>0, <2>3 DEF M!Interrupt
  <1>4. ASSUME NEW c \in Cond, g # f, NEW i \in DOMAIN cpending[c], FoundAt(cpending[c], i, g),
               cpending' = [cpending EXCEPT ![c] = SeqExt!RemoveAt(@, i)],
               strand' = Post(VmOf[g], Resume(g, "interrupted"))
        PROVE  M!Interrupt(g)
    <2> DEFINE q == cpending[c]
               r == SeqExt!RemoveAt(cpending[c], i)
               gone == {g}
               val == "interrupted"
               h == Resume(g, val)
    <2>1. q \in Seq(Fiber) /\ NoRepeat(q)
      BY InvParts DEF ListsOK, CondListsAreSound
    <2>2. i \in 1..Len(q) /\ q[i] = g
      BY <1>4, <2>1, QueueFacts DEF FoundAt
    <2>3. r \in Seq(Fiber) /\ Members(r) = Members(q) \ {g}
      BY <2>1, <2>2, RemoveFacts
    <2>4. g \in Members(cpending[c])
      BY <2>2 DEF Members
    <2>5. cpending' = [cpending EXCEPT ![c] = r] /\ strand' = Posted(strand, VmOf[g], h)
      BY <1>4 DEF Post, Posted
    <2>6. h \in ResumeHandler(Fiber, Result) /\ VmOf[g] \in Vm
      BY Handlers DEF Answers
    <2>7. strand \in [Vm -> Seq(ResumeHandler(Fiber, Result))]
      BY DEF Inv, TypeOK
    <2> HIDE DEF r, h, val
    <2>8. Keeps(strand', strand, {}) /\ h \in Members(strand'[VmOf[g]])
      BY <2>5, <2>6, <2>7, PostKeeps
    <2>9. gone \subseteq Members(cpending[c]) /\ Members(r) = Members(cpending[c]) \ gone
      BY <2>3, <2>4
    <2> HIDE DEF gone, q
    <2>10. \A d \in Cond : \A k : k \in Members(cpending'[d]) <=> k \in Members(cpending[d]) /\ k \notin gone
      BY <2>3, <2>5, <2>9, Dequeued
    <2>11. /\ PhaseOf(g) = M!Waiting(c, wmutex[g])
           /\ PhaseOf(g)' = M!Back(wmutex[g], val)
      <3>1. \A d \in Cond : g \notin Members(cpending'[d])
        BY <2>10 DEF gone
      <3>2. Resume(g, val) \in Members(strand'[VmOf[g]])
        BY <2>8 DEF h
      <3> QED
        BY <1>0, <2>4, <3>1, <3>2, WokenIsBack
    <2>12. ASSUME NEW k \in Fiber, k # g PROVE Untouched(k) \/ StaysFree(k)
      <3>1. CASE k = f
        BY <1>2, <3>1
      <3>2. CASE k # f
        <4>1. \A d \in Cond : k \in Members(cpending'[d]) <=> k \in Members(cpending[d])
          BY <2>10, <2>12 DEF gone
        <4>2. \A e \in Members(strand[VmOf[k]]) : e.fiber = k => e \in Members(strand'[VmOf[k]])
          BY <2>8 DEF Keeps
        <4>3. Untouched(k)
          BY <1>0, <1>1, <3>2, <4>1, <4>2 DEF Untouched
        <4> QED
          BY <4>3
      <3> QED
        BY <3>1, <3>2
    <2>13. PICK p : p = M!Back(wmutex[g], val)
      OBVIOUS
    <2>14. PhaseOf(g)' = p
      BY <2>11, <2>13
    <2>15. [k \in Fiber |-> PhaseOf(k)]' = [[k \in Fiber |-> PhaseOf(k)] EXCEPT ![g] = p]
      BY <2>12, <2>14, OnePhase
    <2>16. PhaseOf(g).at = "waiting" /\ PhaseOf(g).mutex = wmutex[g]
      BY <2>11 DEF M!Waiting
    <2> QED
      BY <1>0, <2>13, <2>15, <2>16 DEF M!Interrupt, val
  <1>5. CASE ~(g # f /\ interrupter[g] # Nil)
    BY <1>3, <1>5 DEF Interrupt
  <1>6. CASE g # f /\ interrupter[g] # Nil
    <2>1. PICK c \in Cond : c = interrupter[g]
      BY <1>6, InvParts DEF DataOK
    <2>2. CondInterrupter(g, c)
      BY <1>6, <2>1 DEF Interrupt
    <2> QED
      BY <1>3, <1>4, <1>6, <2>2 DEF CondInterrupter
  <1> QED
    BY <1>5, <1>6

\* Initially nobody is in the monitor.
LEMMA MonitorInit == Init => M!Init
  <1> SUFFICES ASSUME Init PROVE M!Init
    OBVIOUS
  <1>1. Phases
    BY InvInit, PhasesAreKnown
  <1>2. \A f \in Fiber : wmutex[f] = Nil /\ at[f] # "lock"
    BY DEF Init, CoreInit
  <1>3. \A f \in Fiber : PhaseOf(f) = M!Free
    BY <1>1, <1>2 DEF Phases
  <1> QED
    BY <1>3 DEF M!Init, Init, CoreInit

\* Every step is a step of the monitor or leaves it alone.
LEMMA MonitorStep ==
    ASSUME Inv, Phases, Phases', Next
    PROVE  [M!Next]_(M!vars)
  <1>1. ASSUME NEW v \in Vm, RunStrand(v) PROVE [M!Next]_(M!vars)
    BY <1>1, LockReturnsMaps, OtherReturnsMaps DEF RunStrand, M!Next
  <1>2. ASSUME NEW f \in Fiber, ThisFiber(f) \/ End(f) \/ Relock(f) PROVE [M!Next]_(M!vars)
    BY <1>2, ThisFiberMaps, EndMaps, RelockMaps DEF M!Next
  <1>3. ASSUME NEW f \in Fiber, NEW g \in Fiber, Spawn(f, g) \/ Interrupt(f, g)
        PROVE  [M!Next]_(M!vars)
    BY <1>3, SpawnMaps, InterruptMaps DEF M!Next
  <1>4. ASSUME NEW f \in Fiber, NEW m \in Mutex, MutexCall(f, m) PROVE [M!Next]_(M!vars)
    <2>1. NotLocked(f, m) => UNCHANGED M!vars
      BY ReturnMaps DEF NotLocked, fiberData
    <2>2. CondWaitRaises(f, m) => UNCHANGED M!vars
      BY ReturnMaps DEF CondWaitRaises, fiberData
    <2>3. MutexLock(f, m) => M!Enter(f, m) \/ M!Block(f, m) \/ UNCHANGED M!vars
      BY MutexLockMaps
    <2>4. MutexTryLock(f, m) => M!Enter(f, m) \/ UNCHANGED M!vars
      BY MutexTryLockMaps
    <2>5. MutexUnlock(f, m) => M!Leave(f, m)
      BY MutexUnlockMaps
    <2> QED
      BY <1>4, <2>1, <2>2, <2>3, <2>4, <2>5 DEF MutexCall, M!Next
  <1>5. ASSUME NEW f \in Fiber, NEW c \in Cond, CondCall(f, c) PROVE [M!Next]_(M!vars)
    BY <1>5, NotifyOneMaps, NotifyAllMaps, CondWaitMaps DEF CondCall, M!Next
  <1> QED
    BY <1>1, <1>2, <1>3, <1>4, <1>5 DEF Next

\* The mutex, condition variable, strand and interrupter code implements a
\* monitor: each of its steps is one step of the monitor or none, under the
\* mapping in Sync.
THEOREM ImplementsTheMonitor == Spec => ImplementsMonitor
  <1>1. Inv /\ Inv' /\ [Next]_vars => [M!Next]_(M!vars)
    <2>1. Inv => Phases
      BY PhasesAreKnown
    <2>2. Inv' => Phases'
      BY <2>1, PTL
    <2>3. ASSUME Inv, Inv', Next PROVE [M!Next]_(M!vars)
      BY <2>1, <2>2, <2>3, MonitorStep
    <2>4. ASSUME UNCHANGED vars PROVE UNCHANGED M!vars
      <3>1. UNCHANGED <<strand, at, ret, cpending, want, wmutex, werr, inside, interrupted>>
        BY <2>4 DEF vars, coreVars, fiberData, syncVars
      <3>2. \A g \in Fiber : PhaseOf(g)' = PhaseOf(g)
        BY <3>1 DEF PhaseOf, Phase, InCondQueues, Why, WakeUps
      <3> QED
        BY <3>1, <3>2 DEF M!vars
    <2> QED
      BY <2>3, <2>4
  <1>2. Spec => M!Init /\ [][M!Next]_(M!vars)
    BY <1>1, MonitorInit, Invariance, PTL DEF Spec
  <1> QED
    BY <1>2 DEF ImplementsMonitor, M!Spec
=============================================================================
