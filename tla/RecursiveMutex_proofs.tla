------------------------ MODULE RecursiveMutex_proofs ------------------------
(***************************************************************************)
(* Proofs about RecursiveMutex, for any number of fibers and mutexes and   *)
(* any limit: its type invariant, that no waiter is lost or woken twice,   *)
(* that the counter of a mutex is its owner's depth, and that it is handed *)
(* over in the order of the requests.                                      *)
(***************************************************************************)
EXTENDS RecursiveMutex, VmContext_proofs

Handler == ResumeHandler(Fiber, Result)

-----------------------------------------------------------------------------
(* The inductive invariant.                                                  *)

Waiting == {f \in Fiber : \E r \in RMutex : f \in Members(rpending[r])}

AllValid == \A v \in Vm : valid[v]

\* Every suspended fiber is on its strand or in a queue, and never in both.
OwedOnce == Ledger(running, at, strand, Waiting, Suspended)

\* A queue holds fibers that want its mutex, which somebody else owns.
QueuesAreSound ==
    \A r \in RMutex :
        /\ NoRepeat(rpending[r])
        /\ \A f \in Members(rpending[r]) : want[f] = r /\ owner[r] \notin {f, Nil}

\* A fiber in lock() that is in no queue any more owns the mutex it wants.
WantsInLock ==
    \A f \in Fiber :
        /\ want[f] # Nil <=> at[f] = "lock"
        /\ want[f] # Nil /\ f \notin Waiting => owner[want[f]] = f

OwnedIsCounted == \A r \in RMutex : owner[r] # Nil => nlocked[r] # 0

Inv ==
    /\ TypeOK
    /\ AllValid
    /\ OwedOnce
    /\ QueuesAreSound
    /\ WantsInLock
    /\ CountsItsOwner
    /\ OwnedIsCounted

-----------------------------------------------------------------------------
(* Type correctness.                                                         *)

PlainTypeOK ==
    /\ running \in [Vm -> Fiber \cup {Nil}]
    /\ valid \in [Vm -> BOOLEAN]
    /\ at \in [Fiber -> Suspended \cup Gone \cup {"running"}]
    /\ interrupted \in [Fiber -> BOOLEAN]
    /\ interrupter \in [Fiber -> {Nil}]
    /\ ret \in [Fiber -> Result]
    /\ owner \in [RMutex -> Fiber \cup {Nil}]
    /\ want \in [Fiber -> RMutex \cup {Nil}]

QueuesOK ==
    /\ strand \in [Vm -> Seq(Handler)]
    /\ rpending \in [RMutex -> Seq(Fiber)]

LevelsOK ==
    /\ nlocked \in [RMutex -> 0..MaxLocked]
    /\ depth \in [RMutex -> [Fiber -> Nat]]

\* The type invariant in parts that are proved apart.
LEMMA TypeParts == TypeOK <=> PlainTypeOK /\ QueuesOK /\ LevelsOK /\ CountersOK
  BY DEF TypeOK, CoreTypeOK, Handler, PlainTypeOK, QueuesOK, LevelsOK, CountersOK

\* What is ever posted.
LEMMA IsHandler ==
    ASSUME NEW f \in Fiber
    PROVE  ResumeSkipClear(f) \in Handler /\ ResumeSkipClear(f).fiber = f
  BY DEF ResumeSkipClear, Handler, ResumeHandler, Result

\* The strand's next handler resumes a fiber of the VM.
LEMMA HeadIsHandler ==
    ASSUME QueuesOK, NEW v \in Vm, strand[v] # <<>>
    PROVE  Head(strand[v]).fiber \in Fiber /\ Head(strand[v]).val \in Result
  <1>1. strand[v] \in Seq(Handler)
    BY DEF QueuesOK
  <1>2. Head(strand[v]) \in Handler
    BY <1>1, TailFacts
  <1> QED
    BY <1>2 DEF Handler, ResumeHandler

\* No fiber and no mutex is Nil, and every fiber has a VM.
LEMMA Names ==
    /\ \A f \in Fiber : VmOf[f] \in Vm /\ f # Nil
    /\ \A r \in RMutex : r # Nil
    /\ \A f, g \in Fiber : VmOf[f] = VmOf[g]
    /\ MaxLocked \in Nat /\ MaxLocked >= 1
  BY VmContextAssumption, RecursiveMutexAssumption

-----------------------------------------------------------------------------
(* The invariant holds initially.                                            *)

LEMMA InvInit == Init => Inv
  <1> SUFFICES ASSUME Init PROVE Inv
    OBVIOUS
  <1> USE Names
  <1>1. PlainTypeOK
    BY VmContextAssumption
    DEF Init, CoreInit, PlainTypeOK, Suspended, Gone, Result, IsMain
  <1>2. QueuesOK
    <2>1. \A v \in Vm : <<ResumeSkipClear(Main[v])>> \in Seq(Handler)
      BY IsHandler, VmContextAssumption
    <2> QED
      BY <2>1 DEF Init, CoreInit, QueuesOK
  <1>3. LevelsOK
    BY DEF Init, LevelsOK
  <1>4. TypeOK
    BY <1>1, <1>2, <1>3, CountersInit, TypeParts DEF Init
  <1>5. \A r \in RMutex : Members(rpending[r]) = {} /\ NoRepeat(rpending[r])
    BY DEF Init, Members, NoRepeat
  <1>6. Waiting = {}
    BY <1>5 DEF Waiting
  <1>7. OwedOnce
    BY <1>6, LedgerInit DEF Init, OwedOnce, Suspended
  <1>8. QueuesAreSound
    BY <1>5 DEF QueuesAreSound
  <1>9. WantsInLock
    BY DEF Init, CoreInit, WantsInLock, IsMain
  <1>10. CountsItsOwner /\ OwnedIsCounted
    BY DEF Init, CountsItsOwner, OwnedIsCounted
  <1> QED
    BY <1>4, <1>7, <1>8, <1>9, <1>10 DEF Inv, AllValid, Init, CoreInit

-----------------------------------------------------------------------------
(* Every step preserves it.                                                  *)

\* The current fiber is in no queue and wants no mutex; what it owns it has
\* locked as often as the mutex counts.
LEMMA RunningFacts ==
    ASSUME Inv, NEW f \in Fiber, Running(f)
    PROVE  /\ at[f] = "running" /\ want[f] = Nil /\ f \notin Waiting
           /\ f \notin Resumed(strand[VmOf[f]])
           /\ \A r \in RMutex : f \notin Members(rpending[r])
           /\ \A r \in RMutex : owner[r] = f => nlocked[r] = depth[r][f] /\ depth[r][f] > 0
  <1> USE Names
  <1>1. at[f] = "running" /\ f \notin Waiting /\ f \notin Resumed(strand[VmOf[f]])
    BY LedgerRunning DEF Inv, OwedOnce, Suspended, Running
  <1>2. want[f] = Nil
    BY <1>1 DEF Inv, WantsInLock
  <1>3. \A r \in RMutex : owner[r] = f => nlocked[r] = depth[r][f] /\ depth[r][f] > 0
    <2> SUFFICES ASSUME NEW r \in RMutex, owner[r] = f
                 PROVE  nlocked[r] = depth[r][f] /\ depth[r][f] > 0
      OBVIOUS
    <2>1. nlocked[r] \in Nat /\ depth[r][f] \in Nat
      BY DEF Inv, TypeOK
    <2>2. nlocked[r] = depth[r][f] + 0
      BY <1>2 DEF Inv, CountsItsOwner
    <2> QED
      BY <2>1, <2>2 DEF Inv, OwnedIsCounted
  <1> QED
    BY <1>1, <1>2, <1>3 DEF Waiting

\* A step that touches no mutex keeps the invariant if it keeps its engine part
\* and moves nobody in or out of lock().
LEMMA QuietStep ==
    ASSUME Inv, UNCHANGED lockVars, TypeOK', AllValid', OwedOnce',
           \A f \in Fiber : at'[f] = "lock" <=> at[f] = "lock"
    PROVE  Inv'
  <1>1. Waiting' = Waiting
    BY DEF lockVars, Waiting
  <1>2. QueuesAreSound' /\ CountsItsOwner' /\ OwnedIsCounted'
    BY DEF Inv, lockVars, QueuesAreSound, CountsItsOwner, OwnedIsCounted
  <1>3. WantsInLock'
    BY <1>1 DEF Inv, lockVars, WantsInLock
  <1> QED
    BY <1>2, <1>3 DEF Inv

\* A call that returns at once and touches no queue.
LEMMA ReturnStep ==
    ASSUME Inv, NEW f \in Fiber, NEW x \in Result, Return(f, x),
           UNCHANGED <<strand, valid, counters, interrupter, lockVars>>,
           interrupted' \in [Fiber -> BOOLEAN]
    PROVE  Inv'
  <1>1. TypeOK'
    <2>1. PlainTypeOK' /\ QueuesOK' /\ LevelsOK'
      BY TypeParts DEF Inv, Return, lockVars, PlainTypeOK, QueuesOK, LevelsOK
    <2>2. CountersOK'
      BY TypeParts DEF Inv, counters, CountersOK
    <2> QED
      BY <2>1, <2>2, TypeParts, PTL
  <1>2. AllValid' /\ OwedOnce'
    BY DEF Inv, AllValid, OwedOnce, Waiting, Return, lockVars
  <1> QED
    BY <1>1, <1>2, QuietStep DEF Return

\* A step that touches one mutex and no fiber's wish keeps the counts if it
\* keeps those of that mutex.
LEMMA CountsStep ==
    ASSUME Inv, NEW r \in RMutex, want' = want,
           \A q \in RMutex : q # r => /\ nlocked'[q] = nlocked[q] /\ owner'[q] = owner[q]
                                      /\ depth'[q] = depth[q] /\ rpending'[q] = rpending[q],
           \A g \in Fiber : depth'[r][g] > 0 => owner'[r] = g,
           owner'[r] = Nil => nlocked'[r] = 0 /\ rpending'[r] = <<>>,
           owner'[r] # Nil =>
              /\ nlocked'[r] = depth'[r][owner'[r]] + (IF want[owner'[r]] = r THEN 1 ELSE 0)
              /\ nlocked'[r] # 0
    PROVE  CountsItsOwner' /\ OwnedIsCounted'
  <1>1. ASSUME NEW q \in RMutex, q # r
        PROVE  /\ \A g \in Fiber : depth'[q][g] > 0 => owner'[q] = g
               /\ owner'[q] # Nil =>
                     nlocked'[q] = depth'[q][owner'[q]] + (IF want'[owner'[q]] = q THEN 1 ELSE 0)
               /\ owner'[q] = Nil => nlocked'[q] = 0 /\ rpending'[q] = <<>>
               /\ owner'[q] # Nil => nlocked'[q] # 0
    <2>1. nlocked'[q] = nlocked[q] /\ owner'[q] = owner[q] /\ depth'[q] = depth[q] /\ rpending'[q] = rpending[q]
      BY <1>1
    <2>2. /\ \A g \in Fiber : depth[q][g] > 0 => owner[q] = g
          /\ owner[q] # Nil =>
                nlocked[q] = depth[q][owner[q]] + (IF want[owner[q]] = q THEN 1 ELSE 0)
          /\ owner[q] = Nil => nlocked[q] = 0 /\ rpending[q] = <<>>
          /\ owner[q] # Nil => nlocked[q] # 0
      BY DEF Inv, CountsItsOwner, OwnedIsCounted
    <2> QED
      BY <2>1, <2>2
  <1> QED
    BY <1>1 DEF CountsItsOwner, OwnedIsCounted

LEMMA TakeStep ==
    ASSUME Inv, NEW f \in Fiber, NEW r \in RMutex, Running(f), Take(f, r),
           UNCHANGED <<strand, valid, fiberData>>
    PROVE  Inv'
  <1> USE Names
  <1>1. /\ want[f] = Nil /\ owner[r] \in {f, Nil}
        /\ \A q \in RMutex : f \notin Members(rpending[q])
        /\ owner[r] = f => nlocked[r] = depth[r][f] /\ nlocked[r] + 1 <= MaxLocked
        /\ owner[r] = Nil => depth[r][f] = 0 /\ nlocked[r] = 0
    <2>1. nlocked[r] \in 0..MaxLocked /\ depth[r][f] \in Nat
      BY DEF Inv, TypeOK
    <2>2. owner[r] = Nil => ~(depth[r][f] > 0) /\ nlocked[r] = 0
      BY DEF Inv, CountsItsOwner
    <2> QED
      BY <2>1, <2>2, RunningFacts DEF Take
  <1>2. TypeOK'
    <2>1. PlainTypeOK'
      BY TypeParts DEF Inv, Take, Return, fiberData, PlainTypeOK, Result
    <2>2. QueuesOK'
      BY TypeParts DEF Inv, Take, QueuesOK
    <2>3. LevelsOK'
      BY <1>1, TypeParts DEF Inv, Take, LevelsOK
    <2>4. CountersOK'
      BY TypeParts DEF Inv, fiberData, CountersOK
    <2> QED
      BY <2>1, <2>2, <2>3, <2>4, TypeParts, PTL
  <1>3. Waiting' = Waiting
    BY DEF Take, Waiting
  <1>4. AllValid' /\ OwedOnce'
    BY <1>3 DEF Inv, AllValid, OwedOnce, Take, Return
  <1>5. \A q \in RMutex : /\ q # r => owner'[q] = owner[q]
                          /\ owner'[r] = f
    BY DEF Inv, TypeOK, Take
  <1>6. QueuesAreSound'
    BY <1>1, <1>5 DEF Inv, QueuesAreSound, CountsItsOwner, Take, Members
  <1>7. WantsInLock'
    BY <1>1, <1>3, <1>5 DEF Inv, WantsInLock, QueuesAreSound, Take, Return, Waiting, TypeOK
  <1>8. CountsItsOwner' /\ OwnedIsCounted'
    <2>1. /\ nlocked'[r] = depth[r][f] + 1 /\ depth'[r][f] = depth[r][f] + 1
          /\ \A g \in Fiber : g # f => depth'[r][g] = depth[r][g]
          /\ \A q \in RMutex : q # r => nlocked'[q] = nlocked[q] /\ depth'[q] = depth[q]
          /\ depth[r][f] \in Nat
      BY <1>1 DEF Inv, TypeOK, Take
    <2>2. \A g \in Fiber : depth[r][g] > 0 => g = f
      BY <1>1 DEF Inv, CountsItsOwner
    <2>3. want' = want /\ rpending' = rpending
      BY DEF Take
    <2> QED
      BY <1>1, <1>5, <2>1, <2>2, <2>3, CountsStep
  <1> QED
    BY <1>2, <1>4, <1>6, <1>7, <1>8 DEF Inv
LEMMA QueueStep ==
    ASSUME Inv, NEW f \in Fiber, NEW r \in RMutex, Running(f), Queue(f, r),
           UNCHANGED <<strand, valid, fiberData>>
    PROVE  Inv'
  <1> USE Names
  <1>1. /\ at[f] = "running" /\ want[f] = Nil
        /\ \A q \in RMutex : f \notin Members(rpending[q])
        /\ \A q \in RMutex : owner[q] = f => depth[q][f] > 0
    BY RunningFacts
  <1>2. /\ rpending'[r] \in Seq(Fiber) /\ NoRepeat(rpending'[r])
        /\ Members(rpending'[r]) = Members(rpending[r]) \cup {f}
    <2>1. rpending[r] \in Seq(Fiber) /\ rpending'[r] = Append(rpending[r], f)
      BY DEF Inv, TypeOK, Queue
    <2>2. NoRepeat(rpending[r])
      BY DEF Inv, QueuesAreSound
    <2> QED
      BY <1>1, <2>1, <2>2, AppendFacts
  <1>3. \A q \in RMutex : q # r => rpending'[q] = rpending[q]
    BY DEF Inv, TypeOK, Queue
  <1>4. TypeOK'
    <2>1. PlainTypeOK'
      BY TypeParts DEF Inv, Queue, Suspend, fiberData, PlainTypeOK, Result, Suspended
    <2>2. QueuesOK'
      BY <1>2, TypeParts DEF Inv, Queue, QueuesOK
    <2>3. LevelsOK'
      BY TypeParts DEF Inv, Queue, LevelsOK
    <2>4. CountersOK'
      BY TypeParts DEF Inv, fiberData, CountersOK
    <2> QED
      BY <2>1, <2>2, <2>3, <2>4, TypeParts, PTL
  <1>5. Waiting' = Waiting \cup {f}
    BY <1>2, <1>3 DEF Waiting
  <1>6. AllValid' /\ OwedOnce'
    <2>1. Ledger([running EXCEPT ![VmOf[f]] = Nil], [at EXCEPT ![f] = "lock"], strand,
                 Waiting \cup {f}, Suspended)
      BY LedgerSuspend DEF Inv, TypeOK, CoreTypeOK, OwedOnce, Running, Suspended
    <2> QED
      BY <1>5, <2>1 DEF Inv, AllValid, OwedOnce, Queue, Suspend
  <1>7. /\ want'[f] = r /\ \A g \in Fiber : g # f => want'[g] = want[g]
        /\ at'[f] = "lock" /\ \A g \in Fiber : g # f => at'[g] = at[g]
        /\ owner' = owner /\ nlocked' = nlocked /\ depth' = depth
        /\ owner[r] \notin {f, Nil}
    BY DEF Inv, TypeOK, CoreTypeOK, Queue, Suspend
  <1>8. QueuesAreSound'
    <2> SUFFICES ASSUME NEW q \in RMutex
                 PROVE  /\ NoRepeat(rpending'[q])
                        /\ \A g \in Members(rpending'[q]) : want'[g] = q /\ owner'[q] \notin {g, Nil}
      BY DEF QueuesAreSound
    <2>1. /\ NoRepeat(rpending[q]) /\ rpending[q] \in Seq(Fiber)
          /\ \A g \in Members(rpending[q]) : g \in Fiber /\ g # f /\ want[g] = q /\ owner[q] \notin {g, Nil}
      BY <1>1, QueueFacts DEF Inv, QueuesAreSound, TypeOK
    <2> QED
      BY <1>2, <1>3, <1>7, <2>1
  <1>9. WantsInLock'
    BY <1>1, <1>5, <1>7 DEF Inv, WantsInLock
  <1>10. CountsItsOwner' /\ OwnedIsCounted'
    <2>1. \A q \in RMutex : owner[q] \in Fiber \cup {Nil}
      BY DEF Inv, TypeOK
    <2>2. ASSUME NEW q \in RMutex, owner[q] # Nil
          PROVE  want'[owner[q]] = q <=> want[owner[q]] = q
      BY <1>1, <1>7, <2>1, <2>2
    <2>3. \A q \in RMutex : owner[q] = Nil => rpending'[q] = <<>>
      BY <1>3, <1>7 DEF Inv, CountsItsOwner
    <2> QED
      BY <1>7, <2>2, <2>3 DEF Inv, CountsItsOwner, OwnedIsCounted
  <1> QED
    BY <1>4, <1>6, <1>8, <1>9, <1>10 DEF Inv

\* unlock() by the owner: a level less, or a free mutex, or a new owner.
LEMMA ReleaseStep ==
    ASSUME Inv, NEW f \in Fiber, NEW r \in RMutex, Running(f), Release(f, r),
           UNCHANGED <<valid, fiberData>>
    PROVE  Inv'
  <1> USE Names
  <1>1. /\ at[f] = "running" /\ want[f] = Nil /\ owner[r] = f
        /\ \A q \in RMutex : f \notin Members(rpending[q])
        /\ nlocked[r] = depth[r][f] /\ depth[r][f] > 0 /\ depth[r][f] \in Nat
        /\ nlocked[r] \in 0..MaxLocked
    BY RunningFacts DEF Release, Inv, TypeOK
  <1>2. /\ depth'[r][f] = depth[r][f] - 1
        /\ \A g \in Fiber : g # f => depth'[r][g] = depth[r][g]
        /\ \A q \in RMutex : q # r => depth'[q] = depth[q]
        /\ depth' \in [RMutex -> [Fiber -> Nat]]
        /\ want' = want /\ at' = at /\ running' = running
        /\ AllValid'
    BY <1>1 DEF Inv, TypeOK, Release, Return, AllValid
  <1>3. PlainTypeOK' /\ CountersOK' <=> owner' \in [RMutex -> Fiber \cup {Nil}]
    BY TypeParts
    DEF Inv, Release, Return, fiberData, PlainTypeOK, CountersOK, Result
  <1>4. \A g \in Fiber : g # f => ~(depth[r][g] > 0)
    BY <1>1 DEF Inv, CountsItsOwner
  <1>5. CASE nlocked[r] > 1
    <2>0. /\ nlocked' = [nlocked EXCEPT ![r] = @ - 1]
          /\ UNCHANGED <<owner, rpending, strand>>
      BY <1>5 DEF Release
    <2>1. /\ nlocked'[r] = nlocked[r] - 1
          /\ \A q \in RMutex : q # r => nlocked'[q] = nlocked[q]
          /\ nlocked' \in [RMutex -> 0..MaxLocked]
          /\ UNCHANGED <<owner, rpending, strand>>
      <3>1. nlocked \in [RMutex -> 0..MaxLocked] /\ nlocked[r] - 1 \in 0..MaxLocked
        BY <1>1, <1>5 DEF Inv, TypeOK
      <3> QED
        BY <2>0, <3>1
    <2>2. TypeOK'
      <3>1. PlainTypeOK' /\ CountersOK'
        BY <1>3, <2>1 DEF Inv, TypeOK
      <3>2. QueuesOK' /\ LevelsOK'
        BY <1>2, <2>1, TypeParts DEF Inv, QueuesOK, LevelsOK
      <3> QED
        BY <3>1, <3>2, TypeParts, PTL
    <2>3. Waiting' = Waiting
      BY <2>1 DEF Waiting
    <2>4. OwedOnce' /\ QueuesAreSound' /\ WantsInLock'
      BY <1>2, <2>1, <2>3 DEF Inv, OwedOnce, QueuesAreSound, WantsInLock
    <2>5. CountsItsOwner' /\ OwnedIsCounted'
      <3>1. \A g \in Fiber : depth'[r][g] > 0 => owner'[r] = g
        BY <1>1, <1>2, <1>4, <2>1
      <3>2. nlocked'[r] = depth'[r][f] + (IF want[f] = r THEN 1 ELSE 0) /\ nlocked'[r] # 0
        BY <1>1, <1>2, <1>5, <2>1
      <3> QED
        BY <1>1, <1>2, <2>1, <3>1, <3>2, CountsStep
    <2> QED
      BY <1>2, <2>2, <2>4, <2>5 DEF Inv
  <1>6. CASE ~(nlocked[r] > 1) /\ rpending[r] = <<>>
    <2>0. /\ nlocked' = [nlocked EXCEPT ![r] = 0] /\ owner' = [owner EXCEPT ![r] = Nil]
          /\ UNCHANGED <<rpending, strand>>
      BY <1>6 DEF Release, Free
    <2>1. /\ nlocked'[r] = 0 /\ owner'[r] = Nil
          /\ \A q \in RMutex : q # r => nlocked'[q] = nlocked[q] /\ owner'[q] = owner[q]
          /\ nlocked' \in [RMutex -> 0..MaxLocked]
          /\ owner' \in [RMutex -> Fiber \cup {Nil}]
          /\ UNCHANGED <<rpending, strand>>
      BY <2>0 DEF Inv, TypeOK
    <2>2. TypeOK'
      <3>1. PlainTypeOK' /\ CountersOK'
        BY <1>3, <2>1
      <3>2. QueuesOK' /\ LevelsOK'
        BY <1>2, <2>1, TypeParts DEF Inv, QueuesOK, LevelsOK
      <3> QED
        BY <3>1, <3>2, TypeParts, PTL
    <2>3. Waiting' = Waiting
      BY <2>1 DEF Waiting
    <2>4. Members(rpending[r]) = {}
      BY <1>6 DEF Members
    <2>5. OwedOnce' /\ QueuesAreSound'
      BY <1>2, <2>1, <2>3, <2>4 DEF Inv, OwedOnce, QueuesAreSound
    <2>6. WantsInLock'
      BY <1>1, <1>2, <2>1, <2>3 DEF Inv, TypeOK, WantsInLock
    <2>7. CountsItsOwner' /\ OwnedIsCounted'
      <3>1. \A g \in Fiber : ~(depth'[r][g] > 0)
        BY <1>1, <1>2, <1>4, <1>6
      <3> QED
        BY <1>2, <1>6, <2>1, <3>1, CountsStep
    <2> QED
      BY <1>2, <2>2, <2>5, <2>6, <2>7 DEF Inv
  <1>7. CASE ~(nlocked[r] > 1) /\ rpending[r] # <<>>
    <2> DEFINE g == Head(rpending[r])
    <2>0. rpending[r] \in Seq(Fiber) /\ NoRepeat(rpending[r])
      BY DEF Inv, TypeOK, QueuesAreSound
    <2>1. /\ g \in Fiber /\ g \in Members(rpending[r]) /\ Tail(rpending[r]) \in Seq(Fiber)
          /\ Members(Tail(rpending[r])) = Members(rpending[r]) \ {g}
          /\ NoRepeat(Tail(rpending[r]))
      BY <1>7, <2>0, TailFacts
    <2>2. /\ nlocked' = [nlocked EXCEPT ![r] = 1] /\ owner' = [owner EXCEPT ![r] = g]
          /\ strand' = [strand EXCEPT ![VmOf[f]] = Append(@, ResumeSkipClear(g))]
          /\ rpending' = [rpending EXCEPT ![r] = Tail(@)]
      BY <1>7 DEF Release, HandOver, Post
    <2> HIDE DEF g
    <2>3. /\ nlocked'[r] = 1 /\ owner'[r] = g /\ rpending'[r] = Tail(rpending[r])
          /\ \A q \in RMutex : q # r => /\ nlocked'[q] = nlocked[q] /\ owner'[q] = owner[q]
                                        /\ rpending'[q] = rpending[q]
          /\ nlocked' \in [RMutex -> 0..MaxLocked]
          /\ owner' \in [RMutex -> Fiber \cup {Nil}]
          /\ rpending' \in [RMutex -> Seq(Fiber)]
      BY <2>1, <2>2 DEF Inv, TypeOK
    <2>4. strand' \in [Vm -> Seq(Handler)]
      <3>1. strand[VmOf[f]] \in Seq(Handler) /\ strand \in [Vm -> Seq(Handler)]
        BY TypeParts DEF Inv, QueuesOK
      <3>2. Append(strand[VmOf[f]], ResumeSkipClear(g)) \in Seq(Handler)
        BY <2>1, <3>1, IsHandler, AppendFacts
      <3> QED
        BY <2>2, <3>1, <3>2
    <2>5. TypeOK'
      <3>1. PlainTypeOK' /\ CountersOK'
        BY <1>3, <2>3
      <3>2. QueuesOK' /\ LevelsOK'
        BY <1>2, <2>3, <2>4 DEF QueuesOK, LevelsOK
      <3> QED
        BY <3>1, <3>2, TypeParts, PTL
    <2>6. \A q \in RMutex : g \in Members(rpending[q]) => q = r
      <3>1. \A q \in RMutex : \A k \in Members(rpending[q]) : want[k] = q
        BY DEF Inv, QueuesAreSound
      <3> QED
        BY <2>1, <3>1
    <2>7. Waiting' = Waiting \ {g} /\ g \in Waiting
      <3>1. ASSUME NEW k \in Fiber, NEW q \in RMutex
            PROVE  k \in Members(rpending'[q]) <=> k \in Members(rpending[q]) /\ k # g
        BY ZenonT(30), <2>1, <2>3, <2>6
      <3> QED
        BY <2>1, <3>1 DEF Waiting
    <2>8. OwedOnce'
      <3> DEFINE h == ResumeSkipClear(g)
      <3>1. h \in Handler /\ h.fiber = g /\ strand \in [Vm -> Seq(Handler)]
        BY <2>1, IsHandler, TypeParts DEF Inv, QueuesOK
      <3> HIDE DEF h
      <3>2. Ledger(running, at, strand, Waiting, Suspended) /\ VmOf[g] = VmOf[f] /\ VmOf[f] \in Vm
        BY <2>1 DEF Inv, OwedOnce
      <3>3. Ledger(running, at, [strand EXCEPT ![VmOf[f]] = Append(@, h)], Waiting \ {g}, Suspended)
        BY <2>1, <2>7, <3>1, <3>2, LedgerPost
      <3> QED
        BY <1>2, <2>2, <2>7, <3>3 DEF OwedOnce, h
    <2>9. /\ want[g] = r /\ g # f
          /\ \A k \in Members(rpending[r]) : want[k] = r
          /\ \A k \in Members(rpending[r]) : k # Nil
      BY <1>1, <2>0, <2>1, QueueFacts DEF Inv, QueuesAreSound
    <2>10. QueuesAreSound'
      <3> SUFFICES ASSUME NEW q \in RMutex
                   PROVE  /\ NoRepeat(rpending'[q])
                          /\ \A k \in Members(rpending'[q]) : want'[k] = q /\ owner'[q] \notin {k, Nil}
        BY DEF QueuesAreSound
      <3>1. CASE q = r
        BY <1>2, <2>1, <2>3, <2>9, <3>1
      <3>2. CASE q # r
        BY <1>2, <2>3, <3>2 DEF Inv, QueuesAreSound
      <3> QED
        BY <3>1, <3>2
    <2>11. WantsInLock'
      <3>1. ASSUME NEW k \in Fiber, want[k] # Nil, k \notin Waiting'
            PROVE  owner'[want[k]] = k
        <4>1. want[k] \in RMutex
          BY <3>1 DEF Inv, TypeOK
        <4>2. CASE k = g
          BY <2>3, <2>9, <4>2
        <4>3. CASE k # g
          <5>1. owner[want[k]] = k /\ k # f
            BY <1>1, <2>7, <3>1, <4>3 DEF Inv, WantsInLock
          <5> QED
            BY <1>1, <2>3, <4>1, <5>1
        <4> QED
          BY <4>2, <4>3
      <3> QED
        BY <1>2, <3>1 DEF Inv, WantsInLock
    <2>12. CountsItsOwner' /\ OwnedIsCounted'
      <3>1. \A k \in Fiber : ~(depth'[r][k] > 0) /\ depth'[r][k] \in Nat
        BY <1>1, <1>2, <1>4, <1>7
      <3>2. depth'[r][g] = 0
        BY <2>1, <3>1
      <3> QED
        <4>1. /\ owner'[r] # Nil /\ nlocked'[r] # 0
              /\ nlocked'[r] = depth'[r][owner'[r]] + (IF want[owner'[r]] = r THEN 1 ELSE 0)
          BY <2>1, <2>3, <2>9, <3>2
        <4> QED
          BY ZenonT(30), <1>2, <2>3, <3>1, <4>1, CountsStep
    <2> QED
      BY <1>2, <2>5, <2>8, <2>10, <2>11, <2>12 DEF Inv
  <1> QED
    BY <1>5, <1>6, <1>7
LEMMA RunStrandStep ==
    ASSUME Inv, NEW v \in Vm, RunStrand(v)
    PROVE  Inv'
  <1> USE Names
  <1> DEFINE h == Head(strand[v])
             f == h.fiber
  <1>1. /\ running[v] = Nil /\ strand[v] # <<>> /\ valid[v]
        /\ strand' = [strand EXCEPT ![v] = Tail(@)]
        /\ running' = [running EXCEPT ![VmOf[f]] = f]
        /\ at' = [at EXCEPT ![f] = "running"]
        /\ interrupter' = ClearedInterrupter(f, h.clear)
        /\ ret' = [ret EXCEPT ![f] = h.val]
        /\ UNCHANGED <<valid, counters, interrupted, owner, nlocked, rpending>>
    BY DEF RunStrand, RunResume, FiberResume, StrandReady, Inv, AllValid
  <1>2. f \in Fiber /\ h.val \in Result
    BY <1>1, HeadIsHandler, TypeParts DEF Inv
  <1>3. strand \in [Vm -> Seq(Handler)] /\ Tail(strand[v]) \in Seq(Handler)
    BY <1>1, TailFacts, TypeParts DEF Inv, QueuesOK
  <1>4. /\ want[f] # Nil => /\ depth' = [depth EXCEPT ![want[f]][f] = @ + 1]
                            /\ want' = [want EXCEPT ![f] = Nil]
        /\ want[f] = Nil => UNCHANGED <<depth, want>>
    BY DEF RunStrand
  <1> HIDE DEF h, f
  <1>5. Waiting' = Waiting
    BY <1>1 DEF Waiting
  <1>6. /\ f \notin Waiting
        /\ Ledger([running EXCEPT ![VmOf[f]] = f], [at EXCEPT ![f] = "running"],
                  [strand EXCEPT ![v] = Tail(@)], Waiting, Suspended)
    <2>1. f = Head(strand[v]).fiber
      BY DEF f, h
    <2>2. "running" \notin Suspended
      BY DEF Suspended
    <2>3. /\ Ledger(running, at, strand, Waiting, Suspended)
          /\ at \in [Fiber -> Suspended \cup Gone \cup {"running"}]
          /\ running \in [Vm -> Fiber \cup {Nil}]
      BY DEF Inv, TypeOK, CoreTypeOK, OwedOnce
    <2>4. running[v] = Nil /\ strand[v] # <<>> /\ strand \in [Vm -> Seq(Handler)]
      BY <1>1, <1>3
    <2>5. f \in Resumed(strand[v]) /\ f \in Fiber
      BY <1>2, <2>1, <2>4, TailFacts
    <2>6. f \notin Waiting /\ VmOf[f] = v
      BY <2>3, <2>5, LedgerQueued
    <2>7. Ledger([running EXCEPT ![v] = f], [at EXCEPT ![f] = "running"], Popped(strand, v),
                 Waiting, Suspended)
      BY <2>1, <2>2, <2>3, <2>4, <2>5, LedgerResume
    <2> QED
      BY <2>6, <2>7 DEF Popped
  <1>7. AllValid' /\ OwedOnce'
    BY <1>1, <1>5, <1>6 DEF Inv, AllValid, OwedOnce
  <1>8. want'[f] = Nil /\ \A g \in Fiber : g # f => want'[g] = want[g]
    BY <1>2, <1>4 DEF Inv, TypeOK
  <1>9. want[f] # Nil => want[f] \in RMutex /\ owner[want[f]] = f
    BY <1>2, <1>6 DEF Inv, TypeOK, WantsInLock
  <1>10. /\ \A r \in RMutex, g \in Fiber :
               depth'[r][g] = depth[r][g] + (IF g = f /\ want[f] = r THEN 1 ELSE 0)
         /\ depth' \in [RMutex -> [Fiber -> Nat]]
    <2>0. depth \in [RMutex -> [Fiber -> Nat]]
      BY DEF Inv, TypeOK
    <2>1. CASE want[f] = Nil
      BY <1>4, <2>0, <2>1
    <2>2. CASE want[f] # Nil
      <3>1. want[f] \in RMutex
        BY <1>9, <2>2
      <3>2. depth' = [depth EXCEPT ![want[f]][f] = @ + 1]
        BY <1>4, <2>2
      <3> QED
        BY <1>2, <2>0, <3>1, <3>2
    <2> QED
      BY <2>1, <2>2
  <1>11. TypeOK'
    <2>1. PlainTypeOK'
      <3>1. interrupter' \in [Fiber -> {Nil}]
        BY <1>1, <1>2, TypeParts DEF Inv, PlainTypeOK, ClearedInterrupter, SetInterrupter
      <3>2. want' \in [Fiber -> RMutex \cup {Nil}]
        BY <1>2, <1>4 DEF Inv, TypeOK
      <3> QED
        BY <1>1, <1>2, <3>1, <3>2, TypeParts DEF Inv, PlainTypeOK
    <2>2. QueuesOK'
      BY <1>1, <1>3, TypeParts DEF Inv, QueuesOK
    <2>3. LevelsOK'
      BY <1>1, <1>10, TypeParts DEF Inv, LevelsOK
    <2>4. CountersOK'
      BY <1>1, TypeParts DEF Inv, counters, CountersOK
    <2> QED
      BY <2>1, <2>2, <2>3, <2>4, TypeParts, PTL
  <1>12. QueuesAreSound'
    <2> SUFFICES ASSUME NEW r \in RMutex, NEW g \in Members(rpending[r])
                 PROVE  want'[g] = r /\ owner[r] \notin {g, Nil}
      BY <1>1 DEF Inv, QueuesAreSound
    <2>1. g \in Fiber /\ g \in Waiting
      BY QueueFacts DEF Waiting, Inv, TypeOK
    <2> QED
      BY <1>6, <1>8, <2>1 DEF Inv, QueuesAreSound
  <1>13. WantsInLock'
    <2>1. at'[f] = "running" /\ \A g \in Fiber : g # f => at'[g] = at[g]
      BY <1>1, <1>2 DEF Inv, TypeOK, CoreTypeOK
    <2> QED
      BY <1>1, <1>2, <1>5, <1>8, <2>1 DEF Inv, WantsInLock
  <1>14. CountsItsOwner' /\ OwnedIsCounted'
    <2>1. ASSUME NEW r \in RMutex
          PROVE  /\ \A g \in Fiber : depth'[r][g] > 0 => owner'[r] = g
                 /\ owner'[r] # Nil =>
                       nlocked'[r] = depth'[r][owner'[r]] + (IF want'[owner'[r]] = r THEN 1 ELSE 0)
                 /\ owner'[r] = Nil => nlocked'[r] = 0 /\ rpending'[r] = <<>>
                 /\ owner'[r] # Nil => nlocked'[r] # 0
      <3>1. /\ \A g \in Fiber : depth[r][g] > 0 => owner[r] = g
            /\ owner[r] # Nil =>
                  nlocked[r] = depth[r][owner[r]] + (IF want[owner[r]] = r THEN 1 ELSE 0)
            /\ owner[r] = Nil => nlocked[r] = 0 /\ rpending[r] = <<>>
            /\ owner[r] # Nil => nlocked[r] # 0
        BY DEF Inv, CountsItsOwner, OwnedIsCounted
      <3>2. \A g \in Fiber : depth[r][g] \in Nat
        BY DEF Inv, TypeOK
      <3>3. \A g \in Fiber : depth'[r][g] > 0 => owner[r] = g
        BY <1>9, <1>10, <3>1, <3>2
      <3>4. ASSUME owner[r] # Nil
            PROVE  nlocked[r] = depth'[r][owner[r]] + (IF want'[owner[r]] = r THEN 1 ELSE 0)
        <4>1. owner[r] \in Fiber
          BY <3>4 DEF Inv, TypeOK
        <4>2. CASE owner[r] = f
          BY <1>2, <1>8, <1>10, <3>1, <3>2, <3>4, <4>1, <4>2
        <4>3. CASE owner[r] # f
          BY <1>8, <1>10, <3>1, <3>2, <3>4, <4>1, <4>3
        <4> QED
          BY <4>2, <4>3
      <3> QED
        BY <1>1, <3>1, <3>3, <3>4
    <2> QED
      BY <2>1 DEF CountsItsOwner, OwnedIsCounted
  <1> QED
    BY <1>7, <1>11, <1>12, <1>13, <1>14 DEF Inv

LEMMA SpawnStep ==
    ASSUME Inv, NEW f \in Fiber, NEW g \in Fiber, Spawn(f, g)
    PROVE  Inv'
  <1> USE Names
  <1>1. /\ at[g] = "unborn" /\ VmOf[g] = VmOf[f]
        /\ at' = [at EXCEPT ![g] = "start"]
        /\ strand' = [strand EXCEPT ![VmOf[g]] = Append(@, ResumeSkipClear(g))]
        /\ ret' = [ret EXCEPT ![f] = "none"]
        /\ UNCHANGED <<running, valid, fiberData, lockVars>>
    BY DEF Spawn, SpawnFiber, Post
  <1> DEFINE h == ResumeSkipClear(g)
  <1>2. h \in Handler /\ h.fiber = g
    BY IsHandler
  <1> HIDE DEF h
  <1>3. strand \in [Vm -> Seq(Handler)]
    BY TypeParts DEF Inv, QueuesOK
  <1>4. TypeOK'
    <2>1. PlainTypeOK' /\ LevelsOK' /\ CountersOK'
      BY <1>1, TypeParts
      DEF Inv, PlainTypeOK, LevelsOK, CountersOK, fiberData, lockVars, Suspended, Result
    <2>2. Append(strand[VmOf[g]], h) \in Seq(Handler)
      BY <1>2, <1>3, AppendFacts
    <2>3. QueuesOK'
      BY <1>1, <1>3, <2>2, TypeParts DEF Inv, QueuesOK, lockVars, h
    <2> QED
      BY <2>1, <2>3, TypeParts, PTL
  <1>5. AllValid' /\ OwedOnce'
    <2>1. "running" \notin Suspended /\ "start" \in Suspended /\ at[g] \notin Suspended \cup {"running"}
      BY <1>1 DEF Suspended
    <2>2. Ledger(running, at, strand, Waiting, Suspended) /\ at \in [Fiber -> Suspended \cup Gone \cup {"running"}]
      BY DEF Inv, OwedOnce, TypeOK, CoreTypeOK
    <2>3. Ledger(running, [at EXCEPT ![g] = "start"], [strand EXCEPT ![VmOf[g]] = Append(@, h)],
                 Waiting, Suspended)
      BY <1>2, <1>3, <2>1, <2>2, LedgerSpawn
    <2>4. Waiting' = Waiting
      BY <1>1 DEF Waiting, lockVars
    <2> QED
      BY <1>1, <2>3, <2>4 DEF Inv, AllValid, OwedOnce, h
  <1> QED
    BY <1>1, <1>4, <1>5, QuietStep DEF Inv, TypeOK, CoreTypeOK

LEMMA EndStep ==
    ASSUME Inv, NEW f \in Fiber, End(f)
    PROVE  Inv'
  <1> USE Names
  <1>1. /\ Running(f)
        /\ running' = [running EXCEPT ![VmOf[f]] = Nil]
        /\ at' = [at EXCEPT ![f] = "dead"]
        /\ ret' = [ret EXCEPT ![f] = "none"]
        /\ UNCHANGED <<strand, valid, fiberData, lockVars>>
    BY DEF End, Suspend
  <1>2. TypeOK'
    <2>1. PlainTypeOK' /\ LevelsOK' /\ CountersOK' /\ QueuesOK'
      BY <1>1, TypeParts
      DEF Inv, PlainTypeOK, LevelsOK, CountersOK, QueuesOK, fiberData, lockVars, Gone, Result
    <2> QED
      BY <2>1, TypeParts, PTL
  <1>3. AllValid' /\ OwedOnce'
    <2>1. "running" \notin Suspended /\ "dead" \notin Suspended \cup {"running"}
      BY DEF Suspended
    <2>2. Ledger([running EXCEPT ![VmOf[f]] = Nil], [at EXCEPT ![f] = "dead"], strand, Waiting, Suspended)
      BY <1>1, <2>1, LedgerEnd DEF Inv, OwedOnce, TypeOK, CoreTypeOK, Running
    <2>3. Waiting' = Waiting
      BY <1>1 DEF Waiting, lockVars
    <2> QED
      BY <1>1, <2>2, <2>3 DEF Inv, AllValid, OwedOnce
  <1>4. at[f] = "running"
    BY <1>1, RunningFacts
  <1> QED
    BY <1>1, <1>2, <1>3, <1>4, QuietStep DEF Inv, TypeOK, CoreTypeOK

LEMMA YieldStep ==
    ASSUME Inv, NEW f \in Fiber, Yield(f), UNCHANGED lockVars
    PROVE  Inv'
  <1> USE Names
  <1>1. CASE ~CanSuspend(f)
    <2>1. Return(f, SuspendError(f)) /\ UNCHANGED <<strand, valid, fiberData>>
      BY <1>1 DEF Yield
    <2>2. SuspendError(f) \in Result
      BY DEF SuspendError, Result
    <2> QED
      BY <2>1, <2>2, ReturnStep DEF fiberData, counters, Inv, TypeOK, CoreTypeOK
  <1>2. CASE CanSuspend(f)
    <2> DEFINE h == ResumeSkipClear(f)
    <2>1. /\ Running(f)
          /\ strand' = [strand EXCEPT ![VmOf[f]] = Append(@, h)]
          /\ running' = [running EXCEPT ![VmOf[f]] = Nil]
          /\ at' = [at EXCEPT ![f] = "yield"]
          /\ ret' = [ret EXCEPT ![f] = "none"]
          /\ UNCHANGED <<valid, fiberData, lockVars>>
      BY <1>2 DEF Yield, Suspend, Post
    <2>2. h \in Handler /\ h.fiber = f
      BY IsHandler
    <2> HIDE DEF h
    <2>3. strand \in [Vm -> Seq(Handler)]
      BY TypeParts DEF Inv, QueuesOK
    <2>4. TypeOK'
      <3>1. PlainTypeOK' /\ LevelsOK' /\ CountersOK'
        BY <2>1, TypeParts
        DEF Inv, PlainTypeOK, LevelsOK, CountersOK, fiberData, lockVars, Suspended, Result
      <3>2. Append(strand[VmOf[f]], h) \in Seq(Handler)
        BY <2>2, <2>3, AppendFacts
      <3>3. QueuesOK'
        BY <2>1, <2>3, <3>2, TypeParts DEF Inv, QueuesOK, lockVars
      <3> QED
        BY <3>1, <3>3, TypeParts, PTL
    <2>5. AllValid' /\ OwedOnce'
      <3>1. "running" \notin Suspended /\ "yield" \in Suspended
        BY DEF Suspended
      <3>2. /\ Ledger(running, at, strand, Waiting, Suspended) /\ running[VmOf[f]] = f
            /\ at \in [Fiber -> Suspended \cup Gone \cup {"running"}]
            /\ running \in [Vm -> Fiber \cup {Nil}]
        BY <2>1 DEF Inv, OwedOnce, TypeOK, CoreTypeOK, Running
      <3>3. Ledger([running EXCEPT ![VmOf[f]] = Nil], [at EXCEPT ![f] = "yield"],
                   [strand EXCEPT ![VmOf[f]] = Append(@, h)], Waiting, Suspended)
        BY <2>2, <2>3, <3>1, <3>2, LedgerYield
      <3>4. Waiting' = Waiting
        BY <2>1 DEF Waiting, lockVars
      <3> QED
        BY <2>1, <3>3, <3>4 DEF Inv, AllValid, OwedOnce
    <2>6. at[f] = "running"
      BY <2>1, RunningFacts
    <2> QED
      BY <2>1, <2>4, <2>5, <2>6, QuietStep DEF Inv, TypeOK, CoreTypeOK
  <1> QED
    BY <1>1, <1>2

LEMMA NestingStep ==
    ASSUME Inv, NEW f \in Fiber, Nesting(f), UNCHANGED lockVars
    PROVE  Inv'
  <1>1. PICK x \in Result : ret' = [ret EXCEPT ![f] = x]
    BY NestingIsQuiet DEF Result
  <1>2. UNCHANGED <<strand, running, valid, at, interrupted, interrupter>>
    BY NestingIsQuiet
  <1>3. TypeOK'
    <2>1. PlainTypeOK' /\ LevelsOK' /\ QueuesOK'
      BY <1>1, <1>2, TypeParts DEF Inv, PlainTypeOK, LevelsOK, QueuesOK, lockVars
    <2>2. CountersOK'
      BY CountersStep, TypeParts DEF Inv
    <2> QED
      BY <2>1, <2>2, TypeParts, PTL
  <1>4. AllValid' /\ OwedOnce'
    BY <1>2 DEF Inv, AllValid, OwedOnce, Waiting, lockVars
  <1> QED
    BY <1>2, <1>3, <1>4, QuietStep

LEMMA InvStep == Inv /\ [Next]_vars => Inv'
  <1> SUFFICES ASSUME Inv, [Next]_vars PROVE Inv'
    OBVIOUS
  <1>0. interrupted \in [Fiber -> BOOLEAN]
    BY DEF Inv, TypeOK, CoreTypeOK
  <1>1. ASSUME NEW v \in Vm, RunStrand(v) PROVE Inv'
    BY <1>1, RunStrandStep
  <1>2. ASSUME NEW f \in Fiber, ThisFiber(f) PROVE Inv'
    BY <1>2, NestingStep, YieldStep DEF ThisFiber, Nesting
  <1>3. ASSUME NEW f \in Fiber, End(f) PROVE Inv'
    BY <1>3, EndStep
  <1>4. ASSUME NEW f \in Fiber, NEW g \in Fiber, Spawn(f, g) PROVE Inv'
    BY <1>4, SpawnStep
  <1>5. ASSUME NEW f \in Fiber, NEW g \in Fiber, Interrupt(f, g) PROVE Inv'
    <2>1. interrupted' \in [Fiber -> BOOLEAN] /\ "none" \in Result
      BY <1>0, <1>5 DEF Interrupt, Result
    <2> QED
      BY <1>5, <2>1, ReturnStep DEF Interrupt
  <1>6. ASSUME NEW f \in Fiber, NEW x \in Result, Return(f, x),
               UNCHANGED <<strand, valid, fiberData, lockVars>>
        PROVE  Inv'
    BY <1>0, <1>6, ReturnStep DEF fiberData, counters
  <1>7. {"forbid_suspend_block", "value_too_large", "busy", "operation_not_permitted"} \subseteq Result
    BY DEF Result
  <1>8. ASSUME NEW f \in Fiber, NEW r \in RMutex, Lock(f, r) PROVE Inv'
    BY <1>6, <1>7, <1>8, TakeStep, QueueStep DEF Lock, TooDeep
  <1>9. ASSUME NEW f \in Fiber, NEW r \in RMutex, TryLock(f, r) PROVE Inv'
    BY <1>6, <1>7, <1>9, TakeStep DEF TryLock, TooDeep
  <1>10. ASSUME NEW f \in Fiber, NEW r \in RMutex, Unlock(f, r) PROVE Inv'
    BY <1>6, <1>7, <1>10, ReleaseStep DEF Unlock, NotOwner
  <1>11. CASE UNCHANGED vars
    <2>1. UNCHANGED lockVars /\ UNCHANGED <<coreVars, fiberData, ret>>
      BY <1>11 DEF vars
    <2>2. TypeOK'
      BY <2>1 DEF Inv, TypeOK, CoreTypeOK, coreVars, fiberData, lockVars
    <2>3. AllValid' /\ OwedOnce'
      BY <2>1 DEF Inv, AllValid, OwedOnce, Waiting, coreVars, lockVars
    <2> QED
      BY <2>1, <2>2, <2>3, QuietStep DEF coreVars
  <1> QED
    BY <1>1, <1>2, <1>3, <1>4, <1>5, <1>8, <1>9, <1>10, <1>11 DEF Next
-----------------------------------------------------------------------------
(* The theorems.                                                             *)

\* The invariant holds in every reachable state.
THEOREM Invariance == Spec => []Inv
  BY InvInit, InvStep, PTL DEF Spec

\* Every variable keeps its type: the counter of a mutex never passes the limit
\* and never wraps, and no unlock() takes a level that was not taken.
THEOREM TypeCorrect == Spec => []TypeOK
  <1>1. Inv => TypeOK
    BY DEF Inv
  <1> QED
    BY <1>1, Invariance, PTL

\* What recursive_mutex_lock() and unlock() do to the pending queue neither
\* loses a waiter nor resumes it twice: a suspended fiber is on its strand or in
\* one queue, once, and no other fiber is.
THEOREM NoWakeUpLostOrDoubled == Spec => []WakeOnce
  <1>1. Inv => WakeOnce
    <2> SUFFICES ASSUME Inv, NEW f \in Fiber
                 PROVE  Cardinality(WakeUps(f)) + Cardinality(InQueues(f))
                           = IF at[f] \in Suspended THEN 1 ELSE 0
      BY DEF WakeOnce
    <2>1. strand[VmOf[f]] \in Seq(Handler) /\ ResumesOnce(strand[VmOf[f]])
      BY Names, TypeParts DEF Inv, QueuesOK, OwedOnce, Ledger
    <2>2. Cardinality(WakeUps(f)) = IF f \in Resumed(strand[VmOf[f]]) THEN 1 ELSE 0
      BY <2>1, OnceInStrand DEF WakeUps
    <2>3. /\ rpending \in [RMutex -> Seq(Fiber)] /\ \A r \in RMutex : NoRepeat(rpending[r])
          /\ \A q, r \in RMutex : f \in Members(rpending[q]) /\ f \in Members(rpending[r]) => q = r
      BY DEF Inv, TypeOK, QueuesAreSound
    <2>4. Cardinality(InQueues(f)) = IF f \in Waiting THEN 1 ELSE 0
      BY <2>3, OnceInLists DEF InQueues, Waiting
    <2>5. /\ at[f] \in Suspended <=> f \in Resumed(strand[VmOf[f]]) \/ f \in Waiting
          /\ ~(f \in Resumed(strand[VmOf[f]]) /\ f \in Waiting)
      BY DEF Inv, OwedOnce, Ledger
    <2> QED
      BY <2>2, <2>4, <2>5
  <1> QED
    BY <1>1, Invariance, PTL

\* nlocked is what the owner has to undo, nobody else is inside, and a free
\* mutex has no waiter.
THEOREM CounterIsOwnersDepth == Spec => []CountsItsOwner
  <1>1. Inv => CountsItsOwner
    BY DEF Inv
  <1> QED
    BY <1>1, Invariance, PTL

\* recursive_mutex_unlock() hands the mutex over only when its owner is out, and
\* then to the first fiber of the pending queue; no try_lock() or lock() gets in
\* between.
THEOREM HandsOverInOrder == Spec => FairHandOff
  <1> DEFINE Fair == \A r \in RMutex : owner'[r] # owner[r] =>
                        /\ owner[r] # Nil => depth'[r][owner[r]] = 0
                        /\ rpending[r] # <<>> => owner'[r] = Head(rpending[r])
  <1>1. Inv /\ [Next]_vars => [Fair]_vars
    <2> SUFFICES ASSUME Inv, Next, NEW r \in RMutex, owner'[r] # owner[r]
                 PROVE  /\ owner[r] # Nil => depth'[r][owner[r]] = 0
                        /\ rpending[r] # <<>> => owner'[r] = Head(rpending[r])
      OBVIOUS
    <2>1. /\ owner \in [RMutex -> Fiber \cup {Nil}]
          /\ depth \in [RMutex -> [Fiber -> Nat]]
          /\ owner[r] = Nil => rpending[r] = <<>>
      BY DEF Inv, TypeOK, CountsItsOwner
    <2>2. PICK f \in Fiber, q \in RMutex :
             /\ Running(f)
             /\ \/ Take(f, q)
                \/ Release(f, q)
      BY DEF Next, RunStrand, ThisFiber, End, Spawn, Interrupt, Lock, TryLock, Unlock,
             TooDeep, Queue, NotOwner, lockVars
    <2>3. CASE Take(f, q)
      BY <2>1, <2>3 DEF Take
    <2>4. CASE Release(f, q)
      <3>1. owner[q] = f /\ nlocked[q] = depth[q][f] /\ depth[q][f] > 0 /\ depth[q][f] \in Nat
        BY <2>1, <2>2, <2>4, RunningFacts DEF Release
      <3>2. q = r /\ ~(nlocked[r] > 1)
        BY <2>1, <2>4 DEF Release, Free, HandOver
      <3>3. rpending[r] # <<>> => owner'[r] = Head(rpending[r])
        BY <2>1, <2>4, <3>2 DEF Release, HandOver
      <3>4. depth' = [depth EXCEPT ![q][f] = @ - 1]
        BY <2>4 DEF Release
      <3> QED
        BY <2>1, <3>1, <3>2, <3>3, <3>4
    <2> QED
      BY <2>2, <2>3, <2>4
  <1>2. Spec => [][Fair]_vars
    BY <1>1, Invariance, PTL DEF Spec
  <1> QED
    BY <1>2 DEF FairHandOff
=============================================================================
