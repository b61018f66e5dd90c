--------------------------- MODULE Fibers_proofs ---------------------------
(***************************************************************************)
(* Proofs about Fibers, for any number of VMs and fibers: its type         *)
(* invariant, that every suspended fiber is owed exactly one resumption,   *)
(* that interrupters are current, that handles never dangle, and what a    *)
(* join() tells its caller.                                                *)
(***************************************************************************)
EXTENDS Fibers, TLAPS

Handler == ResumeHandler(Fiber, Result)

-----------------------------------------------------------------------------
(* The inductive invariant.  The properties are not inductive by themselves: *)
(* that a fiber is resumed once needs that whoever joins is suspended in     *)
(* join(), that the handle it joins cannot be joined, detached or collected  *)
(* meanwhile, and that interrupters refer to a join() in progress.           *)

\* The current fiber of a VM is the one that runs; a closed VM has none.
CurrentRuns ==
    /\ \A f \in Fiber : at[f] = "running" <=> running[VmOf[f]] = f
    /\ \A v \in Vm : running[v] # Nil => VmOf[running[v]] = v
    /\ \A f \in Fiber : ~valid[VmOf[f]] => at[f] = "dead"

\* A queued handler resumes a suspended fiber of its VM that nobody else will.
QueuedIsSuspended ==
    \A v \in Vm : valid[v] => \A i \in 1..Len(strand[v]) :
        /\ VmOf[strand[v][i].fiber] = v
        /\ at[strand[v][i].fiber] \in Suspended
        /\ \A x \in Fiber : joiner[x] = strand[v][i].fiber => at[x] = "dead"

QueuedOnce ==
    \A v \in Vm : valid[v] => \A i, j \in 1..Len(strand[v]) :
        strand[v][i].fiber = strand[v][j].fiber => i = j

\* The joiner of a live fiber is suspended in join(), which owns the handle.
JoinerWaits ==
    \A x \in Fiber : joiner[x] \in Fiber /\ at[x] # "dead" =>
        /\ VmOf[joiner[x]] = VmOf[x]
        /\ at[joiner[x]] = "join"
        /\ handleFiber[x] /\ joinInProgress[x] /\ handleLive[x]

JoinsOne ==
    \A x, y \in Fiber :
        joiner[x] \in Fiber /\ joiner[x] = joiner[y] /\ at[x] # "dead" /\ at[y] # "dead"
          => x = y

\* What a handle's fiber pointer stands for.
HandleIsSound ==
    \A x \in Fiber :
        /\ handleFiber[x] => /\ joiner[x] # Detached
                             /\ at[x] = "dead" => status[x] # Nil
                             /\ x \in fiberList
        /\ at[x] = "unborn" => joiner[x] = Nil /\ ~handleLive[x]

InterrupterJoins ==
    \A f \in Fiber : interrupter[f] # Nil =>
        /\ at[f] = "join"
        /\ ~Disabled(f)
        /\ joiner[interrupter[f]] = f
        /\ at[interrupter[f]] # "dead"

\* A handler of strand v resumes f.
Queued(v, f) == \E i \in 1..Len(strand[v]) : strand[v][i].fiber = f

\* The end of a live fiber resumes f.
Awaits(f) == at[f] = "join" /\ \E x \in Fiber : joiner[x] = f /\ at[x] # "dead"

\* Nobody is forgotten.
SomeoneOwes ==
    \A f \in Fiber : at[f] \in Suspended => Queued(VmOf[f], f) \/ Awaits(f)

Inv ==
    /\ TypeOK
    /\ CurrentRuns
    /\ QueuedIsSuspended
    /\ QueuedOnce
    /\ JoinerWaits
    /\ JoinsOne
    /\ HandleIsSound
    /\ InterrupterJoins
    /\ SomeoneOwes

-----------------------------------------------------------------------------
(* The strand as a queue.                                                    *)

\* post() adds one handler at the end of one strand.
LEMMA PostFacts ==
    ASSUME strand \in [Vm -> Seq(Handler)], NEW v \in Vm, NEW h \in Handler
    PROVE  /\ Post(v, h) \in [Vm -> Seq(Handler)]
           /\ \A w \in Vm : w # v => Post(v, h)[w] = strand[w]
           /\ Len(strand[v]) \in Nat
           /\ Len(Post(v, h)[v]) = Len(strand[v]) + 1
           /\ \A i \in 1..Len(strand[v]) : Post(v, h)[v][i] = strand[v][i]
           /\ Post(v, h)[v][Len(strand[v]) + 1] = h
  <1> DEFINE s == strand[v]
  <1>1. s \in Seq(Handler)
    OBVIOUS
  <1>2. /\ Append(s, h) \in Seq(Handler)
        /\ Len(Append(s, h)) = Len(s) + 1
        /\ \A i \in 1..Len(s) : Append(s, h)[i] = s[i]
        /\ Append(s, h)[Len(s) + 1] = h
        /\ Len(s) \in Nat
    BY <1>1
  <1>3. Post(v, h)[v] = Append(s, h) /\ \A w \in Vm : w # v => Post(v, h)[w] = strand[w]
    BY DEF Post
  <1>4. Post(v, h) \in [Vm -> Seq(Handler)]
    BY <1>2 DEF Post
  <1> QED
    BY <1>2, <1>3, <1>4

\* Running a handler takes it off the front of its strand.
LEMMA PopFacts ==
    ASSUME strand \in [Vm -> Seq(Handler)], NEW v \in Vm, strand[v] # <<>>,
           strand' = [strand EXCEPT ![v] = Tail(@)]
    PROVE  /\ strand' \in [Vm -> Seq(Handler)]
           /\ \A w \in Vm : w # v => strand'[w] = strand[w]
           /\ Head(strand[v]) = strand[v][1] /\ strand[v][1] \in Handler
           /\ Len(strand[v]) \in Nat /\ 1 <= Len(strand[v])
           /\ Len(strand'[v]) = Len(strand[v]) - 1
           /\ \A i \in 1..Len(strand'[v]) : strand'[v][i] = strand[v][i + 1]
  <1> DEFINE s == strand[v]
  <1>1. s \in Seq(Handler) /\ s # <<>>
    OBVIOUS
  <1>2. /\ Tail(s) \in Seq(Handler)
        /\ Len(s) \in Nat /\ 1 <= Len(s)
        /\ Len(Tail(s)) = Len(s) - 1
        /\ \A i \in 1..Len(Tail(s)) : Tail(s)[i] = s[i + 1]
        /\ Head(s) = s[1] /\ s[1] \in Handler
    BY <1>1
  <1>3. strand'[v] = Tail(s) /\ \A w \in Vm : w # v => strand'[w] = strand[w]
    OBVIOUS
  <1>4. strand' \in [Vm -> Seq(Handler)]
    BY <1>2
  <1> QED
    BY <1>2, <1>3, <1>4

-----------------------------------------------------------------------------
(* Type correctness.                                                         *)

\* The variables other than the strand and the counters.
PlainTypeOK ==
    /\ running \in [Vm -> Fiber \cup {Nil}]
    /\ valid \in [Vm -> BOOLEAN]
    /\ at \in [Fiber -> Suspended \cup Gone \cup {"running"}]
    /\ interrupted \in [Fiber -> BOOLEAN]
    /\ interrupter \in [Fiber -> Fiber \cup {Nil}]
    /\ ret \in [Fiber -> Result]
    /\ joiner \in [Fiber -> Fiber \cup {Nil, Detached}]
    /\ status \in [Fiber -> Outcome \cup {Nil}]
    /\ fiberList \subseteq Fiber
    /\ handleFiber \in [Fiber -> BOOLEAN]
    /\ joinInProgress \in [Fiber -> BOOLEAN]
    /\ caught \in [Fiber -> BOOLEAN \cup {Nil}]
    /\ handleLive \in [Fiber -> BOOLEAN]

CountersOK ==
    /\ interruptionDisabled \in [Fiber -> Int]
    /\ suspensionDisallowed \in [Fiber -> Int]
    /\ \A f \in Fiber :
          /\ \/ interruptionDisabled[f] \in 0..MaxDisable[f]
             \/ IsMain(f) /\ interruptionDisabled[f] = AlwaysDisabled
          /\ suspensionDisallowed[f] \in 0..MaxForbid[f]

StrandOK == strand \in [Vm -> Seq(Handler)]

\* The type invariant in three parts that are proved apart: the strands, the
\* nesting counters of this_fiber and the variables that need no arithmetic.
LEMMA TypeParts == TypeOK <=> StrandOK /\ CountersOK /\ PlainTypeOK
  BY DEF TypeOK, CoreTypeOK, StrandOK, Handler, CountersOK, PlainTypeOK

\* The counters never leave their range.
LEMMA CountersStep ==
    ASSUME CountersOK, [Next]_vars
    PROVE  CountersOK'
  <1> USE VmContextAssumption
  <1>1. CASE UNCHANGED counters
    BY <1>1 DEF CountersOK, counters
  <1>2. ASSUME NEW f \in Fiber, DisableInterruption(f)
        PROVE  CountersOK'
    BY <1>2 DEF CountersOK, DisableInterruption, Increment, AlwaysDisabled
  <1>3. ASSUME NEW f \in Fiber, RestoreInterruption(f)
        PROVE  CountersOK'
    BY <1>3 DEF CountersOK, RestoreInterruption, AlwaysDisabled
  <1>4. ASSUME NEW f \in Fiber, ForbidSuspend(f)
        PROVE  CountersOK'
    BY <1>4 DEF CountersOK, ForbidSuspend
  <1>5. ASSUME NEW f \in Fiber, AllowSuspend(f)
        PROVE  CountersOK'
    BY <1>5 DEF CountersOK, AllowSuspend
  <1>6. ASSUME NEW v \in Vm, CloseVm(v)
        PROVE  CountersOK'
    BY <1>6 DEF CountersOK, CloseVm, Freed
  <1>7. ASSUME NEW v \in Vm, RunStrand(v)
        PROVE  UNCHANGED counters
    BY <1>7 DEF RunStrand, RunResume
  <1>8. ASSUME NEW f \in Fiber, Yield(f)
        PROVE  UNCHANGED counters
    BY <1>8 DEF Yield, fiberData, counters
  <1>9. ASSUME NEW f \in Fiber, NEW g \in Fiber, HandleCall(f, g)
        PROVE  UNCHANGED counters
    BY <1>9 DEF HandleCall, Spawn, SpawnFiber, JoinRaises, JoinRunning, JoinFinished, Detach,
       HandleGc, InterruptNothing, InterruptFlag, InterruptJoin, fiberData, counters
  <1>10. ASSUME NEW f \in Fiber, Finish(f) \/ Terminate(f)
         PROVE  CountersOK'
    <2>1. VmOf[f] \in Vm
      OBVIOUS
    <2>2. UNCHANGED counters \/ CloseVm(VmOf[f])
      BY <1>10 DEF Finish, Terminate, FinishDetached, FinishMainError, FinishUnjoined,
         FinishJoined, Close, fiberData, counters
    <2> QED
      BY <1>1, <1>6, <2>1, <2>2
  <1>11. ASSUME NEW f \in Fiber, ThisFiber(f)
         PROVE  CountersOK'
    BY <1>1, <1>2, <1>3, <1>4, <1>5, <1>8, <1>11 DEF ThisFiber
  <1>12. CASE UNCHANGED vars
    BY <1>1, <1>12 DEF vars, fiberData, counters
  <1> QED
    BY <1>1, <1>7, <1>9, <1>10, <1>11, <1>12 DEF Next

\* Only handlers that resume a fiber are ever posted.
LEMMA StrandStep ==
    ASSUME StrandOK, PlainTypeOK, [Next]_vars
    PROVE  StrandOK'
  <1> USE VmContextAssumption
  <1>1. CASE UNCHANGED strand
    BY <1>1 DEF StrandOK
  <1>2. ASSUME NEW v \in Vm, NEW h \in Handler, strand' = Post(v, h)
        PROVE  StrandOK'
    BY <1>2, PostFacts DEF StrandOK
  <1>3. ASSUME NEW v \in Vm, RunStrand(v)
        PROVE  StrandOK'
    BY <1>3, PopFacts DEF StrandOK, RunStrand, RunResume, StrandReady
  <1>4. ASSUME NEW f \in Fiber
        PROVE  ResumeSkipClear(f) \in Handler /\ Resume(f, "interrupted") \in Handler
    BY <1>4 DEF ResumeSkipClear, Resume, Handler, ResumeHandler, Result
  <1>5. ASSUME NEW f \in Fiber, ThisFiber(f)
        PROVE  StrandOK'
    BY <1>1, <1>2, <1>4, <1>5 DEF ThisFiber, DisableInterruption, RestoreInterruption,
       ForbidSuspend, AllowSuspend, Yield
  <1>6. ASSUME NEW f \in Fiber, Finish(f) \/ Terminate(f)
        PROVE  UNCHANGED strand
    BY <1>6 DEF Finish, Terminate, FinishDetached, FinishMainError, FinishUnjoined,
       FinishJoined
  <1>7. ASSUME NEW f \in Fiber, NEW g \in Fiber, HandleCall(f, g)
        PROVE  StrandOK'
    <2>1. CASE Spawn(f, g)
      BY <1>2, <1>4, <2>1 DEF Spawn, SpawnFiber
    <2>2. CASE InterruptJoin(f, g)
      BY <1>2, <1>4, <2>2 DEF InterruptJoin, JoinInterrupter
    <2>3. CASE JoinRaises(f, g) \/ JoinRunning(f, g) \/ JoinFinished(f, g)
      BY <1>1, <2>3 DEF JoinRaises, JoinRunning, JoinFinished
    <2>4. CASE Detach(f, g) \/ HandleGc(f, g)
      BY <1>1, <2>4 DEF Detach, HandleGc, coreVars
    <2>5. CASE InterruptNothing(f, g) \/ InterruptFlag(f, g)
      BY <1>1, <2>5 DEF InterruptNothing, InterruptFlag
    <2> QED
      BY <1>7, <2>1, <2>2, <2>3, <2>4, <2>5 DEF HandleCall
  <1>8. CASE UNCHANGED vars
    BY <1>1, <1>8 DEF vars, coreVars
  <1> QED
    BY <1>1, <1>3, <1>5, <1>6, <1>7, <1>8 DEF Next

\* The other variables keep their types; in particular what join() returns is
\* a result and a joiner is a fiber.
LEMMA PlainTypeStep ==
    ASSUME StrandOK, PlainTypeOK, [Next]_vars
    PROVE  PlainTypeOK'
  <1> USE VmContextAssumption, FibersAssumption DEF PlainTypeOK
  <1>1. CASE UNCHANGED vars
    BY <1>1 DEF vars, coreVars, fiberData, joinVars, handleVars
  <1>2. ASSUME NEW v \in Vm, RunStrand(v)
        PROVE  PlainTypeOK'
    <2>1. Head(strand[v]).fiber \in Fiber /\ Head(strand[v]).val \in Result
      BY <1>2, PopFacts DEF StrandOK, RunStrand, RunResume, StrandReady, Handler, ResumeHandler
    <2> QED
      BY ZenonT(30), <1>2, <2>1 DEF RunStrand, RunResume, FiberResume, ClearedInterrupter,
         SetInterrupter,
         joinVars, handleVars
  <1>3. ASSUME NEW f \in Fiber, ThisFiber(f)
        PROVE  PlainTypeOK'
    BY <1>3 DEF ThisFiber, DisableInterruption, RestoreInterruption, ForbidSuspend,
       AllowSuspend, Yield, Return, Suspend, SuspendError, fiberData, joinVars, handleVars,
       Suspended, Result
  <1>4. ASSUME NEW f \in Fiber, NEW o \in Outcome,
               FinishDetached(f, o) \/ FinishUnjoined(f, o)
        PROVE  PlainTypeOK'
    BY <1>4 DEF FinishDetached, FinishUnjoined, Suspend, fiberData, handleVars, Gone, Result
  <1>5. ASSUME NEW f \in Fiber, NEW o \in Outcome, FinishJoined(f, o)
        PROVE  PlainTypeOK'
    BY <1>5 DEF FinishJoined, SetInterrupter, JoinResult, Outcome, Gone, Result
  <1>6. ASSUME NEW v \in Vm, Close(v)
        PROVE  PlainTypeOK'
    BY <1>6 DEF Close, CloseVm, Freed, Gone, Result
  <1>7. ASSUME NEW f \in Fiber, Finish(f) \/ Terminate(f)
        PROVE  PlainTypeOK'
    BY <1>4, <1>5, <1>6, <1>7 DEF Finish, Terminate, FinishMainError
  <1>8. ASSUME NEW f \in Fiber, NEW g \in Fiber, HandleCall(f, g)
        PROVE  PlainTypeOK'
    <2>1. CASE Spawn(f, g)
      BY <2>1 DEF Spawn, SpawnFiber, fiberData, Suspended, Result
    <2>2. CASE JoinRaises(f, g)
      BY <2>2 DEF JoinRaises, JoinError, SuspendError, Return, fiberData, joinVars, handleVars, Result
    <2>3. CASE JoinRunning(f, g)
      BY <2>3 DEF JoinRunning, SetInterrupter, Suspend, Suspended, Result
    <2>4. CASE JoinFinished(f, g)
      BY <2>4 DEF JoinFinished, Return, JoinResult, fiberData, Outcome, Result
    <2>5. CASE Detach(f, g)
      BY ZenonT(30), <2>5 DEF Detach, LetGo, Return, fiberData, Result
    <2>6. CASE HandleGc(f, g)
      BY ZenonT(30), <2>6 DEF HandleGc, LetGo, coreVars, fiberData
    <2>7. CASE InterruptNothing(f, g)
      BY <2>7 DEF InterruptNothing, Return, fiberData, joinVars, handleVars, Result
    <2>8. CASE InterruptFlag(f, g)
      BY <2>8 DEF InterruptFlag, Return, joinVars, handleVars, Result
    <2>9. CASE InterruptJoin(f, g)
      BY <2>9 DEF InterruptJoin, JoinInterrupter, Return, Result
    <2> QED
      BY <1>8, <2>1, <2>2, <2>3, <2>4, <2>5, <2>6, <2>7, <2>8, <2>9 DEF HandleCall
  <1> QED
    BY <1>1, <1>2, <1>3, <1>7, <1>8 DEF Next

\* The state a VM starts in is well typed.
LEMMA TypeInit == Init => TypeOK
  <1> USE VmContextAssumption, FibersAssumption
  <1> SUFFICES ASSUME Init PROVE TypeOK
    OBVIOUS
  <1>1. StrandOK
    <2>1. \A v \in Vm : ResumeSkipClear(Main[v]) \in Handler
      BY DEF ResumeSkipClear, Handler, ResumeHandler, Result
    <2> QED
      BY <2>1 DEF Init, CoreInit, StrandOK
  <1>2. CountersOK
    BY DEF Init, CoreInit, CountersOK, AlwaysDisabled
  <1>3. PlainTypeOK
    BY DEF Init, CoreInit, PlainTypeOK, Suspended, Gone, Result
  <1> QED
    BY <1>1, <1>2, <1>3, TypeParts

\* Every operation of fiber.cpp and every handler of the strand keeps the types.
LEMMA TypeStep == TypeOK /\ [Next]_vars => TypeOK'
  <1> SUFFICES ASSUME TypeOK, [Next]_vars PROVE TypeOK'
    OBVIOUS
  <1>1. StrandOK /\ CountersOK /\ PlainTypeOK
    BY TypeParts
  <1>2. (StrandOK /\ CountersOK /\ PlainTypeOK)'
    BY <1>1, StrandStep, CountersStep, PlainTypeStep
  <1> QED
    BY <1>2, TypeParts, PTL

\* Every variable keeps its type, for any number of VMs and fibers: the nesting
\* counters of this_fiber never leave their range and a strand only ever holds
\* resumptions of fibers (never of nullptr).
THEOREM TypeCorrect == Spec => []TypeOK
  BY TypeInit, TypeStep, PTL DEF Spec

-----------------------------------------------------------------------------
(* The steps preserve the inductive invariant.  One lemma per kind of step.  *)

\* What the conjuncts below need of the types.
Shape ==
    /\ \A f \in Fiber : VmOf[f] \in Vm
    /\ \A v \in Vm : Len(strand[v]) \in Nat
    /\ \A v \in Vm : \A i \in 1..Len(strand[v]) : strand[v][i].fiber \in Fiber

\* What the proofs below need of the types: a strand is a finite queue of
\* handlers that name a fiber.
LEMMA ShapeHolds == TypeOK => Shape
  <1> SUFFICES ASSUME TypeOK PROVE Shape
    OBVIOUS
  <1>1. \A v \in Vm : strand[v] \in Seq(Handler)
    BY TypeParts DEF StrandOK
  <1>2. \A v \in Vm : Len(strand[v]) \in Nat
                        /\ \A i \in 1..Len(strand[v]) : strand[v][i] \in Handler
    BY <1>1
  <1> QED
    BY <1>2, VmContextAssumption DEF Shape, Handler, ResumeHandler

\* Steps that move no fiber and touch no handle.
LEMMA QuietStep ==
    ASSUME Inv, TypeOK', UNCHANGED <<coreVars, interrupter, joinVars, handleVars>>,
           \A f \in Fiber : at[f] # "running" =>
               interruptionDisabled'[f] = interruptionDisabled[f]
    PROVE  Inv'
  BY DEF Inv, coreVars, joinVars, handleVars, CurrentRuns, QueuedIsSuspended, QueuedOnce,
     JoinerWaits, JoinsOne, HandleIsSound, InterrupterJoins, Disabled, SomeoneOwes, Queued,
     Awaits

\* The current fiber f runs, so nobody has queued it or is joined by it.
LEMMA RunningIsFree ==
    ASSUME Inv, NEW f \in Fiber, Running(f)
    PROVE  /\ at[f] = "running" /\ valid[VmOf[f]] /\ interrupter[f] = Nil
           /\ \A x \in Fiber : joiner[x] = f => at[x] = "dead"
           /\ \A v \in Vm : valid[v] =>
                 \A i \in 1..Len(strand[v]) : strand[v][i].fiber # f
  <1>1. at[f] = "running" /\ valid[VmOf[f]]
    BY DEF Inv, Running, CurrentRuns
  <1>2. interrupter[f] = Nil
    BY <1>1 DEF Inv, InterrupterJoins
  <1>3. \A x \in Fiber : joiner[x] = f => at[x] = "dead"
    BY <1>1 DEF Inv, JoinerWaits
  <1>4. \A v \in Vm : valid[v] => \A i \in 1..Len(strand[v]) : strand[v][i].fiber # f
    BY <1>1 DEF Inv, QueuedIsSuspended, Suspended
  <1> QED
    BY <1>1, <1>2, <1>3, <1>4

\* The current fiber finishes and nobody waits for it.
LEMMA FinishAloneStep ==
    ASSUME Inv, TypeOK', NEW f \in Fiber, NEW o \in Outcome,
           FinishDetached(f, o) \/ FinishUnjoined(f, o)
    PROVE  Inv'
  <1> USE VmContextAssumption, FibersAssumption
  <1>1. /\ at[f] = "running" /\ valid[VmOf[f]] /\ interrupter[f] = Nil
        /\ \A x \in Fiber : joiner[x] = f => at[x] = "dead"
        /\ \A v \in Vm : valid[v] => \A i \in 1..Len(strand[v]) : strand[v][i].fiber # f
    BY RunningIsFree DEF FinishDetached, FinishUnjoined
  <1>2. /\ running' = [running EXCEPT ![VmOf[f]] = Nil] /\ at' = [at EXCEPT ![f] = "dead"]
        /\ UNCHANGED <<strand, valid, fiberData, joiner, handleVars>>
        /\ joiner[f] \notin Fiber
    BY DEF FinishDetached, FinishUnjoined, Suspend
  <1>3. Shape /\ PlainTypeOK
    BY ShapeHolds, TypeParts DEF Inv
  <1>4. CurrentRuns'
    BY <1>1, <1>2, <1>3 DEF Inv, CurrentRuns, PlainTypeOK
  <1>5. QueuedIsSuspended' /\ QueuedOnce'
    BY <1>1, <1>2, <1>3 DEF Inv, QueuedIsSuspended, QueuedOnce, PlainTypeOK, Shape
  <1>6. JoinerWaits' /\ JoinsOne'
    <2>1. \A x \in Fiber : at'[x] # "dead" => x # f /\ at'[x] = at[x]
      BY <1>1, <1>2, <1>3 DEF PlainTypeOK
    <2>2. \A x \in Fiber : joiner[x] \in Fiber /\ at[x] # "dead" =>
              at'[joiner[x]] = at[joiner[x]]
      BY <1>1, <1>2, <1>3 DEF PlainTypeOK
    <2>3. JoinerWaits'
      BY <1>2, <2>1, <2>2 DEF Inv, JoinerWaits, handleVars
    <2> QED
      BY <1>2, <2>1, <2>3 DEF Inv, JoinsOne
  <1>7. HandleIsSound'
    BY <1>1, <1>2, <1>3 DEF Inv, HandleIsSound, PlainTypeOK, handleVars, FinishDetached,
       FinishUnjoined
  <1>8. InterrupterJoins'
    BY <1>1, <1>2, <1>3 DEF Inv, InterrupterJoins, PlainTypeOK, fiberData, Disabled
  <1>9. SomeoneOwes'
    <2>1. \A g \in Fiber : at'[g] \in Suspended => g # f /\ at'[g] = at[g]
      BY <1>1, <1>2, <1>3 DEF PlainTypeOK, Suspended
    <2>2. \A g, x \in Fiber : joiner[x] = g /\ at[x] # "dead" => joiner'[x] = g /\ at'[x] # "dead"
      BY <1>1, <1>2, <1>3 DEF PlainTypeOK
    <2>3. \A g \in Fiber : at'[g] \in Suspended /\ Awaits(g) => Awaits(g)'
      BY <2>1, <2>2 DEF Awaits
    <2> QED
      BY <1>2, <2>1, <2>3 DEF Inv, SomeoneOwes, Queued
  <1> QED
    BY <1>4, <1>5, <1>6, <1>7, <1>8, <1>9 DEF Inv

\* The current fiber finishes and its joiner goes on in the same handler.
LEMMA FinishJoinedStep ==
    ASSUME Inv, TypeOK', NEW f \in Fiber, NEW o \in Outcome, FinishJoined(f, o)
    PROVE  Inv'
  <1> USE VmContextAssumption, FibersAssumption
  <1> DEFINE j == joiner[f]
  <1>1. /\ at[f] = "running" /\ valid[VmOf[f]] /\ interrupter[f] = Nil
        /\ \A x \in Fiber : joiner[x] = f => at[x] = "dead"
        /\ \A v \in Vm : valid[v] => \A i \in 1..Len(strand[v]) : strand[v][i].fiber # f
    BY RunningIsFree DEF FinishJoined
  <1>2. j \in Fiber /\ j # f /\ VmOf[j] = VmOf[f] /\ at[j] = "join"
    BY <1>1 DEF FinishJoined, Inv, JoinerWaits
  <1>3. /\ \A x \in Fiber : joiner[x] = j /\ at[x] # "dead" => x = f
        /\ \A v \in Vm : valid[v] => \A i \in 1..Len(strand[v]) : strand[v][i].fiber # j
    BY <1>1, <1>2 DEF Inv, JoinsOne, QueuedIsSuspended
  <1>4. Shape /\ PlainTypeOK
    BY ShapeHolds, TypeParts DEF Inv
  <1>5. CurrentRuns'
    BY <1>1, <1>2, <1>4 DEF Inv, CurrentRuns, PlainTypeOK, FinishJoined
  <1>6. QueuedIsSuspended' /\ QueuedOnce'
    BY SMTT(30), <1>1, <1>2, <1>3, <1>4 DEF Inv, QueuedIsSuspended, QueuedOnce, PlainTypeOK,
       Shape,
       FinishJoined
  <1>7. JoinerWaits' /\ JoinsOne'
    <2>1. \A x \in Fiber : at'[x] # "dead" /\ joiner[x] \in Fiber =>
              x # f /\ at[x] # "dead" /\ joiner[x] \notin {f, j}
                /\ at'[joiner[x]] = at[joiner[x]]
      BY <1>1, <1>2, <1>3, <1>4 DEF PlainTypeOK, FinishJoined
    <2>2. JoinerWaits'
      BY <2>1, <1>4 DEF Inv, JoinerWaits, FinishJoined, PlainTypeOK
    <2> QED
      BY <2>1, <2>2 DEF Inv, JoinsOne, FinishJoined
  <1>8. HandleIsSound'
    BY <1>1, <1>2, <1>4 DEF Inv, HandleIsSound, PlainTypeOK, FinishJoined
  <1>9. InterrupterJoins'
    BY <1>1, <1>2, <1>3, <1>4 DEF Inv, InterrupterJoins, PlainTypeOK, FinishJoined,
       SetInterrupter, Disabled, counters
  <1>10. SomeoneOwes'
    <2>1. \A g \in Fiber : at'[g] \in Suspended => g \notin {f, j} /\ at'[g] = at[g]
      BY <1>1, <1>2, <1>4 DEF PlainTypeOK, FinishJoined, Suspended
    <2>2. \A g, x \in Fiber : g # j /\ joiner[x] = g /\ at[x] # "dead" =>
              joiner'[x] = g /\ at'[x] # "dead"
      BY <1>1, <1>2, <1>4 DEF PlainTypeOK, FinishJoined
    <2>3. UNCHANGED strand
      BY DEF FinishJoined
    <2>4. \A g \in Fiber : at'[g] \in Suspended /\ Awaits(g) => Awaits(g)'
      BY <2>1, <2>2 DEF Awaits
    <2> QED
      BY <2>1, <2>3, <2>4 DEF Inv, SomeoneOwes, Queued
  <1> QED
    BY <1>5, <1>6, <1>7, <1>8, <1>9, <1>10 DEF Inv

\* close(): the fibers and handles of one VM disappear.
LEMMA CloseStep ==
    ASSUME Inv, TypeOK', NEW v \in Vm, Close(v), UNCHANGED strand
    PROVE  Inv'
  <1> USE VmContextAssumption, FibersAssumption
  <1>1. Shape /\ PlainTypeOK
    BY ShapeHolds, TypeParts DEF Inv
  <1>2. \A f \in Fiber : VmOf[f] = v =>
            at'[f] = "dead" /\ interrupter'[f] = Nil /\ joiner'[f] = Nil /\ ~handleFiber'[f]
    BY DEF Close, CloseVm, Freed
  <1>3. \A f \in Fiber : VmOf[f] # v =>
            /\ at'[f] = at[f] /\ interrupter'[f] = interrupter[f]
            /\ joiner'[f] = joiner[f] /\ status'[f] = status[f]
            /\ handleFiber'[f] = handleFiber[f] /\ joinInProgress'[f] = joinInProgress[f]
            /\ handleLive'[f] = handleLive[f]
            /\ interruptionDisabled'[f] = interruptionDisabled[f]
            /\ f \in fiberList' <=> f \in fiberList
    BY DEF Close, CloseVm, Freed
  <1>4. /\ valid'[v] = FALSE /\ running'[v] = Nil
        /\ \A w \in Vm : w # v => valid'[w] = valid[w] /\ running'[w] = running[w]
    BY <1>1 DEF Close, CloseVm, PlainTypeOK
  <1>5. CurrentRuns'
    <2>1. ASSUME NEW f \in Fiber
          PROVE  at'[f] = "running" <=> running'[VmOf[f]] = f
      <3>1. CASE VmOf[f] = v
        BY <1>2, <1>4, <3>1
      <3>2. CASE VmOf[f] # v
        <4>1. at'[f] = at[f] /\ running'[VmOf[f]] = running[VmOf[f]]
          BY <1>1, <1>3, <1>4, <3>2 DEF Shape
        <4>2. at[f] = "running" <=> running[VmOf[f]] = f
          BY DEF Inv, CurrentRuns
        <4> QED
          BY <4>1, <4>2
      <3> QED
        BY <3>1, <3>2
    <2>2. \A w \in Vm : running'[w] # Nil => VmOf[running'[w]] = w
      BY <1>4 DEF Inv, CurrentRuns
    <2>3. \A f \in Fiber : ~valid'[VmOf[f]] => at'[f] = "dead"
      BY ZenonT(30), <1>1, <1>2, <1>3, <1>4 DEF Inv, CurrentRuns, Shape
    <2> QED
      BY <2>1, <2>2, <2>3 DEF CurrentRuns
  <1>6. QueuedIsSuspended' /\ QueuedOnce'
    <2>1. \A w \in Vm : valid'[w] => w # v /\ valid[w]
      BY <1>4
    <2>2. QueuedIsSuspended'
      <3> SUFFICES ASSUME NEW w \in Vm, valid'[w], NEW i \in 1..Len(strand[w])
                   PROVE  /\ VmOf[strand[w][i].fiber] = w
                          /\ at'[strand[w][i].fiber] \in Suspended
                          /\ \A x \in Fiber : joiner'[x] = strand[w][i].fiber => at'[x] = "dead"
        BY DEF QueuedIsSuspended
      <3>1. /\ strand[w][i].fiber \in Fiber /\ w # v
            /\ VmOf[strand[w][i].fiber] = w /\ at[strand[w][i].fiber] \in Suspended
            /\ \A x \in Fiber : joiner[x] = strand[w][i].fiber => at[x] = "dead"
        BY <1>1, <2>1 DEF Inv, QueuedIsSuspended, Shape
      <3> QED
        BY <1>2, <1>3, <3>1
    <2> QED
      BY <2>1, <2>2 DEF Inv, QueuedOnce
  <1>7. JoinerWaits' /\ JoinsOne'
    <2>1. \A x \in Fiber : joiner'[x] \in Fiber => VmOf[x] # v /\ joiner'[x] = joiner[x]
      BY <1>2, <1>3
    <2>2. JoinerWaits'
      BY <1>3, <2>1 DEF Inv, JoinerWaits
    <2> QED
      BY <1>3, <2>1, <2>2 DEF Inv, JoinsOne
  <1>8. HandleIsSound'
    BY <1>2, <1>3 DEF Inv, HandleIsSound
  <1>9. InterrupterJoins'
    <2>1. \A f \in Fiber : interrupter'[f] # Nil => VmOf[f] # v /\ interrupter[f] # Nil
      BY <1>2, <1>3
    <2>2. \A f \in Fiber : interrupter[f] # Nil =>
              /\ interrupter[f] \in Fiber /\ joiner[interrupter[f]] = f
              /\ at[interrupter[f]] # "dead" /\ VmOf[interrupter[f]] = VmOf[f]
      BY <1>1 DEF Inv, InterrupterJoins, JoinerWaits, PlainTypeOK
    <2> QED
      BY <1>3, <2>1, <2>2 DEF Inv, InterrupterJoins, Disabled
  <1>10. SomeoneOwes'
    <2>1. \A f \in Fiber : at'[f] \in Suspended => VmOf[f] # v /\ at'[f] = at[f]
      BY <1>2, <1>3 DEF Suspended
    <2>2. \A f, x \in Fiber : VmOf[f] # v /\ joiner[x] = f /\ at[x] # "dead" =>
              joiner'[x] = f /\ at'[x] # "dead"
      BY <1>3 DEF Inv, JoinerWaits
    <2>3. \A f \in Fiber : at'[f] \in Suspended /\ Awaits(f) => Awaits(f)'
      BY <2>1, <2>2 DEF Awaits
    <2> QED
      BY <2>1, <2>3 DEF Inv, SomeoneOwes, Queued
  <1> QED
    BY <1>5, <1>6, <1>7, <1>8, <1>9, <1>10 DEF Inv

\* A fiber g that nobody owes a resumption is put at a site of a fresh
\* suspension and its resume posted: what spawn(), yield() and the interruption
\* of join() have in common.
LEMMA PostedOnce ==
    ASSUME Inv, NEW g \in Fiber, NEW h \in Handler, h.fiber = g,
           strand' = Post(VmOf[g], h), valid[VmOf[g]], valid' = valid,
           at'[g] \in Suspended,
           \A f \in Fiber : f # g => at'[f] = at[f],
           \A v \in Vm : valid[v] => \A i \in 1..Len(strand[v]) : strand[v][i].fiber # g,
           \A x \in Fiber : joiner'[x] \in Fiber => joiner'[x] = joiner[x],
           \A x \in Fiber : joiner'[x] = g => at'[x] = "dead",
           \A x \in Fiber : at[x] = "dead" <=> at'[x] = "dead"
    PROVE  QueuedIsSuspended' /\ QueuedOnce'
  <1> USE VmContextAssumption
  <1>1. Shape /\ StrandOK
    BY ShapeHolds, TypeParts DEF Inv
  <1> DEFINE v == VmOf[g]
             n == Len(strand[v])
  <1>2. /\ v \in Vm /\ n \in Nat
        /\ \A w \in Vm : w # v => strand'[w] = strand[w]
        /\ Len(strand'[v]) = n + 1
        /\ \A i \in 1..n : strand'[v][i] = strand[v][i]
        /\ strand'[v][n + 1] = h
    BY SMTT(30), <1>1, PostFacts DEF StrandOK
  <1> HIDE DEF v, n
  <1>3. \A w \in Vm : \A i \in 1..Len(strand'[w]) :
            \/ w = v /\ i = n + 1 /\ strand'[w][i].fiber = g
            \/ i \in 1..Len(strand[w]) /\ strand'[w][i] = strand[w][i]
    <2> TAKE w \in Vm
    <2> TAKE i \in 1..Len(strand'[w])
    <2>1. CASE w # v
      BY <1>2, <2>1
    <2>2. CASE w = v /\ i = n + 1
      BY <1>2, <2>2
    <2>3. CASE w = v /\ i # n + 1
      <3>1. i \in 1..n
        BY <1>2, <2>3
      <3> QED
        BY <1>2, <2>3, <3>1 DEF n
    <2> QED
      BY <2>1, <2>2, <2>3
  <1>4. QueuedIsSuspended'
    <2> SUFFICES ASSUME NEW w \in Vm, valid[w], NEW i \in 1..Len(strand'[w])
                 PROVE  /\ VmOf[strand'[w][i].fiber] = w
                        /\ at'[strand'[w][i].fiber] \in Suspended
                        /\ \A x \in Fiber : joiner'[x] = strand'[w][i].fiber => at'[x] = "dead"
      BY DEF QueuedIsSuspended
    <2>1. CASE strand'[w][i].fiber = g /\ w = v
      BY <2>1 DEF v
    <2>2. CASE i \in 1..Len(strand[w]) /\ strand'[w][i] = strand[w][i]
      <3>1. /\ strand[w][i].fiber \in Fiber /\ strand[w][i].fiber # g
            /\ VmOf[strand[w][i].fiber] = w /\ at[strand[w][i].fiber] \in Suspended
            /\ \A x \in Fiber : joiner[x] = strand[w][i].fiber => at[x] = "dead"
        BY <1>1, <2>2 DEF Inv, QueuedIsSuspended, Shape
      <3> QED
        BY SMTT(30), <2>2, <3>1
    <2> QED
      BY <1>3, <2>1, <2>2
  <1>5. QueuedOnce'
    <2> SUFFICES ASSUME NEW w \in Vm, valid[w],
                        NEW i \in 1..Len(strand'[w]), NEW j \in 1..Len(strand'[w]),
                        strand'[w][i].fiber = strand'[w][j].fiber
                 PROVE  i = j
      BY DEF QueuedOnce
    <2>1. /\ i \in 1..Len(strand[w]) => strand[w][i].fiber # g
          /\ j \in 1..Len(strand[w]) => strand[w][j].fiber # g
      OBVIOUS
    <2>2. \/ i = n + 1 /\ j = n + 1
          \/ /\ i \in 1..Len(strand[w]) /\ strand'[w][i] = strand[w][i]
             /\ j \in 1..Len(strand[w]) /\ strand'[w][j] = strand[w][j]
      BY SMTT(30), <1>3, <2>1
    <2>3. QueuedOnce
      BY DEF Inv
    <2>4. CASE /\ i \in 1..Len(strand[w]) /\ strand'[w][i] = strand[w][i]
               /\ j \in 1..Len(strand[w]) /\ strand'[w][j] = strand[w][j]
      <3>1. strand[w][i].fiber = strand[w][j].fiber
        BY <2>4
      <3> QED
        BY <2>3, <2>4, <3>1 DEF QueuedOnce
    <2> QED
      BY <2>2, <2>4
  <1> QED
    BY <1>4, <1>5

\* post() loses no handler.
LEMMA PostKeeps ==
    ASSUME StrandOK, NEW v \in Vm, NEW h \in Handler, strand' = Post(v, h)
    PROVE  /\ \A w \in Vm, f \in Fiber : Queued(w, f) => Queued(w, f)'
           /\ Queued(v, h.fiber)'
  <1>1. /\ \A w \in Vm : w # v => strand'[w] = strand[w]
        /\ Len(strand[v]) \in Nat
        /\ Len(strand'[v]) = Len(strand[v]) + 1
        /\ \A i \in 1..Len(strand[v]) : strand'[v][i] = strand[v][i]
        /\ strand'[v][Len(strand[v]) + 1] = h
    BY PostFacts DEF StrandOK
  <1>2. Queued(v, h.fiber)'
    <2>1. Len(strand[v]) + 1 \in 1..Len(strand'[v])
      BY <1>1
    <2> QED
      BY <1>1, <2>1 DEF Queued
  <1>3. ASSUME NEW w \in Vm, NEW f \in Fiber, Queued(w, f)
        PROVE  Queued(w, f)'
    <2>1. CASE w # v
      BY <1>1, <1>3, <2>1 DEF Queued
    <2>2. CASE w = v
      <3>1. PICK i \in 1..Len(strand[v]) : strand[v][i].fiber = f
        BY <1>3, <2>2 DEF Queued
      <3>2. i \in 1..Len(strand'[v]) /\ strand'[v][i].fiber = f
        BY <1>1, <3>1
      <3> QED
        BY <2>2, <3>2 DEF Queued
    <2> QED
      BY <2>1, <2>2
  <1> QED
    BY <1>2, <1>3

\* spawn().
LEMMA SpawnStep ==
    ASSUME Inv, TypeOK', NEW f \in Fiber, NEW g \in Fiber, Spawn(f, g)
    PROVE  Inv'
  <1> USE VmContextAssumption, FibersAssumption
  <1>1. Shape /\ PlainTypeOK /\ StrandOK
    BY ShapeHolds, TypeParts DEF Inv
  <1>2. /\ at[g] = "unborn" /\ at' = [at EXCEPT ![g] = "start"]
        /\ strand' = Post(VmOf[g], ResumeSkipClear(g))
        /\ UNCHANGED <<running, valid, fiberData, joiner, status, joinInProgress>>
        /\ handleFiber' = [handleFiber EXCEPT ![g] = TRUE]
        /\ handleLive' = [handleLive EXCEPT ![g] = TRUE]
        /\ fiberList' = fiberList \cup {g}
    BY DEF Spawn, SpawnFiber
  <1>3. valid[VmOf[g]]
    BY <1>2, RunningIsFree DEF Spawn, SpawnFiber
  <1>4. joiner[g] = Nil /\ \A x \in Fiber : joiner[x] = g => at[x] = "dead"
    BY <1>2 DEF Inv, HandleIsSound, JoinerWaits
  <1>5. \A v \in Vm : valid[v] => \A i \in 1..Len(strand[v]) : strand[v][i].fiber # g
    <2>1. at[g] \notin Suspended
      BY <1>2 DEF Suspended
    <2> QED
      BY <2>1 DEF Inv, QueuedIsSuspended
  <1>6. /\ at'[g] = "start"
        /\ \A x \in Fiber : x # g => at'[x] = at[x]
        /\ \A x \in Fiber : at[x] = "dead" <=> at'[x] = "dead"
    BY <1>1, <1>2 DEF PlainTypeOK
  <1>7. ResumeSkipClear(g) \in Handler /\ ResumeSkipClear(g).fiber = g
    BY DEF ResumeSkipClear, Handler, ResumeHandler, Result
  <1>8. CurrentRuns'
    BY <1>2, <1>3, <1>6 DEF Inv, CurrentRuns
  <1>9. QueuedIsSuspended' /\ QueuedOnce'
    <2>1. at'[g] \in Suspended
      BY <1>6 DEF Suspended
    <2>2. \A x \in Fiber : joiner'[x] = g => at'[x] = "dead"
      BY <1>2, <1>4, <1>6
    <2>3. valid' = valid /\ \A x \in Fiber : joiner'[x] \in Fiber => joiner'[x] = joiner[x]
      BY <1>2
    <2>4. strand' = Post(VmOf[g], ResumeSkipClear(g))
      BY <1>2
    <2> QED
      BY ZenonT(60), <1>3, <1>5, <1>6, <1>7, <2>1, <2>2, <2>3, <2>4, PostedOnce
  <1>10. JoinerWaits' /\ JoinsOne'
    <2>1. \A x \in Fiber : joiner'[x] \in Fiber /\ at'[x] # "dead" =>
              x # g /\ joiner'[x] # g /\ joiner[x] = joiner'[x] /\ at[x] # "dead"
      BY <1>2, <1>4, <1>6
    <2>2. JoinerWaits'
      BY <1>1, <1>2, <1>6, <2>1 DEF Inv, JoinerWaits, PlainTypeOK
    <2> QED
      BY <2>1, <2>2 DEF Inv, JoinsOne
  <1>11. HandleIsSound'
    BY <1>1, <1>2, <1>4, <1>6 DEF Inv, HandleIsSound, PlainTypeOK
  <1>12. InterrupterJoins'
    BY <1>1, <1>2, <1>6 DEF Inv, InterrupterJoins, Disabled, fiberData, PlainTypeOK
  <1>13. SomeoneOwes'
    <2>1. /\ \A x \in Fiber : Queued(VmOf[x], x) => Queued(VmOf[x], x)'
          /\ Queued(VmOf[g], g)'
      BY <1>1, <1>2, <1>7, PostKeeps DEF Shape
    <2>2. \A x \in Fiber : x # g /\ Awaits(x) => Awaits(x)'
      BY <1>2, <1>6 DEF Awaits
    <2>3. \A x \in Fiber : x # g => at'[x] = at[x]
      BY <1>2, <1>6
    <2> QED
      BY <2>1, <2>2, <2>3 DEF Inv, SomeoneOwes
  <1> QED
    BY <1>8, <1>9, <1>10, <1>11, <1>12, <1>13 DEF Inv

\* yield(), when it suspends.
LEMMA YieldStep ==
    ASSUME Inv, TypeOK', NEW f \in Fiber, Yield(f), CanSuspend(f),
           UNCHANGED <<joinVars, handleVars>>
    PROVE  Inv'
  <1> USE VmContextAssumption, FibersAssumption
  <1>1. Shape /\ PlainTypeOK /\ StrandOK
    BY ShapeHolds, TypeParts DEF Inv
  <1>2. /\ at[f] = "running" /\ valid[VmOf[f]] /\ interrupter[f] = Nil
        /\ \A x \in Fiber : joiner[x] = f => at[x] = "dead"
        /\ \A v \in Vm : valid[v] => \A i \in 1..Len(strand[v]) : strand[v][i].fiber # f
    BY RunningIsFree DEF Yield
  <1>3. /\ at' = [at EXCEPT ![f] = "yield"] /\ running' = [running EXCEPT ![VmOf[f]] = Nil]
        /\ strand' = Post(VmOf[f], ResumeSkipClear(f))
        /\ UNCHANGED <<valid, fiberData, joiner, status, fiberList, handleFiber,
                       joinInProgress, handleLive>>
    BY DEF Yield, Suspend, joinVars, handleVars
  <1>4. /\ at'[f] = "yield"
        /\ \A x \in Fiber : x # f => at'[x] = at[x]
        /\ \A x \in Fiber : at[x] = "dead" <=> at'[x] = "dead"
    BY <1>1, <1>2, <1>3 DEF PlainTypeOK
  <1>5. ResumeSkipClear(f) \in Handler /\ ResumeSkipClear(f).fiber = f
    BY DEF ResumeSkipClear, Handler, ResumeHandler, Result
  <1>6. CurrentRuns'
    BY <1>1, <1>2, <1>3, <1>4 DEF Inv, CurrentRuns, PlainTypeOK
  <1>7. QueuedIsSuspended' /\ QueuedOnce'
    <2>1. at'[f] \in Suspended
      BY <1>4 DEF Suspended
    <2>2. \A x \in Fiber : joiner'[x] = f => at'[x] = "dead"
      BY <1>2, <1>3, <1>4
    <2>3. valid' = valid /\ \A x \in Fiber : joiner'[x] \in Fiber => joiner'[x] = joiner[x]
      BY <1>3
    <2>4. strand' = Post(VmOf[f], ResumeSkipClear(f))
      BY <1>3
    <2> QED
      BY ZenonT(30), <1>2, <1>4, <1>5, <2>1, <2>2, <2>3, <2>4, PostedOnce
  <1>8. JoinerWaits' /\ JoinsOne'
    <2>1. \A x \in Fiber : joiner'[x] \in Fiber /\ at'[x] # "dead" =>
              joiner'[x] # f /\ joiner[x] = joiner'[x] /\ at[x] # "dead"
      BY <1>2, <1>3, <1>4
    <2>2. JoinerWaits'
      BY <1>3, <1>4, <2>1 DEF Inv, JoinerWaits
    <2> QED
      BY <2>1, <2>2 DEF Inv, JoinsOne
  <1>9. HandleIsSound'
    BY <1>2, <1>3, <1>4 DEF Inv, HandleIsSound
  <1>10. InterrupterJoins'
    BY <1>1, <1>2, <1>3, <1>4 DEF Inv, InterrupterJoins, Disabled, fiberData, PlainTypeOK
  <1>11. SomeoneOwes'
    <2>1. /\ \A x \in Fiber : Queued(VmOf[x], x) => Queued(VmOf[x], x)'
          /\ Queued(VmOf[f], f)'
      BY <1>1, <1>3, <1>5, PostKeeps DEF Shape
    <2>2. \A x \in Fiber : x # f /\ Awaits(x) => Awaits(x)'
      BY <1>3, <1>4 DEF Awaits
    <2>3. \A x \in Fiber : x # f => at'[x] = at[x]
      BY <1>3, <1>4
    <2> QED
      BY <2>1, <2>2, <2>3 DEF Inv, SomeoneOwes
  <1> QED
    BY <1>6, <1>7, <1>8, <1>9, <1>10, <1>11 DEF Inv

\* join() of a fiber that has not finished.
LEMMA JoinRunningStep ==
    ASSUME Inv, TypeOK', NEW f \in Fiber, NEW g \in Fiber, JoinRunning(f, g)
    PROVE  Inv'
  <1> USE VmContextAssumption, FibersAssumption
  <1>1. Shape /\ PlainTypeOK
    BY ShapeHolds, TypeParts DEF Inv
  <1>2. /\ at[f] = "running" /\ valid[VmOf[f]] /\ interrupter[f] = Nil
        /\ \A x \in Fiber : joiner[x] = f => at[x] = "dead"
        /\ \A v \in Vm : valid[v] => \A i \in 1..Len(strand[v]) : strand[v][i].fiber # f
    BY RunningIsFree DEF JoinRunning, HasHandle
  <1>3. /\ at' = [at EXCEPT ![f] = "join"] /\ running' = [running EXCEPT ![VmOf[f]] = Nil]
        /\ joiner' = [joiner EXCEPT ![g] = f]
        /\ joinInProgress' = [joinInProgress EXCEPT ![g] = TRUE]
        /\ interrupter' = SetInterrupter(f, g)
        /\ UNCHANGED <<strand, valid, interruptionDisabled, status, fiberList, handleFiber,
                       handleLive>>
    BY DEF JoinRunning, Suspend, counters
  <1>4. /\ g # f /\ VmOf[g] = VmOf[f] /\ handleLive[g] /\ handleFiber[g]
        /\ ~joinInProgress[g] /\ status[g] = Nil
    BY DEF JoinRunning, HasHandle, JoinError, SuspendError
  <1>5. at[g] # "dead" /\ at[g] # "unborn" /\ joiner[g] \notin Fiber
    BY <1>4 DEF Inv, HandleIsSound, JoinerWaits
  <1>6. /\ at'[f] = "join"
        /\ \A x \in Fiber : x # f => at'[x] = at[x]
        /\ \A x \in Fiber : at[x] = "dead" <=> at'[x] = "dead"
        /\ joiner'[g] = f
        /\ \A x \in Fiber : x # g => joiner'[x] = joiner[x]
    BY <1>1, <1>2, <1>3 DEF PlainTypeOK
  <1>7. CurrentRuns'
    BY <1>1, <1>2, <1>3, <1>6 DEF Inv, CurrentRuns, PlainTypeOK
  <1>8. QueuedIsSuspended' /\ QueuedOnce'
    <2>1. ASSUME NEW w \in Vm, valid'[w], NEW i \in 1..Len(strand'[w])
          PROVE  /\ VmOf[strand'[w][i].fiber] = w
                 /\ at'[strand'[w][i].fiber] \in Suspended
                 /\ \A x \in Fiber : joiner'[x] = strand'[w][i].fiber => at'[x] = "dead"
      <3>1. strand' = strand /\ valid[w] /\ i \in 1..Len(strand[w])
        BY <1>3, <2>1
      <3>2. /\ strand[w][i].fiber \in Fiber /\ strand[w][i].fiber # f
            /\ VmOf[strand[w][i].fiber] = w /\ at[strand[w][i].fiber] \in Suspended
            /\ \A x \in Fiber : joiner[x] = strand[w][i].fiber => at[x] = "dead"
        BY SMTT(30), <1>1, <1>2, <3>1 DEF Inv, QueuedIsSuspended, Shape
      <3> QED
        BY <1>6, <3>1, <3>2
    <2>2. QueuedOnce'
      BY <1>3 DEF Inv, QueuedOnce
    <2> QED
      BY <2>1, <2>2 DEF QueuedIsSuspended
  <1>9. JoinerWaits' /\ JoinsOne'
    <2>1. \A x \in Fiber : x # g /\ joiner'[x] \in Fiber /\ at'[x] # "dead" =>
              joiner'[x] # f /\ joiner[x] = joiner'[x] /\ at[x] # "dead"
      BY SMTT(30), <1>2, <1>6
    <2>2. JoinerWaits'
      BY <1>1, <1>3, <1>4, <1>6, <2>1 DEF Inv, JoinerWaits, PlainTypeOK
    <2> QED
      BY <1>6, <2>1, <2>2 DEF Inv, JoinsOne
  <1>10. HandleIsSound'
    BY <1>2, <1>3, <1>5, <1>6 DEF Inv, HandleIsSound
  <1>11. InterrupterJoins'
    <2>1. ASSUME NEW x \in Fiber, interrupter'[x] # Nil, x # f
          PROVE  /\ at'[x] = "join" /\ ~Disabled(x)' /\ joiner'[interrupter'[x]] = x
                 /\ at'[interrupter'[x]] # "dead"
      <3>1. interrupter'[x] = interrupter[x] /\ interrupter[x] \in Fiber
        BY <1>1, <1>3, <2>1 DEF SetInterrupter, PlainTypeOK
      <3>2. /\ at[x] = "join" /\ ~Disabled(x) /\ joiner[interrupter[x]] = x
            /\ at[interrupter[x]] # "dead"
        BY <2>1, <3>1 DEF Inv, InterrupterJoins
      <3>3. interrupter[x] # g
        BY <1>5, <3>2
      <3> QED
        BY <1>3, <1>6, <2>1, <3>1, <3>2, <3>3 DEF Disabled
    <2>2. ASSUME interrupter'[f] # Nil
          PROVE  /\ ~Disabled(f) /\ interrupter'[f] = g
      BY <1>1, <1>2, <1>3, <2>2 DEF SetInterrupter, PlainTypeOK
    <2>3. Disabled(f)' <=> Disabled(f)
      BY <1>3 DEF Disabled
    <2> QED
      BY <1>5, <1>6, <2>1, <2>2, <2>3 DEF InterrupterJoins
  <1>12. SomeoneOwes'
    <2>1. \A x \in Fiber : x # f /\ Awaits(x) => Awaits(x)'
      BY <1>5, <1>6 DEF Awaits
    <2>2. Awaits(f)'
      BY <1>5, <1>6 DEF Awaits
    <2>3. \A x \in Fiber : Queued(VmOf[x], x) => Queued(VmOf[x], x)'
      BY <1>3 DEF Queued
    <2> QED
      BY <1>6, <2>1, <2>2, <2>3 DEF Inv, SomeoneOwes
  <1> QED
    BY <1>7, <1>8, <1>9, <1>10, <1>11, <1>12 DEF Inv

\* A handle that nobody is joining gives up its fiber: join() of a finished
\* fiber, detach() and the collection of the handle.
LEMMA HandleStep ==
    ASSUME Inv, TypeOK', NEW g \in Fiber, handleLive[g], ~(handleFiber[g] /\ joinInProgress[g]),
           UNCHANGED <<coreVars, fiberData, status, joinInProgress>>,
           joiner' = joiner \/ joiner' = [joiner EXCEPT ![g] = Detached],
           fiberList' = fiberList \/ fiberList' = fiberList \ {g},
           handleFiber' = [handleFiber EXCEPT ![g] = FALSE],
           handleLive' = handleLive \/ handleLive' = [handleLive EXCEPT ![g] = FALSE]
    PROVE  Inv'
  <1> USE VmContextAssumption, FibersAssumption
  <1>1. Shape /\ PlainTypeOK
    BY ShapeHolds, TypeParts DEF Inv
  <1>2. joiner[g] \notin Fiber \/ at[g] = "dead"
    BY DEF Inv, JoinerWaits
  <1>3. at[g] # "unborn"
    BY DEF Inv, HandleIsSound
  <1>4. /\ \A x \in Fiber : x # g => joiner'[x] = joiner[x] /\ handleFiber'[x] = handleFiber[x]
                                       /\ handleLive'[x] = handleLive[x]
                                       /\ (x \in fiberList' <=> x \in fiberList)
        /\ joiner'[g] \in Fiber => joiner'[g] = joiner[g]
        /\ ~handleFiber'[g]
    BY <1>1 DEF PlainTypeOK
  <1>5. UNCHANGED <<strand, running, valid, at, interrupter, interruptionDisabled>>
    BY DEF coreVars, fiberData
  <1>6. CurrentRuns' /\ QueuedOnce'
    BY <1>5 DEF Inv, CurrentRuns, QueuedOnce
  <1>7. QueuedIsSuspended'
    BY SMTT(30), <1>1, <1>4, <1>5 DEF Inv, QueuedIsSuspended, Shape
  <1>8. \A x \in Fiber : joiner'[x] \in Fiber /\ at[x] # "dead" => x # g /\ joiner[x] = joiner'[x]
    BY <1>2, <1>4
  <1>9. JoinerWaits' /\ JoinsOne'
    <2>1. JoinerWaits'
      BY <1>4, <1>5, <1>8 DEF Inv, JoinerWaits
    <2> QED
      BY <1>5, <1>8, <2>1 DEF Inv, JoinsOne
  <1>10. HandleIsSound'
    BY <1>3, <1>4, <1>5 DEF Inv, HandleIsSound
  <1>11. \A x \in Fiber : joiner[x] \in Fiber /\ at[x] # "dead" => joiner'[x] = joiner[x]
    BY <1>2, <1>4
  <1>12. InterrupterJoins'
    BY <1>1, <1>5, <1>11 DEF Inv, InterrupterJoins, Disabled, PlainTypeOK
  <1>13. SomeoneOwes'
    <2>1. \A x \in Fiber : Awaits(x) => Awaits(x)'
      BY <1>5, <1>11 DEF Awaits
    <2> QED
      BY <1>5, <2>1 DEF Inv, SomeoneOwes, Queued
  <1> QED
    BY <1>6, <1>7, <1>9, <1>10, <1>12, <1>13 DEF Inv

\* interrupt() of a fiber suspended in an interruptible join().
LEMMA InterruptJoinStep ==
    ASSUME Inv, TypeOK', NEW f \in Fiber, NEW g \in Fiber, InterruptJoin(f, g)
    PROVE  Inv'
  <1> USE VmContextAssumption, FibersAssumption
  <1> DEFINE t == interrupter[g]
  <1>1. Shape /\ PlainTypeOK /\ StrandOK
    BY ShapeHolds, TypeParts DEF Inv
  <1>2. t \in Fiber /\ at[g] = "join" /\ joiner[t] = g /\ at[t] # "dead"
    BY <1>1 DEF InterruptJoin, Inv, InterrupterJoins, PlainTypeOK
  <1>3. valid[VmOf[g]]
    BY <1>2 DEF Inv, CurrentRuns
  <1> HIDE DEF t
  <1>4. /\ joiner' = [joiner EXCEPT ![t] = Nil]
        /\ joinInProgress' = [joinInProgress EXCEPT ![t] = FALSE]
        /\ strand' = Post(VmOf[g], Resume(g, "interrupted"))
        /\ interrupter' = [interrupter EXCEPT ![g] = Nil]
        /\ UNCHANGED <<running, valid, at, interruptionDisabled, status, fiberList,
                       handleFiber, handleLive>>
    BY DEF InterruptJoin, JoinInterrupter, Return, counters, t
  <1>5. /\ joiner'[t] = Nil
        /\ \A x \in Fiber : x # t => joiner'[x] = joiner[x] /\ joinInProgress'[x] = joinInProgress[x]
        /\ interrupter'[g] = Nil
        /\ \A x \in Fiber : x # g => interrupter'[x] = interrupter[x]
    BY <1>1, <1>2, <1>4 DEF PlainTypeOK
  <1>6. \A x \in Fiber : joiner[x] = g /\ at[x] # "dead" => x = t
    BY <1>2 DEF Inv, JoinsOne
  <1>7. Resume(g, "interrupted") \in Handler /\ Resume(g, "interrupted").fiber = g
    BY DEF Resume, Handler, ResumeHandler, Result
  <1>8. CurrentRuns'
    BY <1>4 DEF Inv, CurrentRuns
  <1>9. QueuedIsSuspended' /\ QueuedOnce'
    <2>1. at'[g] \in Suspended /\ valid' = valid
      BY <1>2, <1>4 DEF Suspended
    <2>2. \A x \in Fiber : joiner'[x] = g => at'[x] = "dead"
      BY <1>4, <1>5, <1>6
    <2>3. \A x \in Fiber : joiner'[x] \in Fiber => joiner'[x] = joiner[x]
      BY <1>5
    <2>4. \A v \in Vm : valid[v] => \A i \in 1..Len(strand[v]) : strand[v][i].fiber # g
      <3> SUFFICES ASSUME NEW v \in Vm, valid[v], NEW i \in 1..Len(strand[v]),
                          strand[v][i].fiber = g
                   PROVE  FALSE
        OBVIOUS
      <3>0. \A x \in Fiber : joiner[x] = strand[v][i].fiber => at[x] = "dead"
        BY SMTT(30) DEF Inv, QueuedIsSuspended
      <3>1. \A x \in Fiber : joiner[x] = g => at[x] = "dead"
        BY <3>0
      <3> QED
        BY <1>2, <3>1
    <2>5. /\ \A x \in Fiber : x # g => at'[x] = at[x]
          /\ \A x \in Fiber : at[x] = "dead" <=> at'[x] = "dead"
      BY <1>4
    <2>6. strand' = Post(VmOf[g], Resume(g, "interrupted"))
      BY <1>4
    <2> QED
      BY ZenonT(30), <1>3, <1>7, <2>1, <2>2, <2>3, <2>4, <2>5, <2>6, PostedOnce
  <1>10. JoinerWaits' /\ JoinsOne'
    <2>1. \A x \in Fiber : joiner'[x] \in Fiber => x # t /\ joiner[x] = joiner'[x]
      BY <1>5
    <2>2. JoinerWaits'
      BY <1>4, <1>5, <2>1 DEF Inv, JoinerWaits
    <2> QED
      BY <1>4, <2>1, <2>2 DEF Inv, JoinsOne
  <1>11. HandleIsSound'
    BY <1>2, <1>4, <1>5 DEF Inv, HandleIsSound
  <1>12. InterrupterJoins'
    <2>1. ASSUME NEW x \in Fiber, interrupter'[x] # Nil
          PROVE  /\ at'[x] = "join" /\ ~Disabled(x)' /\ joiner'[interrupter'[x]] = x
                 /\ at'[interrupter'[x]] # "dead"
      <3>1. x # g /\ interrupter'[x] = interrupter[x] /\ interrupter[x] \in Fiber
        BY <1>1, <1>5, <2>1 DEF PlainTypeOK
      <3>2. /\ at[x] = "join" /\ ~Disabled(x) /\ joiner[interrupter[x]] = x
            /\ at[interrupter[x]] # "dead"
        BY <2>1, <3>1 DEF Inv, InterrupterJoins
      <3>3. interrupter[x] # t
        BY <1>2, <3>1, <3>2
      <3> QED
        BY <1>4, <1>5, <3>1, <3>2, <3>3 DEF Disabled
    <2> QED
      BY <2>1 DEF InterrupterJoins
  <1>13. SomeoneOwes'
    <2>1. /\ \A x \in Fiber : Queued(VmOf[x], x) => Queued(VmOf[x], x)'
          /\ Queued(VmOf[g], g)'
      BY <1>1, <1>4, <1>7, PostKeeps DEF Shape
    <2>2. \A x \in Fiber : x # g /\ Awaits(x) => Awaits(x)'
      BY <1>2, <1>4, <1>5 DEF Awaits
    <2> QED
      BY <1>4, <2>1, <2>2 DEF Inv, SomeoneOwes
  <1> QED
    BY <1>8, <1>9, <1>10, <1>11, <1>12, <1>13 DEF Inv

\* The strand runs its next handler.
LEMMA RunStrandStep ==
    ASSUME Inv, TypeOK', NEW v \in Vm, RunStrand(v)
    PROVE  Inv'
  <1> USE VmContextAssumption, FibersAssumption
  <1> DEFINE h == Head(strand[v])
             g == h.fiber
             n == Len(strand[v])
  <1>1. Shape /\ PlainTypeOK /\ StrandOK
    BY ShapeHolds, TypeParts DEF Inv
  <1>2. /\ \A w \in Vm : w # v => strand'[w] = strand[w]
        /\ h = strand[v][1] /\ h \in Handler
        /\ n \in Nat /\ 1 <= n /\ Len(strand'[v]) = n - 1
        /\ \A i \in 1..Len(strand'[v]) : strand'[v][i] = strand[v][i + 1]
    BY <1>1, PopFacts DEF RunStrand, RunResume, StrandReady, StrandOK
  <1>3. g \in Fiber
    BY <1>2 DEF Handler, ResumeHandler
  <1>4. UNCHANGED <<valid, interruptionDisabled, joiner, status, fiberList, handleFiber,
                    joinInProgress, handleLive>>
    BY DEF RunStrand, RunResume, counters, joinVars, handleVars
  \* What is queued was queued, and only one handler is gone.
  <1>5. ASSUME NEW w \in Vm, NEW i \in 1..Len(strand'[w])
        PROVE  \E j \in 1..Len(strand[w]) :
                   strand'[w][i] = strand[w][j] /\ (w = v => j = i + 1)
    <2>1. CASE w = v
      <3>1. i + 1 \in 1..Len(strand[w])
        BY <1>2, <2>1
      <3> QED
        BY <1>2, <2>1, <3>1
    <2>2. CASE w # v
      BY <1>2, <2>2
    <2> QED
      BY <2>1, <2>2
  <1>6. ASSUME NEW x \in Fiber, x # g \/ VmOf[x] # v, Queued(VmOf[x], x)
        PROVE  Queued(VmOf[x], x)'
    <2>1. CASE VmOf[x] # v
      BY <1>1, <1>2, <1>6, <2>1 DEF Queued, Shape
    <2>2. CASE VmOf[x] = v
      <3>1. PICK i \in 1..n : strand[v][i].fiber = x
        BY <1>6, <2>2 DEF Queued
      <3>2. i # 1
        BY <1>2, <1>6, <2>2, <3>1
      <3>3. i - 1 \in 1..Len(strand'[v]) /\ strand'[v][i - 1] = strand[v][i]
        BY <1>2, <3>1, <3>2
      <3> QED
        BY <2>2, <3>1, <3>3 DEF Queued
    <2> QED
      BY <2>1, <2>2
  <1>7. QueuedOnce'
    <2> SUFFICES ASSUME NEW w \in Vm, valid[w],
                        NEW i \in 1..Len(strand'[w]), NEW j \in 1..Len(strand'[w]),
                        strand'[w][i].fiber = strand'[w][j].fiber
                 PROVE  i = j
      BY <1>4 DEF QueuedOnce
    <2>1. QueuedOnce
      BY DEF Inv
    <2>2. CASE w # v
      <3>1. strand'[w] = strand[w]
        BY <1>2, <2>2
      <3>2. /\ i \in 1..Len(strand[w]) /\ j \in 1..Len(strand[w])
            /\ strand[w][i].fiber = strand[w][j].fiber
        BY <3>1
      <3> QED
        BY <2>1, <3>2 DEF QueuedOnce
    <2>3. CASE w = v
      <3>0. /\ i \in 1..Len(strand'[v]) /\ j \in 1..Len(strand'[v])
            /\ strand'[v][i].fiber = strand'[v][j].fiber
        BY <2>3
      <3>a. strand'[v][i] = strand[v][i + 1] /\ strand'[v][j] = strand[v][j + 1]
        BY <1>2, <3>0
      <3>b. i + 1 \in 1..n /\ j + 1 \in 1..n
        BY <1>2, <3>0
      <3>1. /\ i + 1 \in 1..Len(strand[w]) /\ j + 1 \in 1..Len(strand[w])
            /\ strand[w][i + 1].fiber = strand[w][j + 1].fiber
        BY <2>3, <3>0, <3>a, <3>b
      <3>2. i + 1 = j + 1
        BY <2>1, <3>1 DEF QueuedOnce
      <3> QED
        BY <1>2, <2>3, <3>2
    <2> QED
      BY <2>2, <2>3
  <1> HIDE DEF h, g, n
  \* A closed VM's fibers are freed: fiber_resume() does nothing.
  <1>8. CASE ~valid[v]
    <2>1. UNCHANGED <<running, at, interrupter>>
      BY <1>8 DEF RunStrand, RunResume
    <2>2. CurrentRuns' /\ JoinerWaits' /\ JoinsOne' /\ HandleIsSound'
      BY <1>4, <2>1 DEF Inv, CurrentRuns, JoinerWaits, JoinsOne, HandleIsSound
    <2>3. InterrupterJoins'
      BY <1>4, <2>1 DEF Inv, InterrupterJoins, Disabled
    <2>4. QueuedIsSuspended'
      <3> SUFFICES ASSUME NEW w \in Vm, valid[w]
                   PROVE  \A i \in 1..Len(strand'[w]) :
                              /\ VmOf[strand'[w][i].fiber] = w
                              /\ at'[strand'[w][i].fiber] \in Suspended
                              /\ \A x \in Fiber :
                                    joiner'[x] = strand'[w][i].fiber => at'[x] = "dead"
        BY <1>4 DEF QueuedIsSuspended
      <3>1. strand'[w] = strand[w]
        BY <1>2, <1>8
      <3> QED
        BY <1>4, <2>1, <3>1 DEF Inv, QueuedIsSuspended
    <2>5. SomeoneOwes'
      <3>1. \A x \in Fiber : at[x] \in Suspended => VmOf[x] # v
        BY <1>8 DEF Inv, CurrentRuns, Suspended
      <3>2. \A x \in Fiber : Awaits(x) => Awaits(x)'
        BY <1>4, <2>1 DEF Awaits
      <3> QED
        BY <1>6, <2>1, <3>1, <3>2 DEF Inv, SomeoneOwes
    <2> QED
      BY <1>7, <2>2, <2>3, <2>4, <2>5 DEF Inv
  \* Otherwise g becomes the current fiber.
  <1>9. CASE valid[v]
    <2>1. /\ VmOf[g] = v /\ at[g] \in Suspended
          /\ \A x \in Fiber : joiner[x] = g => at[x] = "dead"
          /\ \A w \in Vm : valid[w] => \A i \in 1..Len(strand'[w]) : strand'[w][i].fiber # g
      <3>1. 1 \in 1..Len(strand[v]) /\ g = strand[v][1].fiber
        BY <1>2 DEF g, n
      <3>2. /\ VmOf[g] = v /\ at[g] \in Suspended
            /\ \A x \in Fiber : joiner[x] = g => at[x] = "dead"
        BY <1>9, <3>1 DEF Inv, QueuedIsSuspended
      <3>3. ASSUME NEW w \in Vm, valid[w], NEW i \in 1..Len(strand'[w])
            PROVE  strand'[w][i].fiber # g
        <4>1. PICK j \in 1..Len(strand[w]) :
                  strand'[w][i] = strand[w][j] /\ (w = v => j = i + 1)
          BY <1>5
        <4>2. CASE w = v
          <5>1. j # 1
            BY <4>1, <4>2
          <5> QED
            BY <1>9, <3>1, <4>1, <4>2, <5>1 DEF Inv, QueuedOnce
        <4>3. CASE w # v
          BY <3>2, <3>3, <4>1, <4>3 DEF Inv, QueuedIsSuspended
        <4> QED
          BY <4>2, <4>3
      <3> QED
        BY <3>2, <3>3
    <2>2. interrupter[g] = Nil
      BY <1>1, <1>3, <2>1 DEF Inv, InterrupterJoins, PlainTypeOK
    <2>3. /\ running[v] = Nil
          /\ running' = [running EXCEPT ![v] = g] /\ at' = [at EXCEPT ![g] = "running"]
          /\ interrupter' = ClearedInterrupter(g, h.clear)
      BY <1>9, <2>1 DEF RunStrand, RunResume, StrandReady, FiberResume, h, g
    <2>4. /\ at'[g] = "running" /\ at[g] # "dead" /\ at[g] # "running" /\ at[g] # "unborn"
          /\ \A x \in Fiber : x # g => at'[x] = at[x]
          /\ running'[v] = g /\ \A w \in Vm : w # v => running'[w] = running[w]
          /\ interrupter' = interrupter
      BY <1>1, <1>3, <2>1, <2>2, <2>3 DEF PlainTypeOK, Suspended, ClearedInterrupter,
         SetInterrupter
    <2>5. CurrentRuns'
      <3>1. ASSUME NEW x \in Fiber
            PROVE  at'[x] = "running" <=> running'[VmOf[x]] = x
        <4>1. CASE x = g
          BY <2>1, <2>4, <4>1
        <4>2. CASE x # g /\ VmOf[x] = v
          <5>1. at[x] # "running"
            BY <2>3, <4>2 DEF Inv, CurrentRuns
          <5> QED
            BY <2>4, <4>2, <5>1
        <4>3. CASE x # g /\ VmOf[x] # v
          <5>1. at'[x] = at[x] /\ running'[VmOf[x]] = running[VmOf[x]]
            BY <1>1, <2>4, <4>3 DEF Shape
          <5>2. at[x] = "running" <=> running[VmOf[x]] = x
            BY DEF Inv, CurrentRuns
          <5> QED
            BY <5>1, <5>2
        <4> QED
          BY <4>1, <4>2, <4>3
      <3>2. \A w \in Vm : running'[w] # Nil => VmOf[running'[w]] = w
        BY <2>1, <2>4 DEF Inv, CurrentRuns
      <3>3. \A x \in Fiber : ~valid'[VmOf[x]] => at'[x] = "dead"
        <4>1. \A x \in Fiber : ~valid[VmOf[x]] => x # g /\ at[x] = "dead"
          BY <1>9, <2>1 DEF Inv, CurrentRuns
        <4> QED
          BY <1>4, <2>4, <4>1
      <3> QED
        BY <3>1, <3>2, <3>3 DEF CurrentRuns
    <2>6. QueuedIsSuspended'
      <3> SUFFICES ASSUME NEW w \in Vm, valid[w], NEW i \in 1..Len(strand'[w])
                   PROVE  /\ VmOf[strand'[w][i].fiber] = w
                          /\ at'[strand'[w][i].fiber] \in Suspended
                          /\ \A x \in Fiber : joiner'[x] = strand'[w][i].fiber => at'[x] = "dead"
        BY <1>4 DEF QueuedIsSuspended
      <3>1. PICK j \in 1..Len(strand[w]) : strand'[w][i] = strand[w][j]
        BY <1>5
      <3>2. /\ strand[w][j].fiber \in Fiber /\ VmOf[strand[w][j].fiber] = w
            /\ at[strand[w][j].fiber] \in Suspended
            /\ \A x \in Fiber : joiner[x] = strand[w][j].fiber => at[x] = "dead"
        BY <1>1 DEF Inv, QueuedIsSuspended, Shape
      <3>3. strand'[w][i].fiber # g
        BY <2>1
      <3> DEFINE y == strand[w][j].fiber
      <3>4. /\ y \in Fiber /\ y # g /\ VmOf[y] = w /\ at[y] \in Suspended
            /\ \A x \in Fiber : joiner[x] = y => at[x] = "dead"
            /\ strand'[w][i].fiber = y
        BY <3>1, <3>2, <3>3
      <3> HIDE DEF y
      <3>5. \A x \in Fiber : joiner'[x] = y => at'[x] = "dead"
        BY <1>4, <2>4, <3>4
      <3> QED
        BY <2>4, <3>4, <3>5
    <2>7. \A x \in Fiber : at[x] = "dead" <=> at'[x] = "dead"
      BY <2>4
    <2>8. JoinerWaits' /\ JoinsOne'
      <3>1. JoinerWaits'
        BY <1>4, <2>1, <2>4, <2>7 DEF Inv, JoinerWaits
      <3> QED
        BY <1>4, <2>7, <3>1 DEF Inv, JoinsOne
    <2>9. HandleIsSound'
      BY <1>4, <2>4, <2>7 DEF Inv, HandleIsSound
    <2>10. InterrupterJoins'
      BY <1>1, <1>4, <2>2, <2>4, <2>7 DEF Inv, InterrupterJoins, Disabled, PlainTypeOK
    <2>11. SomeoneOwes'
      <3>1. \A x \in Fiber : x # g /\ Awaits(x) => Awaits(x)'
        BY <1>4, <2>4, <2>7 DEF Awaits
      <3>2. \A x \in Fiber : at'[x] \in Suspended => x # g /\ at'[x] = at[x]
        BY <2>4 DEF Suspended
      <3> QED
        BY <1>6, <3>1, <3>2 DEF Inv, SomeoneOwes
    <2> QED
      BY <1>7, <2>5, <2>6, <2>8, <2>9, <2>10, <2>11 DEF Inv
  <1> QED
    BY <1>8, <1>9

-----------------------------------------------------------------------------
(* The inductive invariant holds, and with it the properties.                *)

\* A VM starts with its main fiber queued and no joiner, which satisfies the
\* inductive invariant.
LEMMA InvInit == Init => Inv
  <1> USE VmContextAssumption, FibersAssumption
  <1> SUFFICES ASSUME Init PROVE Inv
    OBVIOUS
  <1>1. TypeOK
    BY TypeInit
  <1>2. \A v \in Vm : strand[v] = <<ResumeSkipClear(Main[v])>>
    BY DEF Init, CoreInit
  <1>3. /\ \A v \in Vm : Len(strand[v]) = 1 /\ strand[v][1].fiber = Main[v]
        /\ \A v \in Vm : \A i \in 1..Len(strand[v]) : i = 1
    <2>1. ASSUME NEW v \in Vm
          PROVE  /\ Len(strand[v]) = 1 /\ strand[v][1].fiber = Main[v]
                 /\ \A i \in 1..Len(strand[v]) : i = 1
      <3> DEFINE h == ResumeSkipClear(Main[v])
      <3>1. h.fiber = Main[v]
        BY DEF ResumeSkipClear
      <3> HIDE DEF h
      <3>2. strand[v] = <<h>>
        BY <1>2 DEF h
      <3>3. Len(strand[v]) = 1 /\ strand[v][1] = h
        BY <3>2
      <3>4. \A i \in 1..1 : i = 1
        OBVIOUS
      <3> QED
        BY <3>1, <3>3, <3>4
    <2> QED
      BY <2>1
  <1>4. \A v \in Vm : at[Main[v]] = "start"
    BY DEF Init, CoreInit, IsMain
  <1>5. \A x \in Fiber : joiner[x] \notin Fiber
    BY DEF Init
  <1>6. CurrentRuns
    BY DEF Init, CoreInit, CurrentRuns
  <1>7. QueuedIsSuspended /\ QueuedOnce
    BY <1>3, <1>4, <1>5 DEF QueuedIsSuspended, QueuedOnce, Suspended
  <1>8. JoinerWaits /\ JoinsOne
    BY <1>5 DEF JoinerWaits, JoinsOne
  <1>9. HandleIsSound /\ InterrupterJoins
    BY DEF Init, CoreInit, HandleIsSound, InterrupterJoins
  <1>10. SomeoneOwes
    <2>1. ASSUME NEW f \in Fiber, at[f] \in Suspended
          PROVE  Queued(VmOf[f], f)
      <3>1. Main[VmOf[f]] = f
        BY <2>1 DEF Init, CoreInit, IsMain, Suspended
      <3>2. VmOf[f] \in Vm /\ 1 \in 1..Len(strand[VmOf[f]])
        BY <1>3
      <3> QED
        BY <1>3, <3>1, <3>2 DEF Queued
    <2> QED
      BY <2>1 DEF SomeoneOwes
  <1> QED
    BY <1>1, <1>6, <1>7, <1>8, <1>9, <1>10 DEF Inv

\* Every step, of any fiber or strand, preserves the inductive invariant.
LEMMA InvStep == Inv /\ [Next]_vars => Inv'
  <1> USE VmContextAssumption
  <1> SUFFICES ASSUME Inv, [Next]_vars PROVE Inv'
    OBVIOUS
  <1>1. TypeOK'
    BY TypeStep DEF Inv
  <1>2. CASE UNCHANGED vars
    BY <1>1, <1>2, QuietStep DEF vars, fiberData
  <1>3. ASSUME NEW v \in Vm, RunStrand(v)
        PROVE  Inv'
    BY <1>1, <1>3, RunStrandStep
  <1>4. ASSUME NEW f \in Fiber, ThisFiber(f)
        PROVE  Inv'
    <2>1. Running(f)
      BY <1>4 DEF ThisFiber, DisableInterruption, RestoreInterruption, ForbidSuspend,
         AllowSuspend, Yield
    <2>2. at[f] = "running"
      BY <2>1, RunningIsFree
    <2>3. UNCHANGED <<joinVars, handleVars>>
      BY <1>4 DEF ThisFiber
    <2>4. CASE DisableInterruption(f) \/ RestoreInterruption(f)
      <3>1. UNCHANGED <<coreVars, interrupter>>
        BY <2>4 DEF DisableInterruption, RestoreInterruption, Return, coreVars
      <3>2. \A x \in Fiber : at[x] # "running" => interruptionDisabled'[x] = interruptionDisabled[x]
        BY <2>2, <2>4, TypeParts DEF DisableInterruption, RestoreInterruption, Inv, CountersOK
      <3> QED
        BY <1>1, <2>3, <3>1, <3>2, QuietStep
    <2>5. CASE ForbidSuspend(f) \/ AllowSuspend(f)
      <3>1. UNCHANGED <<coreVars, interrupter, interruptionDisabled>>
        BY <2>5 DEF ForbidSuspend, AllowSuspend, Return, coreVars
      <3> QED
        BY <1>1, <2>3, <3>1, QuietStep
    <2>6. CASE Yield(f) /\ CanSuspend(f)
      BY <1>1, <2>3, <2>6, YieldStep
    <2>7. CASE Yield(f) /\ ~CanSuspend(f)
      <3>1. UNCHANGED <<coreVars, interrupter, interruptionDisabled>>
        BY <2>7 DEF Yield, Return, coreVars, fiberData
      <3> QED
        BY <1>1, <2>3, <3>1, QuietStep
    <2> QED
      BY <1>4, <2>4, <2>5, <2>6, <2>7 DEF ThisFiber
  <1>5. ASSUME NEW f \in Fiber, Finish(f) \/ Terminate(f)
        PROVE  Inv'
    <2>1. ASSUME NEW o \in Outcome, FinishDetached(f, o) \/ FinishUnjoined(f, o)
          PROVE  Inv'
      BY <1>1, <2>1, FinishAloneStep
    <2>2. ASSUME NEW o \in Outcome, FinishJoined(f, o)
          PROVE  Inv'
      BY <1>1, <2>2, FinishJoinedStep
    <2>3. CASE Close(VmOf[f]) /\ UNCHANGED strand
      BY <1>1, <2>3, CloseStep
    <2> QED
      BY <1>5, <2>1, <2>2, <2>3 DEF Finish, Terminate, FinishMainError
  <1>6. ASSUME NEW f \in Fiber, NEW g \in Fiber, HandleCall(f, g)
        PROVE  Inv'
    <2>1. CASE Spawn(f, g)
      BY <1>1, <2>1, SpawnStep
    <2>2. CASE JoinRunning(f, g)
      BY <1>1, <2>2, JoinRunningStep
    <2>3. CASE InterruptJoin(f, g)
      BY <1>1, <2>3, InterruptJoinStep
    <2>4. CASE JoinRaises(f, g) \/ InterruptNothing(f, g) \/ InterruptFlag(f, g)
      <3>1. UNCHANGED <<coreVars, interrupter, interruptionDisabled, joinVars, handleVars>>
        BY <2>4 DEF JoinRaises, InterruptNothing, InterruptFlag, Return, coreVars, fiberData,
           counters
      <3> QED
        BY <1>1, <3>1, QuietStep
    <2>5. CASE JoinFinished(f, g)
      <3>1. handleLive[g] /\ ~joinInProgress[g]
        BY <2>5 DEF JoinFinished, HasHandle, JoinError, SuspendError
      <3>2. /\ UNCHANGED <<coreVars, fiberData, status, joinInProgress, joiner, handleLive>>
            /\ fiberList' = fiberList \ {g}
            /\ handleFiber' = [handleFiber EXCEPT ![g] = FALSE]
        BY <2>5 DEF JoinFinished, Return, coreVars
      <3> QED
        BY <1>1, <3>1, <3>2, HandleStep
    <2>6. CASE Detach(f, g) /\ ~(~handleFiber[g] \/ joinInProgress[g])
      <3>1. /\ handleLive[g] /\ ~joinInProgress[g] /\ LetGo(g)
            /\ UNCHANGED <<coreVars, fiberData, status, joinInProgress, handleLive>>
        BY <2>6 DEF Detach, HasHandle, Return, coreVars
      <3> QED
        BY <1>1, <3>1, HandleStep DEF LetGo
    <2>7. CASE Detach(f, g) /\ (~handleFiber[g] \/ joinInProgress[g])
      <3>1. UNCHANGED <<coreVars, interrupter, interruptionDisabled, joinVars, handleVars>>
        BY <2>7 DEF Detach, Return, coreVars, fiberData, joinVars, handleVars
      <3> QED
        BY <1>1, <3>1, QuietStep
    <2>8. CASE HandleGc(f, g)
      <3>1. /\ handleLive[g] /\ ~(handleFiber[g] /\ joinInProgress[g])
            /\ UNCHANGED <<coreVars, fiberData, status, joinInProgress>>
            /\ handleLive' = [handleLive EXCEPT ![g] = FALSE]
        BY <2>8 DEF HandleGc, HasHandle
      <3>2. CASE handleFiber[g]
        BY <1>1, <2>8, <3>1, <3>2, HandleStep DEF HandleGc, LetGo
      <3>3. CASE ~handleFiber[g]
        <4>1. /\ UNCHANGED <<joiner, fiberList, handleFiber>>
              /\ handleFiber = [handleFiber EXCEPT ![g] = FALSE]
          BY <2>8, <3>3, TypeParts DEF HandleGc, Inv, PlainTypeOK
        <4> QED
          BY <1>1, <3>1, <4>1, HandleStep
      <3> QED
        BY <3>2, <3>3
    <2> QED
      BY <1>6, <2>1, <2>2, <2>3, <2>4, <2>5, <2>6, <2>7, <2>8 DEF HandleCall
  <1> QED
    BY <1>2, <1>3, <1>4, <1>5, <1>6 DEF Next

\* The inductive invariant holds in every reachable state: who waits, who is
\* queued and which join() an interrupter refers to always agree.
THEOREM Invariance == Spec => []Inv
  BY InvInit, InvStep, PTL DEF Spec

\* The parts of the inductive invariant leave exactly one party that will resume
\* a suspended fiber.
LEMMA InvGivesWakeOnce == Inv => WakeOnce
  <1> SUFFICES ASSUME Inv, NEW f \in Fiber, valid[VmOf[f]]
               PROVE  IF at[f] \in Suspended THEN \E w \in Owed(f) : Owed(f) = {w}
                                             ELSE Owed(f) = {}
    BY DEF WakeOnce
  <1> DEFINE v == VmOf[f]
  <1>1. v \in Vm /\ strand[v] \in Seq(Handler)
    BY VmContextAssumption, TypeParts DEF Inv, StrandOK
  <1>2. DOMAIN strand[v] = 1..Len(strand[v])
    BY <1>1
  <1>3. \A i \in WakeUps(f) : /\ at[f] \in Suspended
                              /\ JoinedBy(f) = {}
                              /\ \A k \in WakeUps(f) : k = i
    BY <1>1, <1>2 DEF Inv, QueuedIsSuspended, QueuedOnce, WakeUps, JoinedBy
  <1>4. \A x \in JoinedBy(f) : at[f] \in Suspended /\ \A y \in JoinedBy(f) : y = x
    BY DEF Inv, JoinerWaits, JoinsOne, JoinedBy, Suspended
  <1>5. CASE at[f] \notin Suspended
    BY <1>3, <1>4, <1>5 DEF Owed
  <1>6. CASE at[f] \in Suspended
    <2>1. (\E i \in 1..Len(strand[v]) : strand[v][i].fiber = f)
            \/ \E x \in Fiber : joiner[x] = f /\ at[x] # "dead"
      BY <1>6 DEF Inv, SomeoneOwes, Queued, Awaits
    <2>2. (\E i : i \in WakeUps(f)) \/ \E x : x \in JoinedBy(f)
      BY <1>2, <2>1 DEF WakeUps, JoinedBy
    <2>3. ASSUME NEW i \in WakeUps(f)
          PROVE  Owed(f) = {<<"strand", i>>}
      BY <1>3 DEF Owed
    <2>4. ASSUME NEW x \in JoinedBy(f)
          PROVE  Owed(f) = {<<"join", x>>}
      <3>1. WakeUps(f) = {}
        BY <1>3
      <3> QED
        BY <1>4, <3>1 DEF Owed
    <2> QED
      BY <1>6, <2>2, <2>3, <2>4
  <1> QED
    BY <1>5, <1>6

\* Whatever spawns, joins, detaches, interruptions and collections interleave,
\* exactly one party owes each suspended fiber its resumption: the assertion
\* on lua_status() in fiber_resume() holds and no wake-up is lost.
THEOREM ResumedExactlyOnce == Spec => []WakeOnce
  BY Invariance, InvGivesWakeOnce, PTL

\* INTERRUPTER always refers to the join() its fiber is suspended in.
THEOREM InterrupterNeverStale == Spec => []InterrupterIsCurrent
  <1>1. Inv => InterrupterIsCurrent
    BY DEF Inv, InterrupterJoins, InterrupterIsCurrent
  <1> QED
    BY <1>1, Invariance, PTL

\* A handle whose fiber pointer is set has a fiber that is still in fiber_list.
THEOREM NoDanglingHandle == Spec => []HandleNeverDangles
  <1>1. Inv => HandleNeverDangles
    BY DEF Inv, HandleIsSound, HandleNeverDangles
  <1> QED
    BY <1>1, Invariance, PTL


-----------------------------------------------------------------------------
(* What a join() delivers.  Two more facts are inductive on top of Inv: a     *)
(* handle marked as being joined has a joiner and a live fiber, and a resume  *)
(* queued for a fiber in join() can only be that of its interruption.         *)

JoinsAreMarked ==
    \A x \in Fiber :
        /\ handleFiber[x] /\ joinInProgress[x] => joiner[x] \in Fiber /\ at[x] # "dead"
        /\ at[x] = "unborn" => ~joinInProgress[x]

QueuedJoinIsInterrupted ==
    \A v \in Vm : valid[v] => \A i \in 1..Len(strand[v]) :
        at[strand[v][i].fiber] = "join" =>
            strand[v][i].val = "interrupted" /\ interrupted[strand[v][i].fiber]

\* join() marks the handle and nothing but its end, or its interruption, unmarks
\* it; a fiber that ends meanwhile takes the mark's meaning with it.
LEMMA MarkedStep == Inv /\ JoinsAreMarked /\ [Next]_vars => JoinsAreMarked'
  <1> USE VmContextAssumption, FibersAssumption
  <1> SUFFICES ASSUME Inv, JoinsAreMarked, [Next]_vars PROVE JoinsAreMarked'
    OBVIOUS
  <1>1. Shape /\ PlainTypeOK
    BY ShapeHolds, TypeParts DEF Inv
  <1>2. CASE UNCHANGED vars
    BY <1>2 DEF vars, coreVars, joinVars, handleVars, JoinsAreMarked
  <1>3. ASSUME NEW v \in Vm, RunStrand(v)
        PROVE  JoinsAreMarked'
    <2>1. UNCHANGED <<joiner, handleFiber, joinInProgress>>
      BY <1>3 DEF RunStrand, joinVars, handleVars
    <2>2. \A x \in Fiber : at'[x] \in {at[x], "running"}
      BY <1>1, <1>3 DEF RunStrand, RunResume, FiberResume, Shape, PlainTypeOK
    <2> QED
      BY <2>1, <2>2 DEF JoinsAreMarked
  <1>4. ASSUME NEW f \in Fiber, ThisFiber(f)
        PROVE  JoinsAreMarked'
    <2>1. UNCHANGED <<joiner, handleFiber, joinInProgress>>
      BY <1>4 DEF ThisFiber, joinVars, handleVars
    <2>2. \A x \in Fiber : at'[x] \in {at[x], "yield"}
      BY <1>1, <1>4 DEF ThisFiber, DisableInterruption, RestoreInterruption, ForbidSuspend,
         AllowSuspend, Yield, Suspend, Return, Shape, PlainTypeOK
    <2> QED
      BY <2>1, <2>2 DEF JoinsAreMarked
  <1>5. ASSUME NEW f \in Fiber, NEW o \in Outcome, FinishDetached(f, o) \/ FinishUnjoined(f, o)
        PROVE  JoinsAreMarked'
    <2>1. UNCHANGED <<joiner, handleFiber, joinInProgress>>
      BY <1>5 DEF FinishDetached, FinishUnjoined, handleVars
    <2>2. joiner[f] \notin Fiber /\ at' = [at EXCEPT ![f] = "dead"]
      BY <1>5 DEF FinishDetached, FinishUnjoined, Suspend
    <2> QED
      BY <1>1, <2>1, <2>2 DEF JoinsAreMarked, Shape, PlainTypeOK
  <1>6. ASSUME NEW f \in Fiber, NEW o \in Outcome, FinishJoined(f, o)
        PROVE  JoinsAreMarked'
    BY <1>1, <1>6 DEF FinishJoined, JoinsAreMarked, Shape, PlainTypeOK
  <1>7. ASSUME NEW f \in Fiber, Close(VmOf[f])
        PROVE  JoinsAreMarked'
    BY <1>1, <1>7 DEF Close, CloseVm, Freed, JoinsAreMarked, Shape, PlainTypeOK
  <1>8. ASSUME NEW f \in Fiber, NEW g \in Fiber, HandleCall(f, g)
        PROVE  JoinsAreMarked'
    <2>1. CASE Spawn(f, g)
      BY <1>1, <2>1 DEF Spawn, SpawnFiber, JoinsAreMarked, Shape, PlainTypeOK
    <2>2. CASE JoinRunning(f, g)
      <3>1. /\ handleFiber[g] /\ status[g] = Nil /\ at[f] = "running"
            /\ at' = [at EXCEPT ![f] = "join"]
            /\ joiner' = [joiner EXCEPT ![g] = f]
            /\ joinInProgress' = [joinInProgress EXCEPT ![g] = TRUE]
            /\ UNCHANGED handleFiber
        BY <2>2 DEF JoinRunning, JoinError, SuspendError, Suspend, HasHandle, Running, Inv,
           CurrentRuns
      <3>2. at[g] # "dead" /\ at[g] # "unborn"
        BY <2>2, <3>1 DEF Inv, HandleIsSound, JoinRunning, HasHandle
      <3> QED
        BY <1>1, <3>1, <3>2 DEF JoinsAreMarked, Shape, PlainTypeOK
    <2>3. CASE InterruptJoin(f, g)
      <3>1. /\ joinInProgress' = [joinInProgress EXCEPT ![interrupter[g]] = FALSE]
            /\ joiner' = [joiner EXCEPT ![interrupter[g]] = Nil]
            /\ UNCHANGED <<handleFiber, at>>
        BY <2>3 DEF InterruptJoin, JoinInterrupter, Return
      <3> QED
        BY <1>1, <3>1 DEF JoinsAreMarked, Shape, PlainTypeOK
    <2>4. CASE JoinRaises(f, g) \/ InterruptNothing(f, g) \/ InterruptFlag(f, g)
      BY <2>4 DEF JoinRaises, InterruptNothing, InterruptFlag, Return, joinVars, handleVars,
         JoinsAreMarked
    <2>5. CASE JoinFinished(f, g)
      BY <1>1, <2>5 DEF JoinFinished, Return, JoinsAreMarked, Shape, PlainTypeOK
    <2>6. CASE Detach(f, g)
      <3>1. UNCHANGED <<at, joinInProgress>>
        BY <2>6 DEF Detach, Return
      <3>2. \/ UNCHANGED <<joiner, handleFiber>>
            \/ handleFiber' = [handleFiber EXCEPT ![g] = FALSE]
                 /\ \A x \in Fiber : x # g => joiner'[x] = joiner[x]
        BY <1>1, <2>6 DEF Detach, LetGo, Shape, PlainTypeOK
      <3> QED
        BY SMTT(30), <1>1, <3>1, <3>2 DEF JoinsAreMarked, Shape, PlainTypeOK
    <2>7. CASE HandleGc(f, g)
      <3>1. UNCHANGED <<at, joinInProgress>>
        BY <2>7 DEF HandleGc, coreVars
      <3>2. \/ UNCHANGED <<joiner, handleFiber>>
            \/ handleFiber' = [handleFiber EXCEPT ![g] = FALSE]
                 /\ \A x \in Fiber : x # g => joiner'[x] = joiner[x]
        BY <1>1, <2>7 DEF HandleGc, LetGo, Shape, PlainTypeOK
      <3> QED
        BY ZenonT(60), <1>1, <3>1, <3>2 DEF JoinsAreMarked, Shape, PlainTypeOK
    <2> QED
      BY <1>8, <2>1, <2>2, <2>3, <2>4, <2>5, <2>6, <2>7 DEF HandleCall
  <1> QED
    BY <1>2, <1>3, <1>4, <1>5, <1>6, <1>7, <1>8 DEF Next, Finish, Terminate, FinishMainError

\* Steps that post nothing, and let no queued fiber enter join().
LEMMA QuietQueue ==
    ASSUME Inv, QueuedJoinIsInterrupted, strand' = strand,
           \A v \in Vm : valid'[v] => valid[v],
           \A x \in Fiber : at'[x] = "join" => at[x] \in {"join", "running"},
           \A x \in Fiber : valid'[VmOf[x]] /\ interrupted[x] => interrupted'[x]
    PROVE  QueuedJoinIsInterrupted'
  <1> SUFFICES ASSUME NEW v \in Vm, valid'[v], NEW i \in 1..Len(strand[v]),
                      at'[strand[v][i].fiber] = "join"
               PROVE  strand[v][i].val = "interrupted" /\ interrupted'[strand[v][i].fiber]
    BY DEF QueuedJoinIsInterrupted
  <1>1. /\ strand[v][i].fiber \in Fiber /\ VmOf[strand[v][i].fiber] = v
        /\ at[strand[v][i].fiber] \in Suspended
    BY ShapeHolds DEF Inv, Shape, QueuedIsSuspended
  <1>2. at[strand[v][i].fiber] = "join"
    BY <1>1 DEF Suspended
  <1> QED
    BY <1>1, <1>2 DEF QueuedJoinIsInterrupted

\* Steps that post one resume.
LEMMA PostedQueue ==
    ASSUME Inv, QueuedJoinIsInterrupted, NEW v \in Vm, NEW h \in Handler,
           strand' = Post(v, h), valid' = valid,
           \A x \in Fiber : at'[x] = "join" => at[x] \in {"join", "running"},
           \A x \in Fiber : interrupted[x] => interrupted'[x],
           at'[h.fiber] = "join" => h.val = "interrupted" /\ interrupted'[h.fiber]
    PROVE  QueuedJoinIsInterrupted'
  <1> SUFFICES ASSUME NEW w \in Vm, valid[w], NEW i \in 1..Len(strand'[w]),
                      at'[strand'[w][i].fiber] = "join"
               PROVE  strand'[w][i].val = "interrupted" /\ interrupted'[strand'[w][i].fiber]
    BY DEF QueuedJoinIsInterrupted
  <1>1. strand \in [Vm -> Seq(Handler)]
    BY TypeParts DEF Inv, StrandOK
  <1>2. CASE w = v /\ i = Len(strand[v]) + 1
    BY <1>1, <1>2, PostFacts
  <1>3. CASE ~(w = v /\ i = Len(strand[v]) + 1)
    <2>1. i \in 1..Len(strand[w]) /\ strand'[w][i] = strand[w][i]
      <3>1. CASE w # v
        <4>1. strand'[w] = strand[w]
          BY <1>1, <3>1, PostFacts
        <4> QED
          BY <4>1
      <3>2. CASE w = v
        <4>1. Len(strand[v]) \in Nat /\ Len(strand'[v]) = Len(strand[v]) + 1
          BY <1>1, PostFacts
        <4>2. i \in 1..Len(strand[v])
          BY <1>3, <3>2, <4>1
        <4> QED
          BY <1>1, <3>2, <4>2, PostFacts
      <3> QED
        BY <3>1, <3>2
    <2>2. strand[w][i].fiber \in Fiber /\ at[strand[w][i].fiber] \in Suspended
      BY <2>1, ShapeHolds DEF Inv, Shape, QueuedIsSuspended
    <2>3. at[strand[w][i].fiber] = "join"
      BY <2>1, <2>2 DEF Suspended
    <2> QED
      BY <2>1, <2>2, <2>3 DEF QueuedJoinIsInterrupted
  <1> QED
    BY <1>2, <1>3

\* Only the closure that interrupts a join() posts a resume of a fiber in join().
LEMMA QueuedJoinStep ==
    Inv /\ QueuedJoinIsInterrupted /\ [Next]_vars => QueuedJoinIsInterrupted'
  <1> USE VmContextAssumption, FibersAssumption
  <1> SUFFICES ASSUME Inv, QueuedJoinIsInterrupted, [Next]_vars
               PROVE  QueuedJoinIsInterrupted'
    OBVIOUS
  <1>1. Shape /\ PlainTypeOK
    BY ShapeHolds, TypeParts DEF Inv
  <1>2. CASE UNCHANGED vars
    BY <1>2 DEF vars, coreVars, fiberData, QueuedJoinIsInterrupted
  <1>3. ASSUME NEW v \in Vm, RunStrand(v)
        PROVE  QueuedJoinIsInterrupted'
    <2> SUFFICES ASSUME NEW w \in Vm, valid[w], NEW i \in 1..Len(strand'[w]),
                        at'[strand'[w][i].fiber] = "join"
                 PROVE  strand'[w][i].val = "interrupted" /\ interrupted[strand'[w][i].fiber]
      BY <1>3 DEF QueuedJoinIsInterrupted, RunStrand, RunResume
    <2>1. strand \in [Vm -> Seq(Handler)] /\ strand[v] # <<>>
      BY <1>3, TypeParts DEF Inv, StrandOK, RunStrand, RunResume, StrandReady
    <2>2. strand' = [strand EXCEPT ![v] = Tail(@)]
      BY <1>3 DEF RunStrand, RunResume
    <2>3. PICK k \in 1..Len(strand[w]) : strand'[w][i] = strand[w][k]
      <3>1. CASE w # v
        BY <2>1, <2>2, <3>1
      <3>2. CASE w = v
        <4>1. strand'[w] = Tail(strand[w]) /\ strand[w] \in Seq(Handler) /\ strand[w] # <<>>
          BY <2>1, <2>2, <3>2
        <4>2. i + 1 \in 1..Len(strand[w]) /\ strand'[w][i] = strand[w][i + 1]
          BY <4>1
        <4> QED
          BY <4>2
      <3> QED
        BY <3>1, <3>2
    <2>4. strand[w][k].fiber \in Fiber
      BY <1>1 DEF Shape
    <2>5. at[strand[w][k].fiber] = "join"
      <3>1. \A x \in Fiber : at'[x] \in {at[x], "running"}
        BY <1>1, <1>3 DEF RunStrand, RunResume, FiberResume, PlainTypeOK
      <3> QED
        BY <2>3, <2>4, <3>1
    <2> QED
      BY <2>3, <2>4, <2>5 DEF QueuedJoinIsInterrupted
  <1>4. ASSUME NEW f \in Fiber, ThisFiber(f)
        PROVE  QueuedJoinIsInterrupted'
    <2>1. CASE Yield(f) /\ CanSuspend(f)
      <3>1. ResumeSkipClear(f) \in Handler /\ ResumeSkipClear(f).fiber = f
        BY DEF ResumeSkipClear, Handler, ResumeHandler, Result
      <3>2. /\ strand' = Post(VmOf[f], ResumeSkipClear(f)) /\ VmOf[f] \in Vm
            /\ at' = [at EXCEPT ![f] = "yield"] /\ UNCHANGED <<valid, interrupted>>
        BY <1>1, <2>1 DEF Yield, Suspend, fiberData, Shape
      <3>3. at'[f] = "yield" /\ \A x \in Fiber : at'[x] = "join" => at[x] \in {"join", "running"}
        BY <1>1, <3>2 DEF PlainTypeOK
      <3> QED
        BY <3>1, <3>2, <3>3, PostedQueue
    <2>2. CASE ~(Yield(f) /\ CanSuspend(f))
      <3>1. UNCHANGED <<strand, valid, at, interrupted>>
        BY <1>4, <2>2 DEF ThisFiber, DisableInterruption, RestoreInterruption, ForbidSuspend,
           AllowSuspend, Yield, Return, fiberData
      <3> QED
        BY <3>1, QuietQueue
    <2> QED
      BY <2>1, <2>2
  <1>5. ASSUME NEW f \in Fiber, NEW o \in Outcome,
               FinishDetached(f, o) \/ FinishUnjoined(f, o) \/ FinishJoined(f, o)
        PROVE  QueuedJoinIsInterrupted'
    <2>1. UNCHANGED <<strand, valid, interrupted>>
      BY <1>5 DEF FinishDetached, FinishUnjoined, FinishJoined, fiberData
    <2>2. \A x \in Fiber : at'[x] = "join" => at[x] = "join"
      BY <1>1, <1>5 DEF FinishDetached, FinishUnjoined, FinishJoined, Suspend, PlainTypeOK
    <2> QED
      BY <2>1, <2>2, QuietQueue
  <1>6. ASSUME NEW f \in Fiber, Close(VmOf[f]), UNCHANGED strand
        PROVE  QueuedJoinIsInterrupted'
    <2>1. \A v \in Vm : valid'[v] => v # VmOf[f] /\ valid[v]
      BY <1>1, <1>6 DEF Close, CloseVm, PlainTypeOK, Shape
    <2>2. \A x \in Fiber : /\ at'[x] = "join" => at[x] = "join"
                           /\ VmOf[x] # VmOf[f] => interrupted'[x] = interrupted[x]
      BY <1>6 DEF Close, CloseVm, Freed
    <2> QED
      BY <1>1, <1>6, <2>1, <2>2, QuietQueue DEF Shape
  <1>7. ASSUME NEW f \in Fiber, NEW g \in Fiber, HandleCall(f, g)
        PROVE  QueuedJoinIsInterrupted'
    <2>1. CASE Spawn(f, g)
      <3>1. ResumeSkipClear(g) \in Handler /\ ResumeSkipClear(g).fiber = g
        BY DEF ResumeSkipClear, Handler, ResumeHandler, Result
      <3>2. /\ strand' = Post(VmOf[f], ResumeSkipClear(g)) /\ VmOf[f] \in Vm
            /\ at' = [at EXCEPT ![g] = "start"] /\ UNCHANGED <<valid, interrupted>>
        BY <1>1, <2>1 DEF Spawn, SpawnFiber, fiberData, Shape
      <3>3. at'[g] = "start" /\ \A x \in Fiber : at'[x] = "join" => at[x] \in {"join", "running"}
        BY <1>1, <3>2 DEF PlainTypeOK
      <3> QED
        BY <3>1, <3>2, <3>3, PostedQueue
    <2>2. CASE JoinRunning(f, g)
      <3>1. at[f] = "running"
        BY <2>2, RunningIsFree DEF JoinRunning, HasHandle
      <3>2. UNCHANGED <<strand, valid, interrupted>> /\ at' = [at EXCEPT ![f] = "join"]
        BY <2>2 DEF JoinRunning, Suspend
      <3>3. \A x \in Fiber : at'[x] = "join" => at[x] \in {"join", "running"}
        BY <1>1, <3>1, <3>2 DEF PlainTypeOK
      <3> QED
        BY <3>2, <3>3, QuietQueue
    <2>3. CASE InterruptJoin(f, g)
      <3> DEFINE h == Resume(g, "interrupted")
      <3>1. h \in Handler /\ h.fiber = g /\ h.val = "interrupted"
        BY DEF Resume, Handler, ResumeHandler, Result
      <3>2. /\ strand' = Post(VmOf[g], h) /\ VmOf[g] \in Vm
            /\ UNCHANGED <<valid, at>> /\ interrupted' = [interrupted EXCEPT ![g] = TRUE]
        BY <1>1, <2>3 DEF InterruptJoin, JoinInterrupter, Return, Shape
      <3>3. interrupted'[g] /\ \A x \in Fiber : interrupted[x] => interrupted'[x]
        BY <1>1, <3>2 DEF PlainTypeOK
      <3> HIDE DEF h
      <3> QED
        BY <3>1, <3>2, <3>3, PostedQueue
    <2>4. CASE InterruptFlag(f, g)
      <3>1. UNCHANGED <<strand, valid, at>> /\ interrupted' = [interrupted EXCEPT ![g] = TRUE]
        BY <2>4 DEF InterruptFlag, Return
      <3>2. \A x \in Fiber : interrupted[x] => interrupted'[x]
        BY <1>1, <3>1 DEF PlainTypeOK
      <3> QED
        BY <3>1, <3>2, QuietQueue
    <2>5. CASE \/ JoinRaises(f, g) \/ InterruptNothing(f, g) \/ JoinFinished(f, g)
               \/ Detach(f, g) \/ HandleGc(f, g)
      <3>1. UNCHANGED <<strand, valid, at, interrupted>>
        BY <2>5 DEF JoinRaises, InterruptNothing, JoinFinished, Detach, HandleGc, Return,
           fiberData, coreVars
      <3> QED
        BY <3>1, QuietQueue
    <2> QED
      BY <1>7, <2>1, <2>2, <2>3, <2>4, <2>5 DEF HandleCall
  <1> QED
    BY <1>2, <1>3, <1>4, <1>5, <1>6, <1>7 DEF Next, Finish, Terminate, FinishMainError

JoinInv == Inv /\ JoinsAreMarked /\ QueuedJoinIsInterrupted

\* The strengthened invariant holds in every reachable state.
LEMMA JoinInvariance == Spec => []JoinInv
  <1> USE VmContextAssumption
  <1>1. Init => JoinInv
    <2> SUFFICES ASSUME Init PROVE JoinInv
      OBVIOUS
    <2>1. Inv
      BY InvInit
    <2>2. JoinsAreMarked
      BY DEF Init, JoinsAreMarked
    <2>3. \A x \in Fiber : at[x] # "join"
      BY DEF Init, CoreInit
    <2>4. QueuedJoinIsInterrupted
      BY <2>1, <2>3, ShapeHolds DEF Inv, Shape, QueuedJoinIsInterrupted
    <2> QED
      BY <2>1, <2>2, <2>4 DEF JoinInv
  <1>2. JoinInv /\ [Next]_vars => JoinInv'
    BY InvStep, MarkedStep, QueuedJoinStep DEF JoinInv
  <1> QED
    BY <1>1, <1>2, PTL DEF Spec

\* A join() ends in two ways only: its interruption was posted to the strand, and
\* says so, or the joined fiber ended in this very step and fiber_epilogue() gave
\* the joiner its outcome.  No stale or foreign resume reaches a fiber in join().
THEOREM JoinTellsTheTruth == Spec => JoinDelivers
  <1> USE VmContextAssumption, FibersAssumption
  <1> DEFINE Delivers ==
                \A f \in Fiber : at[f] = "join" /\ at'[f] = "running" =>
                   \/ ret'[f] = "interrupted" /\ interrupted[f]
                   \/ \E g \in JoinedBy(f) :
                         /\ at[g] = "running" /\ at'[g] = "dead"
                         /\ ret'[f] = IF status'[g] = "error" THEN "error" ELSE "ok"
                         /\ caught'[g] = (status'[g] = "interrupted")
  <1>1. JoinInv /\ [Next]_vars => [Delivers]_vars
    <2> SUFFICES ASSUME JoinInv, Next, NEW f \in Fiber, at[f] = "join", at'[f] = "running"
                 PROVE  \/ ret'[f] = "interrupted" /\ interrupted[f]
                        \/ \E g \in JoinedBy(f) :
                              /\ at[g] = "running" /\ at'[g] = "dead"
                              /\ ret'[f] = IF status'[g] = "error" THEN "error" ELSE "ok"
                              /\ caught'[g] = (status'[g] = "interrupted")
      OBVIOUS
    <2>1. Shape /\ PlainTypeOK /\ Inv
      BY ShapeHolds, TypeParts DEF JoinInv, Inv
    <2>2. ASSUME NEW v \in Vm, RunStrand(v)
          PROVE  ret'[f] = "interrupted" /\ interrupted[f]
      <3> DEFINE h == Head(strand[v])
      <3>1. /\ valid[v] /\ strand[v] # <<>>
            /\ at' = [at EXCEPT ![h.fiber] = "running"]
            /\ ret' = [ret EXCEPT ![h.fiber] = h.val]
        BY <2>2 DEF RunStrand, RunResume, FiberResume, StrandReady
      <3>2. h = strand[v][1] /\ 1 \in 1..Len(strand[v])
        <4>1. strand[v] \in Seq(Handler)
          BY <2>1, TypeParts DEF Inv, StrandOK
        <4> QED
          BY <3>1, <4>1
      <3>3. h.fiber = f
        BY <2>1, <3>1 DEF PlainTypeOK
      <3>4. h.val = "interrupted" /\ interrupted[f]
        BY <3>1, <3>2, <3>3 DEF JoinInv, QueuedJoinIsInterrupted
      <3> QED
        BY <2>1, <3>1, <3>3, <3>4 DEF PlainTypeOK
    <2>3. ASSUME NEW g \in Fiber, NEW o \in Outcome, FinishJoined(g, o)
          PROVE  \E x \in JoinedBy(f) :
                    /\ at[x] = "running" /\ at'[x] = "dead"
                    /\ ret'[f] = IF status'[x] = "error" THEN "error" ELSE "ok"
                    /\ caught'[x] = (status'[x] = "interrupted")
      <3>1. at[g] = "running"
        BY <2>1, <2>3, RunningIsFree DEF FinishJoined
      <3>2. /\ at' = [at EXCEPT ![g] = "dead", ![joiner[g]] = "running"]
            /\ ret' = [ret EXCEPT ![g] = "none", ![joiner[g]] = JoinResult(o)]
            /\ status' = [status EXCEPT ![g] = o]
            /\ caught' = [caught EXCEPT ![g] = o = "interrupted"]
            /\ joiner[g] \in Fiber
        BY <2>3 DEF FinishJoined
      <3>3. joiner[g] = f /\ g # f
        BY <2>1, <3>1, <3>2 DEF PlainTypeOK
      <3>4. at'[g] = "dead" /\ ret'[f] = JoinResult(o)
        BY <2>1, <3>2, <3>3 DEF PlainTypeOK
      <3>5. status'[g] = o /\ caught'[g] = (o = "interrupted")
        BY <2>1, <3>2 DEF PlainTypeOK
      <3>6. g \in JoinedBy(f)
        BY <3>1, <3>3 DEF JoinedBy
      <3>7. JoinResult(o) = IF o = "error" THEN "error" ELSE "ok"
        BY DEF JoinResult, Outcome
      <3> QED
        BY <3>1, <3>4, <3>5, <3>6, <3>7
    <2>4. ASSUME NEW g \in Fiber, NEW o \in Outcome, FinishDetached(g, o) \/ FinishUnjoined(g, o)
          PROVE  FALSE
      BY <2>1, <2>4 DEF FinishDetached, FinishUnjoined, Suspend, PlainTypeOK
    <2>5. ASSUME NEW g \in Fiber, Close(VmOf[g])
          PROVE  FALSE
      BY <2>5 DEF Close, CloseVm, Freed
    <2>6. ASSUME NEW g \in Fiber, ThisFiber(g)
          PROVE  FALSE
      BY <2>1, <2>6 DEF ThisFiber, DisableInterruption, RestoreInterruption, ForbidSuspend,
         AllowSuspend, Yield, Suspend, Return, PlainTypeOK
    <2>7. ASSUME NEW g \in Fiber, NEW k \in Fiber, HandleCall(g, k)
          PROVE  FALSE
      <3>1. CASE Spawn(g, k)
        BY <2>1, <3>1 DEF Spawn, SpawnFiber, PlainTypeOK
      <3>2. CASE JoinRunning(g, k)
        BY <2>1, <3>2 DEF JoinRunning, Suspend, PlainTypeOK
      <3>3. CASE \/ JoinRaises(g, k) \/ InterruptNothing(g, k) \/ JoinFinished(g, k)
                 \/ Detach(g, k) \/ HandleGc(g, k) \/ InterruptFlag(g, k)
                 \/ InterruptJoin(g, k)
        BY <3>3 DEF JoinRaises, InterruptNothing, JoinFinished, Detach, HandleGc,
           InterruptFlag, InterruptJoin, Return, coreVars
      <3> QED
        BY <2>7, <3>1, <3>2, <3>3 DEF HandleCall
    <2> QED
      BY <2>2, <2>3, <2>4, <2>5, <2>6, <2>7 DEF Next, Finish, Terminate, FinishMainError
  <1>2. Spec => [][Delivers]_vars
    BY <1>1, JoinInvariance, PTL DEF Spec
  <1> QED
    BY <1>2 DEF JoinDelivers

\* The outcome of a fiber that ended unjoined stays with its handle, whoever is
\* interrupted, until join(), detach() or the collector takes it; the handle is
\* then empty and the fiber out of fiber_list, in the same step.
THEOREM OutcomeStaysJoinable == Spec => OutcomeIsKept
  <1> USE VmContextAssumption, FibersAssumption
  <1> DEFINE Kept(g) == /\ status'[g] = status[g] /\ status[g] # Nil
                        /\ \/ handleFiber'[g] /\ ~joinInProgress'[g]
                           \/ ~handleFiber'[g] /\ g \notin fiberList'
  <1> DEFINE AllKept == \A g \in Fiber :
                            valid'[VmOf[g]] /\ at[g] = "dead" /\ handleFiber[g] => Kept(g)
  <1>1. JoinInv /\ [Next]_vars => [AllKept]_vars
    <2> SUFFICES ASSUME JoinInv, Next, NEW g \in Fiber,
                        valid'[VmOf[g]], at[g] = "dead", handleFiber[g]
                 PROVE  Kept(g)
      OBVIOUS
    <2>1. Shape /\ PlainTypeOK /\ Inv
      BY ShapeHolds, TypeParts DEF JoinInv, Inv
    <2>2. status[g] # Nil /\ ~joinInProgress[g]
      BY <2>1 DEF JoinInv, JoinsAreMarked, Inv, HandleIsSound
    <2>3. CASE UNCHANGED <<status, handleFiber, joinInProgress>>
      BY <2>2, <2>3
    <2>4. ASSUME NEW v \in Vm, RunStrand(v)
          PROVE  Kept(g)
      BY <2>3, <2>4 DEF RunStrand, joinVars, handleVars
    <2>5. ASSUME NEW f \in Fiber, ThisFiber(f)
          PROVE  Kept(g)
      BY <2>3, <2>5 DEF ThisFiber, joinVars, handleVars
    <2>6. ASSUME NEW f \in Fiber, NEW o \in Outcome,
                 FinishDetached(f, o) \/ FinishUnjoined(f, o) \/ FinishJoined(f, o)
          PROVE  Kept(g)
      <3>1. f # g
        BY <2>1, <2>6, RunningIsFree DEF FinishDetached, FinishUnjoined, FinishJoined
      <3>2. status'[g] = status[g] /\ handleFiber'[g] = handleFiber[g]
              /\ joinInProgress'[g] = joinInProgress[g]
        BY <2>1, <2>6, <3>1 DEF FinishDetached, FinishUnjoined, FinishJoined, handleVars,
           PlainTypeOK
      <3> QED
        BY <2>2, <3>2
    <2>7. ASSUME NEW f \in Fiber, Close(VmOf[f])
          PROVE  Kept(g)
      <3>1. VmOf[g] # VmOf[f]
        BY <2>1, <2>7 DEF Close, CloseVm, PlainTypeOK, Shape
      <3> QED
        BY <2>2, <2>7, <3>1 DEF Close, Freed
    <2>8. ASSUME NEW f \in Fiber, NEW k \in Fiber, HandleCall(f, k)
          PROVE  Kept(g)
      <3>1. CASE Spawn(f, k)
        <4>1. k # g
          BY <3>1 DEF Spawn, SpawnFiber
        <4> QED
          BY <2>1, <2>2, <3>1, <4>1 DEF Spawn, PlainTypeOK
      <3>2. CASE JoinRunning(f, k)
        <4>1. k # g
          BY <2>2, <3>2 DEF JoinRunning
        <4> QED
          BY <2>1, <2>2, <3>2, <4>1 DEF JoinRunning, PlainTypeOK
      <3>3. CASE JoinFinished(f, k)
        BY <2>1, <2>2, <3>3 DEF JoinFinished, PlainTypeOK
      <3>4. CASE Detach(f, k)
        BY <2>1, <2>2, <3>4 DEF Detach, LetGo, PlainTypeOK
      <3>5. CASE HandleGc(f, k)
        BY <2>1, <2>2, <3>5 DEF HandleGc, LetGo, PlainTypeOK
      <3>6. CASE JoinRaises(f, k) \/ InterruptNothing(f, k) \/ InterruptFlag(f, k)
        BY <2>3, <3>6 DEF JoinRaises, InterruptNothing, InterruptFlag, joinVars, handleVars
      <3>7. CASE InterruptJoin(f, k)
        BY <2>1, <2>2, <3>7 DEF InterruptJoin, JoinInterrupter, PlainTypeOK
      <3> QED
        BY <2>8, <3>1, <3>2, <3>3, <3>4, <3>5, <3>6, <3>7 DEF HandleCall
    <2> QED
      BY <2>4, <2>5, <2>6, <2>7, <2>8 DEF Next, Finish, Terminate, FinishMainError
  <1>2. Spec => [][AllKept]_vars
    BY <1>1, JoinInvariance, PTL DEF Spec
  <1> QED
    BY <1>2 DEF OutcomeIsKept
=============================================================================
