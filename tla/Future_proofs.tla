---------------------------- MODULE Future_proofs ----------------------------
(***************************************************************************)
(* Proofs about Future, for any number of fibers and promises: its type    *)
(* invariant, that no waiter is lost or woken twice, and that what a       *)
(* suspended get() returns is what happened to the promise.                *)
(***************************************************************************)
EXTENDS Future, VmContext_proofs

-----------------------------------------------------------------------------
(* The inductive invariant.                                                  *)

Waiting == {f \in Fiber : \E p \in Pair : f \in Members(waiters[p])}

AllValid == \A v \in Vm : valid[v]

\* Every suspended fiber is on its strand or a waiter, and never both.
OwedOnce == Engine(running, at, strand, Waiting, Suspended, Result)

\* Waiters are fibers in get() of a future that has no answer yet.
WaitersAreSound ==
    \A p \in Pair :
        /\ NoRepeat(waiters[p])
        /\ \A f \in Members(waiters[p]) : at[f] = "get" /\ asked[f] = p /\ state[p] = "empty"

\* An interrupter refers to the get() its fiber is in.
InterrupterIsCurrent ==
    \A f \in Fiber :
        interrupter[f] # Nil => at[f] = "get" /\ asked[f] = interrupter[f] /\ ~Disabled(f)

\* The answers that may be on their way to a fiber in get(): they stay true
\* until the fiber takes them.
Truth(f, val) ==
    /\ asked[f] \in Pair
    /\ \/ val = "interrupted" /\ interrupted[f]
       \/ val = outcome[asked[f]] /\ outcome[asked[f]] # Nil
       \/ val = "broken_promise" /\ outcome[asked[f]] = Nil /\ ~promiseLive[asked[f]]

PostedIsTrue ==
    \A v \in Vm : \A h \in Members(strand[v]) :
        at[h.fiber] = "get" => h.clear /\ Truth(h.fiber, h.val)

\* A promise with a result or without its promise is not empty any more.
Settled ==
    \A p \in Pair : outcome[p] # Nil \/ ~promiseLive[p] => state[p] # "empty"

Inv ==
    /\ TypeOK
    /\ AllValid
    /\ OwedOnce
    /\ WaitersAreSound
    /\ InterrupterIsCurrent
    /\ PostedIsTrue
    /\ Settled

-----------------------------------------------------------------------------
(* The type invariant in parts; the engine's is in OwedOnce.                 *)

DataOK ==
    /\ valid \in [Vm -> BOOLEAN]
    /\ interrupted \in [Fiber -> BOOLEAN]
    /\ interrupter \in [Fiber -> Pair \cup {Nil}]
    /\ ret \in [Fiber -> Result]
    /\ state \in [Pair -> {"empty", "broken", "value", "error"}]
    /\ promiseLive \in [Pair -> BOOLEAN]
    /\ asked \in [Fiber -> Pair \cup {Nil}]
    /\ outcome \in [Pair -> {"value", "error", Nil}]

ListsOK == waiters \in [Pair -> Seq(Fiber)]

LEMMA InvParts ==
    Inv <=> /\ DataOK /\ ListsOK /\ CountersOK
            /\ AllValid /\ OwedOnce /\ WaitersAreSound /\ InterrupterIsCurrent
            /\ PostedIsTrue /\ Settled
  <1>1. Inv => DataOK /\ ListsOK /\ CountersOK
    BY DEF Inv, TypeOK, CoreTypeOK, DataOK, ListsOK, CountersOK
  <1>2. DataOK /\ ListsOK /\ CountersOK /\ OwedOnce => TypeOK
    BY DEF TypeOK, CoreTypeOK, DataOK, ListsOK, CountersOK, OwedOnce, Engine
  <1> QED
    BY <1>1, <1>2 DEF Inv

\* No fiber and no pair is Nil; the sites and results are those the engine needs.
LEMMA Names ==
    /\ \A f \in Fiber : VmOf[f] \in Vm /\ f # Nil
    /\ \A p \in Pair : p # Nil
    /\ \A f, g \in Fiber : VmOf[f] = VmOf[g]
    /\ Sites(Suspended) /\ Answers(Result)
  BY VmContextAssumption, FutureAssumption DEF Sites, Answers, Suspended, Result, Gone

LEMMA InvInit == Init => Inv
  <1> SUFFICES ASSUME Init PROVE Inv
    OBVIOUS
  <1>1. DataOK /\ ListsOK /\ CountersOK
    BY CountersInit DEF Init, CoreInit, DataOK, ListsOK, Result
  <1>2. \A p \in Pair : Members(waiters[p]) = {} /\ NoRepeat(waiters[p])
    BY DEF Init, Members, NoRepeat
  <1>3. Waiting = {}
    BY <1>2 DEF Waiting
  <1>4. OwedOnce
    BY <1>3, EngineInit, Names DEF Init, OwedOnce
  <1>5. WaitersAreSound /\ InterrupterIsCurrent /\ Settled
    BY <1>2 DEF Init, CoreInit, WaitersAreSound, InterrupterIsCurrent, Settled
  <1>6. PostedIsTrue
    <2> SUFFICES ASSUME NEW v \in Vm, NEW h \in Members(strand[v]) PROVE at[h.fiber] # "get"
      BY DEF PostedIsTrue
    <2>1. strand[v] = <<ResumeSkipClear(Main[v])>>
      BY DEF Init, CoreInit
    <2>2. h.fiber = Main[v] /\ Main[v] \in Fiber
      BY <2>1, VmContextAssumption DEF Members, ResumeSkipClear
    <2> QED
      BY <2>2 DEF Init, CoreInit
  <1> QED
    BY <1>1, <1>4, <1>5, <1>6, InvParts DEF AllValid, Init, CoreInit

-----------------------------------------------------------------------------
(* Every step preserves it.                                                  *)

\* The current fiber waits for nothing and has no interrupter.
LEMMA RunningFacts ==
    ASSUME Inv, NEW f \in Fiber, Running(f)
    PROVE  /\ at[f] = "running" /\ f \notin Waiting /\ interrupter[f] = Nil
           /\ f \notin Resumed(strand[VmOf[f]])
           /\ \A p \in Pair : f \notin Members(waiters[p])
  <1>1. /\ Ledger(running, at, strand, Waiting, Suspended) /\ "running" \notin Suspended
        /\ running[VmOf[f]] = f
    BY DEF Inv, OwedOnce, Engine, Suspended, Running
  <1>2. at[f] = "running" /\ f \notin Waiting /\ f \notin Resumed(strand[VmOf[f]])
    BY <1>1, LedgerRunning
  <1> QED
    BY <1>2 DEF Inv, InterrupterIsCurrent, Waiting

\* Whoever a handler resumes is on its strand's ledger.
LEMMA PostedFacts ==
    ASSUME Inv, NEW v \in Vm, NEW h \in Members(strand[v])
    PROVE  h.fiber \in Fiber /\ h.fiber \in Resumed(strand[v]) /\ VmOf[h.fiber] = v
  <1>1. strand[v] \in Seq(ResumeHandler(Fiber, Result)) /\ Ledger(running, at, strand, Waiting, Suspended)
    BY DEF Inv, OwedOnce, Engine
  <1>2. h \in ResumeHandler(Fiber, Result)
    BY <1>1, QueueFacts
  <1>3. h.fiber \in Fiber
    BY <1>2 DEF ResumeHandler
  <1>4. h.fiber \in Resumed(strand[v])
    BY DEF Members, Resumed
  <1> QED
    BY <1>1, <1>3, <1>4, LedgerQueued

\* A step that touches no promise keeps the invariant if it moves nobody in or
\* out of get() and posts to nobody in get().
LEMMA QuietStep ==
    ASSUME Inv, UNCHANGED <<futureVars, valid, interrupter>>, CountersOK',
           interrupted' \in [Fiber -> BOOLEAN], \A g \in Fiber : interrupted[g] => interrupted'[g],
           ret' \in [Fiber -> Result],
           Engine(running', at', strand', Waiting, Suspended, Result),
           \A g \in Fiber : at'[g] = "get" <=> at[g] = "get",
           \A g \in Fiber : at[g] = "get" => interruptionDisabled'[g] = interruptionDisabled[g],
           \A w \in Vm : \A h \in Members(strand'[w]) :
              h \in Members(strand[w]) \/ (h.fiber \in Fiber /\ at'[h.fiber] # "get")
    PROVE  Inv'
  <1>1. Waiting' = Waiting
    BY DEF futureVars, Waiting
  <1>2. OwedOnce' /\ AllValid'
    BY <1>1 DEF Inv, OwedOnce, AllValid
  <1>3. DataOK' /\ ListsOK'
    BY InvParts DEF DataOK, ListsOK, futureVars
  <1>4. WaitersAreSound' /\ Settled'
    <2>1. \A p \in Pair : \A f \in Members(waiters[p]) : f \in Fiber
      BY InvParts, QueueFacts DEF ListsOK
    <2> QED
      BY <2>1 DEF Inv, futureVars, WaitersAreSound, Settled
  <1>5. InterrupterIsCurrent'
    BY DEF Inv, futureVars, InterrupterIsCurrent, Disabled
  <1>6. PostedIsTrue'
    <2> SUFFICES ASSUME NEW w \in Vm, NEW h \in Members(strand'[w]), at'[h.fiber] = "get"
                 PROVE  h.clear /\ Truth(h.fiber, h.val)'
      BY DEF PostedIsTrue
    <2>1. h \in Members(strand[w])
      OBVIOUS
    <2>2. h.fiber \in Fiber
      BY <2>1, PostedFacts
    <2>3. h.clear /\ Truth(h.fiber, h.val)
      BY <2>1, <2>2 DEF Inv, PostedIsTrue
    <2> QED
      BY <2>2, <2>3 DEF Truth, futureVars
  <1> QED
    BY <1>2, <1>3, <1>4, <1>5, <1>6, InvParts, PTL

\* A call that returns at once and changes nothing but what is returned.
LEMMA ReturnStep ==
    ASSUME Inv, NEW f \in Fiber, NEW x \in Result, Return(f, x),
           UNCHANGED <<strand, valid, counters, interrupter, futureVars>>,
           interrupted' \in [Fiber -> BOOLEAN], \A g \in Fiber : interrupted[g] => interrupted'[g]
    PROVE  Inv'
  <1>1. running' = running /\ at' = at /\ ret' \in [Fiber -> Result]
    BY InvParts DEF Return, DataOK
  <1>2. CountersOK'
    BY InvParts DEF counters, CountersOK
  <1>3. Engine(running', at', strand', Waiting, Suspended, Result)
    BY <1>1 DEF Inv, OwedOnce
  <1> QED
    BY <1>1, <1>2, <1>3, QuietStep DEF counters

LEMMA SpawnStep ==
    ASSUME Inv, NEW f \in Fiber, NEW g \in Fiber, Spawn(f, g)
    PROVE  Inv'
  <1> USE Names
  <1>1. /\ SpawnFiber(f, g) /\ at[g] = "unborn" /\ at' = [at EXCEPT ![g] = "start"]
        /\ ret' = [ret EXCEPT ![f] = "none"]
        /\ UNCHANGED <<running, valid, fiberData, futureVars>>
        /\ strand' = Posted(strand, VmOf[f], ResumeSkipClear(g))
    BY DEF Spawn, SpawnFiber, Post, Posted
  <1>2. Engine(running', at', strand', Waiting, Suspended, Result)
    BY <1>1, EngineSpawn DEF Inv, OwedOnce
  <1>3. \A w \in Vm : \A h \in Members(strand'[w]) : h \in Members(strand[w]) \/ h = ResumeSkipClear(g)
    <2>1. ResumeSkipClear(g) \in ResumeHandler(Fiber, Result)
      BY Handlers
    <2>2. strand \in [Vm -> Seq(ResumeHandler(Fiber, Result))]
      BY DEF Inv, TypeOK
    <2>3. Adds(Posted(strand, VmOf[f], ResumeSkipClear(g)), strand, {ResumeSkipClear(g)})
      BY <2>1, <2>2, PostMembers
    <2> QED
      BY <1>1, <2>3 DEF Adds
  <1>4. ResumeSkipClear(g).fiber = g
    BY DEF ResumeSkipClear
  <1>5. at'[g] = "start" /\ \A k \in Fiber : at'[k] = "get" <=> at[k] = "get"
    BY <1>1 DEF Inv, OwedOnce, Engine
  <1>6. \A w \in Vm : \A h \in Members(strand'[w]) :
            h \in Members(strand[w]) \/ (h.fiber \in Fiber /\ at'[h.fiber] # "get")
    BY <1>3, <1>4, <1>5
  <1>7. ret' \in [Fiber -> Result] /\ CountersOK' /\ interrupted' \in [Fiber -> BOOLEAN]
    BY <1>1, InvParts DEF DataOK, CountersOK, fiberData, Answers
  <1> QED
    BY <1>1, <1>2, <1>5, <1>6, <1>7, QuietStep DEF fiberData

LEMMA EndStep ==
    ASSUME Inv, NEW f \in Fiber, End(f)
    PROVE  Inv'
  <1> USE Names
  <1>1. /\ Running(f) /\ Suspend(f, "dead") /\ at' = [at EXCEPT ![f] = "dead"]
        /\ ret' = [ret EXCEPT ![f] = "none"]
        /\ UNCHANGED <<strand, valid, fiberData, futureVars>>
    BY DEF End, Suspend
  <1>2. Engine(running', at', strand', Waiting, Suspended, Result)
    BY <1>1, EngineEnd DEF Inv, OwedOnce
  <1>3. at[f] = "running"
    BY <1>1, RunningFacts
  <1>4. \A k \in Fiber : at'[k] = "get" <=> at[k] = "get"
    BY <1>1, <1>3 DEF Inv, OwedOnce, Engine
  <1>5. ret' \in [Fiber -> Result] /\ CountersOK' /\ interrupted' \in [Fiber -> BOOLEAN]
    BY <1>1, InvParts DEF DataOK, CountersOK, fiberData, Answers
  <1> QED
    BY <1>1, <1>2, <1>4, <1>5, QuietStep DEF fiberData

LEMMA YieldStep ==
    ASSUME Inv, NEW f \in Fiber, Yield(f), UNCHANGED futureVars
    PROVE  Inv'
  <1> USE Names
  <1>1. Engine(running', at', strand', Waiting, Suspended, Result)
    BY EngineYield DEF Inv, OwedOnce
  <1>2. Running(f) /\ UNCHANGED <<valid, fiberData, futureVars>>
    BY DEF Yield
  <1>3. SuspendError(f) \in Result /\ "none" \in Result
    BY DEF SuspendError, Result
  <1>4. ret' \in [Fiber -> Result] /\ CountersOK' /\ interrupted' \in [Fiber -> BOOLEAN]
    BY <1>2, <1>3, InvParts DEF DataOK, CountersOK, fiberData, Yield, Return, Suspend
  <1>5. at[f] = "running"
    BY <1>2, RunningFacts
  <1>6. \/ at' = at /\ strand' = strand
        \/ /\ at' = [at EXCEPT ![f] = "yield"]
           /\ strand' = Posted(strand, VmOf[f], ResumeSkipClear(f))
    BY DEF Yield, Return, Suspend, Post, Posted
  <1>7. \A k \in Fiber : at'[k] = "get" <=> at[k] = "get"
    BY <1>5, <1>6 DEF Inv, OwedOnce, Engine
  <1>8. \A w \in Vm : \A h \in Members(strand'[w]) : h \in Members(strand[w]) \/ h = ResumeSkipClear(f)
    <2>1. ResumeSkipClear(f) \in ResumeHandler(Fiber, Result)
      BY Handlers
    <2>2. strand \in [Vm -> Seq(ResumeHandler(Fiber, Result))]
      BY DEF Inv, TypeOK
    <2>3. Adds(Posted(strand, VmOf[f], ResumeSkipClear(f)), strand, {ResumeSkipClear(f)})
      BY <2>1, <2>2, PostMembers
    <2> QED
      BY <1>6, <2>3 DEF Adds
  <1>9. ResumeSkipClear(f).fiber = f
    BY DEF ResumeSkipClear
  <1>10. \A w \in Vm : \A h \in Members(strand'[w]) :
            h \in Members(strand[w]) \/ (h.fiber \in Fiber /\ at'[h.fiber] # "get")
    BY <1>5, <1>7, <1>8, <1>9
  <1> QED
    BY <1>1, <1>2, <1>4, <1>7, <1>10, QuietStep DEF fiberData

LEMMA NestingStep ==
    ASSUME Inv, NEW f \in Fiber, Nesting(f), UNCHANGED futureVars
    PROVE  Inv'
  <1>1. PICK x \in Result : ret' = [ret EXCEPT ![f] = x]
    BY NestingIsQuiet DEF Result
  <1>2. UNCHANGED <<strand, running, valid, at, interrupted, interrupter>> /\ Running(f)
    BY NestingIsQuiet
  <1>3. CountersOK' /\ ret' \in [Fiber -> Result] /\ interrupted' \in [Fiber -> BOOLEAN]
    BY <1>1, <1>2, CountersStep, InvParts DEF DataOK
  <1>4. Engine(running', at', strand', Waiting, Suspended, Result)
    BY <1>2 DEF Inv, OwedOnce
  <1>5. \A g \in Fiber : at[g] = "get" => interruptionDisabled'[g] = interruptionDisabled[g]
    <2>1. at[f] = "running"
      BY <1>2, RunningFacts
    <2>2. \A g \in Fiber : g # f => interruptionDisabled'[g] = interruptionDisabled[g]
      BY InvParts DEF CountersOK, Nesting, DisableInterruption, RestoreInterruption,
                      ForbidSuspend, AllowSuspend
    <2> QED
      BY <2>1, <2>2
  <1> QED
    BY <1>2, <1>3, <1>4, <1>5, QuietStep
\* The strand's next handler tells its fiber the truth.
LEMMA HeadIsTrue ==
    ASSUME Inv, NEW v \in Vm, StrandReady(v), NEW f, f = Head(strand[v]).fiber, at[f] = "get"
    PROVE  Head(strand[v]).clear /\ Truth(f, Head(strand[v]).val)
  <1>1. Head(strand[v]) \in Members(strand[v])
    BY EngineHead DEF Inv, OwedOnce
  <1> QED
    BY <1>1 DEF Inv, PostedIsTrue

\* What a step of the strand does.
LEMMA RunStrandFacts ==
    ASSUME Inv, NEW v \in Vm, RunStrand(v)
    PROVE  LET h == Head(strand[v]) IN
           /\ StrandReady(v) /\ h.fiber \in Fiber /\ h.val \in Result
           /\ h.fiber \notin Waiting /\ VmOf[h.fiber] = v
           /\ strand' = Popped(strand, v)
           /\ FiberResume(h.fiber, h.clear, h.val)
           /\ UNCHANGED <<valid, counters, interrupted, futureVars>>
  <1>1. /\ StrandReady(v) /\ strand' = Popped(strand, v)
        /\ FiberResume(Head(strand[v]).fiber, Head(strand[v]).clear, Head(strand[v]).val)
        /\ UNCHANGED <<valid, counters, interrupted, futureVars>>
    BY DEF RunStrand, RunResume, Inv, AllValid, Popped
  <1>2. /\ Head(strand[v]).fiber \in Fiber /\ Head(strand[v]).val \in Result
        /\ Head(strand[v]).fiber \notin Waiting /\ VmOf[Head(strand[v]).fiber] = v
    BY <1>1, EngineHead DEF Inv, OwedOnce
  <1> QED
    BY <1>1, <1>2

LEMMA RunStrandStep ==
    ASSUME Inv, NEW v \in Vm, RunStrand(v)
    PROVE  Inv'
  <1> USE Names
  <1> DEFINE h == Head(strand[v])
             f == h.fiber
  <1>1. /\ StrandReady(v) /\ f \in Fiber /\ h.val \in Result /\ f \notin Waiting
        /\ strand' = Popped(strand, v) /\ FiberResume(f, h.clear, h.val)
        /\ UNCHANGED <<valid, counters, interrupted, futureVars>>
    BY RunStrandFacts
  <1>2. at[f] = "get" => h.clear
    BY <1>1, HeadIsTrue
  <1>3. f = Head(strand[v]).fiber
    OBVIOUS
  <1> HIDE DEF h, f
  <1>4. Engine(running', at', strand', Waiting, Suspended, Result)
    BY <1>1, <1>3, EngineResume DEF Inv, OwedOnce
  <1>5. /\ at' = [at EXCEPT ![f] = "running"] /\ ret' = [ret EXCEPT ![f] = h.val]
        /\ interrupter' = ClearedInterrupter(f, h.clear)
    BY <1>1 DEF FiberResume
  <1>6. Waiting' = Waiting
    BY <1>1 DEF Waiting, futureVars
  <1>7. interrupter' \in [Fiber -> Pair \cup {Nil}] /\ interrupter'[f] = Nil
        /\ \A g \in Fiber : g # f => interrupter'[g] = interrupter[g]
    <2>1. interrupter \in [Fiber -> Pair \cup {Nil}]
      BY InvParts DEF DataOK
    <2>2. interrupter[f] # Nil => h.clear /\ ~Disabled(f)
      BY <1>1, <1>2 DEF Inv, InterrupterIsCurrent
    <2> QED
      BY <1>1, <1>5, <2>1, <2>2 DEF ClearedInterrupter, SetInterrupter
  <1>8. DataOK' /\ ListsOK' /\ CountersOK'
    BY <1>1, <1>5, <1>7, InvParts DEF DataOK, ListsOK, CountersOK, futureVars, counters
  <1>9. \A g \in Fiber : g # f => at'[g] = at[g]
    BY <1>5 DEF Inv, OwedOnce, Engine
  <1>10. at'[f] = "running"
    BY <1>1, <1>5 DEF Inv, OwedOnce, Engine
  <1>11. WaitersAreSound' /\ Settled'
    <2>1. \A p \in Pair : \A g \in Members(waiters[p]) : g \in Fiber /\ g # f
      BY <1>1, InvParts, QueueFacts DEF ListsOK, Waiting
    <2> QED
      BY <1>1, <1>9, <2>1 DEF Inv, futureVars, WaitersAreSound, Settled
  <1>12. InterrupterIsCurrent'
    BY <1>1, <1>7, <1>9 DEF Inv, futureVars, counters, InterrupterIsCurrent, Disabled
  <1>13. PostedIsTrue'
    <2> SUFFICES ASSUME NEW w \in Vm, NEW e \in Members(strand'[w]), at'[e.fiber] = "get"
                 PROVE  e.clear /\ Truth(e.fiber, e.val)'
      BY DEF PostedIsTrue
    <2>1. Adds(Popped(strand, v), strand, {})
      <3>1. strand \in [Vm -> Seq(ResumeHandler(Fiber, Result))] /\ strand[v] # <<>>
        BY <1>1 DEF Inv, TypeOK, StrandReady
      <3> QED
        BY <3>1, PopMembers
    <2>2. e \in Members(strand[w])
      BY <1>1, <2>1 DEF Adds
    <2>3. e.fiber \in Fiber
      BY <2>2, PostedFacts
    <2>4. at[e.fiber] = "get"
      BY <1>9, <1>10, <2>3
    <2>5. e.clear /\ Truth(e.fiber, e.val)
      BY <2>2, <2>4 DEF Inv, PostedIsTrue
    <2> QED
      BY <1>1, <2>5 DEF Truth, futureVars
  <1>14. AllValid' /\ OwedOnce'
    BY <1>1, <1>4, <1>6 DEF Inv, AllValid, OwedOnce
  <1> QED
    BY <1>8, <1>11, <1>12, <1>13, <1>14, InvParts, PTL

\* The promise p gets its answer, val, which every waiter is told.
LEMMA AnswerStep ==
    ASSUME Inv, NEW f \in Fiber, Running(f), NEW p \in Pair, NEW val \in Result,
           WakeWaiters(VmOf[f], p, val),
           state' \in [Pair -> {"empty", "broken", "value", "error"}], state'[p] # "empty",
           \A q \in Pair : q # p => state'[q] = state[q],
           promiseLive' \in [Pair -> BOOLEAN],
           \A q \in Pair : q # p => promiseLive'[q] = promiseLive[q],
           outcome' \in [Pair -> {"value", "error", Nil}],
           \A q \in Pair : q # p => outcome'[q] = outcome[q],
           outcome[p] # Nil => outcome'[p] = outcome[p],
           ~promiseLive[p] => ~promiseLive'[p] /\ outcome'[p] = outcome[p],
           waiters[p] # <<>> => \/ val = outcome'[p] /\ outcome'[p] # Nil
                                \/ val = "broken_promise" /\ outcome'[p] = Nil /\ ~promiseLive'[p],
           ret' \in [Fiber -> Result],
           UNCHANGED <<running, at, valid, fiberData, asked>>
    PROVE  Inv'
  <1> USE Names
  <1> DEFINE q == waiters[p]
             H == ResumeHandler(Fiber, Result)
  <1>1. q \in Seq(Fiber) /\ NoRepeat(q) /\ strand \in [Vm -> Seq(H)]
    BY InvParts DEF ListsOK, Inv, WaitersAreSound, TypeOK
  <1>2. Members(q) \subseteq Waiting /\ Members(q) \subseteq Fiber
    BY <1>1, QueueFacts DEF Waiting
  <1>3. strand' = PostedAll(strand, VmOf[f], q, val) /\ waiters' = [waiters EXCEPT ![p] = <<>>]
    BY DEF WakeWaiters, PostedAll
  <1>4. \A g \in Fiber : Resume(g, val) \in H /\ Resume(g, val).fiber = g
    BY Handlers
  <1>5. q = <<>> <=> Members(q) = {}
    BY <1>1, QueueFacts
  <1> HIDE DEF q, H
  <1>6. Engine(running, at, PostedAll(strand, VmOf[f], q, val), Waiting \ Members(q), Suspended, Result)
    <2>1. Engine(running, at, strand, Waiting, Suspended, Result)
      BY DEF Inv, OwedOnce
    <2>2. \A g \in Members(q) : VmOf[g] = VmOf[f]
      BY <1>2
    <2> QED
      BY <1>1, <1>2, <2>1, <2>2, EnginePostAll
  <1>7. /\ waiters' \in [Pair -> Seq(Fiber)] /\ waiters'[p] = <<>>
        /\ \A r \in Pair : r # p => waiters'[r] = waiters[r]
    BY <1>3, InvParts DEF ListsOK
  <1>8. \A r \in Pair : \A g \in Members(waiters[r]) :
           g \in Fiber /\ at[g] = "get" /\ asked[g] = r /\ state[r] = "empty"
    BY InvParts, QueueFacts DEF ListsOK, Inv, WaitersAreSound
  <1>9. Members(<<>>) = {} /\ NoRepeat(<<>>)
    BY DEF Members, NoRepeat
  <1>10. Waiting' = Waiting \ Members(q)
    <2>1. ASSUME NEW g \in Fiber, NEW r \in Pair
          PROVE  g \in Members(waiters'[r]) <=> g \in Members(waiters[r]) /\ g \notin Members(q)
      BY SMTT(30), <1>7, <1>8, <1>9 DEF q
    <2> QED
      BY <2>1 DEF Waiting
  <1>11. AllValid' /\ OwedOnce'
    BY <1>3, <1>6, <1>10 DEF Inv, AllValid, OwedOnce
  <1>12. DataOK' /\ ListsOK' /\ CountersOK'
    BY <1>7, InvParts DEF DataOK, ListsOK, CountersOK, fiberData
  <1>13. WaitersAreSound'
    <2> SUFFICES ASSUME NEW r \in Pair
                 PROVE  /\ NoRepeat(waiters'[r])
                        /\ \A g \in Members(waiters'[r]) :
                              at'[g] = "get" /\ asked'[g] = r /\ state'[r] = "empty"
      BY DEF WaitersAreSound
    <2>1. CASE r = p
      BY <1>7, <1>9, <2>1
    <2>2. CASE r # p
      <3>1. waiters'[r] = waiters[r] /\ state'[r] = state[r] /\ NoRepeat(waiters[r])
        BY <1>7, <2>2 DEF Inv, WaitersAreSound
      <3> QED
        BY <1>8, <3>1
    <2> QED
      BY <2>1, <2>2
  <1>14. InterrupterIsCurrent'
    BY DEF Inv, InterrupterIsCurrent, Disabled, fiberData
  <1>15. Settled'
    BY DEF Inv, Settled
  <1>16. PostedIsTrue'
    <2> SUFFICES ASSUME NEW w \in Vm, NEW e \in Members(strand'[w]), at[e.fiber] = "get"
                 PROVE  e.clear /\ Truth(e.fiber, e.val)'
      BY DEF PostedIsTrue
    <2>1. /\ Adds(PostedAll(strand, VmOf[f], q, val), strand, Members(ResumeAll(q, val)))
          /\ \A x \in Members(ResumeAll(q, val)) : \E g \in Members(q) : x = Resume(g, val)
      BY <1>1, <1>4, PostAllMembers
    <2>2. e \in Members(strand[w]) \/ \E g \in Members(q) : e = Resume(g, val)
      BY <1>3, <2>1 DEF Adds
    <2>3. CASE e \in Members(strand[w])
      <3>1. e.clear /\ Truth(e.fiber, e.val)
        BY <2>3 DEF Inv, PostedIsTrue
      <3>2. e.fiber \in Fiber
        BY <2>3, PostedFacts
      <3>3. asked[e.fiber] \in Pair /\ asked' = asked /\ interrupted' = interrupted
        BY <3>1 DEF Truth, fiberData
      <3>4. CASE asked[e.fiber] # p
        BY <3>1, <3>3, <3>4 DEF Truth
      <3>5. CASE asked[e.fiber] = p
        BY <3>1, <3>3, <3>5 DEF Truth
      <3> QED
        BY <3>4, <3>5
    <2>4. ASSUME NEW g \in Members(q), e = Resume(g, val)
          PROVE  e.clear /\ Truth(e.fiber, e.val)'
      <3>1. e.clear /\ e.fiber = g /\ e.val = val
        BY <2>4 DEF Resume
      <3>2. asked[g] = p /\ waiters[p] # <<>>
        BY <1>5, <1>8 DEF q
      <3>3. Truth(g, val)'
        BY <3>2 DEF Truth
      <3> QED
        BY <3>1, <3>3
    <2> QED
      BY <2>2, <2>3, <2>4
  <1> QED
    BY <1>11, <1>12, <1>13, <1>14, <1>15, <1>16, InvParts, PTL

LEMMA SetResultStep ==
    ASSUME Inv, NEW f \in Fiber, NEW p \in Pair, NEW x \in {"value", "error"}, SetResult(f, p, x)
    PROVE  Inv'
  <1>1. /\ Running(f) /\ promiseLive[p] /\ state[p] = "empty"
        /\ state' = [state EXCEPT ![p] = x] /\ outcome' = [outcome EXCEPT ![p] = x]
        /\ WakeWaiters(VmOf[f], p, x) /\ ret' = [ret EXCEPT ![f] = "none"]
        /\ UNCHANGED <<running, at, valid, fiberData, promiseLive, asked>>
    BY DEF SetResult, Return
  <1>2. DataOK /\ outcome[p] = Nil /\ x \in Result /\ "none" \in Result /\ x # Nil
    BY <1>1, InvParts, FutureAssumption DEF Inv, Settled, Result
  <1>3. /\ state' \in [Pair -> {"empty", "broken", "value", "error"}] /\ state'[p] # "empty"
        /\ \A q \in Pair : q # p => state'[q] = state[q]
    BY <1>1, <1>2 DEF DataOK
  <1>4. /\ outcome' \in [Pair -> {"value", "error", Nil}] /\ outcome'[p] = x
        /\ \A q \in Pair : q # p => outcome'[q] = outcome[q]
    BY <1>1, <1>2 DEF DataOK
  <1>5. promiseLive' \in [Pair -> BOOLEAN] /\ ret' \in [Fiber -> Result]
    BY <1>1, <1>2 DEF DataOK
  <1> QED
    BY <1>1, <1>2, <1>3, <1>4, <1>5, AnswerStep

\* The collector finds a promise, whose waiters, if it has any, have no answer.
LEMMA PromiseGcStep ==
    ASSUME Inv, NEW f \in Fiber, NEW p \in Pair, PromiseGc(f, p)
    PROVE  Inv'
  <1>1. /\ Running(f) /\ promiseLive[p]
        /\ promiseLive' = [promiseLive EXCEPT ![p] = FALSE]
        /\ state' = [state EXCEPT ![p] = "broken"]
        /\ WakeWaiters(VmOf[f], p, "broken_promise")
        /\ UNCHANGED <<running, at, valid, fiberData, ret, asked, outcome>>
    BY DEF PromiseGc
  <1>2. DataOK /\ "broken_promise" \in Result
    BY InvParts DEF Result
  <1>3. /\ state' \in [Pair -> {"empty", "broken", "value", "error"}] /\ state'[p] # "empty"
        /\ \A q \in Pair : q # p => state'[q] = state[q]
    BY <1>1, <1>2 DEF DataOK
  <1>4. /\ promiseLive' \in [Pair -> BOOLEAN] /\ ~promiseLive'[p]
        /\ \A q \in Pair : q # p => promiseLive'[q] = promiseLive[q]
    BY <1>1, <1>2 DEF DataOK
  <1>5. waiters[p] # <<>> => outcome[p] = Nil
    <2>1. waiters[p] # <<>> => Members(waiters[p]) # {}
      BY InvParts, QueueFacts DEF ListsOK
    <2> QED
      BY <2>1 DEF Inv, WaitersAreSound, Settled
  <1>6. /\ outcome' \in [Pair -> {"value", "error", Nil}] /\ ret' \in [Fiber -> Result]
        /\ \A q \in Pair : outcome'[q] = outcome[q]
    BY <1>1, <1>2 DEF DataOK
  <1>7. waiters[p] # <<>> => outcome'[p] = Nil /\ ~promiseLive'[p]
    BY <1>4, <1>5, <1>6
  <1>8. /\ Running(f) /\ promiseLive[p] /\ WakeWaiters(VmOf[f], p, "broken_promise")
        /\ UNCHANGED <<running, at, valid, fiberData, asked>>
    BY <1>1
  <1> QED
    BY <1>2, <1>3, <1>4, <1>6, <1>7, <1>8, AnswerStep

\* get() that returns at once: only what the current fiber asked for changes.
LEMMA GetReturnsStep ==
    ASSUME Inv, NEW f \in Fiber, NEW p \in Pair, GetReturns(f, p)
    PROVE  Inv'
  <1>1. /\ Running(f) /\ asked' = [asked EXCEPT ![f] = p]
        /\ UNCHANGED <<running, at, strand, valid, fiberData, state, waiters, promiseLive, outcome>>
    BY DEF GetReturns, Return
  <1>2. at[f] = "running" /\ \A r \in Pair : f \notin Members(waiters[r])
    BY <1>1, RunningFacts
  <1>3. /\ asked' \in [Fiber -> Pair \cup {Nil}]
        /\ \A g \in Fiber : g # f => asked'[g] = asked[g]
    BY <1>1, InvParts DEF DataOK
  <1>4. ret' \in [Fiber -> Result]
    <2> DEFINE x == IF ~CanSuspend(f) THEN SuspendError(f)
                    ELSE IF state[p] = "broken" THEN "broken_promise" ELSE state[p]
    <2>1. x \in Result
      BY InvParts DEF GetReturns, DataOK, SuspendError, Result
    <2>2. ret' = [ret EXCEPT ![f] = x]
      BY DEF GetReturns, Return
    <2> HIDE DEF x
    <2> QED
      BY <2>1, <2>2, InvParts DEF DataOK
  <1>5. DataOK' /\ ListsOK' /\ CountersOK'
    BY <1>1, <1>3, <1>4, InvParts DEF DataOK, ListsOK, CountersOK, fiberData
  <1>6. AllValid' /\ OwedOnce' /\ Settled'
    BY <1>1 DEF Inv, AllValid, OwedOnce, Waiting, Settled
  <1>7. WaitersAreSound'
    <2>1. \A r \in Pair : \A g \in Members(waiters[r]) : g \in Fiber /\ g # f
      BY <1>2, InvParts, QueueFacts DEF ListsOK
    <2> QED
      BY <1>1, <1>3, <2>1 DEF Inv, WaitersAreSound
  <1>8. InterrupterIsCurrent'
    BY <1>1, <1>2, <1>3 DEF Inv, InterrupterIsCurrent, Disabled, fiberData
  <1>9. PostedIsTrue'
    <2> SUFFICES ASSUME NEW w \in Vm, NEW e \in Members(strand[w]), at[e.fiber] = "get"
                 PROVE  e.clear /\ Truth(e.fiber, e.val)'
      BY <1>1 DEF PostedIsTrue
    <2>1. e.clear /\ Truth(e.fiber, e.val)
      BY DEF Inv, PostedIsTrue
    <2>2. e.fiber \in Fiber /\ e.fiber # f
      BY <1>2, PostedFacts
    <2> QED
      BY <1>1, <1>3, <2>1, <2>2 DEF Truth, fiberData
  <1> QED
    BY <1>5, <1>6, <1>7, <1>8, <1>9, InvParts, PTL

\* get() that suspends: one more waiter, with an interrupter unless interruption
\* is disabled.
LEMMA GetWaitsStep ==
    ASSUME Inv, NEW f \in Fiber, NEW p \in Pair, GetWaits(f, p)
    PROVE  Inv'
  <1> USE Names
  <1>1. /\ Running(f) /\ state[p] = "empty" /\ asked' = [asked EXCEPT ![f] = p]
        /\ interrupter' = SetInterrupter(f, p)
        /\ waiters' = [waiters EXCEPT ![p] = Append(@, f)]
        /\ running' = [running EXCEPT ![VmOf[f]] = Nil] /\ at' = [at EXCEPT ![f] = "get"]
        /\ ret' = [ret EXCEPT ![f] = "none"]
        /\ UNCHANGED <<strand, valid, counters, interrupted, state, promiseLive, outcome>>
    BY DEF GetWaits, Suspend
  <1>2. /\ at[f] = "running" /\ interrupter[f] = Nil /\ f \notin Resumed(strand[VmOf[f]])
        /\ \A r \in Pair : f \notin Members(waiters[r])
    BY <1>1, RunningFacts
  <1>3. /\ waiters'[p] \in Seq(Fiber) /\ NoRepeat(waiters'[p])
        /\ Members(waiters'[p]) = Members(waiters[p]) \cup {f}
        /\ \A r \in Pair : r # p => waiters'[r] = waiters[r]
        /\ ListsOK'
    <2>1. waiters[p] \in Seq(Fiber) /\ NoRepeat(waiters[p]) /\ waiters \in [Pair -> Seq(Fiber)]
      BY InvParts DEF ListsOK, Inv, WaitersAreSound
    <2>2. /\ Append(waiters[p], f) \in Seq(Fiber) /\ NoRepeat(Append(waiters[p], f))
          /\ Members(Append(waiters[p], f)) = Members(waiters[p]) \cup {f}
      BY <1>2, <2>1, AppendFacts
    <2> QED
      BY <1>1, <2>1, <2>2 DEF ListsOK
  <1>4. Waiting' = Waiting \cup {f}
    BY <1>3 DEF Waiting
  <1>5. AllValid' /\ OwedOnce'
    <2>1. Engine(running, at, strand, Waiting, Suspended, Result) /\ "get" \in Suspended
          /\ running[VmOf[f]] = f
      BY <1>1 DEF Inv, OwedOnce, Suspended, Running
    <2>2. Engine([running EXCEPT ![VmOf[f]] = Nil], [at EXCEPT ![f] = "get"], strand,
                 Waiting \cup {f}, Suspended, Result)
      BY <2>1, EngineSuspend
    <2> QED
      BY <1>1, <1>4, <2>2 DEF Inv, AllValid, OwedOnce
  <1>6. /\ asked' \in [Fiber -> Pair \cup {Nil}] /\ asked'[f] = p
        /\ \A g \in Fiber : g # f => asked'[g] = asked[g]
        /\ interrupter' \in [Fiber -> Pair \cup {Nil}]
        /\ interrupter'[f] = IF Disabled(f) THEN Nil ELSE p
        /\ \A g \in Fiber : g # f => interrupter'[g] = interrupter[g]
    BY <1>1, <1>2, InvParts DEF DataOK, SetInterrupter
  <1>7. at'[f] = "get" /\ \A g \in Fiber : g # f => at'[g] = at[g]
    BY <1>1 DEF Inv, OwedOnce, Engine
  <1>8. DataOK' /\ CountersOK'
    BY <1>1, <1>6, InvParts DEF DataOK, CountersOK, counters, Answers
  <1>9. Settled'
    BY <1>1 DEF Inv, Settled
  <1>10. WaitersAreSound'
    <2> SUFFICES ASSUME NEW r \in Pair
                 PROVE  /\ NoRepeat(waiters'[r])
                        /\ \A g \in Members(waiters'[r]) :
                              at'[g] = "get" /\ asked'[g] = r /\ state'[r] = "empty"
      BY DEF WaitersAreSound
    <2>1. /\ NoRepeat(waiters[r])
          /\ \A g \in Members(waiters[r]) :
                g \in Fiber /\ g # f /\ at[g] = "get" /\ asked[g] = r /\ state[r] = "empty"
      BY <1>2, InvParts, QueueFacts DEF ListsOK, Inv, WaitersAreSound
    <2> QED
      BY <1>1, <1>3, <1>6, <1>7, <2>1
  <1>11. InterrupterIsCurrent'
    BY <1>1, <1>6, <1>7 DEF Inv, InterrupterIsCurrent, Disabled, counters
  <1>12. PostedIsTrue'
    <2> SUFFICES ASSUME NEW w \in Vm, NEW e \in Members(strand[w]), at'[e.fiber] = "get"
                 PROVE  e.clear /\ Truth(e.fiber, e.val)'
      BY <1>1 DEF PostedIsTrue
    <2>1. e.fiber \in Fiber /\ e.fiber # f
      BY <1>2, PostedFacts
    <2>2. e.clear /\ Truth(e.fiber, e.val)
      BY <1>7, <2>1 DEF Inv, PostedIsTrue
    <2> QED
      BY <1>1, <1>6, <2>1, <2>2 DEF Truth
  <1> QED
    BY <1>3, <1>5, <1>8, <1>9, <1>10, <1>11, <1>12, InvParts, PTL

\* interrupt() of a fiber in get(): its place among the waiters, if it still has
\* one, is traded for a resume.
LEMMA InterruptStep ==
    ASSUME Inv, NEW f \in Fiber, NEW g \in Fiber, Interrupt(f, g)
    PROVE  Inv'
  <1> USE Names
  <1>0. /\ Running(f) /\ interrupted' = [interrupted EXCEPT ![g] = TRUE]
        /\ running' = running /\ at' = at /\ ret' = [ret EXCEPT ![f] = "none"]
        /\ UNCHANGED <<valid, counters, state, promiseLive, asked, outcome>>
    BY DEF Interrupt, Return
  <1>1. /\ interrupted' \in [Fiber -> BOOLEAN] /\ interrupted'[g]
        /\ \A k \in Fiber : interrupted[k] => interrupted'[k]
        /\ ret' \in [Fiber -> Result] /\ "none" \in Result
    BY <1>0, InvParts DEF DataOK, Answers
  <1>2. CASE ~(g # f /\ interrupter[g] # Nil)
    <2>1. UNCHANGED <<strand, waiters, interrupter>>
      BY <1>2 DEF Interrupt
    <2>2. UNCHANGED futureVars /\ Return(f, "none")
      BY <1>0, <2>1 DEF futureVars, Return
    <2> QED
      BY <1>0, <1>1, <2>1, <2>2, ReturnStep
  <1>3. CASE g # f /\ interrupter[g] # Nil
    <2> DEFINE p == interrupter[g]
    <2>1. /\ GetInterrupter(g, p) /\ interrupter' = [interrupter EXCEPT ![g] = Nil]
          /\ p \in Pair /\ at[g] = "get" /\ asked[g] = p
      BY <1>3, InvParts DEF Interrupt, DataOK, Inv, InterrupterIsCurrent
    <2> HIDE DEF p
    <2>2. /\ interrupter' \in [Fiber -> Pair \cup {Nil}]
          /\ \A k \in Fiber : interrupter'[k] # Nil => interrupter'[k] = interrupter[k]
      BY <2>1, InvParts DEF DataOK
    <2>3. DataOK' /\ CountersOK'
      BY <1>0, <1>1, <2>2, InvParts DEF DataOK, CountersOK, counters
    <2>4. InterrupterIsCurrent' /\ Settled' /\ AllValid'
      BY <1>0, <2>2 DEF Inv, InterrupterIsCurrent, Settled, AllValid, Disabled, counters
    <2>5. ASSUME NEW w \in Vm, NEW e \in Members(strand[w]), at[e.fiber] = "get"
          PROVE  e.clear /\ Truth(e.fiber, e.val)'
      <3>1. e.clear /\ Truth(e.fiber, e.val) /\ e.fiber \in Fiber
        BY <2>5, PostedFacts DEF Inv, PostedIsTrue
      <3> QED
        BY <1>0, <1>1, <3>1 DEF Truth
    <2>6. CASE /\ \A i \in DOMAIN waiters[p] : waiters[p][i] # g
               /\ UNCHANGED <<waiters, strand>>
      <3>1. OwedOnce' /\ ListsOK' /\ WaitersAreSound'
        BY <1>0, <2>6, InvParts DEF Inv, OwedOnce, Waiting, ListsOK, WaitersAreSound
      <3>2. PostedIsTrue'
        BY <1>0, <2>5, <2>6 DEF PostedIsTrue
      <3> QED
        BY <2>3, <2>4, <3>1, <3>2, InvParts, PTL
    <2>7. ASSUME NEW i \in DOMAIN waiters[p], FoundAt(waiters[p], i, g),
                 waiters' = [waiters EXCEPT ![p] = SeqExt!RemoveAt(@, i)],
                 strand' = Post(VmOf[g], Resume(g, "interrupted"))
          PROVE  Inv'
      <3> DEFINE q == waiters[p]
                 r == SeqExt!RemoveAt(waiters[p], i)
                 h == Resume(g, "interrupted")
      <3>1. q \in Seq(Fiber) /\ NoRepeat(q) /\ waiters \in [Pair -> Seq(Fiber)]
        BY <2>1, InvParts DEF ListsOK, Inv, WaitersAreSound
      <3>2. i \in 1..Len(q) /\ q[i] = g
        BY <2>7, <3>1, QueueFacts DEF FoundAt
      <3>3. r \in Seq(Fiber) /\ Members(r) = Members(q) \ {g} /\ NoRepeat(r)
        BY <3>1, <3>2, RemoveFacts
      <3>4. h \in ResumeHandler(Fiber, Result) /\ h.fiber = g /\ h.clear /\ h.val = "interrupted"
        BY Handlers DEF Answers, Resume
      <3>5. strand' = Posted(strand, VmOf[g], h) /\ waiters' = [waiters EXCEPT ![p] = r]
        BY <2>7 DEF Post, Posted
      <3> HIDE DEF r, h
      <3>6. /\ ListsOK' /\ waiters'[p] = r
            /\ \A s \in Pair : s # p => waiters'[s] = waiters[s]
        BY <2>1, <3>1, <3>3, <3>5 DEF ListsOK
      <3>7. \A s \in Pair : \A k \in Members(waiters[s]) :
               k \in Fiber /\ at[k] = "get" /\ asked[k] = s /\ state[s] = "empty"
        BY InvParts, QueueFacts DEF ListsOK, Inv, WaitersAreSound
      <3>8. g \in Members(q)
        BY <3>2 DEF Members
      <3> HIDE DEF q
      <3>9. Waiting' = Waiting \ {g} /\ g \in Waiting
        <4>1. ASSUME NEW k \in Fiber, NEW s \in Pair
              PROVE  k \in Members(waiters'[s]) <=> k \in Members(waiters[s]) /\ k # g
          <5>1. CASE s = p
            BY <3>3, <3>6, <5>1 DEF q
          <5>2. CASE s # p
            BY <2>1, <3>6, <3>7, <5>2
          <5> QED
            BY <5>1, <5>2
        <4>2. g \in Members(waiters[p])
          BY <3>8 DEF q
        <4> QED
          BY <2>1, <4>1, <4>2 DEF Waiting
      <3>10. OwedOnce'
        <4>1. Engine(running, at, strand, Waiting, Suspended, Result)
          BY DEF Inv, OwedOnce
        <4>2. Engine(running, at, Posted(strand, VmOf[g], h), Waiting \ {g}, Suspended, Result)
          BY <3>4, <3>9, <4>1, EnginePost
        <4> QED
          BY <1>0, <3>5, <3>9, <4>2 DEF OwedOnce
      <3>11. WaitersAreSound'
        <4> SUFFICES ASSUME NEW s \in Pair
                     PROVE  /\ NoRepeat(waiters'[s])
                            /\ \A k \in Members(waiters'[s]) :
                                  at'[k] = "get" /\ asked'[k] = s /\ state'[s] = "empty"
          BY DEF WaitersAreSound
        <4>1. CASE s = p
          BY <1>0, <3>3, <3>6, <3>7, <4>1 DEF q
        <4>2. CASE s # p
          BY <1>0, <3>6, <3>7, <4>2 DEF Inv, WaitersAreSound
        <4> QED
          BY <4>1, <4>2
      <3>12. PostedIsTrue'
        <4>1. Adds(Posted(strand, VmOf[g], h), strand, {h})
          <5>1. strand \in [Vm -> Seq(ResumeHandler(Fiber, Result))]
            BY DEF Inv, TypeOK
          <5> QED
            BY <3>4, <5>1, PostMembers
        <4>2. h.clear /\ Truth(h.fiber, h.val)'
          BY <1>0, <1>1, <2>1, <3>4 DEF Truth
        <4> QED
          BY <1>0, <2>5, <3>5, <4>1, <4>2 DEF PostedIsTrue, Adds
      <3> QED
        BY <2>3, <2>4, <3>6, <3>10, <3>11, <3>12, InvParts, PTL
    <2> QED
      BY <2>1, <2>6, <2>7 DEF GetInterrupter
  <1> QED
    BY <1>2, <1>3

LEMMA InvStep == Inv /\ [Next]_vars => Inv'
  <1> SUFFICES ASSUME Inv, [Next]_vars PROVE Inv'
    OBVIOUS
  <1>1. ASSUME NEW v \in Vm, RunStrand(v) PROVE Inv'
    BY <1>1, RunStrandStep
  <1>2. ASSUME NEW f \in Fiber, ThisFiber(f) PROVE Inv'
    BY <1>2, NestingStep, YieldStep DEF ThisFiber, Nesting
  <1>3. ASSUME NEW f \in Fiber, End(f) PROVE Inv'
    BY <1>3, EndStep
  <1>4. ASSUME NEW f \in Fiber, NEW g \in Fiber, Spawn(f, g) PROVE Inv'
    BY <1>4, SpawnStep
  <1>5. ASSUME NEW f \in Fiber, NEW g \in Fiber, Interrupt(f, g) PROVE Inv'
    BY <1>5, InterruptStep
  <1>6. ASSUME NEW f \in Fiber, NEW p \in Pair, FutureCall(f, p) PROVE Inv'
    <2>1. CASE SetResultRaises(f, p)
      <3>1. interrupted \in [Fiber -> BOOLEAN] /\ "promise_already_satisfied" \in Result
        BY InvParts DEF DataOK, Result
      <3> QED
        BY <2>1, <3>1, ReturnStep DEF SetResultRaises, fiberData, counters
    <2> QED
      BY <1>6, <2>1, SetResultStep, PromiseGcStep, GetReturnsStep, GetWaitsStep DEF FutureCall
  <1>7. CASE UNCHANGED vars
    <2>1. UNCHANGED <<strand, running, valid, at>> /\ UNCHANGED futureVars /\ UNCHANGED ret
          /\ UNCHANGED <<interruptionDisabled, suspensionDisallowed, interrupted, interrupter>>
      BY <1>7 DEF vars, coreVars, fiberData
    <2>2. DataOK' /\ ListsOK' /\ CountersOK'
      BY <2>1, InvParts DEF DataOK, ListsOK, CountersOK, futureVars
    <2>3. Engine(running', at', strand', Waiting, Suspended, Result)
      BY <2>1 DEF Inv, OwedOnce
    <2> QED
      BY <2>1, <2>2, <2>3, QuietStep DEF DataOK
  <1> QED
    BY <1>1, <1>2, <1>3, <1>4, <1>5, <1>6, <1>7 DEF Next

-----------------------------------------------------------------------------
(* The theorems.                                                             *)

\* The invariant holds in every reachable state.
THEOREM Invariance == Spec => []Inv
  BY InvInit, InvStep, PTL DEF Spec

\* Every variable keeps its type.
THEOREM TypeCorrect == Spec => []TypeOK
  <1>1. Inv => TypeOK
    BY DEF Inv
  <1> QED
    BY <1>1, Invariance, PTL

\* However set_value(), set_error(), the collector and interrupt() race for a
\* fiber in future_get(), it is resumed once: it is a waiter of one future or has
\* one resume queued, and no running or dead fiber is or has.
THEOREM NoWakeUpLostOrDoubled == Spec => []WakeOnce
  <1>1. Inv => WakeOnce
    <2> SUFFICES ASSUME Inv, NEW f \in Fiber
                 PROVE  Cardinality(WakeUps(f)) + Cardinality(Waits(f))
                           = IF at[f] \in Suspended THEN 1 ELSE 0
      BY DEF WakeOnce
    <2>1. /\ strand[VmOf[f]] \in Seq(ResumeHandler(Fiber, Result))
          /\ Ledger(running, at, strand, Waiting, Suspended)
      BY Names DEF Inv, OwedOnce, Engine
    <2>2. Cardinality(WakeUps(f)) = IF f \in Resumed(strand[VmOf[f]]) THEN 1 ELSE 0
      BY <2>1, Names, OnceInStrand DEF WakeUps, Ledger
    <2>3. /\ waiters \in [Pair -> Seq(Fiber)] /\ \A p \in Pair : NoRepeat(waiters[p])
          /\ \A p, q \in Pair : f \in Members(waiters[p]) /\ f \in Members(waiters[q]) => p = q
      <3>1. waiters \in [Pair -> Seq(Fiber)] /\ \A p \in Pair : NoRepeat(waiters[p])
        BY InvParts DEF Inv, ListsOK, WaitersAreSound
      <3>2. \A p \in Pair : f \in Members(waiters[p]) => asked[f] = p
        BY DEF Inv, WaitersAreSound
      <3> QED
        BY <3>1, <3>2
    <2>4. Cardinality(Waits(f)) = IF f \in Waiting THEN 1 ELSE 0
      BY <2>3, OnceInLists DEF Waits, Waiting
    <2>5. /\ at[f] \in Suspended <=> f \in Resumed(strand[VmOf[f]]) \/ f \in Waiting
          /\ ~(f \in Resumed(strand[VmOf[f]]) /\ f \in Waiting)
      BY <2>1 DEF Ledger
    <2> QED
      BY <2>2, <2>4, <2>5
  <1> QED
    BY <1>1, Invariance, PTL

\* A suspended future_get() delivers what was stored, broken_promise only if
\* nothing was, and the interruption only if there was one: the answer that was
\* posted is still true when the strand gets to it.
THEOREM GetDeliversTheTruth == Spec => WaitDelivers
  <1> DEFINE Delivers ==
                \A f \in Fiber : at[f] = "get" /\ at'[f] = "running" =>
                   LET o == outcome[asked[f]] IN
                   \/ ret'[f] = "interrupted" /\ interrupted[f]
                   \/ o # Nil /\ ret'[f] = o
                   \/ o = Nil /\ ret'[f] = "broken_promise"
  <1>1. Inv /\ [Next]_vars => [Delivers]_vars
    <2> SUFFICES ASSUME Inv, Next, NEW f \in Fiber, at[f] = "get", at'[f] = "running"
                 PROVE  LET o == outcome[asked[f]] IN
                        \/ ret'[f] = "interrupted" /\ interrupted[f]
                        \/ o # Nil /\ ret'[f] = o
                        \/ o = Nil /\ ret'[f] = "broken_promise"
      OBVIOUS
    <2>1. at \in [Fiber -> Suspended \cup Gone \cup {"running"}] /\ ret \in [Fiber -> Result]
      BY InvParts DEF DataOK, Inv, OwedOnce, Engine
    <2>2. PICK v \in Vm : RunStrand(v)
      BY <2>1 DEF Next, ThisFiber, End, Spawn, Interrupt, FutureCall, SetResult, SetResultRaises,
                  PromiseGc, GetReturns, GetWaits, SpawnFiber, Suspend, Return, Yield,
                  DisableInterruption, RestoreInterruption, ForbidSuspend, AllowSuspend
    <2> DEFINE h == Head(strand[v])
    <2>3. StrandReady(v) /\ h.fiber \in Fiber /\ FiberResume(h.fiber, h.clear, h.val)
      BY <2>2, RunStrandFacts
    <2>4. h.fiber = f /\ ret'[f] = h.val
      BY <2>1, <2>3 DEF FiberResume
    <2>5. Truth(f, h.val)
      BY <2>3, <2>4, HeadIsTrue
    <2> QED
      BY <2>4, <2>5 DEF Truth
  <1>2. Spec => [][Delivers]_vars
    BY <1>1, Invariance, PTL DEF Spec
  <1> QED
    BY <1>2 DEF WaitDelivers
=============================================================================
