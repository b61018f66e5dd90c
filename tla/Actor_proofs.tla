---------------------------- MODULE Actor_proofs ----------------------------
(***************************************************************************)
(* Proofs about Actor, for any number of VMs, fibers and addresses: that a *)
(* sender or receiver is resumed exactly once, that no message waits while *)
(* a receiver does, and that send() tells its fiber the truth.  The        *)
(* addresses are counted in ActorSenders_proofs.                           *)
(***************************************************************************)
EXTENDS Actor, VmContext_proofs, WellFoundedInduction

-----------------------------------------------------------------------------
(* Induction over data, which a destructor that empties a queue needs: a set *)
(* of numbers that is not empty has a least one.                             *)

\* A set of numbers that is not empty has a least element.
LEMMA LeastElement ==
    ASSUME NEW T, T \subseteq Nat, T # {}
    PROVE  \E n \in T : \A m \in T : n <= m
  <1> DEFINE R == OpToRel(<, Nat)
  <1>1. IsWellFoundedOn(R, Nat)
    BY NatLessThanWellFounded
  <1>2. \A m, n \in Nat : <<m, n>> \in R <=> m < n
    BY DEF OpToRel
  <1> HIDE DEF R
  <1>3. PICK n \in T : \A m \in T : ~(<<m, n>> \in R)
    BY <1>1, WFMin
  <1>4. \A m \in T : m \in Nat /\ n \in Nat /\ ~(m < n)
    BY <1>2, <1>3
  <1>5. \A m \in T : n <= m
    BY <1>4
  <1> QED
    BY <1>5

\* Whatever holds of 0, and of n + 1 when it holds of n, holds up to N.
LEMMA Climb ==
    ASSUME NEW N \in Nat, NEW T, T \subseteq 0..N, 0 \in T,
           \A n \in 0..N : n # 0 /\ n - 1 \in T => n \in T
    PROVE  N \in T
  <1> DEFINE U == {n \in 0..N : n \notin T}
  <1>1. SUFFICES ASSUME U # {} PROVE FALSE
    OBVIOUS
  <1>0. U \subseteq Nat
    OBVIOUS
  <1>2. PICK n \in U : \A m \in U : n <= m
    <2> HIDE DEF U
    <2> QED
      BY <1>0, <1>1, LeastElement
  <1>3. n \in 0..N /\ n # 0 /\ n \notin T /\ n - 1 \in 0..N /\ ~(n <= n - 1)
    BY <1>2
  <1>4. n - 1 \in T
    BY <1>2, <1>3
  <1> QED
    BY <1>3, <1>4

-----------------------------------------------------------------------------
(* Handlers.                                                                 *)

Owing == {"resume", "deliver"}

\* What the kinds of handlers say.
LEMMA Shapes ==
    /\ \A f, val : /\ Resume(f, val).op = "resume" /\ Resume(f, val).fiber = f
                   /\ Resume(f, val).clear = TRUE /\ Resume(f, val).val = val
    /\ \A f : /\ ResumeSkipClear(f).op = "resume" /\ ResumeSkipClear(f).fiber = f
              /\ ResumeSkipClear(f).clear = FALSE /\ ResumeSkipClear(f).val = "none"
    /\ \A f, msg : /\ Deliver(f, msg).op = "deliver" /\ Deliver(f, msg).fiber = f
                   /\ Deliver(f, msg).val = msg
    /\ \A f : Revoke(f).op = "revoke" /\ Revoke(f).fiber = f
    /\ NoSenders.op = "no_senders" /\ NoSenders.fiber = Nil
  BY DEF Resume, ResumeSkipClear, Deliver, Revoke, NoSenders

\* The handlers that the actions post are handlers.
LEMMA Made ==
    /\ \A f \in Fiber \cup {Nil}, val \in Result : Resume(f, val) \in Handler
    /\ \A f \in Fiber : ResumeSkipClear(f) \in Handler /\ Revoke(f) \in Handler
    /\ \A f \in Fiber, msg \in Msg : Deliver(f, msg) \in Handler
    /\ NoSenders \in Handler
  <1>1. "none" \in Result
    BY DEF Result
  <1> QED
    BY <1>1 DEF Resume, ResumeSkipClear, ResumeHandler, Handler

\* Every handler is of one of the kinds, and is about a fiber unless it may be null.
LEMMA HandlerFacts ==
    ASSUME NEW h \in Handler
    PROVE  /\ h.op \in {"resume", "deliver", "revoke", "no_senders"}
           /\ h.fiber \in Fiber \cup {Nil}
           /\ h.op = "resume" => h.val \in Result /\ h.clear \in BOOLEAN
           /\ h.op = "deliver" => h.fiber \in Fiber /\ h.val \in Msg
           /\ h.op = "revoke" => h.fiber \in Fiber
           /\ h.op = "no_senders" => h = NoSenders
  <1>1. CASE h \in ResumeHandler(Fiber \cup {Nil}, Result)
    BY <1>1 DEF ResumeHandler
  <1>2. CASE \E f \in Fiber, msg \in Msg : h = Deliver(f, msg)
    BY <1>2, Shapes
  <1>3. CASE \E f \in Fiber : h = Revoke(f)
    BY <1>3, Shapes
  <1>4. CASE h = NoSenders
    BY <1>4, Shapes
  <1> QED
    BY <1>1, <1>2, <1>3, <1>4 DEF Handler

-----------------------------------------------------------------------------
(* What a strand holds.                                                      *)

\* A handler of kind op is about f.
Has(q, op, f) == \E i \in 1..Len(q) : q[i].op = op /\ q[i].fiber = f

\* No two handlers owe the same fiber its resumption.
OwesOnce(q) ==
    \A i, j \in 1..Len(q) :
        /\ q[i].op \in Owing /\ q[j].op \in Owing
        /\ q[i].fiber = q[j].fiber /\ q[i].fiber # Nil
        => i = j

\* Where messages that carry x are.
DeliverAt(q, x) == {i \in 1..Len(q) : q[i].op = "deliver" /\ q[i].val = x}

\* post() of one more handler.
LEMMA HasAppend ==
    ASSUME NEW q \in Seq(Handler), NEW h \in Handler
    PROVE  /\ Append(q, h) \in Seq(Handler) /\ Append(q, h) # <<>>
           /\ \A op, f : Has(Append(q, h), op, f) <=> Has(q, op, f) \/ (h.op = op /\ h.fiber = f)
           /\ \A x : x \in Members(Append(q, h)) <=> x \in Members(q) \/ x = h
           /\ (OwesOnce(q) /\ (h.op \in Owing /\ h.fiber # Nil =>
                  ~Has(q, "resume", h.fiber) /\ ~Has(q, "deliver", h.fiber)))
                => OwesOnce(Append(q, h))
           /\ h.op # "deliver" => \A x : DeliverAt(Append(q, h), x) = DeliverAt(q, x)
           /\ Len(Append(q, h)) = Len(q) + 1
  <1> DEFINE r == Append(q, h)
  <1>1. /\ Len(q) \in Nat /\ r \in Seq(Handler) /\ Len(r) = Len(q) + 1 /\ r # <<>>
        /\ \A i \in 1..Len(q) : r[i] = q[i]
        /\ r[Len(q) + 1] = h
    OBVIOUS
  <1> HIDE DEF r
  <1>2. 1..Len(r) = 1..Len(q) \cup {Len(q) + 1} /\ Len(q) + 1 \notin 1..Len(q)
    BY <1>1
  <1>3. \A op, f : Has(r, op, f) <=> Has(q, op, f) \/ (h.op = op /\ h.fiber = f)
    BY <1>1, <1>2 DEF Has
  <1>4. \A x : x \in Members(r) <=> x \in Members(q) \/ x = h
    BY <1>1, <1>2 DEF Members
  <1>5. ASSUME OwesOnce(q), h.op \in Owing /\ h.fiber # Nil =>
                               ~Has(q, "resume", h.fiber) /\ ~Has(q, "deliver", h.fiber)
        PROVE  OwesOnce(r)
    <2>1. ASSUME NEW i \in 1..Len(q), h.op \in Owing, q[i].op \in Owing, h.fiber # Nil
          PROVE  q[i].fiber # h.fiber
      BY <1>5, <2>1 DEF Has, Owing
    <2> QED
      BY <1>1, <1>2, <1>5, <2>1 DEF OwesOnce
  <1>6. ASSUME h.op # "deliver", NEW x PROVE DeliverAt(r, x) = DeliverAt(q, x)
    BY <1>1, <1>2, <1>6 DEF DeliverAt
  <1> QED
    BY <1>1, <1>3, <1>4, <1>5, <1>6 DEF r

\* The strand takes its next handler.
LEMMA HasTail ==
    ASSUME NEW q \in Seq(Handler), q # <<>>
    PROVE  /\ Tail(q) \in Seq(Handler) /\ Head(q) \in Handler /\ Head(q) \in Members(q)
           /\ \A op, f : Has(q, op, f) <=> Has(Tail(q), op, f) \/ (Head(q).op = op /\ Head(q).fiber = f)
           /\ \A x : x \in Members(Tail(q)) => x \in Members(q)
           /\ OwesOnce(q) => OwesOnce(Tail(q))
           /\ OwesOnce(q) /\ Head(q).op \in Owing /\ Head(q).fiber # Nil =>
                 /\ ~Has(Tail(q), "resume", Head(q).fiber)
                 /\ ~Has(Tail(q), "deliver", Head(q).fiber)
  <1> DEFINE r == Tail(q)
             h == Head(q)
  <1>1. /\ Len(q) \in Nat /\ Len(q) >= 1 /\ r \in Seq(Handler) /\ Len(r) = Len(q) - 1
        /\ \A i \in 1..Len(r) : r[i] = q[i + 1]
        /\ h = q[1] /\ h \in Handler
    OBVIOUS
  <1> HIDE DEF r, h
  <1>2. /\ \A i \in 1..Len(q) : i = 1 \/ (i - 1 \in 1..Len(r) /\ q[i] = r[i - 1])
        /\ \A i \in 1..Len(r) : i + 1 \in 1..Len(q) /\ q[i + 1] = r[i] /\ i + 1 # 1
        /\ 1 \in 1..Len(q)
    BY <1>1
  <1>3. \A op, f : Has(q, op, f) <=> Has(r, op, f) \/ (h.op = op /\ h.fiber = f)
    <2>1. ASSUME NEW op, NEW f, Has(r, op, f) PROVE Has(q, op, f)
      BY <1>2, <2>1 DEF Has
    <2>2. ASSUME NEW op, NEW f, h.op = op, h.fiber = f PROVE Has(q, op, f)
      BY <1>1, <1>2, <2>2 DEF Has
    <2>3. ASSUME NEW op, NEW f, Has(q, op, f) PROVE Has(r, op, f) \/ (h.op = op /\ h.fiber = f)
      BY <1>1, <1>2, <2>3 DEF Has
    <2> QED
      BY <2>1, <2>2, <2>3
  <1>4. \A x : x \in Members(r) => x \in Members(q)
    BY <1>2 DEF Members
  <1>5. h \in Members(q)
    BY <1>1, <1>2 DEF Members
  <1>6. OwesOnce(q) => OwesOnce(r)
    BY <1>1, <1>2 DEF OwesOnce
  <1>7. OwesOnce(q) /\ h.op \in Owing /\ h.fiber # Nil =>
            ~Has(r, "resume", h.fiber) /\ ~Has(r, "deliver", h.fiber)
    BY <1>1, <1>2 DEF OwesOnce, Has, Owing
  <1> QED
    BY <1>1, <1>3, <1>4, <1>5, <1>6, <1>7 DEF r, h

-----------------------------------------------------------------------------
(* Who is owed a resumption by the strands.  kind[f] says which structure    *)
(* holds f, home[f] the VM it belongs to, and word[f] what the resumption    *)
(* that is queued will tell f.                                               *)

OnStrand(str, kind, home, word) ==
    /\ \A w \in Vm : OwesOnce(str[w])
    /\ \A w \in Vm, f \in Fiber :
          /\ Has(str[w], "resume", f) <=> kind[f] = "resume" /\ home[f] = w
          /\ Has(str[w], "deliver", f) <=> kind[f] = "deliver" /\ home[f] = w
    /\ \A w \in Vm : \A h \in Members(str[w]) :
          h.op = "resume" /\ h.fiber # Nil =>
             h.val = word[h.fiber] /\ (h.clear <=> word[h.fiber] # "none")

\* Nothing changes except for the fibers of fs.
Elsewhere(fs, kind, home, word, kind1, home1, word1) ==
    \A g \in Fiber : g \notin fs =>
        kind1[g] = kind[g] /\ home1[g] = home[g] /\ word1[g] = word[g]

\* A handler that owes nobody anything is posted.
LEMMA PostQuiet ==
    ASSUME NEW str \in [Vm -> Seq(Handler)], NEW kind, NEW home, NEW word,
           OnStrand(str, kind, home, word),
           NEW v \in Vm, NEW h \in Handler, h.op \notin Owing \/ h.fiber = Nil
    PROVE  OnStrand(Posted(str, v, h), kind, home, word)
  <1> DEFINE s1 == Posted(str, v, h)
  <1>1. s1[v] = Append(str[v], h) /\ \A w \in Vm : w # v => s1[w] = str[w]
    BY DEF Posted
  <1>2. str[v] \in Seq(Handler)
    OBVIOUS
  <1> HIDE DEF s1
  <1>3. /\ \A op, f : Has(s1[v], op, f) <=> Has(str[v], op, f) \/ (h.op = op /\ h.fiber = f)
        /\ \A x : x \in Members(s1[v]) <=> x \in Members(str[v]) \/ x = h
        /\ OwesOnce(str[v]) => OwesOnce(s1[v])
    BY <1>1, <1>2, HasAppend
  <1>4. Nil \notin Fiber
    BY VmContextAssumption
  <1>5. \A w \in Vm : OwesOnce(s1[w])
    BY <1>1, <1>3 DEF OnStrand
  <1>6. \A w \in Vm, f \in Fiber :
          /\ Has(s1[w], "resume", f) <=> Has(str[w], "resume", f)
          /\ Has(s1[w], "deliver", f) <=> Has(str[w], "deliver", f)
    BY <1>1, <1>3, <1>4 DEF Owing
  <1>7. \A w \in Vm : \A x \in Members(s1[w]) : x \in Members(str[w]) \/ x = h
    BY <1>1, <1>3
  <1>8. \A w \in Vm : \A x \in Members(s1[w]) :
            x.op = "resume" /\ x.fiber # Nil => x \in Members(str[w])
    BY <1>7 DEF Owing
  <1> QED
    BY <1>5, <1>6, <1>8 DEF OnStrand, s1

\* The resumption of f, or its message, is posted.
LEMMA PostOwed ==
    ASSUME NEW str \in [Vm -> Seq(Handler)], NEW kind, NEW home, NEW word,
           OnStrand(str, kind, home, word),
           NEW v \in Vm, NEW h \in Handler, h.op \in Owing, h.fiber \in Fiber,
           kind[h.fiber] \notin Owing,
           NEW kind1, NEW home1, NEW word1,
           Elsewhere({h.fiber}, kind, home, word, kind1, home1, word1),
           kind1[h.fiber] = h.op, home1[h.fiber] = v,
           h.op = "resume" => word1[h.fiber] = h.val /\ (h.clear <=> h.val # "none")
    PROVE  OnStrand(Posted(str, v, h), kind1, home1, word1)
  <1> DEFINE s1 == Posted(str, v, h)
  <1>1. s1[v] = Append(str[v], h) /\ \A w \in Vm : w # v => s1[w] = str[w]
    BY DEF Posted
  <1>2. str[v] \in Seq(Handler)
    OBVIOUS
  <1> HIDE DEF s1
  <1>3. \A w \in Vm : ~Has(str[w], "resume", h.fiber) /\ ~Has(str[w], "deliver", h.fiber)
    BY DEF OnStrand, Owing
  <1>4. /\ \A op, f : Has(s1[v], op, f) <=> Has(str[v], op, f) \/ (h.op = op /\ h.fiber = f)
        /\ \A x : x \in Members(s1[v]) <=> x \in Members(str[v]) \/ x = h
        /\ OwesOnce(str[v]) => OwesOnce(s1[v])
    BY <1>1, <1>2, <1>3, HasAppend
  <1>5. \A w \in Vm : OwesOnce(s1[w])
    BY <1>1, <1>4, ZenonT(60) DEF OnStrand
  <1>6. ASSUME NEW w \in Vm, NEW f \in Fiber
        PROVE  /\ Has(s1[w], "resume", f) <=> kind1[f] = "resume" /\ home1[f] = w
               /\ Has(s1[w], "deliver", f) <=> kind1[f] = "deliver" /\ home1[f] = w
    <2>1. CASE f = h.fiber
      BY <1>1, <1>3, <1>4, <2>1 DEF Owing
    <2>2. CASE f # h.fiber
      <3>1. kind1[f] = kind[f] /\ home1[f] = home[f]
        BY <2>2 DEF Elsewhere
      <3>2. \A op : Has(s1[w], op, f) <=> Has(str[w], op, f)
        BY <1>1, <1>4, <2>2
      <3> QED
        BY <3>1, <3>2 DEF OnStrand
    <2> QED
      BY <2>1, <2>2
  <1>7. ASSUME NEW w \in Vm, NEW x \in Members(s1[w]), x.op = "resume", x.fiber # Nil
        PROVE  x.val = word1[x.fiber] /\ (x.clear <=> word1[x.fiber] # "none")
    <2>1. CASE x = h
      BY <1>7, <2>1
    <2>2. CASE x # h
      <3>1. x \in Members(str[w])
        BY <1>1, <1>4, <2>2
      <3>2. str[w] \in Seq(Handler)
        OBVIOUS
      <3>3. x \in Handler
        BY <3>1, <3>2, QueueFacts
      <3>4. x.fiber \in Fiber
        BY <1>7, <3>3, HandlerFacts
      <3>5. Has(str[w], "resume", x.fiber)
        BY <1>7, <3>1 DEF Has, Members
      <3>6. x.fiber # h.fiber
        BY <1>3, <3>5
      <3>7. word1[x.fiber] = word[x.fiber]
        BY <3>4, <3>6 DEF Elsewhere
      <3> QED
        BY <1>7, <3>1, <3>7 DEF OnStrand
    <2> QED
      BY <2>1, <2>2
  <1> QED
    BY <1>5, <1>6, <1>7 DEF OnStrand, s1

\* A handler that owes nobody anything is taken.
LEMMA PopQuiet ==
    ASSUME NEW str \in [Vm -> Seq(Handler)], NEW kind, NEW home, NEW word,
           OnStrand(str, kind, home, word),
           NEW v \in Vm, str[v] # <<>>, Head(str[v]).op \notin Owing \/ Head(str[v]).fiber = Nil
    PROVE  OnStrand(Popped(str, v), kind, home, word)
  <1> DEFINE s1 == Popped(str, v)
             h == Head(str[v])
  <1>1. s1[v] = Tail(str[v]) /\ \A w \in Vm : w # v => s1[w] = str[w]
    BY DEF Popped
  <1>2. str[v] \in Seq(Handler)
    OBVIOUS
  <1> HIDE DEF s1
  <1>3. /\ \A op, f : Has(str[v], op, f) <=> Has(s1[v], op, f) \/ (h.op = op /\ h.fiber = f)
        /\ \A x : x \in Members(s1[v]) => x \in Members(str[v])
        /\ OwesOnce(str[v]) => OwesOnce(s1[v])
    BY <1>1, <1>2, HasTail
  <1>4. Nil \notin Fiber
    BY VmContextAssumption
  <1> HIDE DEF h
  <1>5. \A w \in Vm : OwesOnce(s1[w])
    BY <1>1, <1>3 DEF OnStrand
  <1>6. \A w \in Vm, f \in Fiber :
          /\ Has(s1[w], "resume", f) <=> Has(str[w], "resume", f)
          /\ Has(s1[w], "deliver", f) <=> Has(str[w], "deliver", f)
    BY <1>1, <1>3, <1>4 DEF Owing, h
  <1>7. \A w \in Vm : \A x \in Members(s1[w]) : x \in Members(str[w])
    BY <1>1, <1>3
  <1> QED
    BY <1>5, <1>6, <1>7 DEF OnStrand, s1

\* The handler that owes f its resumption is taken.
LEMMA PopOwed ==
    ASSUME NEW str \in [Vm -> Seq(Handler)], NEW kind, NEW home, NEW word,
           OnStrand(str, kind, home, word),
           NEW v \in Vm, str[v] # <<>>, NEW f \in Fiber,
           Head(str[v]).op \in Owing, Head(str[v]).fiber = f,
           NEW kind1, NEW home1, NEW word1,
           Elsewhere({f}, kind, home, word, kind1, home1, word1),
           kind1[f] \notin Owing
    PROVE  /\ kind[f] = Head(str[v]).op /\ home[f] = v
           /\ OnStrand(Popped(str, v), kind1, home1, word1)
  <1> DEFINE s1 == Popped(str, v)
             h == Head(str[v])
  <1>1. s1[v] = Tail(str[v]) /\ \A w \in Vm : w # v => s1[w] = str[w]
    BY DEF Popped
  <1>2. str[v] \in Seq(Handler) /\ f # Nil
    BY VmContextAssumption
  <1> HIDE DEF s1
  <1>3. /\ \A op, g : Has(str[v], op, g) <=> Has(s1[v], op, g) \/ (h.op = op /\ h.fiber = g)
        /\ \A x : x \in Members(s1[v]) => x \in Members(str[v])
        /\ OwesOnce(str[v]) => OwesOnce(s1[v])
        /\ OwesOnce(str[v]) => ~Has(s1[v], "resume", f) /\ ~Has(s1[v], "deliver", f)
    BY <1>1, <1>2, HasTail
  <1> HIDE DEF h
  <1>4. h.op \in Owing /\ h.fiber = f
    BY DEF h
  <1>5. kind[f] = h.op /\ home[f] = v
    BY <1>3, <1>4 DEF OnStrand, Owing
  <1>6. \A w \in Vm : OwesOnce(s1[w])
    BY <1>1, <1>3 DEF OnStrand
  <1>7. ASSUME NEW w \in Vm PROVE ~Has(s1[w], "resume", f) /\ ~Has(s1[w], "deliver", f)
    <2>1. CASE w = v
      BY <1>3, <2>1 DEF OnStrand
    <2>2. CASE w # v
      <3>1. ~Has(str[w], "resume", f) /\ ~Has(str[w], "deliver", f)
        BY <1>5, <2>2 DEF OnStrand
      <3> QED
        BY <1>1, <2>2, <3>1
    <2> QED
      BY <2>1, <2>2
  <1>8. ASSUME NEW w \in Vm, NEW g \in Fiber
        PROVE  /\ Has(s1[w], "resume", g) <=> kind1[g] = "resume" /\ home1[g] = w
               /\ Has(s1[w], "deliver", g) <=> kind1[g] = "deliver" /\ home1[g] = w
    <2>1. CASE g = f
      BY <1>7, <2>1 DEF Owing
    <2>2. CASE g # f
      <3>1. kind1[g] = kind[g] /\ home1[g] = home[g]
        BY <2>2 DEF Elsewhere
      <3>2. \A op : Has(s1[w], op, g) <=> Has(str[w], op, g)
        BY <1>1, <1>3, <1>4, <2>2
      <3> QED
        BY <3>1, <3>2 DEF OnStrand
    <2> QED
      BY <2>1, <2>2
  <1>9. ASSUME NEW w \in Vm, NEW x \in Members(s1[w]), x.op = "resume", x.fiber # Nil
        PROVE  x.val = word1[x.fiber] /\ (x.clear <=> word1[x.fiber] # "none")
    <2>1. x \in Members(str[w])
      BY <1>1, <1>3
    <2>2. str[w] \in Seq(Handler)
      OBVIOUS
    <2>3. x \in Handler
      BY <2>1, <2>2, QueueFacts
    <2>4. x.fiber \in Fiber
      BY <1>9, <2>3, HandlerFacts
    <2>5. Has(s1[w], "resume", x.fiber)
      BY <1>9 DEF Has, Members
    <2>6. x.fiber # f
      BY <1>7, <2>5
    <2>7. word1[x.fiber] = word[x.fiber]
      BY <2>4, <2>6 DEF Elsewhere
    <2> QED
      BY <1>9, <2>1, <2>7 DEF OnStrand
  <1> QED
    BY <1>5, <1>6, <1>8, <1>9 DEF OnStrand, s1, h

\* Fibers move between structures that are not strands.
LEMMA MoveElsewhere ==
    ASSUME NEW str \in [Vm -> Seq(Handler)], NEW kind, NEW home, NEW word,
           OnStrand(str, kind, home, word), NEW fs,
           NEW kind1, NEW home1, NEW word1,
           Elsewhere(fs, kind, home, word, kind1, home1, word1),
           \A f \in Fiber : f \in fs => kind[f] \notin Owing /\ kind1[f] \notin Owing
    PROVE  OnStrand(str, kind1, home1, word1)
  <1>1. ASSUME NEW w \in Vm, NEW f \in Fiber
        PROVE  /\ Has(str[w], "resume", f) <=> kind1[f] = "resume" /\ home1[f] = w
               /\ Has(str[w], "deliver", f) <=> kind1[f] = "deliver" /\ home1[f] = w
    <2>1. CASE f \in fs
      BY <2>1 DEF OnStrand, Owing
    <2>2. CASE f \notin fs
      BY <2>2 DEF OnStrand, Elsewhere
    <2> QED
      BY <2>1, <2>2
  <1>2. ASSUME NEW w \in Vm, NEW x \in Members(str[w]), x.op = "resume", x.fiber # Nil
        PROVE  x.val = word1[x.fiber] /\ (x.clear <=> word1[x.fiber] # "none")
    <2>1. str[w] \in Seq(Handler)
      OBVIOUS
    <2>2. x \in Handler
      BY <2>1, QueueFacts
    <2>3. x.fiber \in Fiber
      BY <1>2, <2>2, HandlerFacts
    <2>4. Has(str[w], "resume", x.fiber)
      BY <1>2 DEF Has, Members
    <2>5. x.fiber \notin fs
      BY <2>3, <2>4 DEF OnStrand, Owing
    <2>6. word1[x.fiber] = word[x.fiber]
      BY <2>3, <2>5 DEF Elsewhere
    <2> QED
      BY <1>2, <2>6 DEF OnStrand
  <1> QED
    BY <1>1, <1>2 DEF OnStrand
-----------------------------------------------------------------------------
(* Destructors.                                                              *)

State == [strand : [Vm -> Seq(Handler)], nsenders : [Vm -> Int]]

\* What strands and counters are made of.
LEMMA StateFacts ==
    ASSUME NEW st \in State
    PROVE  st.strand \in [Vm -> Seq(Handler)] /\ st.nsenders \in [Vm -> Int]
  BY DEF State

\* The handlers that hold the sender_state of a blocked sender.
OfSender == {"deliver", "revoke"}

\* What destructors do to the strands when they wake the fibers of fs.
Grown(s0, s1, fs) ==
    /\ s1 \in [Vm -> Seq(Handler)]
    /\ \A w \in Vm : \A h \in Members(s1[w]) : h.op \in OfSender => h \in Members(s0[w])
    /\ \A w \in Vm : s0[w] # <<>> => s1[w] # <<>>
    /\ \A w \in Vm : s1[w] # <<>> => s0[w] # <<>> \/ CanLock(w) \/ \E f \in fs : VmOf[f] = w
    /\ \A w \in Vm : \A x : DeliverAt(s1[w], x) = DeliverAt(s0[w], x)

\* Destructors that run one after the other add up.
LEMMA GrownTrans ==
    ASSUME NEW s0, NEW s1, NEW s2, NEW fs, NEW gs, Grown(s0, s1, fs), Grown(s1, s2, gs)
    PROVE  Grown(s0, s2, fs \cup gs)
  <1>1. \A w \in Vm : \A h \in Members(s2[w]) : h.op \in OfSender => h \in Members(s0[w])
    BY DEF Grown
  <1>2. /\ \A w \in Vm : s0[w] # <<>> => s2[w] # <<>>
        /\ \A w \in Vm : s2[w] # <<>> =>
              s0[w] # <<>> \/ CanLock(w) \/ \E f \in fs \cup gs : VmOf[f] = w
    BY DEF Grown
  <1>3. \A w \in Vm : \A x : DeliverAt(s2[w], x) = DeliverAt(s0[w], x)
    BY DEF Grown
  <1> QED
    BY <1>1, <1>2, <1>3 DEF Grown, OfSender

\* No destructor runs.
LEMMA GrownSame ==
    ASSUME NEW s0 \in [Vm -> Seq(Handler)]
    PROVE  Grown(s0, s0, {})
  BY DEF Grown

\* The resumption of f is posted to its own strand.
LEMMA GrownPost ==
    ASSUME NEW s0 \in [Vm -> Seq(Handler)], NEW f \in Fiber, NEW h \in Handler, h.op = "resume"
    PROVE  Grown(s0, Posted(s0, VmOf[f], h), {f})
  <1> DEFINE s1 == Posted(s0, VmOf[f], h)
             v == VmOf[f]
  <1>1. v \in Vm
    BY VmContextAssumption
  <1>2. s1[v] = Append(s0[v], h) /\ \A w \in Vm : w # v => s1[w] = s0[w]
    BY <1>1 DEF Posted
  <1>3. s0[v] \in Seq(Handler)
    BY <1>1
  <1>4. Append(s0[v], h) \in Seq(Handler)
    BY <1>3, HasAppend
  <1>5. s1 \in [Vm -> Seq(Handler)]
    BY <1>1, <1>4 DEF Posted
  <1> HIDE DEF s1, v
  <1>6. /\ s1[v] # <<>>
        /\ \A x : x \in Members(s1[v]) <=> x \in Members(s0[v]) \/ x = h
        /\ \A x : DeliverAt(s1[v], x) = DeliverAt(s0[v], x)
    BY <1>2, <1>3, HasAppend
  <1>7. \A w \in Vm : \A x : DeliverAt(s1[w], x) = DeliverAt(s0[w], x)
    BY <1>2, <1>6
  <1>8. /\ \A w \in Vm : s0[w] # <<>> => s1[w] # <<>>
        /\ \A w \in Vm : s1[w] # <<>> => s0[w] # <<>> \/ CanLock(w) \/ \E g \in {f} : VmOf[g] = w
    BY <1>2, <1>6 DEF v
  <1>9. \A w \in Vm : \A x \in Members(s1[w]) : x.op \in OfSender => x \in Members(s0[w])
    BY <1>2, <1>6 DEF OfSender
  <1>10. Grown(s0, s1, {f})
    BY <1>5, <1>7, <1>8, <1>9 DEF Grown, OfSender
  <1> QED
    BY <1>10 DEF s1, v

\* The strands that can be locked may be told that nobody is left.
Told(s0, s1) ==
    /\ s1 \in [Vm -> Seq(Handler)]
    /\ \A w \in Vm : s1[w] = s0[w] \/ (CanLock(w) /\ s1[w] = Append(s0[w], NoSenders))

\* A strand that is told that no sender is left grows.
LEMMA GrownTold ==
    ASSUME NEW s0 \in [Vm -> Seq(Handler)], NEW s1, Told(s0, s1)
    PROVE  Grown(s0, s1, {})
  <1>1. NoSenders \in Handler /\ NoSenders.op = "no_senders"
    BY Made, Shapes
  <1>2. ASSUME NEW w \in Vm, s1[w] # s0[w]
        PROVE  /\ CanLock(w) /\ s1[w] # <<>>
               /\ \A x : x \in Members(s1[w]) <=> x \in Members(s0[w]) \/ x = NoSenders
               /\ \A x : DeliverAt(s1[w], x) = DeliverAt(s0[w], x)
    <2>1. CanLock(w) /\ s1[w] = Append(s0[w], NoSenders)
      BY <1>2 DEF Told
    <2>2. s0[w] \in Seq(Handler)
      OBVIOUS
    <2> QED
      BY <1>1, <2>1, <2>2, HasAppend
  <1>3. \A w \in Vm : \A h \in Members(s1[w]) : h.op \in OfSender => h \in Members(s0[w])
    BY <1>1, <1>2 DEF OfSender
  <1>4. \A w \in Vm : \A x : DeliverAt(s1[w], x) = DeliverAt(s0[w], x)
    BY <1>2
  <1> QED
    BY <1>2, <1>3, <1>4 DEF Grown, Told

\* ... which owes no fiber anything.
LEMMA OnStrandTold ==
    ASSUME NEW s0 \in [Vm -> Seq(Handler)], NEW s1, Told(s0, s1),
           NEW kind, NEW home, NEW word, OnStrand(s0, kind, home, word)
    PROVE  OnStrand(s1, kind, home, word)
  <1>1. NoSenders \in Handler /\ NoSenders.op = "no_senders" /\ NoSenders.fiber = Nil
        /\ Nil \notin Fiber
    BY Made, Shapes, VmContextAssumption
  <1>2. ASSUME NEW w \in Vm, s1[w] # s0[w]
        PROVE  /\ \A x : x \in Members(s1[w]) <=> x \in Members(s0[w]) \/ x = NoSenders
               /\ \A op, f : Has(s1[w], op, f) <=> Has(s0[w], op, f) \/ (op = "no_senders" /\ f = Nil)
               /\ OwesOnce(s0[w]) => OwesOnce(s1[w])
    <2>1. CanLock(w) /\ s1[w] = Append(s0[w], NoSenders)
      BY <1>2 DEF Told
    <2>2. s0[w] \in Seq(Handler)
      OBVIOUS
    <2>3. /\ \A x : x \in Members(s1[w]) <=> x \in Members(s0[w]) \/ x = NoSenders
          /\ \A op, f : Has(s1[w], op, f) <=>
                Has(s0[w], op, f) \/ (NoSenders.op = op /\ NoSenders.fiber = f)
          /\ OwesOnce(s0[w]) => OwesOnce(s1[w])
      BY <1>1, <2>1, <2>2, HasAppend
    <2> QED
      BY <1>1, <2>3
  <1>3. \A w \in Vm : OwesOnce(s1[w])
    BY <1>2 DEF OnStrand
  <1>4. \A w \in Vm, f \in Fiber :
          /\ Has(s1[w], "resume", f) <=> Has(s0[w], "resume", f)
          /\ Has(s1[w], "deliver", f) <=> Has(s0[w], "deliver", f)
    BY <1>1, <1>2
  <1>5. \A w \in Vm : \A x \in Members(s1[w]) : x.op = "resume" => x \in Members(s0[w])
    BY <1>1, <1>2
  <1> QED
    BY <1>3, <1>4, <1>5 DEF OnStrand

\* ~actor_address() of the addresses of a bag.
LEMMA DropFacts ==
    ASSUME NEW st \in State, NEW bag \in [Vm -> Int]
    PROVE  /\ Drop(st, bag) \in State
           /\ Told(st.strand, Drop(st, bag).strand)
           /\ \A w \in Vm : Drop(st, bag).nsenders[w] =
                               IF CanLock(w) THEN st.nsenders[w] - bag[w] ELSE st.nsenders[w]
  <1> DEFINE s1 == [w \in Vm |-> IF CanLock(w) /\ bag[w] > 0 /\ st.nsenders[w] = bag[w]
                                 THEN Append(st.strand[w], NoSenders) ELSE st.strand[w]]
             n1 == [w \in Vm |-> IF CanLock(w) THEN st.nsenders[w] - bag[w] ELSE st.nsenders[w]]
  <1>1. st.strand \in [Vm -> Seq(Handler)] /\ st.nsenders \in [Vm -> Int]
    BY StateFacts
  <1>2. \A w \in Vm : s1[w] = st.strand[w] \/ (CanLock(w) /\ s1[w] = Append(st.strand[w], NoSenders))
    OBVIOUS
  <1>3. \A w \in Vm : Append(st.strand[w], NoSenders) \in Seq(Handler)
    BY <1>1, Made, HasAppend
  <1>4. s1 \in [Vm -> Seq(Handler)]
    BY <1>1, <1>3
  <1>5. n1 \in [Vm -> Int]
    BY <1>1
  <1>6. Drop(st, bag) = [strand |-> s1, nsenders |-> n1]
    BY DEF Drop
  <1>7. \A w \in Vm : n1[w] = IF CanLock(w) THEN st.nsenders[w] - bag[w] ELSE st.nsenders[w]
    OBVIOUS
  <1> HIDE DEF s1, n1
  <1> QED
    BY <1>2, <1>4, <1>5, <1>6, <1>7 DEF State, Told

\* One more handler is posted between two destructors.
LEMMA PostInFacts ==
    ASSUME NEW st \in State, NEW v \in Vm, NEW h \in Handler
    PROVE  /\ PostIn(st, v, h) \in State
           /\ PostIn(st, v, h).strand = Posted(st.strand, v, h)
           /\ PostIn(st, v, h).nsenders = st.nsenders
  <1>1. st.strand \in [Vm -> Seq(Handler)] /\ st.nsenders \in [Vm -> Int]
    BY StateFacts
  <1>2. Append(st.strand[v], h) \in Seq(Handler)
    BY <1>1, HasAppend
  <1>3. Posted(st.strand, v, h) \in [Vm -> Seq(Handler)]
    BY <1>1, <1>2 DEF Posted
  <1>4. /\ PostIn(st, v, h).strand = Posted(st.strand, v, h)
        /\ PostIn(st, v, h).nsenders = st.nsenders
    BY DEF PostIn, Posted, State
  <1>5. PICK r : r = Posted(st.strand, v, h)
    OBVIOUS
  <1>6. PostIn(st, v, h) = [st EXCEPT !.strand = r]
    BY <1>5 DEF PostIn, Posted
  <1>7. [st EXCEPT !.strand = r] \in State
    BY <1>3, <1>5 DEF State
  <1> QED
    BY <1>4, <1>6, <1>7

\* The addresses that a message carries: one or none.
LEMMA CarriedFacts ==
    ASSUME NEW msg
    PROVE  /\ CarriedBy(msg) \in [Vm -> Int]
           /\ \A w \in Vm : CarriedBy(msg)[w] = IF msg = w THEN 1 ELSE 0
  BY DEF CarriedBy
Sender == [fiber : Fiber, msg : Msg]

\* A message carries one address or none; uncounting it takes nothing from a VM
\* that is gone.
Carries(s, x) == IF s.msg = x THEN 1 ELSE 0
Uncounted(s, w) == IF CanLock(w) THEN Carries(s, w) ELSE 0

\* st leads to st1, which wakes the fibers of fs.
Wakes(st, st1, fs, kind1, home1, word1) ==
    /\ st1 \in State
    /\ Grown(st.strand, st1.strand, fs)
    /\ OnStrand(st1.strand, kind1, home1, word1)

\* ~sender_state(), for a sender that no strand owes anything yet.
LEMMA DestroyFacts ==
    ASSUME NEW st \in State, NEW s \in Sender, NEW kind, NEW home, NEW word,
           OnStrand(st.strand, kind, home, word), kind[s.fiber] \notin Owing,
           NEW kind1, NEW home1, NEW word1,
           Elsewhere({s.fiber}, kind, home, word, kind1, home1, word1),
           kind1[s.fiber] = "resume", home1[s.fiber] = VmOf[s.fiber],
           word1[s.fiber] = "channel_closed"
    PROVE  /\ Wakes(st, DestroySender(st, s), {s.fiber}, kind1, home1, word1)
           /\ \A w \in Vm : DestroySender(st, s).nsenders[w] =
                 st.nsenders[w] - Uncounted(s, w)
  <1> DEFINE h == Resume(s.fiber, "channel_closed")
             v == VmOf[s.fiber]
             st1 == PostIn(st, v, h)
             bag == CarriedBy(s.msg)
             st2 == Drop(st1, bag)
  <1>1. s.fiber \in Fiber /\ v \in Vm /\ st.strand \in [Vm -> Seq(Handler)]
        /\ st.nsenders \in [Vm -> Int]
    BY VmContextAssumption, StateFacts DEF Sender
  <1>2. /\ h \in Handler /\ h.op = "resume" /\ h.fiber = s.fiber /\ h.clear = TRUE
        /\ h.val = "channel_closed"
    BY <1>1, Made, Shapes DEF Result
  <1> HIDE DEF h
  <1>3. st1 \in State /\ st1.strand = Posted(st.strand, v, h) /\ st1.nsenders = st.nsenders
    BY <1>1, <1>2, PostInFacts
  <1>4. bag \in [Vm -> Int] /\ \A w \in Vm : bag[w] = IF s.msg = w THEN 1 ELSE 0
    BY CarriedFacts
  <1> HIDE DEF st1, bag
  <1>5. /\ st2 \in State /\ Told(st1.strand, st2.strand)
        /\ \A w \in Vm : st2.nsenders[w] =
              IF CanLock(w) THEN st1.nsenders[w] - bag[w] ELSE st1.nsenders[w]
    BY <1>3, <1>4, DropFacts
  <1>6. st1.strand \in [Vm -> Seq(Handler)] /\ st2.strand \in [Vm -> Seq(Handler)]
    BY <1>3, <1>5, StateFacts
  <1>7. OnStrand(st1.strand, kind1, home1, word1)
    <2>1. /\ h.op \in Owing /\ h.fiber \in Fiber /\ kind[h.fiber] \notin Owing
          /\ Elsewhere({h.fiber}, kind, home, word, kind1, home1, word1)
          /\ kind1[h.fiber] = h.op /\ home1[h.fiber] = v
          /\ h.op = "resume" => word1[h.fiber] = h.val /\ (h.clear <=> h.val # "none")
      BY <1>1, <1>2 DEF Owing
    <2>2. OnStrand(Posted(st.strand, v, h), kind1, home1, word1)
      <3> HIDE DEF v
      <3> QED
        BY <1>1, <1>2, <2>1, PostOwed
    <2> QED
      BY <1>3, <2>2
  <1>8. OnStrand(st2.strand, kind1, home1, word1)
    BY <1>5, <1>6, <1>7, OnStrandTold
  <1>9. Grown(st.strand, st1.strand, {s.fiber})
    BY <1>1, <1>2, <1>3, GrownPost
  <1>10. Grown(st1.strand, st2.strand, {})
    BY <1>5, <1>6, GrownTold
  <1>11. Grown(st.strand, st2.strand, {s.fiber} \cup {})
    BY <1>9, <1>10, GrownTrans
  <1>12. {s.fiber} \cup {} = {s.fiber}
    OBVIOUS
  <1>13. \A w \in Vm : st2.nsenders[w] = st.nsenders[w] - Uncounted(s, w)
    BY <1>1, <1>3, <1>4, <1>5 DEF Uncounted, Carries
  <1>14. DestroySender(st, s) = st2
    BY DEF DestroySender, st2, st1, bag, h, v
  <1> HIDE DEF st2
  <1> QED
    BY <1>5, <1>8, <1>11, <1>12, <1>13, <1>14 DEF Wakes

\* g is the run of the destructors of the first N members of q, one after the other.
Clears(g, N, st, q) == g = [n \in 0..N |-> IF n = 0 THEN st ELSE DestroySender(g[n - 1], q[n])]

\* There is such a run, of any length.
LEMMA ClearedExists ==
    ASSUME NEW st, NEW q, NEW N \in Nat
    PROVE  \E g : Clears(g, N, st, q)
  <1> DEFINE Good(m) == \E g : g = [n \in 0..m |-> IF n = 0 THEN st
                                                   ELSE DestroySender(g[n - 1], q[n])]
             T == {m \in 0..N : Good(m)}
  <1>1. Good(0)
    <2>1. [n \in 0..0 |-> st] =
            [n \in 0..0 |-> IF n = 0 THEN st
                            ELSE DestroySender([k \in 0..0 |-> st][n - 1], q[n])]
      OBVIOUS
    <2> QED
      BY <2>1
  <1>2. ASSUME NEW m \in 0..N, m # 0, Good(m - 1) PROVE Good(m)
    <2>1. PICK g : g = [n \in 0..(m - 1) |-> IF n = 0 THEN st ELSE DestroySender(g[n - 1], q[n])]
      BY <1>2
    <2> DEFINE h == [n \in 0..m |-> IF n = m THEN DestroySender(g[m - 1], q[m]) ELSE g[n]]
    <2>2. \A n \in 0..m : h[n] = IF n = 0 THEN st ELSE DestroySender(h[n - 1], q[n])
      <3> SUFFICES ASSUME NEW n \in 0..m
                   PROVE  h[n] = IF n = 0 THEN st ELSE DestroySender(h[n - 1], q[n])
        OBVIOUS
      <3>1. CASE n = 0
        BY <1>2, <2>1, <3>1
      <3>2. CASE n # 0 /\ n = m
        BY <1>2, <3>2
      <3>3. CASE n # 0 /\ n # m
        <4>1. h[n] = g[n] /\ h[n - 1] = g[n - 1] /\ n \in 0..(m - 1)
          BY <1>2, <3>3
        <4>2. g[n] = DestroySender(g[n - 1], q[n])
          BY <2>1, <3>3, <4>1
        <4> QED
          BY <3>3, <4>1, <4>2
      <3> QED
        BY <3>1, <3>2, <3>3
    <2>3. h = [n \in 0..m |-> IF n = 0 THEN st ELSE DestroySender(h[n - 1], q[n])]
      BY <2>2
    <2> QED
      BY <2>3
  <1> HIDE DEF Good
  <1>3. T \subseteq 0..N /\ 0 \in T /\ \A m \in 0..N : m # 0 /\ m - 1 \in T => m \in T
    BY <1>1, <1>2
  <1> HIDE DEF T
  <1>4. N \in T
    BY <1>3, Climb
  <1> QED
    BY <1>4 DEF T, Good, Clears

\* incoming.clear() is that run.
LEMMA ClearedRuns ==
    ASSUME NEW st, NEW v \in Vm, Len(incoming[v]) \in Nat
    PROVE  \E g : /\ g[0] = st
                  /\ \A n \in 1..Len(incoming[v]) : g[n] = DestroySender(g[n - 1], incoming[v][n])
                  /\ ClearIncoming(v, st) = g[Len(incoming[v])]
  <1> DEFINE N == Len(incoming[v])
             q == incoming[v]
             g == CHOOSE g : g = [n \in 0..N |-> IF n = 0 THEN st ELSE DestroySender(g[n - 1], q[n])]
  <1>1. \E f : Clears(f, N, st, q)
    BY ClearedExists
  <1>2. g = [n \in 0..N |-> IF n = 0 THEN st ELSE DestroySender(g[n - 1], q[n])]
    BY <1>1 DEF Clears
  <1>3. ClearIncoming(v, st) = g[N]
    BY DEF ClearIncoming
  <1> HIDE DEF g
  <1>4. g[0] = st /\ \A n \in 1..N : g[n] = DestroySender(g[n - 1], q[n])
    BY <1>2
  <1> QED
    BY <1>3, <1>4
\* Where queued senders carry x, among the first n.
SentUpTo(q, n, x) == {i \in 1..n : q[i].msg = x}
SentAt(q, x) == SentUpTo(q, Len(q), x)

\* Counting the messages that carry x, one message at a time.
LEMMA SentUpToFacts ==
    ASSUME NEW q, NEW n \in Nat, NEW x
    PROVE  /\ IsFiniteSet(SentUpTo(q, n, x)) /\ Cardinality(SentUpTo(q, n, x)) \in Nat
           /\ n = 0 => Cardinality(SentUpTo(q, n, x)) = 0
           /\ n > 0 => Cardinality(SentUpTo(q, n, x)) =
                          Cardinality(SentUpTo(q, n - 1, x)) + Carries(q[n], x)
  <1> DEFINE S(m) == SentUpTo(q, m, x)
  <1>1. ASSUME NEW m \in Nat PROVE IsFiniteSet(S(m)) /\ Cardinality(S(m)) \in Nat
    <2>1. IsFiniteSet(1..m)
      BY FS_Interval
    <2>2. S(m) \subseteq 1..m
      BY DEF SentUpTo
    <2>3. IsFiniteSet(S(m))
      BY <2>1, <2>2, FS_Subset
    <2> QED
      BY <2>3, FS_CardinalityType
  <1>2. n = 0 => S(n) = {}
    BY DEF SentUpTo
  <1>3. ASSUME n > 0, q[n].msg = x
        PROVE  Cardinality(S(n)) = Cardinality(S(n - 1)) + 1
    <2>1. S(n) = S(n - 1) \cup {n} /\ n \notin S(n - 1) /\ n - 1 \in Nat
      BY <1>3 DEF SentUpTo
    <2>2. IsFiniteSet(S(n - 1))
      BY <1>1, <2>1
    <2> HIDE DEF S
    <2> QED
      BY <2>1, <2>2, FS_AddElement
  <1>4. ASSUME n > 0, q[n].msg # x
        PROVE  S(n) = S(n - 1) /\ n - 1 \in Nat
    BY <1>4 DEF SentUpTo
  <1>5. n > 0 => n - 1 \in Nat /\ Cardinality(S(n - 1)) \in Nat
    BY <1>1
  <1> HIDE DEF S
  <1>6. n > 0 => Cardinality(S(n)) = Cardinality(S(n - 1)) + Carries(q[n], x)
    BY <1>3, <1>4, <1>5 DEF Carries
  <1> QED
    BY <1>1, <1>2, <1>6, FS_EmptySet DEF S

\* The addresses in the messages queued at v are uncounted.
Uncounts(v, st, st1) ==
    \A w \in Vm : st1.nsenders[w] =
        st.nsenders[w] - (IF CanLock(w) THEN Cardinality(SentAt(incoming[v], w)) ELSE 0)

\* incoming.clear(): every queued sender is woken once, and the addresses the
\* messages carry are uncounted.
LEMMA ClearFacts ==
    ASSUME NEW v \in Vm, NEW st \in State, incoming[v] \in Seq(Sender), ResumesOnce(incoming[v]),
           NEW kind, NEW home, NEW word, OnStrand(st.strand, kind, home, word),
           \A f \in Resumed(incoming[v]) : kind[f] \notin Owing,
           NEW kind1, NEW home1, NEW word1,
           Elsewhere(Resumed(incoming[v]), kind, home, word, kind1, home1, word1),
           \A f \in Resumed(incoming[v]) :
              kind1[f] = "resume" /\ home1[f] = VmOf[f] /\ word1[f] = "channel_closed"
    PROVE  /\ Wakes(st, ClearIncoming(v, st), Resumed(incoming[v]), kind1, home1, word1)
           /\ Uncounts(v, st, ClearIncoming(v, st))
  <1>0. PICK q : q = incoming[v]
    OBVIOUS
  <1> DEFINE N == Len(q)
             First(n) == {q[i].fiber : i \in 1..n}
             K(n) == [f \in Fiber |-> IF f \in First(n) THEN kind1[f] ELSE kind[f]]
             H(n) == [f \in Fiber |-> IF f \in First(n) THEN home1[f] ELSE home[f]]
             W(n) == [f \in Fiber |-> IF f \in First(n) THEN word1[f] ELSE word[f]]
             Taken(w, n) == IF CanLock(w) THEN Cardinality(SentUpTo(q, n, w)) ELSE 0
  <1>1. N \in Nat /\ \A i \in 1..N : q[i] \in Sender /\ q[i].fiber \in Fiber
    <2>1. q \in Seq(Sender)
      BY <1>0
    <2>2. N \in Nat /\ \A i \in 1..N : q[i] \in Sender
      BY <2>1, QueueFacts
    <2> QED
      BY <2>2 DEF Sender
  <1>2. PICK g : /\ g[0] = st
                 /\ \A n \in 1..N : g[n] = DestroySender(g[n - 1], q[n])
                 /\ ClearIncoming(v, st) = g[N]
    BY <1>0, <1>1, ClearedRuns
  <1>3. st.strand \in [Vm -> Seq(Handler)] /\ st.nsenders \in [Vm -> Int]
    BY StateFacts
  <1> DEFINE P(n) == /\ g[n] \in State
                     /\ Grown(st.strand, g[n].strand, First(n))
                     /\ OnStrand(g[n].strand, K(n), H(n), W(n))
                     /\ \A w \in Vm : g[n].nsenders[w] = st.nsenders[w] - Taken(w, n)
             T == {n \in 0..N : P(n)}
  <1>4. P(0)
    <2>1. First(0) = {}
      OBVIOUS
    <2>2. Elsewhere({}, kind, home, word, K(0), H(0), W(0))
      BY <2>1 DEF Elsewhere
    <2> HIDE DEF K, H, W, First
    <2>3. OnStrand(st.strand, K(0), H(0), W(0))
      BY <1>3, <2>2, MoveElsewhere
    <2>4. Grown(st.strand, st.strand, First(0))
      BY <1>3, <2>1, GrownSame
    <2>5. \A w \in Vm : Cardinality(SentUpTo(q, 0, w)) = 0
      BY SentUpToFacts
    <2>6. \A w \in Vm : st.nsenders[w] = st.nsenders[w] - Taken(w, 0)
      BY <1>3, <2>5
    <2> QED
      BY <1>2, <2>3, <2>4, <2>6
  <1>5. ASSUME NEW n \in 0..N, n # 0, P(n - 1) PROVE P(n)
    <2>1. n \in 1..N /\ n - 1 \in Nat /\ n \in Nat /\ n > 0
      BY <1>1, <1>5
    <2>2. PICK s : s = q[n]
      OBVIOUS
    <2>3. PICK st0 : st0 = g[n - 1]
      OBVIOUS
    <2>4. s \in Sender /\ s.fiber \in Fiber /\ s.fiber \in Resumed(incoming[v])
      BY <1>0, <1>1, <2>1, <2>2 DEF Resumed
    <2>5. g[n] = DestroySender(st0, s)
      BY <1>2, <2>1, <2>2, <2>3
    <2>6. First(n) = First(n - 1) \cup {s.fiber}
      <3>1. 1..n = 1..(n - 1) \cup {n}
        BY <2>1
      <3> QED
        BY <2>2, <3>1
    <2>7. s.fiber \notin First(n - 1)
      <3>1. ResumesOnce(q)
        BY <1>0
      <3>2. \A i \in 1..(n - 1) : i \in 1..N /\ i # n
        BY <1>1, <2>1
      <3>3. \A i \in 1..(n - 1) : q[i].fiber # q[n].fiber
        BY <2>1, <3>1, <3>2 DEF ResumesOnce
      <3> QED
        BY <2>2, <3>3
    <2>8. /\ K(n - 1)[s.fiber] = kind[s.fiber] /\ kind[s.fiber] \notin Owing
          /\ K(n)[s.fiber] = kind1[s.fiber] /\ kind1[s.fiber] = "resume"
          /\ H(n)[s.fiber] = home1[s.fiber] /\ home1[s.fiber] = VmOf[s.fiber]
          /\ W(n)[s.fiber] = word1[s.fiber] /\ word1[s.fiber] = "channel_closed"
      BY <2>4, <2>6, <2>7
    <2>9. Elsewhere({s.fiber}, K(n - 1), H(n - 1), W(n - 1), K(n), H(n), W(n))
      BY <2>6 DEF Elsewhere
    <2>10. PICK k0, h0, w0 : k0 = K(n - 1) /\ h0 = H(n - 1) /\ w0 = W(n - 1)
      OBVIOUS
    <2>11. PICK k1, h1, w1 : k1 = K(n) /\ h1 = H(n) /\ w1 = W(n)
      OBVIOUS
    <2>12. /\ st0 \in State /\ OnStrand(st0.strand, k0, h0, w0)
           /\ Grown(st.strand, st0.strand, First(n - 1))
           /\ \A w \in Vm : st0.nsenders[w] = st.nsenders[w] - Taken(w, n - 1)
      BY <1>5, <2>3, <2>10
    <2> HIDE DEF K, H, W, First, Taken
    <2>13. /\ DestroySender(st0, s) \in State
           /\ Grown(st0.strand, DestroySender(st0, s).strand, {s.fiber})
           /\ OnStrand(DestroySender(st0, s).strand, k1, h1, w1)
           /\ \A w \in Vm : DestroySender(st0, s).nsenders[w] =
                 st0.nsenders[w] - Uncounted(s, w)
      <3>1. /\ k0[s.fiber] \notin Owing /\ k1[s.fiber] = "resume"
            /\ h1[s.fiber] = VmOf[s.fiber] /\ w1[s.fiber] = "channel_closed"
            /\ Elsewhere({s.fiber}, k0, h0, w0, k1, h1, w1)
        BY <2>8, <2>9, <2>10, <2>11
      <3>2. st0 \in State /\ OnStrand(st0.strand, k0, h0, w0) /\ s \in Sender
        BY <2>4, <2>12
      <3>3. /\ Wakes(st0, DestroySender(st0, s), {s.fiber}, k1, h1, w1)
            /\ \A w \in Vm : DestroySender(st0, s).nsenders[w] = st0.nsenders[w] - Uncounted(s, w)
        <4> HIDE DEF P, T, N
        <4> QED
          BY <3>1, <3>2, DestroyFacts
      <3> QED
        BY <3>3 DEF Wakes
    <2>14. Grown(st.strand, g[n].strand, First(n))
      BY <2>5, <2>6, <2>12, <2>13, GrownTrans
    <2>15. ASSUME NEW w \in Vm PROVE g[n].nsenders[w] = st.nsenders[w] - Taken(w, n)
      <3>1. /\ Cardinality(SentUpTo(q, n, w)) \in Nat /\ Cardinality(SentUpTo(q, n - 1, w)) \in Nat
            /\ Cardinality(SentUpTo(q, n, w)) =
                  Cardinality(SentUpTo(q, n - 1, w)) + Carries(q[n], w)
        BY <2>1, SentUpToFacts
      <3>2. st.nsenders[w] \in Int
        BY <1>3
      <3>3. g[n].nsenders[w] = st0.nsenders[w] - Uncounted(s, w)
        BY <2>5, <2>13
      <3>4. st0.nsenders[w] = st.nsenders[w] - Taken(w, n - 1)
        BY <2>12
      <3> QED
        BY <2>2, <3>1, <3>2, <3>3, <3>4 DEF Taken, Uncounted, Carries
    <2> QED
      BY <2>5, <2>11, <2>13, <2>14, <2>15
  <1> HIDE DEF P
  <1>6. T \subseteq 0..N /\ 0 \in T /\ \A n \in 0..N : n # 0 /\ n - 1 \in T => n \in T
    BY <1>1, <1>4, <1>5
  <1>7. N \in T
    <2> HIDE DEF T, N
    <2> QED
      BY <1>1, <1>6, Climb
  <1>8. P(N)
    BY <1>7
  <1>9. First(N) = Resumed(incoming[v])
    BY <1>0 DEF Resumed
  <1>10. Elsewhere({}, K(N), H(N), W(N), kind1, home1, word1)
    BY <1>9 DEF Elsewhere
  <1>11. PICK k0, h0, w0 : k0 = K(N) /\ h0 = H(N) /\ w0 = W(N)
    OBVIOUS
  <1> HIDE DEF K, H, W, First
  <1>12. /\ g[N] \in State /\ OnStrand(g[N].strand, k0, h0, w0)
         /\ Grown(st.strand, g[N].strand, Resumed(incoming[v]))
         /\ \A w \in Vm : g[N].nsenders[w] = st.nsenders[w] - Taken(w, N)
    BY <1>8, <1>9, <1>11 DEF P
  <1>13. g[N].strand \in [Vm -> Seq(Handler)]
    BY <1>12, StateFacts
  <1>14. OnStrand(g[N].strand, kind1, home1, word1)
    <2>1. Elsewhere({}, k0, h0, w0, kind1, home1, word1)
      BY <1>10, <1>11
    <2>2. PICK str : str = g[N].strand
      OBVIOUS
    <2>3. str \in [Vm -> Seq(Handler)] /\ OnStrand(str, k0, h0, w0)
      BY <1>12, <1>13, <2>2
    <2>4. OnStrand(str, kind1, home1, word1)
      BY <2>1, <2>3, MoveElsewhere
    <2> QED
      BY <2>2, <2>4
  <1> QED
    BY <1>0, <1>2, <1>12, <1>14 DEF SentAt, Wakes, Uncounts

-----------------------------------------------------------------------------
(* The inductive invariant.  kind[f] says which structure owes the suspended *)
(* fiber f its resumption, and home[f] which VM that structure belongs to.   *)

Kind == {"none", "resume", "deliver", "incoming", "receiver", "after"}

\* Its message has been posted and send() has not been told of its fate.
InSend == {"deliver", "incoming", "after"}

Ghosts(kind, home) == kind \in [Fiber -> Kind] /\ home \in [Fiber -> Vm]

\* Who is owed a resumption by an inbox, or by a delivery.
Waiting(inc, rec, aft, kind, home) ==
    /\ \A w \in Vm : ResumesOnce(inc[w])
    /\ \A w \in Vm, f \in Fiber :
          /\ f \in Resumed(inc[w]) <=> kind[f] = "incoming" /\ home[f] = w
          /\ rec[w] = f <=> kind[f] = "receiver" /\ home[f] = w
          /\ aft[w] = f <=> kind[f] = "after" /\ home[f] = w

\* TypeOK, but for the sign of nsenders, which takes the count of addresses.
Types ==
    /\ strand \in [Vm -> Seq(Handler)]
    /\ CoreTypeOK(Suspended, Result, Vm \cup {Receiving})
    /\ recvFiber \in [Vm -> Fiber \cup {Nil}]
    /\ incoming \in [Vm -> Seq(Sender)]
    /\ nsenders \in [Vm -> Int] /\ forgotten \in [Vm -> Nat]
    /\ tx \in [Vm -> [Vm -> Nat]]
    /\ after \in [Vm -> Fiber \cup {Nil}]
    /\ open \in [Vm -> BOOLEAN] /\ imported \in [Vm -> BOOLEAN]
    /\ inboxLive \in [Vm -> BOOLEAN] /\ destroyed \in [Vm -> BOOLEAN]
    /\ taken \in [Fiber -> BOOLEAN]
    /\ crashed \in BOOLEAN

\* A fiber that is to be resumed with word: what it is told is true.
WordOK(f, kind, home, word) ==
    kind[f] = "resume" =>
       /\ home[f] = VmOf[f]
       /\ word[f] # "no_senders"
       /\ valid[VmOf[f]] => (word[f] = "none" <=> at[f] = "start")
       /\ at[f] = "send" => /\ word[f] = "sent" <=> taken[f]
                            /\ word[f] = "interrupted" => interrupted[f]

\* A receiver: there is nothing for it to receive.
ReceiverOK(f, kind, home) ==
    kind[f] = "receiver" =>
       /\ home[f] = VmOf[f]
       /\ at[f] = "receive" /\ valid[VmOf[f]] /\ open[VmOf[f]] /\ incoming[VmOf[f]] = <<>>

\* A sender: its interrupter knows where its message is, and taken when it was taken.
SenderOK(f, kind, home) ==
    kind[f] \in InSend =>
       /\ taken[f] <=> kind[f] = "after"
       /\ valid[VmOf[f]] => /\ at[f] = "send"
                            /\ interrupter[f] \in {home[f], Nil}

\* A fiber is where its VM says it is.
PlaceOK(f, kind) ==
    /\ valid[VmOf[f]] => (at[f] \in Suspended <=> kind[f] # "none")
    /\ ~valid[VmOf[f]] => at[f] = "dead"
    /\ at[f] = "running" <=> running[VmOf[f]] = f
    /\ at[f] # "unborn" => at[Main[VmOf[f]]] # "unborn"
    /\ Disabled(f) => interrupter[f] = Nil
    /\ at[f] \in Gone \cup {"start", "running"} => interrupter[f] = Nil
    /\ destroyed[VmOf[f]] => kind[f] = "none"

FiberOK(f, kind, home, word) ==
    /\ PlaceOK(f, kind)
    /\ WordOK(f, kind, home, word)
    /\ ReceiverOK(f, kind, home)
    /\ SenderOK(f, kind, home)

VmOK(v) ==
    /\ ~open[v] => incoming[v] = <<>>
    /\ ~valid[v] => running[v] = Nil
    /\ destroyed[v] => ~valid[v] /\ strand[v] = <<>> /\ after[v] = Nil
    /\ \A h \in Members(strand[v]) : h.op = "revoke" =>
          /\ valid[VmOf[h.fiber]] => interrupted[h.fiber]
          /\ ~destroyed[VmOf[h.fiber]]

Accounts(kind, home, word) ==
    /\ Ghosts(kind, home)
    /\ OnStrand(strand, kind, home, word)
    /\ Waiting(incoming, recvFiber, after, kind, home)
    /\ \A f \in Fiber : FiberOK(f, kind, home, word)

Inv ==
    /\ Types
    /\ \A v \in Vm : VmOK(v)
    /\ \E kind, home, word : Accounts(kind, home, word)

-----------------------------------------------------------------------------
(* What the invariant says of a fiber that makes a call, and of the handler  *)
(* a strand takes.                                                           *)

\* f runs, and nobody owes it anything.
IsCaller(f, kind, home, word) ==
    /\ at[f] = "running" /\ kind[f] = "none" /\ interrupter[f] = Nil
    /\ VmOf[f] \in Vm /\ valid[VmOf[f]] /\ running[VmOf[f]] = f /\ f # Nil
    /\ destroyed[VmOf[f]] = FALSE /\ at[Main[VmOf[f]]] # "unborn"
    /\ FiberOK(f, kind, home, word)

\* A fiber that makes a call runs, in a VM that exists, and is owed nothing.
LEMMA Caller ==
    ASSUME Types, \A v \in Vm : VmOK(v), NEW kind, NEW home, NEW word,
           Accounts(kind, home, word), NEW f \in Fiber, Calls(f)
    PROVE  IsCaller(f, kind, home, word)
  <1>1. VmOf[f] \in Vm /\ running[VmOf[f]] = f /\ f # Nil
    BY VmContextAssumption DEF Calls, Running
  <1>2. VmOK(VmOf[f]) /\ PlaceOK(f, kind)
    BY <1>1 DEF Accounts, FiberOK
  <1>3. at[f] = "running"
    BY <1>1, <1>2 DEF PlaceOK
  <1>4. valid[VmOf[f]] \in BOOLEAN /\ destroyed[VmOf[f]] \in BOOLEAN
    BY <1>1 DEF Types, CoreTypeOK
  <1>5. valid[VmOf[f]]
    BY <1>1, <1>2, <1>4 DEF VmOK
  <1>6. ~destroyed[VmOf[f]]
    BY <1>2, <1>5 DEF VmOK
  <1> QED
    BY <1>1, <1>2, <1>3, <1>4, <1>5, <1>6 DEF PlaceOK, Suspended, IsCaller, Accounts

\* The handler that the strand of v takes next.
LEMMA NextTaken ==
    ASSUME Types, NEW v \in Vm, NEW op, NextHandler(v, op)
    PROVE  /\ strand[v] \in Seq(Handler) /\ strand[v] # <<>>
           /\ Head(strand[v]) \in Handler /\ Head(strand[v]) \in Members(strand[v])
           /\ Head(strand[v]).op = op /\ running[v] = Nil /\ after[v] = Nil
  <1>1. strand[v] \in Seq(Handler) /\ strand[v] # <<>>
    BY DEF Types, NextHandler, StrandReady
  <1>2. Head(strand[v]) \in Handler /\ Head(strand[v]) \in Members(strand[v])
    BY <1>1, HasTail
  <1> QED
    BY <1>1, <1>2 DEF NextHandler, StrandReady
-----------------------------------------------------------------------------
(* Steps of the ghosts, of the strands and of the waiting fibers.            *)

\* One fiber moves.
Put(fun, f, x) == [g \in Fiber |-> IF g = f THEN x ELSE fun[g]]

Moved(kind, home, word, f, k, h, x, kind1, home1, word1) ==
    /\ Ghosts(kind1, home1)
    /\ Elsewhere({f}, kind, home, word, kind1, home1, word1)
    /\ kind1[f] = k /\ home1[f] = h /\ word1[f] = x

\* One fiber moves to another place.
LEMMA GhostMove ==
    ASSUME NEW kind, NEW home, NEW word, Ghosts(kind, home),
           NEW f \in Fiber, NEW k \in Kind, NEW h \in Vm, NEW x
    PROVE  Moved(kind, home, word, f, k, h, x, Put(kind, f, k), Put(home, f, h), Put(word, f, x))
  <1>4. Ghosts(Put(kind, f, k), Put(home, f, h))
    BY DEF Ghosts, Put
  <1>5. Elsewhere({f}, kind, home, word, Put(kind, f, k), Put(home, f, h), Put(word, f, x))
    BY DEF Elsewhere, Put
  <1>6. Put(kind, f, k)[f] = k /\ Put(home, f, h)[f] = h /\ Put(word, f, x)[f] = x
    BY DEF Put
  <1> QED
    BY <1>4, <1>5, <1>6 DEF Moved

\* What the strands hold after one more post.
IsPost(s1, str, v, h) ==
    /\ s1 \in [Vm -> Seq(Handler)]
    /\ s1[v] = Append(str[v], h)
    /\ \A w \in Vm : w # v => s1[w] = str[w]
    /\ \A w \in Vm : \A x \in Members(s1[w]) : x \in Members(str[w]) \/ (w = v /\ x = h)
    /\ \A w \in Vm : str[w] # <<>> => s1[w] # <<>>

\* post() adds one handler to one strand.
LEMMA PostedFacts ==
    ASSUME NEW str \in [Vm -> Seq(Handler)], NEW v \in Vm, NEW h \in Handler
    PROVE  IsPost(Posted(str, v, h), str, v, h)
  <1>0. PICK s1 : s1 = Posted(str, v, h)
    OBVIOUS
  <1>1. str[v] \in Seq(Handler)
    OBVIOUS
  <1>2. /\ Append(str[v], h) \in Seq(Handler) /\ Append(str[v], h) # <<>>
        /\ \A x : x \in Members(Append(str[v], h)) <=> x \in Members(str[v]) \/ x = h
    BY <1>1, HasAppend
  <1>3. s1 \in [Vm -> Seq(Handler)] /\ s1[v] = Append(str[v], h)
        /\ \A w \in Vm : w # v => s1[w] = str[w]
    BY <1>0, <1>2 DEF Posted
  <1>4. \A w \in Vm : \A x \in Members(s1[w]) : x \in Members(str[w]) \/ (w = v /\ x = h)
    BY <1>2, <1>3
  <1>5. \A w \in Vm : str[w] # <<>> => s1[w] # <<>>
    BY <1>2, <1>3
  <1> QED
    BY <1>0, <1>3, <1>4, <1>5 DEF IsPost

\* ... and after the next handler was taken.
LEMMA PoppedFacts ==
    ASSUME NEW str \in [Vm -> Seq(Handler)], NEW v \in Vm, str[v] # <<>>
    PROVE  /\ Popped(str, v) \in [Vm -> Seq(Handler)]
           /\ Popped(str, v)[v] = Tail(str[v])
           /\ \A w \in Vm : w # v => Popped(str, v)[w] = str[w]
           /\ \A w \in Vm : \A x \in Members(Popped(str, v)[w]) : x \in Members(str[w])
           /\ \A w \in Vm : str[w] = <<>> => Popped(str, v)[w] = <<>>
  <1>0. PICK s1 : s1 = Popped(str, v)
    OBVIOUS
  <1>1. str[v] \in Seq(Handler)
    OBVIOUS
  <1>2. /\ Tail(str[v]) \in Seq(Handler)
        /\ \A x : x \in Members(Tail(str[v])) => x \in Members(str[v])
    BY <1>1, HasTail
  <1>3. s1 \in [Vm -> Seq(Handler)] /\ s1[v] = Tail(str[v])
        /\ \A w \in Vm : w # v => s1[w] = str[w]
    BY <1>0, <1>2 DEF Popped
  <1>4. \A w \in Vm : \A x \in Members(s1[w]) : x \in Members(str[w])
    BY <1>2, <1>3
  <1> QED
    BY <1>0, <1>3, <1>4

\* The fibers of fs move, the others wait as before.
LEMMA WaitMove ==
    ASSUME NEW inc, NEW rec, NEW aft, NEW kind, NEW home, NEW word,
           Waiting(inc, rec, aft, kind, home), NEW fs,
           NEW kind1, NEW home1, NEW word1,
           Elsewhere(fs, kind, home, word, kind1, home1, word1),
           NEW inc1, NEW rec1, NEW aft1,
           \A w \in Vm : ResumesOnce(inc1[w]),
           \A w \in Vm, g \in Fiber : g \notin fs =>
              /\ g \in Resumed(inc1[w]) <=> g \in Resumed(inc[w])
              /\ rec1[w] = g <=> rec[w] = g
              /\ aft1[w] = g <=> aft[w] = g,
           \A w \in Vm, g \in Fiber : g \in fs =>
              /\ g \in Resumed(inc1[w]) <=> kind1[g] = "incoming" /\ home1[g] = w
              /\ rec1[w] = g <=> kind1[g] = "receiver" /\ home1[g] = w
              /\ aft1[w] = g <=> kind1[g] = "after" /\ home1[g] = w
    PROVE  Waiting(inc1, rec1, aft1, kind1, home1)
  <1>1. ASSUME NEW w \in Vm, NEW g \in Fiber, g \notin fs
        PROVE  /\ g \in Resumed(inc1[w]) <=> kind1[g] = "incoming" /\ home1[g] = w
               /\ rec1[w] = g <=> kind1[g] = "receiver" /\ home1[g] = w
               /\ aft1[w] = g <=> kind1[g] = "after" /\ home1[g] = w
    <2>1. kind1[g] = kind[g] /\ home1[g] = home[g]
      BY <1>1 DEF Elsewhere
    <2> QED
      BY <1>1, <2>1 DEF Waiting
  <1> QED
    BY <1>1 DEF Waiting

\* The fibers of fs come from no inbox and go to none.
LEMMA WaitStill ==
    ASSUME NEW inc, NEW rec, NEW aft, NEW kind, NEW home, NEW word,
           Waiting(inc, rec, aft, kind, home), NEW fs,
           NEW kind1, NEW home1, NEW word1,
           Elsewhere(fs, kind, home, word, kind1, home1, word1),
           \A g \in Fiber : g \in fs => /\ kind[g] \notin {"incoming", "receiver", "after"}
                                        /\ kind1[g] \notin {"incoming", "receiver", "after"}
    PROVE  Waiting(inc, rec, aft, kind1, home1)
  <1>1. \A w \in Vm, g \in Fiber : g \in fs =>
              /\ g \in Resumed(inc[w]) <=> kind1[g] = "incoming" /\ home1[g] = w
              /\ rec[w] = g <=> kind1[g] = "receiver" /\ home1[g] = w
              /\ aft[w] = g <=> kind1[g] = "after" /\ home1[g] = w
    BY DEF Waiting
  <1>2. \A w \in Vm : ResumesOnce(inc[w])
    BY DEF Waiting
  <1> QED
    BY <1>1, <1>2, WaitMove
-----------------------------------------------------------------------------
(* Steps that leave a fiber where it is.                                     *)

\* f stays at its site, in a VM that stays as it is.
Stays(f) ==
    /\ at'[f] = at[f] /\ valid'[VmOf[f]] = valid[VmOf[f]]
    /\ interrupter'[f] = interrupter[f] /\ interruptionDisabled'[f] = interruptionDisabled[f]
    /\ interrupted'[f] = interrupted[f]
    /\ destroyed'[VmOf[f]] = destroyed[VmOf[f]]
    /\ running'[VmOf[f]] = f <=> running[VmOf[f]] = f
    /\ at[Main[VmOf[f]]] # "unborn" => at'[Main[VmOf[f]]] # "unborn"

\* ... and so does whatever it waits for.
Still(f, kind, home) ==
    /\ Stays(f)
    /\ taken'[f] = taken[f]
    /\ kind[f] = "receiver" => open'[VmOf[f]] /\ incoming'[VmOf[f]] = <<>>

\* A fiber that the step does not concern is where it was.
LEMMA FiberStill ==
    ASSUME NEW f \in Fiber, NEW kind, NEW home, NEW word, FiberOK(f, kind, home, word),
           Still(f, kind, home),
           NEW kind1, NEW home1, NEW word1,
           kind1[f] = kind[f], home1[f] = home[f], word1[f] = word[f]
    PROVE  FiberOK(f, kind1, home1, word1)'
  <1>1. PlaceOK(f, kind1)'
    BY DEF FiberOK, PlaceOK, Still, Stays, Disabled
  <1>2. WordOK(f, kind1, home1, word1)'
    BY DEF FiberOK, WordOK, Still, Stays
  <1>3. ReceiverOK(f, kind1, home1)'
    BY DEF FiberOK, ReceiverOK, Still, Stays
  <1>4. SenderOK(f, kind1, home1)'
    BY DEF FiberOK, SenderOK, Still, Stays
  <1> QED
    BY <1>1, <1>2, <1>3, <1>4 DEF FiberOK

\* All fibers but those of fs stay.
LEMMA FibersStill ==
    ASSUME NEW kind, NEW home, NEW word, \A f \in Fiber : FiberOK(f, kind, home, word),
           NEW fs, NEW kind1, NEW home1, NEW word1,
           Elsewhere(fs, kind, home, word, kind1, home1, word1),
           \A f \in Fiber : f \notin fs => Still(f, kind, home),
           \A f \in Fiber : f \in fs => FiberOK(f, kind1, home1, word1)'
    PROVE  \A f \in Fiber : FiberOK(f, kind1, home1, word1)'
  <1>1. ASSUME NEW f \in Fiber, f \notin fs PROVE FiberOK(f, kind1, home1, word1)'
    <2>1. kind1[f] = kind[f] /\ home1[f] = home[f] /\ word1[f] = word[f]
      BY <1>1 DEF Elsewhere
    <2>2. FiberOK(f, kind, home, word) /\ Still(f, kind, home)
      BY <1>1
    <2> QED
      BY <2>1, <2>2, FiberStill
  <1> QED
    BY <1>1

\* A fiber that stays where it is gets a resumption with answer x.
LEMMA FiberWoken ==
    ASSUME NEW f \in Fiber, NEW kind, NEW home, NEW word, FiberOK(f, kind, home, word),
           Stays(f), taken[f] \in BOOLEAN, kind[f] \in InSend \cup {"receiver"},
           NEW kind1, NEW home1, NEW word1, NEW x,
           kind1[f] = "resume", home1[f] = VmOf[f], word1[f] = x,
           x \in {"sent", "channel_closed", "interrupted"},
           at[f] = "send" => /\ x = "sent" <=> taken'[f]
                             /\ x = "interrupted" => interrupted[f]
    PROVE  FiberOK(f, kind1, home1, word1)'
  <1>1. /\ kind[f] # "none" /\ kind1[f] # "none" /\ kind1[f] # "receiver" /\ kind1[f] \notin InSend
        /\ kind[f] # "resume"
    BY DEF InSend
  <1>2. PlaceOK(f, kind1)'
    BY <1>1 DEF FiberOK, PlaceOK, Stays, Disabled
  <1>3. valid[VmOf[f]] => at[f] \in {"send", "receive"}
    BY DEF FiberOK, SenderOK, ReceiverOK
  <1>4. WordOK(f, kind1, home1, word1)'
    BY <1>3 DEF WordOK, Stays
  <1>5. ReceiverOK(f, kind1, home1)'
    BY <1>1 DEF ReceiverOK
  <1>6. SenderOK(f, kind1, home1)'
    BY <1>1 DEF SenderOK
  <1> QED
    BY <1>2, <1>4, <1>5, <1>6 DEF FiberOK

\* A fiber is resumed: it runs, and nobody owes it anything.
LEMMA FiberRuns ==
    ASSUME NEW f \in Fiber, NEW kind, NEW home, NEW word, FiberOK(f, kind, home, word),
           valid[VmOf[f]], kind[f] # "none", valid'[VmOf[f]],
           at'[f] = "running", running'[VmOf[f]] = f, interrupter'[f] = Nil,
           destroyed'[VmOf[f]] = destroyed[VmOf[f]],
           at[Main[VmOf[f]]] # "unborn" => at'[Main[VmOf[f]]] # "unborn",
           NEW kind1, NEW home1, NEW word1, kind1[f] = "none"
    PROVE  FiberOK(f, kind1, home1, word1)'
  <1>1. kind1[f] # "receiver" /\ kind1[f] \notin InSend /\ kind1[f] # "resume"
    BY DEF InSend
  <1>2. at[f] \in Suspended
    BY DEF FiberOK, PlaceOK
  <1>3. at[Main[VmOf[f]]] # "unborn"
    BY <1>2 DEF FiberOK, PlaceOK, Suspended
  <1>4. PlaceOK(f, kind1)'
    BY <1>3 DEF PlaceOK, Suspended
  <1> QED
    BY <1>1, <1>4 DEF FiberOK, WordOK, ReceiverOK, SenderOK

\* Nobody takes on a revocation, and the VMs concerned stay.
RevokesKept ==
    /\ \A w \in Vm : \A h \in Members(strand'[w]) : h.op = "revoke" => h \in Members(strand[w])
    /\ \A f \in Fiber : valid'[VmOf[f]] => valid[VmOf[f]] /\ (interrupted[f] => interrupted'[f])
    /\ \A v \in Vm : destroyed'[v] = destroyed[v]

\* What is said of every VM stays true.
LEMMA VmsStill ==
    ASSUME Types, \A v \in Vm : VmOK(v), RevokesKept,
           \A v \in Vm : ~open'[v] => incoming'[v] = <<>>,
           \A v \in Vm : ~valid'[v] => running'[v] = Nil,
           \A v \in Vm : destroyed[v] => ~valid'[v] /\ strand'[v] = <<>> /\ after'[v] = Nil
    PROVE  \A v \in Vm : VmOK(v)'
  <1> SUFFICES ASSUME NEW v \in Vm PROVE VmOK(v)'
    OBVIOUS
  <1>1. ASSUME NEW h \in Members(strand'[v]), h.op = "revoke"
        PROVE  /\ valid'[VmOf[h.fiber]] => interrupted'[h.fiber]
               /\ ~destroyed'[VmOf[h.fiber]]
    <2>1. h \in Members(strand[v]) /\ strand[v] \in Seq(Handler)
      BY <1>1 DEF RevokesKept, Types
    <2>2. h \in Handler
      BY <2>1, QueueFacts
    <2>3. h.fiber \in Fiber /\ VmOf[h.fiber] \in Vm
      BY <1>1, <2>2, HandlerFacts, VmContextAssumption
    <2>4. /\ valid[VmOf[h.fiber]] => interrupted[h.fiber]
          /\ ~destroyed[VmOf[h.fiber]]
      BY <1>1, <2>1 DEF VmOK
    <2> QED
      BY <2>3, <2>4 DEF RevokesKept
  <1>2. destroyed'[v] = destroyed[v]
    BY DEF RevokesKept
  <1> QED
    BY <1>1, <1>2 DEF VmOK
-----------------------------------------------------------------------------
(* Calls that wake nobody.                                                   *)

\* The parts of the invariant make the invariant.
LEMMA Assemble ==
    ASSUME Types', \A v \in Vm : VmOK(v)', NEW kind1, NEW home1, NEW word1,
           Ghosts(kind1, home1), OnStrand(strand', kind1, home1, word1),
           Waiting(incoming', recvFiber', after', kind1, home1),
           \A f \in Fiber : FiberOK(f, kind1, home1, word1)'
    PROVE  Inv'
  <1>1. Accounts(kind1, home1, word1)'
    BY DEF Accounts
  <1>2. (\E k, h, w : Accounts(k, h, w))'
    BY <1>1
  <1> QED
    BY <1>2 DEF Inv

\* Receivers may be told that nobody is left, and addresses come and go.
LEMMA ToldStep ==
    ASSUME Types, \A v \in Vm : VmOK(v), NEW kind, NEW home, NEW word,
           Accounts(kind, home, word), Types', Told(strand, strand'),
           UNCHANGED <<running, valid, at, fiberData, recvFiber, incoming, open, after, destroyed,
                       taken>>
    PROVE  Inv'
  <1>1. strand \in [Vm -> Seq(Handler)]
    BY DEF Types
  <1>2. OnStrand(strand', kind, home, word)
    BY <1>1, OnStrandTold DEF Accounts
  <1>3. Waiting(incoming', recvFiber', after', kind, home) /\ Ghosts(kind, home)
    BY DEF Accounts
  <1>4. ASSUME NEW f \in Fiber PROVE FiberOK(f, kind, home, word)'
    <2>1. FiberOK(f, kind, home, word)
      BY DEF Accounts
    <2>2. Still(f, kind, home)
      BY <2>1 DEF Still, Stays, fiberData, FiberOK, ReceiverOK
    <2> QED
      BY <2>1, <2>2, FiberStill
  <1>5. Grown(strand, strand', {})
    BY <1>1, GrownTold
  <1>6. RevokesKept
    BY <1>5 DEF RevokesKept, Grown, OfSender, fiberData
  <1>7. ASSUME NEW v \in Vm
        PROVE  /\ ~open'[v] => incoming'[v] = <<>>
               /\ ~valid'[v] => running'[v] = Nil
               /\ destroyed[v] => ~valid'[v] /\ strand'[v] = <<>> /\ after'[v] = Nil
    <2>1. VmOK(v)
      OBVIOUS
    <2>2. destroyed[v] => strand'[v] = strand[v]
      BY DEF Told, CanLock
    <2> QED
      BY <2>1, <2>2 DEF VmOK
  <1>8. \A v \in Vm : VmOK(v)'
    BY <1>6, <1>7, VmsStill
  <1> QED
    BY <1>2, <1>3, <1>4, <1>8, Assemble

\* Nothing happens, except that the caller gets its answer.
LEMMA AnswerStep ==
    ASSUME Inv, Types', UNCHANGED <<strand, running, valid, at, fiberData, recvFiber, incoming,
                                    open, after, destroyed, taken>>
    PROVE  Inv'
  <1>1. PICK kind, home, word : Accounts(kind, home, word)
    BY DEF Inv
  <1>2. Types /\ \A v \in Vm : VmOK(v)
    BY DEF Inv
  <1>3. Told(strand, strand')
    BY <1>2 DEF Told, Types
  <1> QED
    BY <1>1, <1>2, <1>3, ToldStep

\* A call that returns an answer keeps the types.
LEMMA ReturnTypes ==
    ASSUME Types, NEW f \in Fiber, NEW r \in Result, Return(f, r),
           UNCHANGED <<strand, valid, fiberData, recvFiber, incoming, open, inboxLive,
                       addressVars, after, destroyed, crashed, taken>>,
           imported' \in [Vm -> BOOLEAN]
    PROVE  Types'
  <1>1. ret' \in [Fiber -> Result]
    BY DEF Types, CoreTypeOK, Return
  <1> QED
    BY <1>1 DEF Types, CoreTypeOK, Return, fiberData, addressVars, IsMain

\* The error of a fiber that may not suspend is a result.
LEMMA SuspendErrorType == \A f : SuspendError(f) \in Result
  BY DEF SuspendError, Result

\* So is that of chan_receive().
LEMMA ReceiveErrorType == \A f : ReceiveError(f) \in Result
  BY SuspendErrorType DEF ReceiveError, Result

\* require 'inbox' wakes nobody.
LEMMA StepImportInbox ==
    ASSUME Inv, NEW f \in Fiber, ImportInbox(f) PROVE Inv'
  <1>1. Types /\ "none" \in Result /\ Return(f, "none")
    BY DEF Inv, Result, ImportInbox
  <1>2. imported' \in [Vm -> BOOLEAN]
    BY <1>1 DEF ImportInbox, Types
  <1>3. Types'
    BY <1>1, <1>2, ReturnTypes DEF ImportInbox
  <1> QED
    BY <1>3, AnswerStep DEF ImportInbox, Return, addressVars

\* Nor does a chan_receive() that raises,
LEMMA StepReceiveRaises ==
    ASSUME Inv, NEW f \in Fiber, ReceiveRaises(f) PROVE Inv'
  <1>1. Types /\ Return(f, ReceiveError(f)) /\ ReceiveError(f) \in Result
    BY ReceiveErrorType DEF Inv, ReceiveRaises
  <1>2. imported' \in [Vm -> BOOLEAN]
    BY <1>1 DEF ReceiveRaises, Types, inboxVars
  <1>3. Types'
    BY <1>1, <1>2, ReturnTypes DEF ReceiveRaises, inboxVars
  <1> QED
    BY <1>1, <1>3, AnswerStep DEF ReceiveRaises, Return, addressVars, inboxVars

\* or a chan_send() that does.
LEMMA StepSendRaises ==
    ASSUME Inv, NEW f \in Fiber, NEW w \in Vm, SendRaises(f, w) PROVE Inv'
  <1>1. PICK r \in Result : Return(f, r)
    BY SuspendErrorType DEF SendRaises, Result
  <1>2. Types /\ imported' \in [Vm -> BOOLEAN]
    BY DEF SendRaises, Inv, Types, inboxVars
  <1>3. Types'
    BY <1>1, <1>2, ReturnTypes DEF SendRaises, inboxVars
  <1> QED
    BY <1>1, <1>3, AnswerStep DEF SendRaises, Return, addressVars, inboxVars

\* The strands and the counters as they are.
LEMMA NowFacts ==
    ASSUME Types
    PROVE  Now \in State /\ Now.strand = strand /\ Now.nsenders = nsenders
  BY DEF Types, Now, State

\* An address goes, also from under a send() that is blocked on it.
LEMMA StepDropAddress ==
    ASSUME Inv, NEW f \in Fiber, NEW w \in Vm, DropAddress(f, w) PROVE Inv'
  <1>1. PICK kind, home, word : Accounts(kind, home, word)
    BY DEF Inv
  <1>2. Types /\ \A v \in Vm : VmOK(v)
    BY DEF Inv
  <1>3. PICK v \in Vm : v = VmOf[f]
    BY VmContextAssumption
  <1>4. tx' \in [Vm -> [Vm -> Nat]]
    <2>1. tx[v][w] \in Nat /\ tx[v][w] > 0
      BY <1>2, <1>3 DEF DropAddress, Types
    <2>2. tx[v][w] - 1 \in Nat
      BY <2>1
    <2> QED
      BY <1>2, <1>3, <2>2 DEF DropAddress, Types
  <1>5. PICK st : st = Drop(Now, CarriedBy(w))
    OBVIOUS
  <1>6. st \in State /\ Told(strand, st.strand)
    <2>1. CarriedBy(w) \in [Vm -> Int] /\ Now \in State /\ Now.strand = strand
      BY <1>2, CarriedFacts, NowFacts
    <2> QED
      BY <1>5, <2>1, DropFacts
  <1>7. strand' = st.strand /\ nsenders' = st.nsenders
    BY <1>5 DEF DropAddress, Becomes
  <1>8. strand' \in [Vm -> Seq(Handler)] /\ nsenders' \in [Vm -> Int]
    BY <1>6, <1>7, StateFacts
  <1>9. ret' \in [Fiber -> Result]
    BY <1>2 DEF DropAddress, Return, Types, CoreTypeOK, Result
  <1>10. Types'
    BY <1>2, <1>4, <1>8, <1>9
    DEF Types, CoreTypeOK, DropAddress, Return, fiberData, inboxVars, IsMain
  <1>11. UNCHANGED <<running, valid, at, fiberData, recvFiber, incoming, open, after, destroyed,
                     taken>>
    BY DEF DropAddress, Return, inboxVars
  <1>12. Told(strand, strand')
    BY <1>6, <1>7
  <1> QED
    BY <1>1, <1>2, <1>10, <1>11, <1>12, ToldStep

-----------------------------------------------------------------------------
(* A strand resumes a fiber.                                                 *)

\* What fiber_resume() leaves of the interrupter.
LEMMA Cleared ==
    ASSUME Types, NEW kind, NEW f \in Fiber, PlaceOK(f, kind), NEW clear \in BOOLEAN,
           ~clear => at[f] = "start"
    PROVE  /\ ClearedInterrupter(f, clear) \in [Fiber -> Vm \cup {Receiving} \cup {Nil}]
           /\ ClearedInterrupter(f, clear)[f] = Nil
           /\ \A g \in Fiber : g # f => ClearedInterrupter(f, clear)[g] = interrupter[g]
  <1>1. interrupter \in [Fiber -> Vm \cup {Receiving} \cup {Nil}]
    BY DEF Types, CoreTypeOK
  <1>2. ~clear => interrupter[f] = Nil
    BY DEF PlaceOK
  <1>3. Disabled(f) => interrupter[f] = Nil
    BY DEF PlaceOK
  <1> QED
    BY <1>1, <1>2, <1>3 DEF ClearedInterrupter, SetInterrupter

\* Everything keeps its type when a fiber runs with answer x.
LEMMA ResumeTypes ==
    ASSUME Types, NEW kind, NEW f \in Fiber, PlaceOK(f, kind), NEW clear \in BOOLEAN,
           ~clear => at[f] = "start", NEW x \in Result, FiberResume(f, clear, x)
    PROVE  /\ running' \in [Vm -> Fiber \cup {Nil}]
           /\ at' \in [Fiber -> Suspended \cup Gone \cup {"running"}]
           /\ interrupter' \in [Fiber -> Vm \cup {Receiving} \cup {Nil}]
           /\ ret' \in [Fiber -> Result]
           /\ running'[VmOf[f]] = f /\ at'[f] = "running" /\ interrupter'[f] = Nil
           /\ \A w \in Vm : w # VmOf[f] => running'[w] = running[w]
           /\ \A g \in Fiber : g # f => at'[g] = at[g] /\ interrupter'[g] = interrupter[g]
  <1>1. /\ interrupter' \in [Fiber -> Vm \cup {Receiving} \cup {Nil}] /\ interrupter'[f] = Nil
        /\ \A g \in Fiber : g # f => interrupter'[g] = interrupter[g]
    BY Cleared DEF FiberResume
  <1>2. VmOf[f] \in Vm
    BY VmContextAssumption
  <1>3. running' \in [Vm -> Fiber \cup {Nil}] /\ running'[VmOf[f]] = f
        /\ \A w \in Vm : w # VmOf[f] => running'[w] = running[w]
    BY <1>2 DEF FiberResume, Types, CoreTypeOK
  <1>4. at' \in [Fiber -> Suspended \cup Gone \cup {"running"}] /\ at'[f] = "running"
        /\ \A g \in Fiber : g # f => at'[g] = at[g]
    BY DEF FiberResume, Types, CoreTypeOK
  <1>5. ret' \in [Fiber -> Result]
    BY DEF FiberResume, Types, CoreTypeOK
  <1> QED
    BY <1>1, <1>3, <1>4, <1>5

\* The other fibers do not notice.
LEMMA OthersStay ==
    ASSUME NEW f \in Fiber, running[VmOf[f]] = Nil, running'[VmOf[f]] = f, at'[f] = "running",
           \A w \in Vm : w # VmOf[f] => running'[w] = running[w],
           \A g \in Fiber : g # f => at'[g] = at[g] /\ interrupter'[g] = interrupter[g],
           UNCHANGED <<valid, counters, interrupted, destroyed>>
    PROVE  \A g \in Fiber : g # f => Stays(g)
  <1> SUFFICES ASSUME NEW g \in Fiber, g # f PROVE Stays(g)
    OBVIOUS
  <1>1. VmOf[g] \in Vm /\ Main[VmOf[g]] \in Fiber /\ g # Nil
    BY VmContextAssumption
  <1>2. running'[VmOf[g]] = g <=> running[VmOf[g]] = g
    BY <1>1
  <1>3. at[Main[VmOf[g]]] # "unborn" => at'[Main[VmOf[g]]] # "unborn"
    BY <1>1
  <1> QED
    BY <1>2, <1>3 DEF Stays, counters

\* A handler is taken that concerns nobody, or nobody any more.
LEMMA PopStep ==
    ASSUME Types, \A v \in Vm : VmOK(v), NEW kind, NEW home, NEW word,
           Accounts(kind, home, word), Types',
           NEW v \in Vm, strand[v] # <<>>, strand' = Popped(strand, v),
           Head(strand[v]).op \notin Owing \/ Head(strand[v]).fiber = Nil,
           UNCHANGED <<running, valid, at, fiberData, recvFiber, incoming, open, after, destroyed,
                       taken, tx>>
    PROVE  Inv'
  <1>1. strand \in [Vm -> Seq(Handler)]
    BY DEF Types
  <1>2. /\ \A w \in Vm : \A x \in Members(strand'[w]) : x \in Members(strand[w])
        /\ \A w \in Vm : strand[w] = <<>> => strand'[w] = <<>>
    BY <1>1, PoppedFacts
  <1>3. OnStrand(strand', kind, home, word)
    BY <1>1, PopQuiet DEF Accounts
  <1>4. Waiting(incoming', recvFiber', after', kind, home) /\ Ghosts(kind, home)
    BY DEF Accounts
  <1>5. ASSUME NEW f \in Fiber PROVE FiberOK(f, kind, home, word)'
    <2>1. FiberOK(f, kind, home, word)
      BY DEF Accounts
    <2>2. Still(f, kind, home)
      BY <2>1 DEF Still, Stays, fiberData, FiberOK, ReceiverOK, SenderOK
    <2> QED
      BY <2>1, <2>2, FiberStill
  <1>6. RevokesKept
    BY <1>2 DEF RevokesKept, fiberData
  <1>7. ASSUME NEW u \in Vm
        PROVE  /\ ~open'[u] => incoming'[u] = <<>>
               /\ ~valid'[u] => running'[u] = Nil
               /\ destroyed[u] => ~valid'[u] /\ strand'[u] = <<>> /\ after'[u] = Nil
    <2>1. VmOK(u)
      OBVIOUS
    <2> QED
      BY <1>2, <2>1 DEF VmOK
  <1>8. \A u \in Vm : VmOK(u)'
    BY <1>6, <1>7, VmsStill
  <1> QED
    BY <1>3, <1>4, <1>5, <1>8, Assemble

\* The strand runs a resumption.
LEMMA StepRunFiber ==
    ASSUME Inv, NEW v \in Vm, RunFiber(v) PROVE Inv'
  <1>1. PICK kind, home, word : Accounts(kind, home, word)
    BY DEF Inv
  <1>2. Types /\ \A w \in Vm : VmOK(w)
    BY DEF Inv
  <1>3. PICK h : h = Head(strand[v])
    OBVIOUS
  <1>4. /\ strand \in [Vm -> Seq(Handler)] /\ strand[v] # <<>> /\ h \in Handler
        /\ h \in Members(strand[v]) /\ h.op = "resume" /\ running[v] = Nil
        /\ h.val \in Result /\ h.clear \in BOOLEAN /\ h.fiber \in Fiber \cup {Nil}
    <2>1. NextHandler(v, "resume")
      BY DEF RunFiber
    <2>2. /\ strand[v] # <<>> /\ h \in Handler
          /\ h \in Members(strand[v]) /\ h.op = "resume" /\ running[v] = Nil
      BY <1>2, <1>3, <2>1, NextTaken
    <2> QED
      BY <1>2, <2>2, HandlerFacts DEF Types
  <1>5. CASE valid[v] /\ h.fiber = Nil
    <2>1. crashed' = TRUE
          /\ UNCHANGED <<coreVars, fiberData, ret, inboxVars, addressVars, after, destroyed, taken>>
      BY <1>3, <1>5 DEF RunFiber
    <2>2. Types'
      BY <1>2, <2>1
      DEF Types, CoreTypeOK, coreVars, fiberData, inboxVars, addressVars, IsMain
    <2>3. UNCHANGED <<strand, running, valid, at, fiberData, recvFiber, incoming,
                      open, after, destroyed, taken, tx>>
      BY <2>1 DEF coreVars, inboxVars, addressVars
    <2> QED
      BY <2>2, <2>3, AnswerStep
  <1>6. CASE ~(valid[v] /\ h.fiber = Nil)
    <2>1. /\ RunResume(v)
          /\ UNCHANGED <<crashed, inboxVars, addressVars, after, destroyed, taken>>
      BY <1>3, <1>6 DEF RunFiber
    <2>2. /\ strand' = Popped(strand, v) /\ UNCHANGED <<valid, counters, interrupted>>
          /\ valid[v] => FiberResume(h.fiber, h.clear, h.val)
          /\ ~valid[v] => UNCHANGED <<running, at, interrupter, ret>>
      BY <1>3, <2>1 DEF RunResume, Popped
    <2>3. strand' \in [Vm -> Seq(Handler)]
      BY <1>4, <2>2, PoppedFacts
    <2>4. CASE h.fiber = Nil
      <3>1. UNCHANGED <<running, at, interrupter, ret>>
        BY <1>2, <1>6, <2>2, <2>4 DEF Types, CoreTypeOK
      <3>2. Types'
        BY <1>2, <2>1, <2>2, <2>3, <3>1
        DEF Types, CoreTypeOK, counters, inboxVars, addressVars, IsMain
      <3>3. UNCHANGED <<running, valid, at, fiberData, recvFiber, incoming, open, after, destroyed,
                        taken, tx>>
        BY <2>1, <2>2, <3>1 DEF fiberData, counters, inboxVars, addressVars
      <3> QED
        BY <1>1, <1>2, <1>3, <1>4, <2>2, <2>4, <3>2, <3>3, PopStep
    <2>5. CASE h.fiber # Nil
      <3>1. PICK f \in Fiber : f = h.fiber
        BY <1>4, <2>5
      <3>2. PICK kind1, home1, word1 :
               Moved(kind, home, word, f, "none", v, "none", kind1, home1, word1)
        <4>1. Ghosts(kind, home) /\ "none" \in Kind
          BY <1>1 DEF Accounts, Kind
        <4>2. Moved(kind, home, word, f, "none", v, "none",
                    Put(kind, f, "none"), Put(home, f, v), Put(word, f, "none"))
          BY <4>1, GhostMove
        <4> QED
          BY <4>2
      <3> USE DEF Moved
      <3>3. kind[f] = "resume" /\ home[f] = v /\ OnStrand(strand', kind1, home1, word1)
        <4>1. /\ OnStrand(strand, kind, home, word) /\ Head(strand[v]).op \in Owing
              /\ Head(strand[v]).fiber = f /\ kind1[f] \notin Owing
          BY <1>1, <1>3, <1>4, <3>1, <3>2 DEF Accounts, Owing
        <4>2. /\ kind[f] = Head(strand[v]).op /\ home[f] = v
              /\ OnStrand(Popped(strand, v), kind1, home1, word1)
          BY <1>4, <3>2, <4>1, PopOwed, SMTT(30)
        <4> QED
          BY <1>3, <1>4, <2>2, <4>2
      <3>4. FiberOK(f, kind, home, word) /\ PlaceOK(f, kind) /\ VmOf[f] = v
        BY <1>1, <3>3 DEF Accounts, FiberOK, WordOK
      <3>5. h.val = word[f] /\ (h.clear <=> word[f] # "none")
        BY <1>1, <1>4, <3>1, <2>5 DEF Accounts, OnStrand
      <3>6. Waiting(incoming', recvFiber', after', kind1, home1)
        <4>1. /\ Waiting(incoming, recvFiber, after, kind, home)
              /\ \A g \in Fiber : g \in {f} => /\ kind[g] \notin {"incoming", "receiver", "after"}
                                               /\ kind1[g] \notin {"incoming", "receiver", "after"}
          BY <1>1, <3>2, <3>3 DEF Accounts
        <4>2. Waiting(incoming, recvFiber, after, kind1, home1)
          BY <3>2, <4>1, WaitStill
        <4> QED
          BY <2>1, <4>2 DEF inboxVars
      <3>7. /\ \A w \in Vm : \A x \in Members(strand'[w]) : x \in Members(strand[w])
            /\ \A w \in Vm : strand[w] = <<>> => strand'[w] = <<>>
        BY <1>4, <2>2, PoppedFacts
      <3>8. RevokesKept
        BY <2>1, <2>2, <3>7 DEF RevokesKept
      <3>9. ASSUME NEW g \in Fiber, Stays(g) PROVE Still(g, kind, home)
        <4>1. FiberOK(g, kind, home, word)
          BY <1>1 DEF Accounts
        <4> QED
          BY <2>1, <3>9, <4>1
          DEF Still, inboxVars, addressVars, FiberOK, ReceiverOK, SenderOK
      <3>10. CASE valid[v]
        <4>1. FiberResume(f, h.clear, h.val) /\ (~h.clear => at[f] = "start")
          BY <1>4, <2>2, <3>1, <3>3, <3>4, <3>5, <3>10 DEF FiberOK, WordOK
        <4>2. /\ running' \in [Vm -> Fiber \cup {Nil}]
              /\ at' \in [Fiber -> Suspended \cup Gone \cup {"running"}]
              /\ interrupter' \in [Fiber -> Vm \cup {Receiving} \cup {Nil}]
              /\ ret' \in [Fiber -> Result]
              /\ running'[VmOf[f]] = f /\ at'[f] = "running" /\ interrupter'[f] = Nil
              /\ \A w \in Vm : w # VmOf[f] => running'[w] = running[w]
              /\ \A g \in Fiber : g # f => at'[g] = at[g] /\ interrupter'[g] = interrupter[g]
          BY <1>2, <1>4, <3>4, <4>1, ResumeTypes
        <4>3. Types'
          BY <1>2, <2>1, <2>2, <2>3, <4>2
          DEF Types, CoreTypeOK, counters, inboxVars, addressVars, IsMain
        <4>4. \A g \in Fiber : g # f => Stays(g)
          <5>1. running[VmOf[f]] = Nil /\ UNCHANGED <<valid, counters, interrupted, destroyed>>
            BY <1>4, <2>1, <2>2, <3>4
          <5> QED
            BY <4>2, <5>1, OthersStay
        <4>5. FiberOK(f, kind1, home1, word1)'
          <5>1. /\ valid[VmOf[f]] /\ kind[f] # "none" /\ valid'[VmOf[f]]
                /\ destroyed'[VmOf[f]] = destroyed[VmOf[f]] /\ kind1[f] = "none"
            BY <2>1, <2>2, <3>2, <3>3, <3>4, <3>10
          <5>2. at[Main[VmOf[f]]] # "unborn" => at'[Main[VmOf[f]]] # "unborn"
            BY <4>2, VmContextAssumption
          <5> QED
            BY <3>4, <4>2, <5>1, <5>2, FiberRuns
        <4>6. \A g \in Fiber : FiberOK(g, kind1, home1, word1)'
          <5>1. \A g \in Fiber : g \notin {f} => Still(g, kind, home)
            BY <3>9, <4>4
          <5>2. \A g \in Fiber : g \in {f} => FiberOK(g, kind1, home1, word1)'
            BY <4>5
          <5>3. \A g \in Fiber : FiberOK(g, kind, home, word)
            BY <1>1 DEF Accounts
          <5> QED
            BY <3>2, <5>1, <5>2, <5>3, FibersStill
        <4>7. ASSUME NEW u \in Vm
              PROVE  /\ ~open'[u] => incoming'[u] = <<>>
                     /\ ~valid'[u] => running'[u] = Nil
                     /\ destroyed[u] => ~valid'[u] /\ strand'[u] = <<>> /\ after'[u] = Nil
          <5>1. VmOK(u)
            BY <1>2
          <5> QED
            BY <2>1, <2>2, <3>4, <3>7, <3>10, <4>2, <5>1 DEF VmOK, inboxVars
        <4>8. \A u \in Vm : VmOK(u)'
          BY <1>2, <3>8, <4>7, VmsStill
        <4> QED
          BY <3>2, <3>3, <3>6, <4>3, <4>6, <4>8, Assemble
      <3>11. CASE ~valid[v]
        <4>1. UNCHANGED <<running, at, interrupter, ret>>
          BY <2>2, <3>11
        <4>2. Types'
          BY <1>2, <2>1, <2>2, <2>3, <4>1
          DEF Types, CoreTypeOK, counters, inboxVars, addressVars, IsMain
        <4>3. \A g \in Fiber : Stays(g)
          BY <2>1, <2>2, <4>1 DEF Stays, counters
        <4>4. FiberOK(f, kind1, home1, word1)'
          <5>1. PlaceOK(f, kind1)'
            BY <3>2, <3>4, <3>11, <4>3 DEF PlaceOK, Stays, Disabled
          <5> QED
            BY <3>2, <5>1 DEF FiberOK, WordOK, ReceiverOK, SenderOK, InSend
        <4>5. \A g \in Fiber : FiberOK(g, kind1, home1, word1)'
          <5>1. \A g \in Fiber : g \notin {f} => Still(g, kind, home)
            BY <3>9, <4>3
          <5>2. \A g \in Fiber : g \in {f} => FiberOK(g, kind1, home1, word1)'
            BY <4>4
          <5>3. \A g \in Fiber : FiberOK(g, kind, home, word)
            BY <1>1 DEF Accounts
          <5> QED
            BY <3>2, <5>1, <5>2, <5>3, FibersStill
        <4>6. ASSUME NEW u \in Vm
              PROVE  /\ ~open'[u] => incoming'[u] = <<>>
                     /\ ~valid'[u] => running'[u] = Nil
                     /\ destroyed[u] => ~valid'[u] /\ strand'[u] = <<>> /\ after'[u] = Nil
          <5>1. VmOK(u)
            BY <1>2
          <5> QED
            BY <2>1, <2>2, <3>7, <4>1, <5>1 DEF VmOK, inboxVars
        <4>7. \A u \in Vm : VmOK(u)'
          BY <1>2, <3>8, <4>6, VmsStill
        <4> QED
          BY <3>2, <3>3, <3>6, <4>2, <4>5, <4>7, Assemble
      <3> QED
        BY <3>10, <3>11
    <2> QED
      BY <2>4, <2>5
  <1> QED
    BY <1>5, <1>6
-----------------------------------------------------------------------------
(* Steps in which the fibers of fs move.                                     *)

VmsKept ==
    \A u \in Vm :
        /\ ~open'[u] => incoming'[u] = <<>>
        /\ ~valid'[u] => running'[u] = Nil
        /\ destroyed[u] => ~valid'[u] /\ strand'[u] = <<>> /\ after'[u] = Nil

\* A step that moves the fibers of fs and leaves the others where they are.
LEMMA MoveStep ==
    ASSUME Types, \A v \in Vm : VmOK(v), NEW kind, NEW home, NEW word,
           Accounts(kind, home, word), Types', NEW fs, NEW kind1, NEW home1, NEW word1,
           Ghosts(kind1, home1), Elsewhere(fs, kind, home, word, kind1, home1, word1),
           OnStrand(strand', kind1, home1, word1),
           Waiting(incoming', recvFiber', after', kind1, home1),
           \A f \in Fiber : f \notin fs => Still(f, kind, home),
           \A f \in Fiber : f \in fs => FiberOK(f, kind1, home1, word1)',
           RevokesKept, VmsKept
    PROVE  Inv'
  <1>1. \A f \in Fiber : FiberOK(f, kind, home, word)
    BY DEF Accounts
  <1>2. \A f \in Fiber : FiberOK(f, kind1, home1, word1)'
    BY <1>1, FibersStill
  <1>3. /\ \A v \in Vm : ~open'[v] => incoming'[v] = <<>>
        /\ \A v \in Vm : ~valid'[v] => running'[v] = Nil
        /\ \A v \in Vm : destroyed[v] => ~valid'[v] /\ strand'[v] = <<>> /\ after'[v] = Nil
    BY DEF VmsKept
  <1>4. \A v \in Vm : VmOK(v)'
    BY <1>3, VmsStill
  <1> QED
    BY <1>2, <1>4, Assemble

\* The message that a strand takes next.
LEMMA NextMessage ==
    ASSUME Types, NEW kind, NEW home, NEW word, Accounts(kind, home, word),
           NEW v \in Vm, NextHandler(v, "deliver")
    PROVE  /\ strand[v] # <<>> /\ Head(strand[v]).op = "deliver"
           /\ Head(strand[v]).fiber \in Fiber /\ Head(strand[v]).val \in Msg
           /\ kind[Head(strand[v]).fiber] = "deliver" /\ home[Head(strand[v]).fiber] = v
           /\ running[v] = Nil /\ after[v] = Nil
  <1>1. PICK h : h = Head(strand[v])
    OBVIOUS
  <1>2. /\ strand[v] # <<>> /\ h \in Handler /\ h \in Members(strand[v]) /\ h.op = "deliver"
        /\ running[v] = Nil /\ after[v] = Nil
    BY <1>1, NextTaken
  <1>3. h.fiber \in Fiber /\ h.val \in Msg
    BY <1>2, HandlerFacts
  <1>4. Has(strand[v], "deliver", h.fiber)
    BY <1>2 DEF Has, Members
  <1>5. kind[h.fiber] = "deliver" /\ home[h.fiber] = v
    BY <1>3, <1>4 DEF Accounts, OnStrand
  <1> QED
    BY <1>1, <1>2, <1>3, <1>5

\* The inbox is closed: the sender is told.
LEMMA StepDeliverToClosed ==
    ASSUME Inv, NEW v \in Vm, DeliverToClosed(v) PROVE Inv'
  <1>1. PICK kind, home, word : Accounts(kind, home, word)
    BY DEF Inv
  <1>2. Types /\ (\A w \in Vm : VmOK(w)) /\ strand \in [Vm -> Seq(Handler)]
    BY DEF Inv, Types
  <1>3. PICK h : h = Head(strand[v])
    OBVIOUS
  <1>4. /\ strand[v] # <<>> /\ h.op = "deliver" /\ h.val \in Msg
        /\ h.fiber \in Fiber /\ kind[h.fiber] = "deliver" /\ home[h.fiber] = v
    BY <1>1, <1>2, <1>3, NextMessage DEF DeliverToClosed
  <1>5. PICK f \in Fiber : f = h.fiber
    BY <1>4
  <1>6. VmOf[f] \in Vm
    BY VmContextAssumption
  <1>7. PICK s : s = [fiber |-> f, msg |-> h.val]
    OBVIOUS
  <1>8. s \in Sender /\ s.fiber = f
    BY <1>4, <1>7 DEF Sender
  <1>9. PICK st : st = [Now EXCEPT !.strand = Popped(strand, v)]
    OBVIOUS
  <1>10. st \in State /\ st.strand = Popped(strand, v) /\ st.nsenders = nsenders
    <2>1. Popped(strand, v) \in [Vm -> Seq(Handler)] /\ nsenders \in [Vm -> Int]
      BY <1>2, <1>4, PoppedFacts DEF Types
    <2>2. st = [strand |-> Popped(strand, v), nsenders |-> nsenders]
      BY <1>9 DEF Now
    <2> QED
      BY <2>1, <2>2 DEF State
  <1>11. PICK kind0, home0, word0 :
            Moved(kind, home, word, f, "none", v, "none", kind0, home0, word0)
    <2>1. Ghosts(kind, home) /\ "none" \in Kind
      BY <1>1 DEF Accounts, Kind
    <2>2. Moved(kind, home, word, f, "none", v, "none",
                Put(kind, f, "none"), Put(home, f, v), Put(word, f, "none"))
      BY <2>1, GhostMove
    <2> QED
      BY <2>2
  <1>12. OnStrand(st.strand, kind0, home0, word0)
    <2>1. /\ OnStrand(strand, kind, home, word) /\ Head(strand[v]).op \in Owing
          /\ Head(strand[v]).fiber = f /\ kind0[f] \notin Owing
          /\ Elsewhere({f}, kind, home, word, kind0, home0, word0)
      BY <1>1, <1>3, <1>4, <1>5, <1>11 DEF Accounts, Owing, Moved
    <2>2. OnStrand(Popped(strand, v), kind0, home0, word0)
      BY <1>2, <1>4, <2>1, PopOwed
    <2> QED
      BY <1>10, <2>2
  <1>13. PICK kind1, home1, word1 : Moved(kind0, home0, word0, f, "resume", VmOf[f],
                                          "channel_closed", kind1, home1, word1)
    <2>1. Ghosts(kind0, home0) /\ "resume" \in Kind
      BY <1>11 DEF Moved, Kind
    <2>2. Moved(kind0, home0, word0, f, "resume", VmOf[f], "channel_closed",
             Put(kind0, f, "resume"), Put(home0, f, VmOf[f]), Put(word0, f, "channel_closed"))
      BY <1>6, <2>1, GhostMove
    <2> QED
      BY <2>2
  <1>14. /\ Ghosts(kind1, home1) /\ kind1[f] = "resume" /\ home1[f] = VmOf[f]
         /\ word1[f] = "channel_closed" /\ kind0[f] = "none"
         /\ Elsewhere({f}, kind0, home0, word0, kind1, home1, word1)
         /\ Elsewhere({f}, kind, home, word, kind1, home1, word1)
    BY <1>11, <1>13 DEF Moved, Elsewhere
  <1>15. PICK st1 : st1 = DestroySender(st, s)
    OBVIOUS
  <1>16. /\ st1 \in State /\ Grown(st.strand, st1.strand, {f})
         /\ OnStrand(st1.strand, kind1, home1, word1)
    <2>1. /\ kind0[s.fiber] \notin Owing /\ kind1[s.fiber] = "resume"
          /\ home1[s.fiber] = VmOf[s.fiber] /\ word1[s.fiber] = "channel_closed"
          /\ Elsewhere({s.fiber}, kind0, home0, word0, kind1, home1, word1)
      BY <1>8, <1>14 DEF Owing
    <2>2. Wakes(st, DestroySender(st, s), {s.fiber}, kind1, home1, word1)
      BY <1>8, <1>10, <1>12, <2>1, DestroyFacts
    <2> QED
      BY <1>8, <1>15, <2>2 DEF Wakes
  <1>17. strand' = st1.strand /\ nsenders' = st1.nsenders
    BY <1>3, <1>5, <1>7, <1>9, <1>15 DEF DeliverToClosed, Becomes, Pop, Popped
  <1>18. /\ UNCHANGED <<running, valid, at, fiberData, ret, inboxVars, forgotten, tx, after, destroyed,
                        crashed, taken>>
         /\ ~open[v]
    BY DEF DeliverToClosed
  <1>19. strand' \in [Vm -> Seq(Handler)] /\ nsenders' \in [Vm -> Int]
    BY <1>16, <1>17, StateFacts
  <1>20. Types'
    BY <1>2, <1>18, <1>19 DEF Types, CoreTypeOK, fiberData, inboxVars, IsMain
  <1>21. Waiting(incoming', recvFiber', after', kind1, home1)
    <2>1. /\ Waiting(incoming, recvFiber, after, kind, home)
          /\ \A g \in Fiber : g \in {f} => /\ kind[g] \notin {"incoming", "receiver", "after"}
                                           /\ kind1[g] \notin {"incoming", "receiver", "after"}
      BY <1>1, <1>4, <1>5, <1>14 DEF Accounts
    <2>2. Waiting(incoming, recvFiber, after, kind1, home1)
      BY <1>14, <2>1, WaitStill
    <2> QED
      BY <1>18, <2>2 DEF inboxVars
  <1>22. \A g \in Fiber : Stays(g) /\ FiberOK(g, kind, home, word)
    BY <1>1, <1>18 DEF Stays, fiberData, Accounts
  <1>23. \A g \in Fiber : Still(g, kind, home)
    BY <1>18, <1>22 DEF Still, inboxVars, FiberOK, ReceiverOK, SenderOK
  <1>24. FiberOK(f, kind1, home1, word1)'
    <2>1. /\ kind[f] \in InSend \cup {"receiver"} /\ taken[f] \in BOOLEAN /\ taken'[f] = taken[f]
          /\ ~taken[f]
      BY <1>2, <1>4, <1>5, <1>18, <1>22 DEF InSend, Types, FiberOK, SenderOK
    <2>2. PICK x : x = "channel_closed"
      OBVIOUS
    <2>3. /\ word1[f] = x /\ x \in {"sent", "channel_closed", "interrupted"}
          /\ at[f] = "send" => (x = "sent" <=> taken'[f]) /\ (x = "interrupted" => interrupted[f])
      BY <1>14, <2>1, <2>2
    <2> QED
      BY <1>14, <1>22, <2>1, <2>3, FiberWoken
  <1>25. /\ \A w \in Vm : \A x \in Members(strand'[w]) : x.op = "revoke" => x \in Members(strand[w])
         /\ \A w \in Vm : destroyed[w] => strand'[w] = <<>>
    <2>1. /\ \A w \in Vm : \A x \in Members(st.strand[w]) : x \in Members(strand[w])
          /\ \A w \in Vm : strand[w] = <<>> => st.strand[w] = <<>>
      <3>1. /\ \A w \in Vm : \A x \in Members(Popped(strand, v)[w]) : x \in Members(strand[w])
            /\ \A w \in Vm : strand[w] = <<>> => Popped(strand, v)[w] = <<>>
        BY <1>2, <1>4, PoppedFacts
      <3> QED
        BY <1>10, <3>1
    <2>2. ~destroyed[VmOf[f]]
      BY <1>4, <1>5, <1>22 DEF FiberOK, PlaceOK
    <2>3. \A w \in Vm : destroyed[w] => strand[w] = <<>> /\ ~CanLock(w)
      BY <1>2 DEF VmOK, CanLock
    <2> QED
      BY <1>16, <1>17, <2>1, <2>2, <2>3, ZenonT(60) DEF Grown, OfSender
  <1>26. RevokesKept
    BY <1>18, <1>25 DEF RevokesKept, fiberData
  <1>27. VmsKept
    BY <1>2, <1>18, <1>25 DEF VmsKept, VmOK, inboxVars
  <1>28. /\ \A g \in Fiber : g \notin {f} => Still(g, kind, home)
         /\ \A g \in Fiber : g \in {f} => FiberOK(g, kind1, home1, word1)'
         /\ OnStrand(strand', kind1, home1, word1)
    BY <1>16, <1>17, <1>23, <1>24
  <1> QED
    BY <1>1, <1>2, <1>14, <1>20, <1>21, <1>26, <1>27, <1>28, MoveStep

\* Nobody is receiving: the sender queues.
LEMMA StepDeliverToQueue ==
    ASSUME Inv, NEW v \in Vm, DeliverToQueue(v) PROVE Inv'
  <1>1. PICK kind, home, word : Accounts(kind, home, word)
    BY DEF Inv
  <1>2. Types /\ (\A w \in Vm : VmOK(w)) /\ strand \in [Vm -> Seq(Handler)]
    BY DEF Inv, Types
  <1>3. PICK h : h = Head(strand[v])
    OBVIOUS
  <1>4. /\ strand[v] # <<>> /\ h.op = "deliver" /\ h.val \in Msg
        /\ h.fiber \in Fiber /\ kind[h.fiber] = "deliver" /\ home[h.fiber] = v
    BY <1>1, <1>2, <1>3, NextMessage DEF DeliverToQueue
  <1>5. PICK f \in Fiber : f = h.fiber
    BY <1>4
  <1>6. PICK s \in Sender : s = [fiber |-> f, msg |-> h.val]
    BY <1>4 DEF Sender
  <1>7. /\ strand' = Popped(strand, v) /\ incoming' = [incoming EXCEPT ![v] = Append(@, s)]
        /\ open[v] /\ recvFiber[v] = Nil
        /\ UNCHANGED <<running, valid, at, fiberData, ret, recvFiber, open, imported, inboxLive,
                       addressVars, after, destroyed, crashed, taken>>
    BY <1>3, <1>5, <1>6 DEF DeliverToQueue, Pop, Popped
  <1>8. PICK kind1, home1, word1 :
            Moved(kind, home, word, f, "incoming", v, "none", kind1, home1, word1)
    <2>1. Ghosts(kind, home) /\ "incoming" \in Kind
      BY <1>1 DEF Accounts, Kind
    <2>2. Moved(kind, home, word, f, "incoming", v, "none",
                Put(kind, f, "incoming"), Put(home, f, v), Put(word, f, "none"))
      BY <2>1, GhostMove
    <2> QED
      BY <2>2
  <1>9. /\ Ghosts(kind1, home1) /\ kind1[f] = "incoming" /\ home1[f] = v
        /\ Elsewhere({f}, kind, home, word, kind1, home1, word1)
    BY <1>8 DEF Moved
  <1>10. OnStrand(strand', kind1, home1, word1)
    <2>1. /\ OnStrand(strand, kind, home, word) /\ Head(strand[v]).op \in Owing
          /\ Head(strand[v]).fiber = f /\ kind1[f] \notin Owing
      BY <1>1, <1>3, <1>4, <1>5, <1>9 DEF Accounts, Owing
    <2>2. OnStrand(Popped(strand, v), kind1, home1, word1)
      BY <1>2, <1>4, <1>9, <2>1, PopOwed
    <2> QED
      BY <1>7, <2>2
  <1>11. /\ Append(incoming[v], s) \in Seq(Sender)
         /\ Resumed(Append(incoming[v], s)) = Resumed(incoming[v]) \cup {f}
         /\ ResumesOnce(Append(incoming[v], s))
    <2>1. incoming[v] \in Seq(Sender) /\ s.fiber = f
      BY <1>2, <1>6 DEF Types
    <2>2. ResumesOnce(incoming[v]) /\ s.fiber \notin Resumed(incoming[v])
      BY <1>1, <1>4, <1>5, <2>1 DEF Accounts, Waiting
    <2> QED
      BY <2>1, <2>2, AppendFacts
  <1>12. PICK inc1 : inc1 = incoming'
    OBVIOUS
  <1>13. /\ inc1 \in [Vm -> Seq(Sender)] /\ inc1[v] = Append(incoming[v], s)
         /\ \A w \in Vm : w # v => inc1[w] = incoming[w]
    BY <1>2, <1>7, <1>11, <1>12 DEF Types
  <1>14. strand' \in [Vm -> Seq(Handler)]
    BY <1>2, <1>4, <1>7, PoppedFacts
  <1>15. Types'
    BY <1>2, <1>7, <1>12, <1>13, <1>14
    DEF Types, CoreTypeOK, fiberData, addressVars, IsMain
  <1>16. Waiting(incoming', recvFiber', after', kind1, home1)
    <2>1. Waiting(incoming, recvFiber, after, kind, home)
      BY <1>1 DEF Accounts
    <2>2. \A w \in Vm : ResumesOnce(inc1[w])
      BY <1>11, <1>13, <2>1 DEF Waiting
    <2>3. \A w \in Vm, g \in Fiber : g \notin {f} =>
              /\ g \in Resumed(inc1[w]) <=> g \in Resumed(incoming[w])
              /\ recvFiber[w] = g <=> recvFiber[w] = g
              /\ after[w] = g <=> after[w] = g
      BY <1>11, <1>13
    <2>4. \A w \in Vm, g \in Fiber : g \in {f} =>
              /\ g \in Resumed(inc1[w]) <=> kind1[g] = "incoming" /\ home1[g] = w
              /\ recvFiber[w] = g <=> kind1[g] = "receiver" /\ home1[g] = w
              /\ after[w] = g <=> kind1[g] = "after" /\ home1[g] = w
      <3>1. \A w \in Vm : f \notin Resumed(incoming[w]) /\ recvFiber[w] # f /\ after[w] # f
        BY <1>4, <1>5, <2>1 DEF Waiting
      <3>2. \A w \in Vm : f \in Resumed(inc1[w]) <=> w = v
        BY <1>11, <1>13, <3>1
      <3> QED
        BY <1>9, <3>1, <3>2
    <2>5. Waiting(inc1, recvFiber, after, kind1, home1)
      BY <1>9, <2>1, <2>2, <2>3, <2>4, WaitMove
    <2> QED
      BY <1>7, <1>12, <2>5
  <1>17. \A g \in Fiber : Stays(g) /\ FiberOK(g, kind, home, word)
    BY <1>1, <1>7 DEF Stays, fiberData, Accounts
  <1>18. \A g \in Fiber : Still(g, kind, home)
    <2>1. ASSUME NEW g \in Fiber, kind[g] = "receiver"
          PROVE  open'[VmOf[g]] /\ incoming'[VmOf[g]] = <<>>
      <3>1. /\ recvFiber[VmOf[g]] = g /\ g # Nil /\ VmOf[g] \in Vm
            /\ open[VmOf[g]] /\ incoming[VmOf[g]] = <<>>
        BY <1>1, <1>17, <2>1, VmContextAssumption
        DEF Accounts, Waiting, FiberOK, ReceiverOK
      <3> QED
        BY <1>7, <1>12, <1>13, <3>1
    <2> QED
      BY <1>7, <1>17, <2>1 DEF Still, addressVars, FiberOK, SenderOK
  <1>19. FiberOK(f, kind1, home1, word1)'
    <2>1. PlaceOK(f, kind1)'
      BY <1>4, <1>5, <1>9, <1>17 DEF FiberOK, PlaceOK, Stays, Disabled
    <2>2. SenderOK(f, kind1, home1)'
      BY <1>4, <1>5, <1>7, <1>9, <1>17 DEF FiberOK, SenderOK, InSend, addressVars, fiberData
    <2> QED
      BY <1>9, <2>1, <2>2 DEF FiberOK, WordOK, ReceiverOK
  <1>20. /\ \A w \in Vm : \A x \in Members(strand'[w]) : x \in Members(strand[w])
         /\ \A w \in Vm : strand[w] = <<>> => strand'[w] = <<>>
    BY <1>2, <1>4, <1>7, PoppedFacts, ZenonT(60)
  <1>21. RevokesKept
    BY <1>7, <1>20 DEF RevokesKept, fiberData
  <1>22. VmsKept
    <2>1. ASSUME NEW u \in Vm, ~open'[u] PROVE incoming'[u] = <<>>
      BY <1>2, <1>7, <1>12, <1>13, <2>1 DEF VmOK
    <2> QED
      BY <1>2, <1>7, <1>20, <2>1 DEF VmsKept, VmOK
  <1>23. /\ \A g \in Fiber : g \notin {f} => Still(g, kind, home)
         /\ \A g \in Fiber : g \in {f} => FiberOK(g, kind1, home1, word1)'
    BY <1>18, <1>19
  <1> QED
    BY <1>1, <1>2, <1>9, <1>10, <1>15, <1>16, <1>21, <1>22, <1>23, MoveStep

\* The delivery is over: the sender is told.
LEMMA StepWakeSender ==
    ASSUME Inv, NEW v \in Vm, WakeSender(v) PROVE Inv'
  <1>1. PICK kind, home, word : Accounts(kind, home, word)
    BY DEF Inv
  <1>2. Types /\ (\A w \in Vm : VmOK(w)) /\ strand \in [Vm -> Seq(Handler)]
    BY DEF Inv, Types
  <1>3. PICK f \in Fiber : f = after[v]
    BY <1>2 DEF WakeSender, Types
  <1>4. PICK h : h = Resume(f, "sent")
    OBVIOUS
  <1>5. /\ strand' = Posted(strand, VmOf[f], h) /\ after' = [after EXCEPT ![v] = Nil]
        /\ UNCHANGED <<running, valid, at, fiberData, ret, inboxVars, addressVars, destroyed,
                       crashed, taken>>
    BY <1>3, <1>4 DEF WakeSender, Post, Posted
  <1>6. /\ kind[f] = "after" /\ home[f] = v /\ VmOf[f] \in Vm /\ f # Nil
        /\ FiberOK(f, kind, home, word)
    BY <1>1, <1>3, VmContextAssumption DEF Accounts, Waiting
  <1>7. /\ h \in Handler /\ h.op = "resume" /\ h.fiber = f /\ h.clear = TRUE /\ h.val = "sent"
    BY <1>4, Made, Shapes DEF Result
  <1>8. PICK kind1, home1, word1 :
            Moved(kind, home, word, f, "resume", VmOf[f], "sent", kind1, home1, word1)
    <2>1. Ghosts(kind, home) /\ "resume" \in Kind
      BY <1>1 DEF Accounts, Kind
    <2>2. Moved(kind, home, word, f, "resume", VmOf[f], "sent",
                Put(kind, f, "resume"), Put(home, f, VmOf[f]), Put(word, f, "sent"))
      BY <1>6, <2>1, GhostMove
    <2> QED
      BY <2>2
  <1>9. /\ Ghosts(kind1, home1) /\ kind1[f] = "resume" /\ home1[f] = VmOf[f] /\ word1[f] = "sent"
        /\ Elsewhere({f}, kind, home, word, kind1, home1, word1)
    BY <1>8 DEF Moved
  <1>10. OnStrand(strand', kind1, home1, word1)
    <2>1. PICK u \in Vm : u = VmOf[f]
      BY <1>6
    <2>2. /\ OnStrand(strand, kind, home, word) /\ h.op \in Owing /\ h.fiber \in Fiber
          /\ kind[h.fiber] \notin Owing
          /\ Elsewhere({h.fiber}, kind, home, word, kind1, home1, word1)
          /\ kind1[h.fiber] = h.op /\ home1[h.fiber] = u
          /\ h.op = "resume" => word1[h.fiber] = h.val /\ (h.clear <=> h.val # "none")
      BY <1>1, <1>6, <1>7, <1>9, <2>1 DEF Accounts, Owing
    <2>3. OnStrand(Posted(strand, u, h), kind1, home1, word1)
      BY <1>2, <1>7, <2>2, PostOwed
    <2> QED
      BY <1>5, <2>1, <2>3
  <1>11. /\ strand' \in [Vm -> Seq(Handler)]
         /\ \A w \in Vm : \A x \in Members(strand'[w]) : x \in Members(strand[w]) \/ x = h
         /\ \A w \in Vm : w # VmOf[f] => strand'[w] = strand[w]
    <2>1. PICK u \in Vm : u = VmOf[f]
      BY <1>6
    <2>2. IsPost(Posted(strand, u, h), strand, u, h)
      BY <1>2, <1>7, PostedFacts
    <2>3. IsPost(strand', strand, u, h)
      BY <1>5, <2>1, <2>2
    <2> QED
      BY <2>1, <2>3 DEF IsPost
  <1>12. PICK aft1 : aft1 = after'
    OBVIOUS
  <1>13. /\ aft1 \in [Vm -> Fiber \cup {Nil}] /\ aft1[v] = Nil
         /\ \A w \in Vm : w # v => aft1[w] = after[w]
    BY <1>2, <1>5, <1>12 DEF Types
  <1>14. Types'
    BY <1>2, <1>5, <1>11, <1>12, <1>13
    DEF Types, CoreTypeOK, fiberData, addressVars, inboxVars, IsMain
  <1>15. Waiting(incoming', recvFiber', after', kind1, home1)
    <2>1. Waiting(incoming, recvFiber, after, kind, home)
      BY <1>1 DEF Accounts
    <2>2. \A w \in Vm : ResumesOnce(incoming[w])
      BY <2>1 DEF Waiting
    <2>3. \A w \in Vm, g \in Fiber : g \notin {f} =>
              /\ g \in Resumed(incoming[w]) <=> g \in Resumed(incoming[w])
              /\ recvFiber[w] = g <=> recvFiber[w] = g
              /\ aft1[w] = g <=> after[w] = g
      BY <1>3, <1>13, VmContextAssumption
    <2>4. \A w \in Vm, g \in Fiber : g \in {f} =>
              /\ g \in Resumed(incoming[w]) <=> kind1[g] = "incoming" /\ home1[g] = w
              /\ recvFiber[w] = g <=> kind1[g] = "receiver" /\ home1[g] = w
              /\ aft1[w] = g <=> kind1[g] = "after" /\ home1[g] = w
      BY <1>6, <1>9, <1>13, <2>1 DEF Waiting
    <2>5. Waiting(incoming, recvFiber, aft1, kind1, home1)
      BY <1>9, <2>1, <2>2, <2>3, <2>4, WaitMove
    <2> QED
      BY <1>5, <1>12, <2>5 DEF inboxVars
  <1>16. \A g \in Fiber : Stays(g) /\ FiberOK(g, kind, home, word)
    BY <1>1, <1>5 DEF Stays, fiberData, Accounts
  <1>17. \A g \in Fiber : Still(g, kind, home)
    BY <1>5, <1>16 DEF Still, inboxVars, addressVars, FiberOK, ReceiverOK, SenderOK
  <1>18. FiberOK(f, kind1, home1, word1)'
    <2>1. /\ kind[f] \in InSend \cup {"receiver"} /\ taken[f] \in BOOLEAN /\ taken'[f] = taken[f]
          /\ taken[f]
      BY <1>2, <1>5, <1>6 DEF InSend, Types, FiberOK, SenderOK
    <2>2. PICK x : x = "sent"
      OBVIOUS
    <2>3. /\ word1[f] = x /\ x \in {"sent", "channel_closed", "interrupted"}
          /\ at[f] = "send" => (x = "sent" <=> taken'[f]) /\ (x = "interrupted" => interrupted[f])
      BY <1>9, <2>1, <2>2
    <2> QED
      BY <1>9, <1>16, <2>1, <2>3, FiberWoken
  <1>19. RevokesKept
    BY <1>5, <1>7, <1>11 DEF RevokesKept, fiberData
  <1>20. VmsKept
    <2>1. ~destroyed[VmOf[f]]
      BY <1>6 DEF FiberOK, PlaceOK
    <2> QED
      BY <1>2, <1>5, <1>11, <1>12, <1>13, <2>1 DEF VmsKept, VmOK, inboxVars
  <1>21. /\ \A g \in Fiber : g \notin {f} => Still(g, kind, home)
         /\ \A g \in Fiber : g \in {f} => FiberOK(g, kind1, home1, word1)'
    BY <1>17, <1>18
  <1> QED
    BY <1>1, <1>2, <1>9, <1>10, <1>14, <1>15, <1>19, <1>20, <1>21, MoveStep

\* The receiver that an inbox knows.
LEMMA Receiver ==
    ASSUME Types, NEW kind, NEW home, NEW word, Accounts(kind, home, word),
           NEW v \in Vm, recvFiber[v] # Nil
    PROVE  /\ recvFiber[v] \in Fiber /\ kind[recvFiber[v]] = "receiver" /\ home[recvFiber[v]] = v
           /\ VmOf[recvFiber[v]] = v /\ at[recvFiber[v]] = "receive" /\ valid[v]
           /\ open[v] /\ incoming[v] = <<>>
           /\ FiberOK(recvFiber[v], kind, home, word)
  <1>1. PICK r \in Fiber : r = recvFiber[v]
    BY DEF Types
  <1>2. kind[r] = "receiver" /\ home[r] = v
    BY <1>1 DEF Accounts, Waiting
  <1>3. FiberOK(r, kind, home, word) /\ ReceiverOK(r, kind, home)
    BY DEF Accounts, FiberOK
  <1> QED
    BY <1>1, <1>2, <1>3 DEF ReceiverOK

\* Addresses that arrive only add to those that are held.
LEMMA Arrives ==
    ASSUME tx \in [Vm -> [Vm -> Nat]], NEW v \in Vm, NEW msg,
           tx' = [tx EXCEPT ![v] = Plus(@, CarriedBy(msg))]
    PROVE  /\ tx' \in [Vm -> [Vm -> Nat]]
           /\ \A u, w \in Vm : tx'[u][w] >= tx[u][w]
  <1>1. PICK b : b = Plus(tx[v], CarriedBy(msg))
    OBVIOUS
  <1>2. b \in [Vm -> Nat] /\ \A w \in Vm : b[w] >= tx[v][w]
    BY <1>1 DEF Plus, CarriedBy
  <1>3. tx' = [tx EXCEPT ![v] = b]
    BY <1>1
  <1>4. tx' \in [Vm -> [Vm -> Nat]] /\ tx'[v] = b /\ \A u \in Vm : u # v => tx'[u] = tx[u]
    BY <1>2, <1>3
  <1>5. ASSUME NEW u \in Vm, NEW w \in Vm PROVE tx'[u][w] >= tx[u][w]
    <2>1. tx[u][w] \in Nat
      OBVIOUS
    <2> QED
      BY <1>2, <1>4, <2>1
  <1> QED
    BY <1>4, <1>5

\* The receiver runs inside the delivery, which has yet to wake the sender.
LEMMA StepDeliverToReceiver ==
    ASSUME Inv, NEW v \in Vm, DeliverToReceiver(v) PROVE Inv'
  <1>1. PICK kind, home, word : Accounts(kind, home, word)
    BY DEF Inv
  <1>2. Types /\ (\A w \in Vm : VmOK(w)) /\ strand \in [Vm -> Seq(Handler)]
    BY DEF Inv, Types
  <1>3. PICK h : h = Head(strand[v])
    OBVIOUS
  <1>4. /\ strand[v] # <<>> /\ h.op = "deliver" /\ h.val \in Msg
        /\ h.fiber \in Fiber /\ kind[h.fiber] = "deliver" /\ home[h.fiber] = v
        /\ running[v] = Nil /\ after[v] = Nil
    BY <1>1, <1>2, <1>3, NextMessage DEF DeliverToReceiver
  <1>5. PICK f \in Fiber : f = h.fiber
    BY <1>4
  <1>6. PICK r : r = recvFiber[v]
    OBVIOUS
  <1>7. /\ r \in Fiber /\ kind[r] = "receiver" /\ home[r] = v /\ r # f /\ r # Nil
        /\ VmOf[r] = v /\ at[r] = "receive" /\ valid[v] /\ open[v] /\ incoming[v] = <<>>
        /\ FiberOK(r, kind, home, word) /\ PlaceOK(r, kind)
    <2>1. recvFiber[v] # Nil
      BY DEF DeliverToReceiver
    <2>2. /\ r \in Fiber /\ kind[r] = "receiver" /\ home[r] = v
          /\ VmOf[r] = v /\ at[r] = "receive" /\ valid[v] /\ open[v] /\ incoming[v] = <<>>
          /\ FiberOK(r, kind, home, word)
      BY <1>1, <1>2, <1>6, <2>1, Receiver
    <2> QED
      BY <1>4, <1>5, <1>6, <2>1, <2>2 DEF FiberOK
  <1>8. /\ strand' = Popped(strand, v) /\ FiberResume(r, TRUE, "message")
        /\ taken' = [taken EXCEPT ![f] = TRUE]
        /\ tx' = [tx EXCEPT ![v] = Plus(@, CarriedBy(h.val))]
        /\ after' = [after EXCEPT ![v] = f]
        /\ recvFiber' = [recvFiber EXCEPT ![v] = Nil]
        /\ UNCHANGED <<valid, counters, interrupted, incoming, open, imported, inboxLive,
                       nsenders, forgotten, destroyed, crashed>>
    BY <1>3, <1>5, <1>6 DEF DeliverToReceiver, Pop, Popped
  <1>9. PICK kind0, home0, word0 :
            Moved(kind, home, word, f, "after", v, "none", kind0, home0, word0)
    <2>1. Ghosts(kind, home) /\ "after" \in Kind
      BY <1>1 DEF Accounts, Kind
    <2>2. Moved(kind, home, word, f, "after", v, "none",
                Put(kind, f, "after"), Put(home, f, v), Put(word, f, "none"))
      BY <2>1, GhostMove
    <2> QED
      BY <2>2
  <1>10. OnStrand(strand', kind0, home0, word0)
    <2>1. /\ OnStrand(strand, kind, home, word) /\ Head(strand[v]).op \in Owing
          /\ Head(strand[v]).fiber = f /\ kind0[f] \notin Owing
          /\ Elsewhere({f}, kind, home, word, kind0, home0, word0)
      BY <1>1, <1>3, <1>4, <1>5, <1>9 DEF Accounts, Owing, Moved
    <2>2. OnStrand(Popped(strand, v), kind0, home0, word0)
      BY <1>2, <1>4, <2>1, PopOwed
    <2> QED
      BY <1>8, <2>2
  <1>11. PICK kind1, home1, word1 :
            Moved(kind0, home0, word0, r, "none", v, "none", kind1, home1, word1)
    <2>1. Ghosts(kind0, home0) /\ "none" \in Kind
      BY <1>9 DEF Moved, Kind
    <2>2. Moved(kind0, home0, word0, r, "none", v, "none",
                Put(kind0, r, "none"), Put(home0, r, v), Put(word0, r, "none"))
      BY <1>7, <2>1, GhostMove
    <2> QED
      BY <2>2
  <1>12. /\ Ghosts(kind1, home1) /\ kind1[r] = "none" /\ kind1[f] = "after" /\ home1[f] = v
         /\ kind0[r] = "receiver"
         /\ Elsewhere({r}, kind0, home0, word0, kind1, home1, word1)
         /\ Elsewhere({f, r}, kind, home, word, kind1, home1, word1)
    BY <1>7, <1>9, <1>11 DEF Moved, Elsewhere
  <1>13. strand' \in [Vm -> Seq(Handler)]
    BY <1>2, <1>4, <1>8, PoppedFacts
  <1>14. OnStrand(strand', kind1, home1, word1)
    <2>1. PICK str : str = strand'
      OBVIOUS
    <2>2. str \in [Vm -> Seq(Handler)] /\ OnStrand(str, kind0, home0, word0)
      BY <1>10, <1>13, <2>1
    <2>3. \A g \in Fiber : g \in {r} => kind0[g] \notin Owing /\ kind1[g] \notin Owing
      BY <1>12 DEF Owing
    <2>4. OnStrand(str, kind1, home1, word1)
      BY <1>12, <2>2, <2>3, MoveElsewhere
    <2> QED
      BY <2>1, <2>4
  <1>15. PICK aft1, rec1 : aft1 = after' /\ rec1 = recvFiber'
    OBVIOUS
  <1>16. /\ aft1 \in [Vm -> Fiber \cup {Nil}] /\ aft1[v] = f
         /\ rec1 \in [Vm -> Fiber \cup {Nil}] /\ rec1[v] = Nil
         /\ \A w \in Vm : w # v => aft1[w] = after[w] /\ rec1[w] = recvFiber[w]
    BY <1>2, <1>8, <1>15 DEF Types
  <1>17. Waiting(incoming', recvFiber', after', kind1, home1)
    <2>1. Waiting(incoming, recvFiber, after, kind, home) /\ Nil \notin Fiber
      BY <1>1, VmContextAssumption DEF Accounts
    <2>2. \A w \in Vm : ResumesOnce(incoming[w])
      BY <2>1 DEF Waiting
    <2>3. \A w \in Vm, g \in Fiber : g \notin {f, r} =>
              /\ g \in Resumed(incoming[w]) <=> g \in Resumed(incoming[w])
              /\ rec1[w] = g <=> recvFiber[w] = g
              /\ aft1[w] = g <=> after[w] = g
      BY <1>4, <1>6, <1>16, <2>1
    <2>4. \A w \in Vm : /\ f \notin Resumed(incoming[w]) /\ recvFiber[w] # f /\ after[w] # f
                        /\ r \notin Resumed(incoming[w]) /\ after[w] # r
                        /\ recvFiber[w] = r => w = v
      BY <1>4, <1>5, <1>7, <2>1 DEF Waiting
    <2>5. \A w \in Vm : /\ rec1[w] # f /\ rec1[w] # r /\ aft1[w] # r
                        /\ aft1[w] = f <=> w = v
      BY <1>7, <1>16, <2>1, <2>4
    <2>6. \A w \in Vm, g \in Fiber : g \in {f, r} =>
              /\ g \in Resumed(incoming[w]) <=> kind1[g] = "incoming" /\ home1[g] = w
              /\ rec1[w] = g <=> kind1[g] = "receiver" /\ home1[g] = w
              /\ aft1[w] = g <=> kind1[g] = "after" /\ home1[g] = w
      BY <1>12, <2>4, <2>5
    <2>7. Waiting(incoming, rec1, aft1, kind1, home1)
      BY <1>12, <2>1, <2>2, <2>3, <2>6, WaitMove
    <2> QED
      BY <1>8, <1>15, <2>7
  <1>18. /\ running' \in [Vm -> Fiber \cup {Nil}]
         /\ at' \in [Fiber -> Suspended \cup Gone \cup {"running"}]
         /\ interrupter' \in [Fiber -> Vm \cup {Receiving} \cup {Nil}]
         /\ ret' \in [Fiber -> Result]
         /\ running'[VmOf[r]] = r /\ at'[r] = "running" /\ interrupter'[r] = Nil
         /\ \A w \in Vm : w # VmOf[r] => running'[w] = running[w]
         /\ \A g \in Fiber : g # r => at'[g] = at[g] /\ interrupter'[g] = interrupter[g]
    <2>1. PICK x \in Result, b \in BOOLEAN : x = "message" /\ b = TRUE
      BY DEF Result
    <2>2. FiberResume(r, b, x) /\ (~b => at[r] = "start")
      BY <1>8, <2>1
    <2> QED
      BY <1>2, <1>7, <2>2, ResumeTypes
  <1>19. /\ tx' \in [Vm -> [Vm -> Nat]] /\ \A u, w \in Vm : tx'[u][w] >= tx[u][w]
    BY <1>2, <1>8, Arrives DEF Types
  <1>20. /\ taken' \in [Fiber -> BOOLEAN] /\ taken'[f] = TRUE
         /\ \A g \in Fiber : g # f => taken'[g] = taken[g]
    BY <1>2, <1>8 DEF Types
  <1>21. Types'
    BY <1>2, <1>8, <1>13, <1>15, <1>16, <1>18, <1>19, <1>20
    DEF Types, CoreTypeOK, counters, IsMain
  <1>22. \A g \in Fiber : g # r => Stays(g)
    <2>1. running[VmOf[r]] = Nil /\ UNCHANGED <<valid, counters, interrupted, destroyed>>
      BY <1>4, <1>7, <1>8
    <2> QED
      BY <1>7, <1>18, <2>1, OthersStay
  <1>24. ASSUME NEW g \in Fiber, g \notin {f, r} PROVE Still(g, kind, home)
    <2>1. FiberOK(g, kind, home, word)
      BY <1>1 DEF Accounts
    <2> QED
      BY <1>8, <1>20, <1>22, <1>24, <2>1 DEF Still, FiberOK, ReceiverOK
  <1>25. FiberOK(r, kind1, home1, word1)'
    <2>1. /\ valid[VmOf[r]] /\ kind[r] # "none" /\ valid'[VmOf[r]] /\ kind1[r] = "none"
          /\ destroyed'[VmOf[r]] = destroyed[VmOf[r]]
      BY <1>7, <1>8, <1>12
    <2>2. at[Main[VmOf[r]]] # "unborn" => at'[Main[VmOf[r]]] # "unborn"
      BY <1>7, <1>18, VmContextAssumption
    <2> QED
      BY <1>7, <1>18, <2>1, <2>2, FiberRuns
  <1>26. FiberOK(f, kind1, home1, word1)'
    <2>1. FiberOK(f, kind, home, word) /\ Stays(f) /\ kind[f] = "deliver" /\ home[f] = v
      BY <1>1, <1>4, <1>5, <1>7, <1>22 DEF Accounts
    <2>2. PlaceOK(f, kind1)'
      BY <1>12, <2>1 DEF FiberOK, PlaceOK, Stays, Disabled
    <2>3. SenderOK(f, kind1, home1)'
      BY <1>12, <1>20, <2>1 DEF FiberOK, SenderOK, InSend, Stays
    <2> QED
      BY <1>12, <2>2, <2>3 DEF FiberOK, WordOK, ReceiverOK
  <1>27. /\ \A w \in Vm : \A x \in Members(strand'[w]) : x \in Members(strand[w])
         /\ \A w \in Vm : strand[w] = <<>> => strand'[w] = <<>>
    BY <1>2, <1>4, <1>8, PoppedFacts
  <1>28. RevokesKept
    BY <1>8, <1>27 DEF RevokesKept
  <1>29. VmsKept
    <2>1. ~destroyed[v]
      BY <1>2, <1>7 DEF VmOK
    <2>2. ASSUME NEW u \in Vm
          PROVE  /\ ~open'[u] => incoming'[u] = <<>>
                 /\ ~valid'[u] => running'[u] = Nil
                 /\ destroyed[u] => ~valid'[u] /\ strand'[u] = <<>> /\ after'[u] = Nil
      <3>1. VmOK(u)
        BY <1>2
      <3>2. open'[u] = open[u] /\ incoming'[u] = incoming[u] /\ valid'[u] = valid[u]
        BY <1>8
      <3>3. CASE u = v
        BY <1>7, <2>1, <3>1, <3>2, <3>3 DEF VmOK
      <3>4. CASE u # v
        <4>1. running'[u] = running[u] /\ after'[u] = after[u]
          BY <1>7, <1>15, <1>16, <1>18, <3>4
        <4> QED
          BY <1>27, <3>1, <3>2, <4>1 DEF VmOK
      <3> QED
        BY <3>3, <3>4
    <2> QED
      BY <2>2 DEF VmsKept
  <1>30. /\ \A g \in Fiber : g \notin {f, r} => Still(g, kind, home)
         /\ \A g \in Fiber : g \in {f, r} => FiberOK(g, kind1, home1, word1)'
    BY <1>24, <1>25, <1>26
  <1> QED
    BY <1>1, <1>2, <1>12, <1>14, <1>17, <1>21, <1>28, <1>29, <1>30, MoveStep

\* The last sender is gone: the receiver is told, if there still is one.
LEMMA StepRunNoSenders ==
    ASSUME Inv, NEW v \in Vm, RunNoSenders(v) PROVE Inv'
  <1>1. PICK kind, home, word : Accounts(kind, home, word)
    BY DEF Inv
  <1>2. Types /\ (\A w \in Vm : VmOK(w)) /\ strand \in [Vm -> Seq(Handler)]
    BY DEF Inv, Types
  <1>3. /\ strand[v] # <<>> /\ Head(strand[v]).op = "no_senders" /\ running[v] = Nil
        /\ after[v] = Nil
    BY <1>2, NextTaken DEF RunNoSenders
  <1>4. /\ strand' = Popped(strand, v)
        /\ UNCHANGED <<valid, counters, interrupted, incoming, open, imported, inboxLive,
                       addressVars, after, destroyed, crashed, taken>>
    BY DEF RunNoSenders, Pop, Popped
  <1>5. /\ strand' \in [Vm -> Seq(Handler)]
        /\ \A w \in Vm : \A x \in Members(strand'[w]) : x \in Members(strand[w])
        /\ \A w \in Vm : strand[w] = <<>> => strand'[w] = <<>>
    BY <1>2, <1>3, <1>4, PoppedFacts
  <1>6. Head(strand[v]).op \notin Owing
    BY <1>3 DEF Owing
  <1>7. CASE ~(nsenders[v] = 0 /\ recvFiber[v] # Nil)
    <2>1. UNCHANGED <<recvFiber, running, at, interrupter, ret>>
      BY <1>7 DEF RunNoSenders
    <2>2. Types'
      BY <1>2, <1>4, <1>5, <2>1 DEF Types, CoreTypeOK, counters, addressVars, IsMain
    <2>3. UNCHANGED <<running, valid, at, fiberData, recvFiber, incoming, open, after, destroyed,
                      taken, tx>>
      BY <1>4, <2>1 DEF fiberData, counters, addressVars
    <2> QED
      BY <1>1, <1>2, <1>3, <1>4, <1>6, <2>2, <2>3, PopStep
  <1>8. CASE nsenders[v] = 0 /\ recvFiber[v] # Nil
    <2>1. PICK r : r = recvFiber[v]
      OBVIOUS
    <2>2. /\ r \in Fiber /\ kind[r] = "receiver" /\ home[r] = v /\ r # Nil
          /\ VmOf[r] = v /\ at[r] = "receive" /\ valid[v] /\ open[v] /\ incoming[v] = <<>>
          /\ FiberOK(r, kind, home, word) /\ PlaceOK(r, kind)
      <3>1. /\ r \in Fiber /\ kind[r] = "receiver" /\ home[r] = v
            /\ VmOf[r] = v /\ at[r] = "receive" /\ valid[v] /\ open[v] /\ incoming[v] = <<>>
            /\ FiberOK(r, kind, home, word)
        BY <1>1, <1>2, <1>8, <2>1, Receiver
      <3> QED
        BY <1>8, <2>1, <3>1 DEF FiberOK
    <2>3. recvFiber' = [recvFiber EXCEPT ![v] = Nil] /\ FiberResume(r, TRUE, "no_senders")
      BY <1>8, <2>1 DEF RunNoSenders
    <2>4. PICK kind1, home1, word1 :
              Moved(kind, home, word, r, "none", v, "none", kind1, home1, word1)
      <3>1. Ghosts(kind, home) /\ "none" \in Kind
        BY <1>1 DEF Accounts, Kind
      <3>2. Moved(kind, home, word, r, "none", v, "none",
                  Put(kind, r, "none"), Put(home, r, v), Put(word, r, "none"))
        BY <2>2, <3>1, GhostMove
      <3> QED
        BY <3>2
    <2>5. /\ Ghosts(kind1, home1) /\ kind1[r] = "none"
          /\ Elsewhere({r}, kind, home, word, kind1, home1, word1)
      BY <2>4 DEF Moved
    <2>6. OnStrand(strand', kind1, home1, word1)
      <3>1. PICK str : str = strand'
        OBVIOUS
      <3>2. OnStrand(Popped(strand, v), kind, home, word)
        BY <1>1, <1>2, <1>3, <1>6, PopQuiet DEF Accounts
      <3>3. str \in [Vm -> Seq(Handler)] /\ OnStrand(str, kind, home, word)
        BY <1>4, <1>5, <3>1, <3>2
      <3>4. \A g \in Fiber : g \in {r} => kind[g] \notin Owing /\ kind1[g] \notin Owing
        BY <2>2, <2>5 DEF Owing
      <3>5. OnStrand(str, kind1, home1, word1)
        BY <2>5, <3>3, <3>4, MoveElsewhere
      <3> QED
        BY <3>1, <3>5
    <2>7. PICK rec1 : rec1 = recvFiber'
      OBVIOUS
    <2>8. /\ rec1 \in [Vm -> Fiber \cup {Nil}] /\ rec1[v] = Nil
          /\ \A w \in Vm : w # v => rec1[w] = recvFiber[w]
      BY <1>2, <2>3, <2>7 DEF Types
    <2>9. Waiting(incoming', recvFiber', after', kind1, home1)
      <3>1. Waiting(incoming, recvFiber, after, kind, home) /\ Nil \notin Fiber
        BY <1>1, VmContextAssumption DEF Accounts
      <3>2. \A w \in Vm : ResumesOnce(incoming[w])
        BY <3>1 DEF Waiting
      <3>3. \A w \in Vm, g \in Fiber : g \notin {r} =>
                /\ g \in Resumed(incoming[w]) <=> g \in Resumed(incoming[w])
                /\ rec1[w] = g <=> recvFiber[w] = g
                /\ after[w] = g <=> after[w] = g
        BY <2>1, <2>8, <3>1
      <3>4. \A w \in Vm : /\ r \notin Resumed(incoming[w]) /\ after[w] # r
                          /\ recvFiber[w] = r => w = v
        BY <2>2, <3>1 DEF Waiting
      <3>5. \A w \in Vm : rec1[w] # r
        BY <2>2, <2>8, <3>4
      <3>6. \A w \in Vm, g \in Fiber : g \in {r} =>
                /\ g \in Resumed(incoming[w]) <=> kind1[g] = "incoming" /\ home1[g] = w
                /\ rec1[w] = g <=> kind1[g] = "receiver" /\ home1[g] = w
                /\ after[w] = g <=> kind1[g] = "after" /\ home1[g] = w
        BY <2>5, <3>4, <3>5
      <3>7. Waiting(incoming, rec1, after, kind1, home1)
        BY <2>5, <3>1, <3>2, <3>3, <3>6, WaitMove
      <3> QED
        BY <1>4, <2>7, <3>7
    <2>10. /\ running' \in [Vm -> Fiber \cup {Nil}]
           /\ at' \in [Fiber -> Suspended \cup Gone \cup {"running"}]
           /\ interrupter' \in [Fiber -> Vm \cup {Receiving} \cup {Nil}]
           /\ ret' \in [Fiber -> Result]
           /\ running'[VmOf[r]] = r /\ at'[r] = "running" /\ interrupter'[r] = Nil
           /\ \A w \in Vm : w # VmOf[r] => running'[w] = running[w]
           /\ \A g \in Fiber : g # r => at'[g] = at[g] /\ interrupter'[g] = interrupter[g]
      <3>1. PICK x \in Result, b \in BOOLEAN : x = "no_senders" /\ b = TRUE
        BY DEF Result
      <3>2. FiberResume(r, b, x) /\ (~b => at[r] = "start")
        BY <2>3, <3>1
      <3> QED
        BY <1>2, <2>2, <3>2, ResumeTypes
    <2>11. Types'
      BY <1>2, <1>4, <1>5, <2>7, <2>8, <2>10
      DEF Types, CoreTypeOK, counters, addressVars, IsMain
    <2>12. \A g \in Fiber : g # r => Stays(g)
      <3>1. running[VmOf[r]] = Nil /\ UNCHANGED <<valid, counters, interrupted, destroyed>>
        BY <1>3, <1>4, <2>2
      <3> QED
        BY <2>2, <2>10, <3>1, OthersStay
    <2>13. ASSUME NEW g \in Fiber, g \notin {r} PROVE Still(g, kind, home)
      <3>1. FiberOK(g, kind, home, word)
        BY <1>1 DEF Accounts
      <3> QED
        BY <1>4, <2>12, <2>13, <3>1
        DEF Still, FiberOK, ReceiverOK, SenderOK, addressVars
    <2>14. FiberOK(r, kind1, home1, word1)'
      <3>1. /\ valid[VmOf[r]] /\ kind[r] # "none" /\ valid'[VmOf[r]] /\ kind1[r] = "none"
            /\ destroyed'[VmOf[r]] = destroyed[VmOf[r]]
        BY <1>4, <2>2, <2>5
      <3>2. at[Main[VmOf[r]]] # "unborn" => at'[Main[VmOf[r]]] # "unborn"
        BY <2>2, <2>10, VmContextAssumption
      <3> QED
        BY <2>2, <2>10, <3>1, <3>2, FiberRuns
    <2>15. RevokesKept
      BY <1>4, <1>5 DEF RevokesKept
    <2>16. VmsKept
      <3>1. ASSUME NEW u \in Vm
            PROVE  /\ ~open'[u] => incoming'[u] = <<>>
                   /\ ~valid'[u] => running'[u] = Nil
                   /\ destroyed[u] => ~valid'[u] /\ strand'[u] = <<>> /\ after'[u] = Nil
        <4>1. VmOK(u) /\ (valid'[u] => valid[u]) /\ (u = v => valid[u])
          BY <1>2, <1>4, <2>2
        <4>2. u # v => running'[u] = running[u]
          BY <2>2, <2>10
        <4> QED
          BY <1>4, <1>5, <4>1, <4>2 DEF VmOK
      <3> QED
        BY <3>1 DEF VmsKept
    <2>17. /\ \A g \in Fiber : g \notin {r} => Still(g, kind, home)
           /\ \A g \in Fiber : g \in {r} => FiberOK(g, kind1, home1, word1)'
      BY <2>13, <2>14
    <2> QED
      BY <1>1, <1>2, <2>5, <2>6, <2>9, <2>11, <2>15, <2>16, <2>17, MoveStep
  <1> QED
    BY <1>7, <1>8

-----------------------------------------------------------------------------
(* A message is revoked.                                                     *)

\* deque::erase() of place k.
LEMMA EraseFacts ==
    ASSUME NEW q \in Seq(Sender), NEW k \in 1..Len(q)
    PROVE  /\ SeqExt!RemoveAt(q, k) \in Seq(Sender)
           /\ Len(q) \in Nat /\ Len(SeqExt!RemoveAt(q, k)) = Len(q) - 1
           /\ \A i \in 1..(k - 1) : SeqExt!RemoveAt(q, k)[i] = q[i]
           /\ \A i \in k..(Len(q) - 1) : SeqExt!RemoveAt(q, k)[i] = q[i + 1]
  <1> DEFINE a == SubSeq(q, 1, k - 1)
             b == SubSeq(q, k + 1, Len(q))
             r == a \o b
  <1>1. a \in Seq(Sender) /\ Len(a) = k - 1 /\ \A i \in 1..(k - 1) : a[i] = q[i]
    OBVIOUS
  <1>2. b \in Seq(Sender) /\ Len(b) = Len(q) - k /\ \A i \in 1..(Len(q) - k) : b[i] = q[k + i]
    OBVIOUS
  <1> HIDE DEF a, b
  <1>3. /\ r \in Seq(Sender) /\ Len(r) = Len(a) + Len(b)
        /\ \A i \in 1..(Len(a) + Len(b)) : r[i] = IF i <= Len(a) THEN a[i] ELSE b[i - Len(a)]
    BY <1>1, <1>2, ConcatProperties
  <1> HIDE DEF r
  <1>4. Len(q) \in Nat /\ Len(r) = Len(q) - 1
    BY <1>1, <1>2, <1>3
  <1>5. ASSUME NEW i \in 1..(k - 1) PROVE r[i] = q[i]
    <2>1. i \in 1..(Len(a) + Len(b)) /\ i <= Len(a)
      BY <1>1, <1>2, <1>4
    <2> QED
      BY <1>1, <1>3, <2>1
  <1>6. ASSUME NEW i \in k..(Len(q) - 1) PROVE r[i] = q[i + 1]
    <2>1. k \in Int /\ i \in Int /\ k >= 1 /\ i >= k /\ i <= Len(q) - 1
      BY <1>4
    <2>2. /\ i \in 1..(Len(a) + Len(b)) /\ ~(i <= Len(a))
          /\ i - Len(a) = i - (k - 1) /\ i - (k - 1) \in 1..(Len(q) - k)
          /\ k + (i - (k - 1)) = i + 1
      BY <1>1, <1>2, <1>4, <2>1
    <2>3. r[i] = b[i - (k - 1)]
      BY <1>3, <2>2
    <2> QED
      BY <1>2, <2>2, <2>3
  <1> QED
    BY <1>3, <1>4, <1>5, <1>6 DEF SeqExt!RemoveAt, r, a, b

\* The sender at place k is no longer queued, the others are.
LEMMA EraseSenders ==
    ASSUME NEW q \in Seq(Sender), NEW k \in 1..Len(q), ResumesOnce(q)
    PROVE  /\ ResumesOnce(SeqExt!RemoveAt(q, k))
           /\ Resumed(SeqExt!RemoveAt(q, k)) = Resumed(q) \ {q[k].fiber}
  <1>1. PICK r : r = SeqExt!RemoveAt(q, k)
    OBVIOUS
  <1>2. /\ Len(q) \in Nat /\ Len(r) = Len(q) - 1
        /\ \A i \in 1..(k - 1) : r[i] = q[i]
        /\ \A i \in k..(Len(q) - 1) : r[i] = q[i + 1]
    BY <1>1, EraseFacts
  <1>3. \A i \in 1..Len(r) : \E j \in 1..Len(q) :
           r[i] = q[j] /\ j # k /\ (i < k => j = i) /\ (i >= k => j = i + 1)
    <2> SUFFICES ASSUME NEW i \in 1..Len(r)
                 PROVE  \E j \in 1..Len(q) :
                           r[i] = q[j] /\ j # k /\ (i < k => j = i) /\ (i >= k => j = i + 1)
      OBVIOUS
    <2>1. CASE i < k
      BY <1>2, <2>1
    <2>2. CASE i >= k
      BY <1>2, <2>2
    <2> QED
      BY <1>2, <2>1, <2>2
  <1>4. \A j \in 1..Len(q) : j # k => \E i \in 1..Len(r) : r[i] = q[j]
    <2> SUFFICES ASSUME NEW j \in 1..Len(q), j # k PROVE \E i \in 1..Len(r) : r[i] = q[j]
      OBVIOUS
    <2>1. CASE j < k
      BY <1>2, <2>1
    <2>2. CASE j > k
      <3>1. j - 1 \in 1..Len(r) /\ j - 1 \in k..(Len(q) - 1) /\ (j - 1) + 1 = j
        BY <1>2, <2>2
      <3>2. r[j - 1] = q[j]
        BY <1>2, <3>1
      <3> QED
        BY <3>1, <3>2
    <2> QED
      BY <1>2, <2>1, <2>2
  <1>5. ResumesOnce(r)
    <2> SUFFICES ASSUME NEW i \in 1..Len(r), NEW j \in 1..Len(r), r[i].fiber = r[j].fiber
                 PROVE  i = j
      BY DEF ResumesOnce
    <2>1. PICK i1 \in 1..Len(q) :
             r[i] = q[i1] /\ i1 # k /\ (i < k => i1 = i) /\ (i >= k => i1 = i + 1)
      BY <1>3
    <2>2. PICK j1 \in 1..Len(q) :
             r[j] = q[j1] /\ j1 # k /\ (j < k => j1 = j) /\ (j >= k => j1 = j + 1)
      BY <1>3
    <2>3. i1 = j1
      BY <2>1, <2>2 DEF ResumesOnce
    <2> QED
      BY <1>2, <2>1, <2>2, <2>3
  <1>6. Resumed(r) = Resumed(q) \ {q[k].fiber}
    <2>1. ASSUME NEW x \in Resumed(r) PROVE x \in Resumed(q) /\ x # q[k].fiber
      <3>1. PICK i \in 1..Len(r) : x = r[i].fiber
        BY DEF Resumed
      <3>2. PICK j \in 1..Len(q) : r[i] = q[j] /\ j # k
        BY <1>3
      <3>3. q[j].fiber # q[k].fiber
        BY <3>2 DEF ResumesOnce
      <3> QED
        BY <3>1, <3>2, <3>3 DEF Resumed
    <2>2. ASSUME NEW x \in Resumed(q), x # q[k].fiber PROVE x \in Resumed(r)
      <3>1. PICK j \in 1..Len(q) : x = q[j].fiber /\ j # k
        BY <2>2 DEF Resumed
      <3> QED
        BY <1>4, <3>1 DEF Resumed
    <2> QED
      BY <2>1, <2>2
  <1> QED
    BY <1>1, <1>5, <1>6

\* The sender is told that it was interrupted, if its message is still queued.
LEMMA StepRunRevoke ==
    ASSUME Inv, NEW v \in Vm, RunRevoke(v) PROVE Inv'
  <1>1. PICK kind, home, word : Accounts(kind, home, word)
    BY DEF Inv
  <1>2. Types /\ (\A w \in Vm : VmOK(w)) /\ strand \in [Vm -> Seq(Handler)]
    BY DEF Inv, Types
  <1>3. PICK h : h = Head(strand[v])
    OBVIOUS
  <1>4. /\ strand[v] # <<>> /\ h.op = "revoke" /\ running[v] = Nil
        /\ h \in Members(strand[v]) /\ h \in Handler /\ h.fiber \in Fiber
    <2>1. /\ strand[v] # <<>> /\ h.op = "revoke" /\ running[v] = Nil
          /\ h \in Members(strand[v]) /\ h \in Handler
      BY <1>2, <1>3, NextTaken DEF RunRevoke
    <2> QED
      BY <2>1, HandlerFacts
  <1>5. PICK f \in Fiber : f = h.fiber
    BY <1>4
  <1>6. PICK st : st = [Now EXCEPT !.strand = Popped(strand, v)]
    OBVIOUS
  <1>7. st \in State /\ st.strand = Popped(strand, v) /\ st.nsenders = nsenders
    <2>1. Popped(strand, v) \in [Vm -> Seq(Handler)] /\ nsenders \in [Vm -> Int]
      BY <1>2, <1>4, PoppedFacts DEF Types
    <2>2. st = [strand |-> Popped(strand, v), nsenders |-> nsenders]
      BY <1>6 DEF Now
    <2> QED
      BY <2>1, <2>2 DEF State
  <1>8. Head(strand[v]).op \notin Owing
    BY <1>3, <1>4 DEF Owing
  <1>9. UNCHANGED <<running, valid, at, fiberData, ret, recvFiber, open, imported, inboxLive,
                    tx, after, destroyed, crashed, taken>>
    BY DEF RunRevoke
  <1>10. CASE Becomes(st) /\ UNCHANGED <<incoming, forgotten>>
    <2>1. strand' = Popped(strand, v) /\ nsenders' = nsenders
      BY <1>7, <1>10 DEF Becomes
    <2>2. strand' \in [Vm -> Seq(Handler)]
      BY <1>2, <1>4, <2>1, PoppedFacts
    <2>3. Types'
      BY <1>2, <1>9, <1>10, <2>1, <2>2 DEF Types, CoreTypeOK, fiberData, IsMain
    <2>4. UNCHANGED <<running, valid, at, fiberData, recvFiber, incoming, open, after, destroyed,
                      taken, tx>>
      BY <1>9, <1>10
    <2> QED
      BY <1>1, <1>2, <1>4, <1>8, <2>1, <2>3, <2>4, PopStep
  <1>11. ASSUME NEW i \in PlacesOf(f, v),
                incoming' = [incoming EXCEPT ![v] = SeqExt!RemoveAt(@, i)],
                forgotten' = Plus(forgotten, ForgottenByErase(incoming[v], i)),
                Becomes(PostIn(Drop(st, DroppedByErase(incoming[v], i)),
                               VmOf[f], Resume(f, "interrupted")))
         PROVE  Inv'
    <2>1. /\ incoming[v] \in Seq(Sender) /\ i \in 1..Len(incoming[v])
          /\ incoming[v][i].fiber = f /\ f \in Resumed(incoming[v])
      <3>1. incoming[v] \in Seq(Sender) /\ DOMAIN incoming[v] = 1..Len(incoming[v])
        BY <1>2, QueueFacts DEF Types
      <3> QED
        BY <3>1 DEF PlacesOf, Resumed
    <2>2. /\ kind[f] = "incoming" /\ home[f] = v /\ VmOf[f] \in Vm /\ FiberOK(f, kind, home, word)
          /\ ResumesOnce(incoming[v])
      BY <1>1, <2>1, VmContextAssumption DEF Accounts, Waiting
    <2>3. PICK bag : bag = DroppedByErase(incoming[v], i)
      OBVIOUS
    <2>4. bag \in [Vm -> Int]
      BY <2>3 DEF DroppedByErase, CarriedBy, NoAddress
    <2>5. PICK st1 : st1 = Drop(st, bag)
      OBVIOUS
    <2>6. st1 \in State /\ Told(st.strand, st1.strand)
      BY <1>7, <2>4, <2>5, DropFacts
    <2>7. PICK n : n = Resume(f, "interrupted")
      OBVIOUS
    <2>8. /\ n \in Handler /\ n.op = "resume" /\ n.fiber = f /\ n.clear = TRUE
          /\ n.val = "interrupted"
      BY <2>7, Made, Shapes DEF Result
    <2>9. PICK u \in Vm : u = VmOf[f]
      BY <2>2
    <2>10. /\ strand' = Posted(st1.strand, u, n) /\ nsenders' = st1.nsenders
      <3>1. PostIn(st1, u, n).strand = Posted(st1.strand, u, n) /\ PostIn(st1, u, n).nsenders = st1.nsenders
        BY <2>6, <2>8, PostInFacts
      <3> QED
        BY <1>11, <2>3, <2>5, <2>7, <2>9, <3>1 DEF Becomes
    <2>11. st.strand \in [Vm -> Seq(Handler)] /\ st1.strand \in [Vm -> Seq(Handler)]
           /\ st1.nsenders \in [Vm -> Int]
      BY <1>7, <2>6, StateFacts
    <2>12. PICK kind1, home1, word1 :
              Moved(kind, home, word, f, "resume", u, "interrupted", kind1, home1, word1)
      <3>1. Ghosts(kind, home) /\ "resume" \in Kind
        BY <1>1 DEF Accounts, Kind
      <3>2. Moved(kind, home, word, f, "resume", u, "interrupted",
                  Put(kind, f, "resume"), Put(home, f, u), Put(word, f, "interrupted"))
        BY <3>1, GhostMove
      <3> QED
        BY <3>2
    <2>13. /\ Ghosts(kind1, home1) /\ kind1[f] = "resume" /\ home1[f] = u
           /\ word1[f] = "interrupted"
           /\ Elsewhere({f}, kind, home, word, kind1, home1, word1)
      BY <2>12 DEF Moved
    <2>14. OnStrand(strand', kind1, home1, word1)
      <3>1. OnStrand(Popped(strand, v), kind, home, word)
        BY <1>1, <1>2, <1>4, <1>8, PopQuiet DEF Accounts
      <3>2. PICK s0, s1 : s0 = st.strand /\ s1 = st1.strand
        OBVIOUS
      <3>3. /\ s0 \in [Vm -> Seq(Handler)] /\ s1 \in [Vm -> Seq(Handler)] /\ Told(s0, s1)
            /\ OnStrand(s0, kind, home, word)
        BY <1>7, <2>6, <2>11, <3>1, <3>2
      <3>4. OnStrand(s1, kind, home, word)
        BY <3>3, OnStrandTold
      <3>5. /\ n.op \in Owing /\ n.fiber \in Fiber /\ kind[n.fiber] \notin Owing
            /\ Elsewhere({n.fiber}, kind, home, word, kind1, home1, word1)
            /\ kind1[n.fiber] = n.op /\ home1[n.fiber] = u
            /\ n.op = "resume" => word1[n.fiber] = n.val /\ (n.clear <=> n.val # "none")
        BY <2>2, <2>8, <2>13 DEF Owing
      <3>6. OnStrand(Posted(s1, u, n), kind1, home1, word1)
        BY <2>8, <3>3, <3>4, <3>5, PostOwed
      <3> QED
        BY <2>10, <3>2, <3>6
    <2>15. /\ strand' \in [Vm -> Seq(Handler)]
           /\ \A w \in Vm : \A x \in Members(strand'[w]) : x.op = "revoke" => x \in Members(strand[w])
           /\ \A w \in Vm : strand[w] = <<>> /\ ~CanLock(w) /\ w # u => strand'[w] = <<>>
      <3>1. IsPost(strand', st1.strand, u, n)
        <4>1. PICK s1 : s1 = st1.strand
          OBVIOUS
        <4>2. IsPost(Posted(s1, u, n), s1, u, n)
          BY <2>8, <2>11, <4>1, PostedFacts
        <4> QED
          BY <2>10, <4>1, <4>2
      <3>2. Grown(st.strand, st1.strand, {})
        BY <2>6, <2>11, GrownTold
      <3>3. /\ \A w \in Vm : \A x \in Members(st.strand[w]) : x \in Members(strand[w])
            /\ \A w \in Vm : strand[w] = <<>> => st.strand[w] = <<>>
        <4>1. /\ \A w \in Vm : \A x \in Members(Popped(strand, v)[w]) : x \in Members(strand[w])
              /\ \A w \in Vm : strand[w] = <<>> => Popped(strand, v)[w] = <<>>
          BY <1>2, <1>4, PoppedFacts
        <4> QED
          BY <1>7, <4>1
      <3>4. \A w \in Vm : \A x \in Members(strand'[w]) : x.op = "revoke" => x \in Members(strand[w])
        BY <2>8, <3>1, <3>2, <3>3 DEF IsPost, Grown, OfSender
      <3>5. \A w \in Vm : strand[w] = <<>> /\ ~CanLock(w) /\ w # u => strand'[w] = <<>>
        BY <3>1, <3>2, <3>3 DEF IsPost, Grown, OfSender
      <3> QED
        BY <3>1, <3>4, <3>5 DEF IsPost
    <2>16. PICK inc1 : inc1 = incoming'
      OBVIOUS
    <2>17. /\ SeqExt!RemoveAt(incoming[v], i) \in Seq(Sender)
           /\ ResumesOnce(SeqExt!RemoveAt(incoming[v], i))
           /\ Resumed(SeqExt!RemoveAt(incoming[v], i)) = Resumed(incoming[v]) \ {f}
      <3>1. PICK q \in Seq(Sender) : q = incoming[v]
        BY <2>1
      <3>2. i \in 1..Len(q) /\ ResumesOnce(q) /\ q[i].fiber = f
        BY <2>1, <2>2, <3>1
      <3>3. /\ SeqExt!RemoveAt(q, i) \in Seq(Sender) /\ ResumesOnce(SeqExt!RemoveAt(q, i))
            /\ Resumed(SeqExt!RemoveAt(q, i)) = Resumed(q) \ {q[i].fiber}
        BY <3>2, EraseFacts, EraseSenders
      <3> QED
        BY <3>1, <3>2, <3>3
    <2>18. /\ inc1 \in [Vm -> Seq(Sender)] /\ inc1[v] = SeqExt!RemoveAt(incoming[v], i)
           /\ \A w \in Vm : w # v => inc1[w] = incoming[w]
      BY <1>2, <1>11, <2>16, <2>17 DEF Types
    <2>19. forgotten' \in [Vm -> Nat]
      <3>1. PICK b : b = ForgottenByErase(incoming[v], i)
        OBVIOUS
      <3>2. b \in [Vm -> Nat]
        BY <3>1 DEF ForgottenByErase, CarriedBy, NoAddress
      <3>3. forgotten' = Plus(forgotten, b) /\ forgotten \in [Vm -> Nat]
        BY <1>2, <1>11, <3>1 DEF Types
      <3>4. Plus(forgotten, b) \in [Vm -> Nat]
        BY <3>2, <3>3 DEF Plus
      <3> QED
        BY <3>3, <3>4
    <2>20. Types'
      BY <1>2, <1>9, <2>10, <2>11, <2>15, <2>16, <2>18, <2>19
      DEF Types, CoreTypeOK, fiberData, IsMain
    <2>21. Waiting(incoming', recvFiber', after', kind1, home1)
      <3>1. Waiting(incoming, recvFiber, after, kind, home)
        BY <1>1 DEF Accounts
      <3>2. \A w \in Vm : ResumesOnce(inc1[w])
        BY <2>17, <2>18, <3>1 DEF Waiting
      <3>3. \A w \in Vm, g \in Fiber : g \notin {f} =>
                /\ g \in Resumed(inc1[w]) <=> g \in Resumed(incoming[w])
                /\ recvFiber[w] = g <=> recvFiber[w] = g
                /\ after[w] = g <=> after[w] = g
        BY <2>17, <2>18
      <3>4. \A w \in Vm : recvFiber[w] # f /\ after[w] # f /\ (f \in Resumed(incoming[w]) => w = v)
        BY <2>2, <3>1 DEF Waiting
      <3>5. \A w \in Vm : f \notin Resumed(inc1[w])
        BY <2>17, <2>18, <3>4
      <3>6. \A w \in Vm, g \in Fiber : g \in {f} =>
                /\ g \in Resumed(inc1[w]) <=> kind1[g] = "incoming" /\ home1[g] = w
                /\ recvFiber[w] = g <=> kind1[g] = "receiver" /\ home1[g] = w
                /\ after[w] = g <=> kind1[g] = "after" /\ home1[g] = w
        BY <2>13, <3>4, <3>5
      <3>7. Waiting(inc1, recvFiber, after, kind1, home1)
        BY <2>13, <3>1, <3>2, <3>3, <3>6, WaitMove
      <3> QED
        BY <1>9, <2>16, <3>7
    <2>22. \A g \in Fiber : Stays(g) /\ FiberOK(g, kind, home, word)
      BY <1>1, <1>9 DEF Stays, fiberData, Accounts
    <2>23. incoming[v] # <<>> /\ open[v]
      <3>1. incoming[v] # <<>>
        BY <2>1
      <3>2. VmOK(v) /\ open[v] \in BOOLEAN
        BY <1>2 DEF Types
      <3> QED
        BY <3>1, <3>2 DEF VmOK
    <2>24. \A g \in Fiber : Still(g, kind, home)
      <3>1. ASSUME NEW g \in Fiber, kind[g] = "receiver"
            PROVE  open'[VmOf[g]] /\ incoming'[VmOf[g]] = <<>>
        <4>1. open[VmOf[g]] /\ incoming[VmOf[g]] = <<>> /\ VmOf[g] \in Vm
          BY <2>22, <3>1, VmContextAssumption DEF FiberOK, ReceiverOK
        <4>2. VmOf[g] # v
          BY <2>23, <4>1
        <4> QED
          BY <1>9, <2>16, <2>18, <4>1, <4>2
      <3> QED
        BY <1>9, <2>22, <3>1 DEF Still, FiberOK, SenderOK
    <2>25. FiberOK(f, kind1, home1, word1)'
      <3>1. /\ kind[f] \in InSend \cup {"receiver"} /\ taken[f] \in BOOLEAN /\ taken'[f] = taken[f]
            /\ ~taken[f]
        BY <1>2, <1>9, <2>2 DEF InSend, Types, FiberOK, SenderOK
      <3>2. at[f] = "send" => interrupted[f]
        <4>1. valid[VmOf[f]] => interrupted[f]
          BY <1>2, <1>4, <1>5 DEF VmOK
        <4>2. ~valid[VmOf[f]] => at[f] = "dead"
          BY <2>2 DEF FiberOK, PlaceOK
        <4> QED
          BY <4>1, <4>2
      <3>3. PICK x : x = "interrupted"
        OBVIOUS
      <3>4. /\ word1[f] = x /\ x \in {"sent", "channel_closed", "interrupted"}
            /\ at[f] = "send" => (x = "sent" <=> taken'[f]) /\ (x = "interrupted" => interrupted[f])
            /\ home1[f] = VmOf[f]
        BY <2>9, <2>13, <3>1, <3>2, <3>3
      <3> QED
        BY <2>13, <2>22, <3>1, <3>4, FiberWoken
    <2>26. RevokesKept
      BY <1>9, <2>15 DEF RevokesKept, fiberData
    <2>27. VmsKept
      <3>1. ~destroyed[u]
        BY <2>2, <2>9 DEF FiberOK, PlaceOK
      <3>2. ASSUME NEW w \in Vm
            PROVE  /\ ~open'[w] => incoming'[w] = <<>>
                   /\ ~valid'[w] => running'[w] = Nil
                   /\ destroyed[w] => ~valid'[w] /\ strand'[w] = <<>> /\ after'[w] = Nil
        <4>1. VmOK(w)
          BY <1>2
        <4>2. ~open'[w] => incoming'[w] = <<>>
          BY <1>9, <2>16, <2>18, <2>23, <4>1 DEF VmOK
        <4>3. destroyed[w] => strand'[w] = <<>>
          BY <2>15, <3>1, <4>1 DEF VmOK, CanLock
        <4> QED
          BY <1>9, <4>1, <4>2, <4>3 DEF VmOK
      <3> QED
        BY <3>2 DEF VmsKept
    <2>28. /\ \A g \in Fiber : g \notin {f} => Still(g, kind, home)
           /\ \A g \in Fiber : g \in {f} => FiberOK(g, kind1, home1, word1)'
      BY <2>24, <2>25
    <2> QED
      BY <1>1, <1>2, <2>13, <2>14, <2>20, <2>21, <2>26, <2>27, <2>28, MoveStep
  <1>12. \/ Becomes(st) /\ UNCHANGED <<incoming, forgotten>>
         \/ \E i \in PlacesOf(f, v) :
               /\ incoming' = [incoming EXCEPT ![v] = SeqExt!RemoveAt(@, i)]
               /\ forgotten' = Plus(forgotten, ForgottenByErase(incoming[v], i))
               /\ Becomes(PostIn(Drop(st, DroppedByErase(incoming[v], i)),
                                 VmOf[f], Resume(f, "interrupted")))
    BY <1>3, <1>5, <1>6 DEF RunRevoke, Pop, Popped
  <1> QED
    BY <1>10, <1>11, <1>12
-----------------------------------------------------------------------------
(* Calls that take or wait for a message.                                    *)

\* A receiver takes a queued message and wakes its sender.
LEMMA StepReceiveQueued ==
    ASSUME Inv, NEW f \in Fiber, ReceiveQueued(f) PROVE Inv'
  <1>1. PICK kind, home, word : Accounts(kind, home, word)
    BY DEF Inv
  <1>2. Types /\ (\A w \in Vm : VmOK(w)) /\ strand \in [Vm -> Seq(Handler)]
    BY DEF Inv, Types
  <1>3. PICK v \in Vm : v = VmOf[f]
    BY VmContextAssumption
  <1>4. PICK q \in Seq(Sender) : q = incoming[v]
    BY <1>2 DEF Types
  <1>5. PICK s : s = Head(q)
    OBVIOUS
  <1>6. q # <<>> /\ ResumesOnce(q)
    BY <1>1, <1>3, <1>4 DEF ReceiveQueued, Accounts, Waiting
  <1>7. /\ s \in Sender /\ s.fiber \in Fiber /\ s.fiber \in Resumed(q) /\ Tail(q) \in Seq(Sender)
        /\ ResumesOnce(Tail(q)) /\ Resumed(Tail(q)) = Resumed(q) \ {s.fiber}
    <2>1. /\ s \in Sender /\ s.fiber \in Resumed(q) /\ Tail(q) \in Seq(Sender)
          /\ ResumesOnce(Tail(q)) /\ Resumed(Tail(q)) = Resumed(q) \ {s.fiber}
      BY <1>5, <1>6, TailFacts
    <2> QED
      BY <2>1 DEF Sender
  <1>8. PICK g \in Fiber : g = s.fiber
    BY <1>7
  <1>9. PICK u \in Vm : u = VmOf[g]
    BY VmContextAssumption
  <1>10. PICK h : h = Resume(g, "sent")
    BY SMTT(30)
  <1>11. /\ strand' = Posted(strand, u, h) /\ incoming' = [incoming EXCEPT ![v] = Tail(@)]
         /\ taken' = [taken EXCEPT ![g] = TRUE]
         /\ tx' = [tx EXCEPT ![v] = Plus(@, CarriedBy(s.msg))]
         /\ ret' = [ret EXCEPT ![f] = "message"]
         /\ UNCHANGED <<running, at, valid, fiberData, recvFiber, open, imported, inboxLive, nsenders,
                        forgotten, after, destroyed, crashed>>
    BY <1>3, <1>4, <1>5, <1>8, <1>9, <1>10 DEF ReceiveQueued, Post, Posted, Return
  <1>12. kind[g] = "incoming" /\ home[g] = v /\ FiberOK(g, kind, home, word)
    BY <1>1, <1>4, <1>7, <1>8 DEF Accounts, Waiting
  <1>13. h \in Handler /\ h.op = "resume" /\ h.fiber = g /\ h.clear = TRUE /\ h.val = "sent"
    BY <1>10, Made, Shapes DEF Result
  <1>14. PICK kind1, home1, word1 :
            Moved(kind, home, word, g, "resume", u, "sent", kind1, home1, word1)
    <2>1. Ghosts(kind, home) /\ "resume" \in Kind
      BY <1>1 DEF Accounts, Kind
    <2>2. Moved(kind, home, word, g, "resume", u, "sent",
                Put(kind, g, "resume"), Put(home, g, u), Put(word, g, "sent"))
      BY <2>1, GhostMove
    <2> QED
      BY <2>2
  <1>15. /\ Ghosts(kind1, home1) /\ kind1[g] = "resume" /\ home1[g] = u /\ word1[g] = "sent"
         /\ Elsewhere({g}, kind, home, word, kind1, home1, word1)
    BY <1>14 DEF Moved
  <1>16. OnStrand(strand', kind1, home1, word1)
    <2>1. /\ OnStrand(strand, kind, home, word) /\ h.op \in Owing /\ h.fiber \in Fiber
          /\ kind[h.fiber] \notin Owing
          /\ Elsewhere({h.fiber}, kind, home, word, kind1, home1, word1)
          /\ kind1[h.fiber] = h.op /\ home1[h.fiber] = u
          /\ h.op = "resume" => word1[h.fiber] = h.val /\ (h.clear <=> h.val # "none")
      BY <1>1, <1>12, <1>13, <1>15 DEF Accounts, Owing
    <2>2. OnStrand(Posted(strand, u, h), kind1, home1, word1)
      BY <1>2, <1>13, <2>1, PostOwed
    <2> QED
      BY <1>11, <2>2
  <1>17. IsPost(strand', strand, u, h)
    BY <1>2, <1>11, <1>13, PostedFacts
  <1>18. PICK inc1 : inc1 = incoming'
    OBVIOUS
  <1>19. /\ inc1 \in [Vm -> Seq(Sender)] /\ inc1[v] = Tail(q)
         /\ \A w \in Vm : w # v => inc1[w] = incoming[w]
    BY <1>2, <1>4, <1>7, <1>11, <1>18 DEF Types
  <1>20. /\ tx' \in [Vm -> [Vm -> Nat]] /\ \A a, b \in Vm : tx'[a][b] >= tx[a][b]
    BY <1>2, <1>11, Arrives DEF Types
  <1>21. /\ taken' \in [Fiber -> BOOLEAN] /\ taken'[g] = TRUE
         /\ \A x \in Fiber : x # g => taken'[x] = taken[x]
    BY <1>2, <1>11 DEF Types
  <1>22. ret' \in [Fiber -> Result]
    BY <1>2, <1>11 DEF Types, CoreTypeOK, Result
  <1>23. Types'
    BY <1>2, <1>11, <1>17, <1>18, <1>19, <1>20, <1>21, <1>22
    DEF Types, CoreTypeOK, IsPost, fiberData, IsMain
  <1>24. Waiting(incoming', recvFiber', after', kind1, home1)
    <2>1. Waiting(incoming, recvFiber, after, kind, home)
      BY <1>1 DEF Accounts
    <2>2. \A w \in Vm : ResumesOnce(inc1[w])
      BY <1>7, <1>19, <2>1, ZenonT(60) DEF Waiting
    <2>3. \A w \in Vm, x \in Fiber : x \notin {g} =>
              /\ x \in Resumed(inc1[w]) <=> x \in Resumed(incoming[w])
              /\ recvFiber[w] = x <=> recvFiber[w] = x
              /\ after[w] = x <=> after[w] = x
      BY <1>4, <1>7, <1>8, <1>19
    <2>4. \A w \in Vm : recvFiber[w] # g /\ after[w] # g /\ (g \in Resumed(incoming[w]) => w = v)
      BY <1>12, <2>1 DEF Waiting
    <2>5. \A w \in Vm : g \notin Resumed(inc1[w])
      BY <1>7, <1>8, <1>19, <2>4
    <2>6. \A w \in Vm, x \in Fiber : x \in {g} =>
              /\ x \in Resumed(inc1[w]) <=> kind1[x] = "incoming" /\ home1[x] = w
              /\ recvFiber[w] = x <=> kind1[x] = "receiver" /\ home1[x] = w
              /\ after[w] = x <=> kind1[x] = "after" /\ home1[x] = w
      BY <1>15, <2>4, <2>5
    <2>7. Waiting(inc1, recvFiber, after, kind1, home1)
      BY <1>15, <2>1, <2>2, <2>3, <2>6, WaitMove
    <2> QED
      BY <1>11, <1>18, <2>7
  <1>25. \A x \in Fiber : Stays(x) /\ FiberOK(x, kind, home, word)
    BY <1>1, <1>11 DEF Stays, fiberData, Accounts
  <1>26. open[v]
    <2>1. VmOK(v) /\ open[v] \in BOOLEAN
      BY <1>2 DEF Types
    <2> QED
      BY <1>4, <1>6, <2>1 DEF VmOK
  <1>27. ASSUME NEW x \in Fiber, x # g PROVE Still(x, kind, home)
    <2>1. ASSUME kind[x] = "receiver" PROVE open'[VmOf[x]] /\ incoming'[VmOf[x]] = <<>>
      <3>1. open[VmOf[x]] /\ incoming[VmOf[x]] = <<>> /\ VmOf[x] \in Vm
        BY <1>25, <2>1, VmContextAssumption DEF FiberOK, ReceiverOK
      <3>2. VmOf[x] # v
        BY <1>4, <1>6, <3>1
      <3> QED
        BY <1>11, <1>18, <1>19, <3>1, <3>2
    <2> QED
      BY <1>21, <1>25, <1>27, <2>1 DEF Still
  <1>28. FiberOK(g, kind1, home1, word1)'
    <2>1. kind[g] \in InSend \cup {"receiver"} /\ taken[g] \in BOOLEAN
      BY <1>2, <1>12 DEF InSend, Types
    <2>2. PICK x : x = "sent"
      OBVIOUS
    <2>3. /\ word1[g] = x /\ x \in {"sent", "channel_closed", "interrupted"} /\ home1[g] = VmOf[g]
          /\ at[g] = "send" => (x = "sent" <=> taken'[g]) /\ (x = "interrupted" => interrupted[g])
      BY <1>9, <1>15, <1>21, <2>2
    <2> QED
      BY <1>15, <1>25, <2>1, <2>3, FiberWoken
  <1>29. RevokesKept
    BY <1>11, <1>13, <1>17 DEF RevokesKept, IsPost, fiberData
  <1>30. VmsKept
    <2>1. ~destroyed[u]
      BY <1>9, <1>12 DEF FiberOK, PlaceOK
    <2>2. ASSUME NEW w \in Vm
          PROVE  /\ ~open'[w] => incoming'[w] = <<>>
                 /\ ~valid'[w] => running'[w] = Nil
                 /\ destroyed[w] => ~valid'[w] /\ strand'[w] = <<>> /\ after'[w] = Nil
      <3>1. VmOK(w)
        BY <1>2
      <3>2. ~open'[w] => incoming'[w] = <<>>
        BY <1>11, <1>18, <1>19, <1>26, <3>1 DEF VmOK
      <3>3. destroyed[w] => strand'[w] = <<>>
        BY <1>17, <2>1, <3>1 DEF VmOK, IsPost
      <3> QED
        BY <1>11, <3>1, <3>2, <3>3 DEF VmOK
    <2> QED
      BY <2>2 DEF VmsKept
  <1>31. /\ \A x \in Fiber : x \notin {g} => Still(x, kind, home)
         /\ \A x \in Fiber : x \in {g} => FiberOK(x, kind1, home1, word1)'
    BY <1>27, <1>28
  <1> QED
    BY <1>1, <1>2, <1>15, <1>16, <1>23, <1>24, <1>29, <1>30, <1>31, MoveStep

\* The caller suspends at site.
LEMMA SuspendFacts ==
    ASSUME Types, NEW f \in Fiber, running[VmOf[f]] = f, NEW site,
           site \in Suspended \cup Gone, site # "unborn", Suspend(f, site)
    PROVE  /\ running' \in [Vm -> Fiber \cup {Nil}] /\ running'[VmOf[f]] = Nil
           /\ at' \in [Fiber -> Suspended \cup Gone \cup {"running"}] /\ at'[f] = site
           /\ ret' \in [Fiber -> Result]
           /\ \A w \in Vm : w # VmOf[f] => running'[w] = running[w]
           /\ \A g \in Fiber : g # f => at'[g] = at[g]
           /\ \A g \in Fiber : g # f => (running'[VmOf[g]] = g <=> running[VmOf[g]] = g)
           /\ \A v \in Vm : at[Main[v]] # "unborn" => at'[Main[v]] # "unborn"
  <1>1. VmOf[f] \in Vm /\ Nil \notin Fiber /\ \A g \in Fiber : VmOf[g] \in Vm
    BY VmContextAssumption
  <1>2. /\ running' \in [Vm -> Fiber \cup {Nil}] /\ running'[VmOf[f]] = Nil
        /\ \A w \in Vm : w # VmOf[f] => running'[w] = running[w]
    BY <1>1 DEF Types, CoreTypeOK, Suspend
  <1>3. /\ at' \in [Fiber -> Suspended \cup Gone \cup {"running"}] /\ at'[f] = site
        /\ \A g \in Fiber : g # f => at'[g] = at[g]
    BY DEF Types, CoreTypeOK, Suspend
  <1>4. ret' \in [Fiber -> Result]
    BY DEF Types, CoreTypeOK, Suspend, Result
  <1>5. \A g \in Fiber : g # f => (running'[VmOf[g]] = g <=> running[VmOf[g]] = g)
    BY <1>1, <1>2
  <1>6. \A v \in Vm : at[Main[v]] # "unborn" => at'[Main[v]] # "unborn"
    BY <1>3, VmContextAssumption
  <1> QED
    BY <1>2, <1>3, <1>4, <1>5, <1>6

\* What set_interrupter() leaves.
LEMMA Interrupters ==
    ASSUME Types, NEW kind, NEW f \in Fiber, PlaceOK(f, kind), NEW x \in Vm \cup {Receiving}
    PROVE  /\ SetInterrupter(f, x) \in [Fiber -> Vm \cup {Receiving} \cup {Nil}]
           /\ SetInterrupter(f, x)[f] \in {x, Nil}
           /\ Disabled(f) => SetInterrupter(f, x)[f] = Nil
           /\ \A g \in Fiber : g # f => SetInterrupter(f, x)[g] = interrupter[g]
  <1>1. interrupter \in [Fiber -> Vm \cup {Receiving} \cup {Nil}]
    BY DEF Types, CoreTypeOK
  <1>2. Disabled(f) => interrupter[f] = Nil
    BY DEF PlaceOK
  <1> QED
    BY <1>1, <1>2 DEF SetInterrupter

\* The other fibers do not notice that f suspends.
LEMMA OthersWait ==
    ASSUME NEW f \in Fiber,
           \A g \in Fiber : g # f => at'[g] = at[g] /\ interrupter'[g] = interrupter[g],
           \A g \in Fiber : g # f => (running'[VmOf[g]] = g <=> running[VmOf[g]] = g),
           \A v \in Vm : at[Main[v]] # "unborn" => at'[Main[v]] # "unborn",
           UNCHANGED <<valid, counters, interrupted, destroyed>>
    PROVE  \A g \in Fiber : g # f => Stays(g)
  <1>1. \A g \in Fiber : VmOf[g] \in Vm
    BY VmContextAssumption
  <1> QED
    BY <1>1 DEF Stays, counters

\* Nothing is queued: the fiber waits for a message.
LEMMA StepReceiveWaits ==
    ASSUME Inv, NEW f \in Fiber, ReceiveWaits(f) PROVE Inv'
  <1>1. PICK kind, home, word : Accounts(kind, home, word)
    BY DEF Inv
  <1>2. Types /\ (\A w \in Vm : VmOK(w)) /\ strand \in [Vm -> Seq(Handler)] /\ Calls(f)
    BY DEF Inv, Types, ReceiveWaits, HasInbox
  <1>3. PICK v \in Vm : v = VmOf[f]
    BY VmContextAssumption
  <1>4. /\ kind[f] = "none" /\ valid[v] /\ running[v] = f /\ destroyed[v] = FALSE
        /\ at[Main[v]] # "unborn" /\ FiberOK(f, kind, home, word) /\ f # Nil
    <2>1. IsCaller(f, kind, home, word)
      BY <1>1, <1>2, Caller
    <2> QED
      BY <1>3, <2>1 DEF IsCaller
  <1>5. open[v] /\ recvFiber[v] = Nil /\ incoming[v] = <<>>
    <2>1. ReceiveError(f) = "none" /\ incoming[v] = <<>>
      BY <1>3 DEF ReceiveWaits
    <2> QED
      BY <1>3, <2>1 DEF ReceiveError, SuspendError
  <1>6. /\ interrupter' = SetInterrupter(f, Receiving)
        /\ recvFiber' = [recvFiber EXCEPT ![v] = f]
        /\ Suspend(f, "receive")
        /\ UNCHANGED <<strand, valid, counters, interrupted, incoming, open, imported, inboxLive, tx,
                       nsenders, forgotten, after, destroyed, crashed, taken>>
    BY <1>3 DEF ReceiveWaits, addressVars
  <1>7. /\ running' \in [Vm -> Fiber \cup {Nil}] /\ running'[v] = Nil
        /\ at' \in [Fiber -> Suspended \cup Gone \cup {"running"}] /\ at'[f] = "receive"
        /\ ret' \in [Fiber -> Result]
        /\ \A w \in Vm : w # v => running'[w] = running[w]
        /\ \A g \in Fiber : g # f => at'[g] = at[g]
        /\ \A g \in Fiber : g # f => (running'[VmOf[g]] = g <=> running[VmOf[g]] = g)
        /\ \A w \in Vm : at[Main[w]] # "unborn" => at'[Main[w]] # "unborn"
    <2>1. PICK site : site = "receive"
      OBVIOUS
    <2>2. site \in Suspended \cup Gone /\ site # "unborn" /\ Suspend(f, site) /\ running[VmOf[f]] = f
      BY <1>3, <1>4, <1>6, <2>1 DEF Suspended
    <2> QED
      BY <1>2, <1>3, <2>1, <2>2, SuspendFacts
  <1>8. /\ interrupter' \in [Fiber -> Vm \cup {Receiving} \cup {Nil}]
        /\ Disabled(f) => interrupter'[f] = Nil
        /\ \A g \in Fiber : g # f => interrupter'[g] = interrupter[g]
    BY <1>2, <1>4, <1>6, Interrupters DEF FiberOK
  <1>9. PICK rec1 : rec1 = recvFiber'
    OBVIOUS
  <1>10. /\ rec1 \in [Vm -> Fiber \cup {Nil}] /\ rec1[v] = f
         /\ \A w \in Vm : w # v => rec1[w] = recvFiber[w]
    BY <1>2, <1>6, <1>9 DEF Types
  <1>11. Types'
    BY <1>2, <1>6, <1>7, <1>8, <1>9, <1>10 DEF Types, CoreTypeOK, counters, IsMain
  <1>12. PICK kind1, home1, word1 :
            Moved(kind, home, word, f, "receiver", v, "none", kind1, home1, word1)
    <2>1. Ghosts(kind, home) /\ "receiver" \in Kind
      BY <1>1 DEF Accounts, Kind
    <2>2. Moved(kind, home, word, f, "receiver", v, "none",
                Put(kind, f, "receiver"), Put(home, f, v), Put(word, f, "none"))
      BY <2>1, GhostMove
    <2> QED
      BY <2>2
  <1>13. /\ Ghosts(kind1, home1) /\ kind1[f] = "receiver" /\ home1[f] = v
         /\ Elsewhere({f}, kind, home, word, kind1, home1, word1)
    BY <1>12 DEF Moved
  <1>14. OnStrand(strand', kind1, home1, word1)
    <2>1. OnStrand(strand, kind, home, word)
      BY <1>1 DEF Accounts
    <2>2. \A g \in Fiber : g \in {f} => kind[g] \notin Owing /\ kind1[g] \notin Owing
      BY <1>4, <1>13 DEF Owing
    <2>3. OnStrand(strand, kind1, home1, word1)
      BY <1>2, <1>13, <2>1, <2>2, MoveElsewhere
    <2> QED
      BY <1>6, <2>3
  <1>15. Waiting(incoming', recvFiber', after', kind1, home1)
    <2>1. Waiting(incoming, recvFiber, after, kind, home)
      BY <1>1 DEF Accounts
    <2>2. \A w \in Vm : ResumesOnce(incoming[w])
      BY <2>1 DEF Waiting
    <2>3. \A w \in Vm : recvFiber[w] # f /\ after[w] # f /\ f \notin Resumed(incoming[w])
      BY <1>4, <2>1 DEF Waiting
    <2>4. \A w \in Vm, x \in Fiber : x \notin {f} =>
              /\ x \in Resumed(incoming[w]) <=> x \in Resumed(incoming[w])
              /\ rec1[w] = x <=> recvFiber[w] = x
              /\ after[w] = x <=> after[w] = x
      BY <1>5, <1>10, VmContextAssumption
    <2>5. \A w \in Vm, x \in Fiber : x \in {f} =>
              /\ x \in Resumed(incoming[w]) <=> kind1[x] = "incoming" /\ home1[x] = w
              /\ rec1[w] = x <=> kind1[x] = "receiver" /\ home1[x] = w
              /\ after[w] = x <=> kind1[x] = "after" /\ home1[x] = w
      BY <1>10, <1>13, <2>3
    <2>6. Waiting(incoming, rec1, after, kind1, home1)
      BY <1>13, <2>1, <2>2, <2>4, <2>5, WaitMove
    <2> QED
      BY <1>6, <1>9, <2>6
  <1>16. ASSUME NEW x \in Fiber, x # f PROVE Still(x, kind, home)
    <2>1. Stays(x)
      BY <1>6, <1>7, <1>8, <1>16, OthersWait
    <2>2. FiberOK(x, kind, home, word)
      BY <1>1 DEF Accounts
    <2> QED
      BY <1>6, <2>1, <2>2 DEF Still, FiberOK, ReceiverOK, SenderOK
  <1>17. FiberOK(f, kind1, home1, word1)'
    <2>1. valid'[VmOf[f]] /\ destroyed'[VmOf[f]] = FALSE /\ running'[VmOf[f]] # f
      BY <1>3, <1>4, <1>6, <1>7
    <2>2. at'[Main[VmOf[f]]] # "unborn" /\ at'[f] \in Suspended /\ at'[f] \notin Gone \cup {"start", "running"}
      BY <1>3, <1>4, <1>7 DEF Suspended, Gone
    <2>3. Disabled(f)' => interrupter'[f] = Nil
      BY <1>6, <1>8 DEF Disabled, counters
    <2>4. PlaceOK(f, kind1)'
      BY <1>7, <1>13, <2>1, <2>2, <2>3 DEF PlaceOK
    <2>5. ReceiverOK(f, kind1, home1)'
      BY <1>3, <1>5, <1>6, <1>7, <1>13, <2>1 DEF ReceiverOK
    <2> QED
      BY <1>13, <2>4, <2>5 DEF FiberOK, WordOK, SenderOK, InSend
  <1>18. RevokesKept
    BY <1>6 DEF RevokesKept
  <1>19. VmsKept
    <2>1. ASSUME NEW w \in Vm
          PROVE  /\ ~open'[w] => incoming'[w] = <<>>
                 /\ ~valid'[w] => running'[w] = Nil
                 /\ destroyed[w] => ~valid'[w] /\ strand'[w] = <<>> /\ after'[w] = Nil
      <3>1. VmOK(w)
        BY <1>2
      <3>2. ~valid'[w] => running'[w] = Nil
        BY <1>6, <1>7, <3>1 DEF VmOK
      <3> QED
        BY <1>6, <3>1, <3>2 DEF VmOK
    <2> QED
      BY <2>1 DEF VmsKept
  <1>20. /\ \A x \in Fiber : x \notin {f} => Still(x, kind, home)
         /\ \A x \in Fiber : x \in {f} => FiberOK(x, kind1, home1, word1)'
    BY <1>16, <1>17
  <1> QED
    BY <1>1, <1>2, <1>11, <1>13, <1>14, <1>15, <1>18, <1>19, <1>20, MoveStep

-----------------------------------------------------------------------------
(* New fibers and new VMs.                                                   *)

\* A fiber is created and its first resumption posted.
LEMMA BornStep ==
    ASSUME Types, \A v \in Vm : VmOK(v), NEW kind, NEW home, NEW word,
           Accounts(kind, home, word), Types', NEW g \in Fiber, at[g] = "unborn",
           at'[g] = "start", \A x \in Fiber : x # g => at'[x] = at[x],
           at'[Main[VmOf[g]]] # "unborn",
           strand' = Posted(strand, VmOf[g], ResumeSkipClear(g)),
           UNCHANGED <<running, valid, fiberData, recvFiber, incoming, open, after, destroyed, taken>>
    PROVE  Inv'
  <1>1. PICK v \in Vm : v = VmOf[g]
    BY VmContextAssumption
  <1>2. FiberOK(g, kind, home, word) /\ strand \in [Vm -> Seq(Handler)]
    BY DEF Accounts, Types
  <1>3. /\ kind[g] = "none" /\ valid[v] /\ ~destroyed[v] /\ interrupter[g] = Nil
        /\ running[v] # g
    <2>1. valid[v]
      BY <1>1, <1>2 DEF FiberOK, PlaceOK
    <2>2. VmOK(v)
      OBVIOUS
    <2> QED
      BY <1>1, <1>2, <2>1, <2>2 DEF FiberOK, PlaceOK, VmOK, Gone, Suspended
  <1>4. PICK h : h = ResumeSkipClear(g)
    OBVIOUS
  <1>5. h \in Handler /\ h.op = "resume" /\ h.fiber = g /\ h.clear = FALSE /\ h.val = "none"
    BY <1>4, Made, Shapes
  <1>6. PICK kind1, home1, word1 :
            Moved(kind, home, word, g, "resume", v, "none", kind1, home1, word1)
    <2>1. Ghosts(kind, home) /\ "resume" \in Kind
      BY DEF Accounts, Kind
    <2>2. Moved(kind, home, word, g, "resume", v, "none",
                Put(kind, g, "resume"), Put(home, g, v), Put(word, g, "none"))
      BY <2>1, GhostMove
    <2> QED
      BY <2>2
  <1>7. /\ Ghosts(kind1, home1) /\ kind1[g] = "resume" /\ home1[g] = v /\ word1[g] = "none"
        /\ Elsewhere({g}, kind, home, word, kind1, home1, word1)
    BY <1>6 DEF Moved
  <1>8. OnStrand(strand', kind1, home1, word1)
    <2>1. /\ OnStrand(strand, kind, home, word) /\ h.op \in Owing /\ h.fiber \in Fiber
          /\ kind[h.fiber] \notin Owing
          /\ Elsewhere({h.fiber}, kind, home, word, kind1, home1, word1)
          /\ kind1[h.fiber] = h.op /\ home1[h.fiber] = v
          /\ h.op = "resume" => word1[h.fiber] = h.val /\ (h.clear <=> h.val # "none")
      BY <1>3, <1>5, <1>7 DEF Accounts, Owing
    <2>2. OnStrand(Posted(strand, v, h), kind1, home1, word1)
      BY <1>2, <1>5, <2>1, PostOwed
    <2> QED
      BY <1>1, <1>4, <2>2
  <1>9. IsPost(strand', strand, v, h)
    BY <1>1, <1>2, <1>4, <1>5, PostedFacts
  <1>10. Waiting(incoming', recvFiber', after', kind1, home1)
    <2>1. Waiting(incoming, recvFiber, after, kind, home)
      BY DEF Accounts
    <2>2. \A x \in Fiber : x \in {g} => /\ kind[x] \notin {"incoming", "receiver", "after"}
                                        /\ kind1[x] \notin {"incoming", "receiver", "after"}
      BY <1>3, <1>7
    <2>3. Waiting(incoming, recvFiber, after, kind1, home1)
      BY <1>7, <2>1, <2>2, WaitStill
    <2> QED
      BY <2>3
  <1>11. \A w \in Vm : at[Main[w]] # "unborn" => at'[Main[w]] # "unborn"
    BY VmContextAssumption
  <1>12. ASSUME NEW x \in Fiber, x # g PROVE Still(x, kind, home)
    <2>1. Stays(x)
      BY <1>11, <1>12, VmContextAssumption DEF Stays, fiberData
    <2>2. FiberOK(x, kind, home, word)
      BY DEF Accounts
    <2> QED
      BY <2>1, <2>2 DEF Still, FiberOK, ReceiverOK
  <1>13. FiberOK(g, kind1, home1, word1)'
    <2>1. valid'[VmOf[g]] /\ ~destroyed'[VmOf[g]] /\ running'[VmOf[g]] # g
      BY <1>1, <1>3
    <2>2. at'[g] \in Suspended /\ interrupter'[g] = Nil
      BY <1>3 DEF Suspended, fiberData
    <2>3. PlaceOK(g, kind1)'
      BY <1>7, <2>1, <2>2 DEF PlaceOK
    <2>4. WordOK(g, kind1, home1, word1)'
      BY <1>1, <1>7 DEF WordOK
    <2> QED
      BY <1>7, <2>3, <2>4 DEF FiberOK, ReceiverOK, SenderOK, InSend
  <1>14. RevokesKept
    BY <1>5, <1>9 DEF RevokesKept, IsPost, fiberData
  <1>15. VmsKept
    <2>1. ASSUME NEW w \in Vm
          PROVE  /\ ~open'[w] => incoming'[w] = <<>>
                 /\ ~valid'[w] => running'[w] = Nil
                 /\ destroyed[w] => ~valid'[w] /\ strand'[w] = <<>> /\ after'[w] = Nil
      <3>1. VmOK(w)
        OBVIOUS
      <3>2. destroyed[w] => strand'[w] = <<>>
        BY <1>3, <1>9, <3>1 DEF VmOK, IsPost
      <3> QED
        BY <3>1, <3>2 DEF VmOK
    <2> QED
      BY <2>1 DEF VmsKept
  <1>16. /\ \A x \in Fiber : x \notin {g} => Still(x, kind, home)
         /\ \A x \in Fiber : x \in {g} => FiberOK(x, kind1, home1, word1)'
    BY <1>12, <1>13
  <1> QED
    BY <1>7, <1>8, <1>10, <1>14, <1>15, <1>16, MoveStep

\* A fiber spawns another.
LEMMA StepSpawn ==
    ASSUME Inv, NEW f \in Fiber, NEW g \in Fiber, Spawn(f, g) PROVE Inv'
  <1>1. PICK kind, home, word : Accounts(kind, home, word)
    BY DEF Inv
  <1>2. Types /\ (\A w \in Vm : VmOK(w)) /\ strand \in [Vm -> Seq(Handler)] /\ Calls(f)
    BY DEF Inv, Types, Spawn
  <1>3. IsCaller(f, kind, home, word)
    BY <1>1, <1>2, Caller
  <1>4. /\ VmOf[g] = VmOf[f] /\ at[g] = "unborn" /\ at' = [at EXCEPT ![g] = "start"]
        /\ strand' = Posted(strand, VmOf[g], ResumeSkipClear(g))
        /\ ret' = [ret EXCEPT ![f] = "none"]
        /\ UNCHANGED <<running, valid, fiberData, recvFiber, incoming, open, imported, inboxLive,
                       nsenders, forgotten, tx, after, destroyed, crashed, taken>>
    BY DEF Spawn, SpawnFiber, Post, Posted, inboxVars, addressVars
  <1>5. strand' \in [Vm -> Seq(Handler)]
    BY <1>2, <1>3, <1>4, Made, PostType DEF Posted, IsCaller
  <1>6. /\ at' \in [Fiber -> Suspended \cup Gone \cup {"running"}] /\ at'[g] = "start"
        /\ \A x \in Fiber : x # g => at'[x] = at[x]
    BY <1>2, <1>4 DEF Types, CoreTypeOK, Suspended
  <1>7. ret' \in [Fiber -> Result]
    BY <1>2, <1>4 DEF Types, CoreTypeOK, Result
  <1>8. Types'
    BY <1>2, <1>4, <1>5, <1>6, <1>7 DEF Types, CoreTypeOK, fiberData, IsMain
  <1>10. at'[Main[VmOf[g]]] # "unborn"
    <2>1. at[Main[VmOf[g]]] # "unborn" /\ Main[VmOf[g]] \in Fiber
      BY <1>3, <1>4, VmContextAssumption DEF IsCaller
    <2> QED
      BY <1>6, <2>1
  <1>11. UNCHANGED <<running, valid, fiberData, recvFiber, incoming, open, after, destroyed, taken>>
    BY <1>4
  <1> QED
    BY <1>1, <1>2, <1>4, <1>6, <1>8, <1>10, <1>11, BornStep

\* spawn_vm(): the main fiber of the new VM is created.
LEMMA StepSpawnVm ==
    ASSUME Inv, NEW f \in Fiber, NEW w \in Vm, SpawnVm(f, w) PROVE Inv'
  <1>1. PICK kind, home, word : Accounts(kind, home, word)
    BY DEF Inv
  <1>2. Types /\ (\A v \in Vm : VmOK(v)) /\ strand \in [Vm -> Seq(Handler)] /\ VmOf[f] \in Vm
    BY VmContextAssumption DEF Inv, Types
  <1>3. PICK g \in Fiber : g = Main[w]
    BY VmContextAssumption
  <1>4. /\ VmOf[g] = w /\ Main[VmOf[g]] = g /\ at[g] = "unborn" /\ at' = [at EXCEPT ![g] = "start"]
        /\ strand' = Posted(strand, VmOf[g], ResumeSkipClear(g))
        /\ ret' = [ret EXCEPT ![f] = "none"]
        /\ tx' = [tx EXCEPT ![VmOf[f]][w] = @ + 1] /\ nsenders' = [nsenders EXCEPT ![w] = @ + 1]
        /\ UNCHANGED <<running, valid, fiberData, recvFiber, incoming, open, imported, inboxLive,
                       forgotten, after, destroyed, crashed, taken>>
    BY <1>3, VmContextAssumption DEF SpawnVm, Spawned, Post, Posted, inboxVars
  <1>5. strand' \in [Vm -> Seq(Handler)]
    BY <1>2, <1>3, <1>4, Made, PostType DEF Posted
  <1>6. /\ at' \in [Fiber -> Suspended \cup Gone \cup {"running"}] /\ at'[g] = "start"
        /\ \A x \in Fiber : x # g => at'[x] = at[x]
    BY <1>2, <1>4 DEF Types, CoreTypeOK, Suspended
  <1>7. ret' \in [Fiber -> Result] /\ nsenders' \in [Vm -> Int]
    BY <1>2, <1>4, SMTT(30) DEF Types, CoreTypeOK, Result
  <1>8. tx' \in [Vm -> [Vm -> Nat]]
    <2>1. tx \in [Vm -> [Vm -> Nat]] /\ tx' = [tx EXCEPT ![VmOf[f]][w] = @ + 1]
      BY <1>2, <1>4 DEF Types
    <2>2. /\ tx' \in [Vm -> [Vm -> Nat]]
          /\ \A a, b \in Vm : tx'[a][b] = IF a = VmOf[f] /\ b = w THEN tx[a][b] + 1 ELSE tx[a][b]
      <3>1. PICK u \in Vm : u = VmOf[f]
        BY <1>2
      <3>2. PICK row : row = [tx[u] EXCEPT ![w] = @ + 1]
        OBVIOUS
      <3>3. row \in [Vm -> Nat] /\ \A b \in Vm : row[b] = IF b = w THEN tx[u][b] + 1 ELSE tx[u][b]
        BY <2>1, <3>2
      <3>4. tx' = [tx EXCEPT ![u] = row]
        BY <2>1, <3>1, <3>2
      <3>5. /\ tx' \in [Vm -> [Vm -> Nat]] /\ tx'[u] = row
            /\ \A a \in Vm : a # u => tx'[a] = tx[a]
        BY <2>1, <3>3, <3>4
      <3> QED
        BY <3>1, <3>3, <3>5
    <2> QED
      BY <2>2
  <1>9. Types'
    BY <1>2, <1>4, <1>5, <1>6, <1>7, <1>8 DEF Types, CoreTypeOK, fiberData, IsMain
  <1>10. at'[Main[VmOf[g]]] # "unborn"
    BY <1>4, <1>6
  <1>11. UNCHANGED <<running, valid, fiberData, recvFiber, incoming, open, after, destroyed, taken>>
    BY <1>4
  <1> QED
    BY <1>1, <1>2, <1>4, <1>6, <1>8, <1>9, <1>10, <1>11, BornStep

-----------------------------------------------------------------------------
(* A message is sent.                                                        *)

\* chan_send(): the message is posted and the sender suspends.
LEMMA StepSend ==
    ASSUME Inv, NEW f \in Fiber, NEW w \in Vm, NEW msg \in Msg, Send(f, w, msg) PROVE Inv'
  <1>1. PICK kind, home, word : Accounts(kind, home, word)
    BY DEF Inv
  <1>2. Types /\ (\A u \in Vm : VmOK(u)) /\ strand \in [Vm -> Seq(Handler)] /\ Calls(f)
    BY DEF Inv, Types, Send
  <1>3. PICK v \in Vm : v = VmOf[f]
    BY VmContextAssumption
  <1>4. IsCaller(f, kind, home, word)
    BY <1>1, <1>2, Caller
  <1>5. /\ kind[f] = "none" /\ valid[v] /\ running[v] = f /\ destroyed[v] = FALSE
        /\ at[Main[v]] # "unborn" /\ FiberOK(f, kind, home, word) /\ f # Nil
    BY <1>3, <1>4 DEF IsCaller
  <1>6. PICK h : h = Deliver(f, msg)
    OBVIOUS
  <1>7. h \in Handler /\ h.op = "deliver" /\ h.fiber = f
    BY <1>6, Made, Shapes
  <1>8. /\ tx[v][w] > 0 /\ CanLock(w)
        /\ nsenders' = IF msg \in Vm /\ CanLock(msg) THEN [nsenders EXCEPT ![msg] = @ + 1] ELSE nsenders
        /\ interrupter' = SetInterrupter(f, w)
        /\ strand' = Posted(strand, w, h)
        /\ taken' = [taken EXCEPT ![f] = FALSE]
        /\ Suspend(f, "send")
        /\ UNCHANGED <<valid, counters, interrupted, recvFiber, incoming, open, imported, inboxLive,
                       forgotten, tx, after, destroyed, crashed>>
    BY <1>3, <1>6 DEF Send, Post, Posted, inboxVars
  <1>9. /\ running' \in [Vm -> Fiber \cup {Nil}] /\ running'[v] = Nil
        /\ at' \in [Fiber -> Suspended \cup Gone \cup {"running"}] /\ at'[f] = "send"
        /\ ret' \in [Fiber -> Result]
        /\ \A u \in Vm : u # v => running'[u] = running[u]
        /\ \A g \in Fiber : g # f => at'[g] = at[g]
        /\ \A g \in Fiber : g # f => (running'[VmOf[g]] = g <=> running[VmOf[g]] = g)
        /\ \A u \in Vm : at[Main[u]] # "unborn" => at'[Main[u]] # "unborn"
    <2>1. PICK site : site = "send"
      OBVIOUS
    <2>2. site \in Suspended \cup Gone /\ site # "unborn" /\ Suspend(f, site) /\ running[VmOf[f]] = f
      BY <1>3, <1>5, <1>8, <2>1 DEF Suspended
    <2> QED
      BY <1>2, <1>3, <2>1, <2>2, SuspendFacts
  <1>10. /\ interrupter' \in [Fiber -> Vm \cup {Receiving} \cup {Nil}]
         /\ interrupter'[f] \in {w, Nil}
         /\ Disabled(f) => interrupter'[f] = Nil
         /\ \A g \in Fiber : g # f => interrupter'[g] = interrupter[g]
    <2>1. PICK x \in Vm \cup {Receiving} : x = w
      OBVIOUS
    <2>2. interrupter' = SetInterrupter(f, x) /\ PlaceOK(f, kind)
      BY <1>5, <1>8, <2>1 DEF FiberOK
    <2> QED
      BY <1>2, <2>1, <2>2, Interrupters
  <1>11. nsenders' \in [Vm -> Int]
    <2>1. nsenders \in [Vm -> Int]
      BY <1>2 DEF Types
    <2>2. CASE nsenders' = nsenders
      BY <2>1, <2>2
    <2>3. CASE msg \in Vm /\ nsenders' = [nsenders EXCEPT ![msg] = @ + 1]
      BY <2>1, <2>3
    <2> QED
      BY <1>8, <2>2, <2>3
  <1>12. /\ taken' \in [Fiber -> BOOLEAN] /\ taken'[f] = FALSE
         /\ \A x \in Fiber : x # f => taken'[x] = taken[x]
    BY <1>2, <1>8 DEF Types
  <1>13. IsPost(strand', strand, w, h)
    BY <1>2, <1>7, <1>8, PostedFacts
  <1>14. Types'
    BY <1>2, <1>8, <1>9, <1>10, <1>11, <1>12, <1>13 DEF Types, CoreTypeOK, IsPost, counters, IsMain
  <1>15. PICK kind1, home1, word1 :
            Moved(kind, home, word, f, "deliver", w, "none", kind1, home1, word1)
    <2>1. Ghosts(kind, home) /\ "deliver" \in Kind
      BY <1>1 DEF Accounts, Kind
    <2>2. Moved(kind, home, word, f, "deliver", w, "none",
                Put(kind, f, "deliver"), Put(home, f, w), Put(word, f, "none"))
      BY <2>1, GhostMove
    <2> QED
      BY <2>2
  <1>16. /\ Ghosts(kind1, home1) /\ kind1[f] = "deliver" /\ home1[f] = w
         /\ Elsewhere({f}, kind, home, word, kind1, home1, word1)
    BY <1>15 DEF Moved
  <1>17. OnStrand(strand', kind1, home1, word1)
    <2>1. /\ OnStrand(strand, kind, home, word) /\ h.op \in Owing /\ h.fiber \in Fiber
          /\ kind[h.fiber] \notin Owing
          /\ Elsewhere({h.fiber}, kind, home, word, kind1, home1, word1)
          /\ kind1[h.fiber] = h.op /\ home1[h.fiber] = w
          /\ h.op = "resume" => word1[h.fiber] = h.val /\ (h.clear <=> h.val # "none")
      BY <1>1, <1>5, <1>7, <1>16 DEF Accounts, Owing
    <2>2. OnStrand(Posted(strand, w, h), kind1, home1, word1)
      BY <1>2, <1>7, <2>1, PostOwed
    <2> QED
      BY <1>8, <2>2
  <1>18. Waiting(incoming', recvFiber', after', kind1, home1)
    <2>1. Waiting(incoming, recvFiber, after, kind, home)
      BY <1>1 DEF Accounts
    <2>2. \A x \in Fiber : x \in {f} => /\ kind[x] \notin {"incoming", "receiver", "after"}
                                        /\ kind1[x] \notin {"incoming", "receiver", "after"}
      BY <1>5, <1>16
    <2>3. Waiting(incoming, recvFiber, after, kind1, home1)
      BY <1>16, <2>1, <2>2, WaitStill
    <2> QED
      BY <1>8, <2>3
  <1>19. ASSUME NEW x \in Fiber, x # f PROVE Still(x, kind, home)
    <2>1. Stays(x)
      BY <1>8, <1>9, <1>10, <1>19, OthersWait
    <2>2. FiberOK(x, kind, home, word)
      BY <1>1 DEF Accounts
    <2> QED
      BY <1>8, <1>12, <1>19, <2>1, <2>2 DEF Still, FiberOK, ReceiverOK, SenderOK
  <1>20. FiberOK(f, kind1, home1, word1)'
    <2>1. valid'[VmOf[f]] /\ destroyed'[VmOf[f]] = FALSE /\ running'[VmOf[f]] # f
      BY <1>3, <1>5, <1>8, <1>9
    <2>2. at'[Main[VmOf[f]]] # "unborn" /\ at'[f] \in Suspended /\ at'[f] \notin Gone \cup {"start", "running"}
      BY <1>3, <1>5, <1>9 DEF Suspended, Gone
    <2>3. Disabled(f)' => interrupter'[f] = Nil
      BY <1>8, <1>10 DEF Disabled, counters
    <2>4. PlaceOK(f, kind1)'
      BY <1>9, <1>16, <2>1, <2>2, <2>3 DEF PlaceOK
    <2>5. SenderOK(f, kind1, home1)'
      BY <1>9, <1>10, <1>12, <1>16 DEF SenderOK
    <2> QED
      BY <1>16, <2>4, <2>5 DEF FiberOK, WordOK, ReceiverOK
  <1>21. RevokesKept
    BY <1>7, <1>8, <1>13 DEF RevokesKept, IsPost
  <1>22. VmsKept
    <2>1. ASSUME NEW u \in Vm
          PROVE  /\ ~open'[u] => incoming'[u] = <<>>
                 /\ ~valid'[u] => running'[u] = Nil
                 /\ destroyed[u] => ~valid'[u] /\ strand'[u] = <<>> /\ after'[u] = Nil
      <3>1. VmOK(u)
        BY <1>2
      <3>2. ~valid'[u] => running'[u] = Nil
        BY <1>8, <1>9, <3>1 DEF VmOK
      <3>3. destroyed[u] => strand'[u] = <<>>
        BY <1>8, <1>13, <3>1 DEF VmOK, IsPost, CanLock
      <3> QED
        BY <1>8, <3>1, <3>2, <3>3 DEF VmOK
    <2> QED
      BY <2>1 DEF VmsKept
  <1>23. /\ \A x \in Fiber : x \notin {f} => Still(x, kind, home)
         /\ \A x \in Fiber : x \in {f} => FiberOK(x, kind1, home1, word1)'
    BY <1>19, <1>20
  <1> QED
    BY <1>1, <1>2, <1>14, <1>16, <1>17, <1>18, <1>21, <1>22, <1>23, MoveStep

-----------------------------------------------------------------------------
(* A fiber is interrupted.                                                   *)

\* What fiber_interrupt() of g leaves alone.
Interrupting(g) ==
    /\ interrupted' = [interrupted EXCEPT ![g] = TRUE]
    /\ interrupter' \in [Fiber -> Vm \cup {Receiving} \cup {Nil}]
    /\ interrupter'[g] \in {interrupter[g], Nil}
    /\ \A x \in Fiber : x # g => interrupter'[x] = interrupter[x]
    /\ crashed' \in BOOLEAN
    /\ UNCHANGED <<running, at, valid, counters, incoming, open, imported, inboxLive, nsenders,
                   forgotten, tx, after, destroyed, taken>>

\* The VMs stay as they are: the one new request to revoke is about g.
LEMMA InterruptVms ==
    ASSUME Types, \A v \in Vm : VmOK(v), NEW g \in Fiber, ~destroyed[VmOf[g]], Interrupting(g),
           \/ strand' = strand
           \/ \E u \in Vm, h \in Handler : /\ ~destroyed[u] /\ IsPost(strand', strand, u, h)
                                           /\ h.op = "revoke" => h.fiber = g
    PROVE  \A v \in Vm : VmOK(v)'
  <1>1. SUFFICES ASSUME NEW v \in Vm PROVE VmOK(v)'
    OBVIOUS
  <1>2. VmOK(v) /\ UNCHANGED <<running, valid, incoming, open, after, destroyed>>
    BY DEF Interrupting
  <1>3. /\ \A x \in Fiber : interrupted[x] => interrupted'[x]
        /\ interrupted'[g] = TRUE
    BY DEF Interrupting, Types, CoreTypeOK
  <1>4. \A h \in Members(strand[v]) : h.op = "revoke" => h.fiber \in Fiber
    BY QueueFacts, HandlerFacts DEF Types
  <1>5. CASE strand' = strand
    BY <1>2, <1>3, <1>4, <1>5 DEF VmOK
  <1>6. CASE \E u \in Vm, h \in Handler : /\ ~destroyed[u] /\ IsPost(strand', strand, u, h)
                                          /\ h.op = "revoke" => h.fiber = g
    <2>1. PICK u \in Vm, h \in Handler : /\ ~destroyed[u] /\ IsPost(strand', strand, u, h)
                                         /\ h.op = "revoke" => h.fiber = g
      BY <1>6
    <2>2. /\ \A x \in Members(strand'[v]) : x \in Members(strand[v]) \/ (v = u /\ x = h)
          /\ v # u => strand'[v] = strand[v]
      BY <2>1 DEF IsPost
    <2>3. destroyed[v] => strand'[v] = <<>>
      BY <1>2, <2>1, <2>2 DEF VmOK
    <2>4. ASSUME NEW x \in Members(strand'[v]), x.op = "revoke"
          PROVE  /\ valid'[VmOf[x.fiber]] => interrupted'[x.fiber]
                 /\ ~destroyed'[VmOf[x.fiber]]
      <3>1. CASE x \in Members(strand[v])
        BY <1>2, <1>3, <1>4, <2>4, <3>1 DEF VmOK
      <3>2. CASE x = h
        BY <1>2, <1>3, <2>1, <2>4, <3>2
      <3> QED
        BY <2>2, <3>1, <3>2
    <2> QED
      BY <1>2, <2>3, <2>4 DEF VmOK
  <1> QED
    BY <1>5, <1>6

\* Everything keeps its type.
LEMMA InterruptTypes ==
    ASSUME Types, NEW f \in Fiber, NEW g \in Fiber, Interrupting(g),
           strand' \in [Vm -> Seq(Handler)], recvFiber' \in [Vm -> Fiber \cup {Nil}],
           ret' = [ret EXCEPT ![f] = "none"]
    PROVE  Types'
  <1>1. interrupted' \in [Fiber -> BOOLEAN]
    BY DEF Interrupting, Types, CoreTypeOK
  <1>2. ret' \in [Fiber -> Result]
    BY DEF Types, CoreTypeOK, Result
  <1>3. /\ interrupter' \in [Fiber -> Vm \cup {Receiving} \cup {Nil}]
        /\ crashed' \in BOOLEAN
        /\ UNCHANGED <<running, at, valid, counters, incoming, open, imported, inboxLive, nsenders,
                       forgotten, tx, after, destroyed, taken>>
    BY DEF Interrupting
  <1> QED
    BY <1>1, <1>2, <1>3 DEF Types, CoreTypeOK, counters, IsMain

\* Fibers other than g stay.
LEMMA InterruptOthers ==
    ASSUME Types, NEW kind, NEW home, NEW word, Accounts(kind, home, word), NEW g \in Fiber,
           Interrupting(g)
    PROVE  \A x \in Fiber : x # g => Still(x, kind, home)
  <1>1. SUFFICES ASSUME NEW x \in Fiber, x # g PROVE Still(x, kind, home)
    OBVIOUS
  <1>2. interrupted'[x] = interrupted[x] /\ interrupter'[x] = interrupter[x]
    BY <1>1 DEF Interrupting, Types, CoreTypeOK
  <1>3. UNCHANGED <<running, at, valid, counters, incoming, open, tx, destroyed, taken>>
    BY DEF Interrupting
  <1>4. Stays(x)
    BY <1>2, <1>3 DEF Stays, counters
  <1>5. FiberOK(x, kind, home, word)
    BY DEF Accounts
  <1> QED
    BY <1>3, <1>4, <1>5 DEF Still, FiberOK, ReceiverOK, SenderOK

\* A fiber keeps its place, and g that it was interrupted is one more truth.
LEMMA InterruptPlace ==
    ASSUME Types, NEW kind, NEW home, NEW word, NEW g \in Fiber, Interrupting(g),
           NEW x \in Fiber, FiberOK(x, kind, home, word), NEW kind1,
           kind[x] # "none" <=> kind1[x] # "none"
    PROVE  PlaceOK(x, kind1)'
  <1>1. interrupter'[x] \in {interrupter[x], Nil}
    BY DEF Interrupting
  <1>2. UNCHANGED <<running, at, valid, counters, incoming, open, tx, destroyed, taken>>
    BY DEF Interrupting
  <1>3. Disabled(x)' <=> Disabled(x)
    BY <1>2 DEF Disabled, counters
  <1>4. PlaceOK(x, kind)
    BY DEF FiberOK
  <1> QED
    BY <1>1, <1>2, <1>3, <1>4 DEF PlaceOK

\* What is known of the interrupted fiber stays true.
LEMMA InterruptStays ==
    ASSUME Types, NEW kind, NEW home, NEW word, NEW g \in Fiber, Interrupting(g),
           FiberOK(g, kind, home, word), NEW kind1, NEW home1, NEW word1,
           kind1[g] = kind[g], home1[g] = home[g], word1[g] = word[g]
    PROVE  FiberOK(g, kind1, home1, word1)'
  <1>1. PlaceOK(g, kind1)'
    BY InterruptPlace
  <1>2. UNCHANGED <<running, at, valid, counters, incoming, open, tx, destroyed, taken>>
    BY DEF Interrupting
  <1>3. interrupted'[g] = TRUE /\ interrupter'[g] \in {interrupter[g], Nil}
    BY DEF Interrupting, Types, CoreTypeOK
  <1>4. WordOK(g, kind1, home1, word1)'
    BY <1>2, <1>3 DEF FiberOK, WordOK
  <1>5. ReceiverOK(g, kind1, home1)'
    BY <1>2 DEF FiberOK, ReceiverOK
  <1>6. SenderOK(g, kind1, home1)'
    BY <1>2, <1>3 DEF FiberOK, SenderOK
  <1> QED
    BY <1>1, <1>4, <1>5, <1>6 DEF FiberOK

\* Nobody is owed anything that was not owed before.
LEMMA InterruptQuiet ==
    ASSUME Types, \A v \in Vm : VmOK(v), NEW kind, NEW home, NEW word,
           Accounts(kind, home, word), NEW g \in Fiber, ~destroyed[VmOf[g]], Interrupting(g),
           Types', recvFiber' = recvFiber,
           \/ strand' = strand
           \/ \E u \in Vm, h \in Handler :
                 /\ ~destroyed[u] /\ strand' = Posted(strand, u, h)
                 /\ h.op \notin Owing \/ h.fiber = Nil
                 /\ h.op = "revoke" => h.fiber = g
    PROVE  Inv'
  <1>1. strand \in [Vm -> Seq(Handler)] /\ OnStrand(strand, kind, home, word)
    BY DEF Types, Accounts
  <1>2. /\ OnStrand(strand', kind, home, word)
        /\ \/ strand' = strand
           \/ \E u \in Vm, h \in Handler : /\ ~destroyed[u] /\ IsPost(strand', strand, u, h)
                                           /\ h.op = "revoke" => h.fiber = g
    <2>1. CASE strand' = strand
      BY <1>1, <2>1
    <2>2. CASE \E u \in Vm, h \in Handler :
                 /\ ~destroyed[u] /\ strand' = Posted(strand, u, h)
                 /\ h.op \notin Owing \/ h.fiber = Nil
                 /\ h.op = "revoke" => h.fiber = g
      <3>1. PICK u \in Vm, h \in Handler :
                 /\ ~destroyed[u] /\ strand' = Posted(strand, u, h)
                 /\ h.op \notin Owing \/ h.fiber = Nil
                 /\ h.op = "revoke" => h.fiber = g
        BY <2>2
      <3>2. OnStrand(Posted(strand, u, h), kind, home, word)
        BY <1>1, <3>1, PostQuiet
      <3>3. IsPost(Posted(strand, u, h), strand, u, h)
        BY <1>1, PostedFacts
      <3> QED
        BY <3>1, <3>2, <3>3
    <2> QED
      BY <2>1, <2>2
  <1>3. \A v \in Vm : VmOK(v)'
    BY <1>2, InterruptVms
  <1>4. \A x \in Fiber : FiberOK(x, kind, home, word)'
    <2>1. \A x \in Fiber : FiberOK(x, kind, home, word)
      BY DEF Accounts
    <2>2. FiberOK(g, kind, home, word)'
      BY <2>1, InterruptStays
    <2>3. \A x \in Fiber : x \notin {g} => Still(x, kind, home)
      BY InterruptOthers
    <2>4. Elsewhere({g}, kind, home, word, kind, home, word)
      BY DEF Elsewhere
    <2>5. \A x \in Fiber : x \in {g} => FiberOK(x, kind, home, word)'
      BY <2>2
    <2> QED
      BY <2>1, <2>3, <2>4, <2>5, FibersStill
  <1>5. Waiting(incoming', recvFiber', after', kind, home) /\ Ghosts(kind, home)
    BY DEF Accounts, Interrupting
  <1> QED
    BY <1>2, <1>3, <1>4, <1>5, Assemble

\* The closure of chan_receive() resumes whoever receives.
LEMMA InterruptReceiver ==
    ASSUME Types, \A v \in Vm : VmOK(v), NEW kind, NEW home, NEW word,
           Accounts(kind, home, word), NEW g \in Fiber, ~destroyed[VmOf[g]], Interrupting(g),
           Types', NEW v \in Vm, v = VmOf[g], recvFiber[v] # Nil,
           strand' = Posted(strand, v, Resume(recvFiber[v], "interrupted")),
           recvFiber' = [recvFiber EXCEPT ![v] = Nil]
    PROVE  Inv'
  <1>1. PICK r : r = recvFiber[v]
    OBVIOUS
  <1>2. /\ r \in Fiber /\ kind[r] = "receiver" /\ home[r] = v /\ VmOf[r] = v /\ at[r] = "receive"
        /\ FiberOK(r, kind, home, word)
    BY <1>1, Receiver
  <1>3. PICK h : h = Resume(r, "interrupted")
    OBVIOUS
  <1>4. h \in Handler /\ h.op = "resume" /\ h.fiber = r /\ h.clear = TRUE /\ h.val = "interrupted"
    BY <1>2, <1>3, Made, Shapes DEF Result
  <1>5. PICK kind1, home1, word1 :
            Moved(kind, home, word, r, "resume", v, "interrupted", kind1, home1, word1)
    <2>1. Ghosts(kind, home) /\ "resume" \in Kind
      BY DEF Accounts, Kind
    <2>2. Moved(kind, home, word, r, "resume", v, "interrupted",
                Put(kind, r, "resume"), Put(home, r, v), Put(word, r, "interrupted"))
      BY <1>2, <2>1, GhostMove
    <2> QED
      BY <2>2
  <1>6. /\ Ghosts(kind1, home1) /\ kind1[r] = "resume" /\ home1[r] = v /\ word1[r] = "interrupted"
        /\ Elsewhere({r}, kind, home, word, kind1, home1, word1)
    BY <1>5 DEF Moved
  <1>7. strand \in [Vm -> Seq(Handler)] /\ strand' = Posted(strand, v, h)
    BY <1>1, <1>3 DEF Types
  <1>8. OnStrand(strand', kind1, home1, word1)
    <2>1. /\ OnStrand(strand, kind, home, word) /\ h.op \in Owing /\ h.fiber \in Fiber
          /\ kind[h.fiber] \notin Owing
          /\ Elsewhere({h.fiber}, kind, home, word, kind1, home1, word1)
          /\ kind1[h.fiber] = h.op /\ home1[h.fiber] = v
          /\ h.op = "resume" => word1[h.fiber] = h.val /\ (h.clear <=> h.val # "none")
      BY <1>2, <1>4, <1>6 DEF Accounts, Owing
    <2>2. OnStrand(Posted(strand, v, h), kind1, home1, word1)
      BY <1>4, <1>7, <2>1, PostOwed
    <2> QED
      BY <1>7, <2>2
  <1>9. \A w \in Vm : VmOK(w)'
    <2>1. IsPost(strand', strand, v, h)
      BY <1>4, <1>7, PostedFacts
    <2>2. \E u \in Vm, x \in Handler : /\ ~destroyed[u] /\ IsPost(strand', strand, u, x)
                                       /\ x.op = "revoke" => x.fiber = g
      BY <1>4, <2>1
    <2> QED
      BY <2>2, InterruptVms
  <1>10. Waiting(incoming', recvFiber', after', kind1, home1)
    <2>1. Waiting(incoming, recvFiber, after, kind, home) /\ Nil \notin Fiber
      BY VmContextAssumption DEF Accounts
    <2>2. PICK rec1 : rec1 = recvFiber'
      OBVIOUS
    <2>3. rec1[v] = Nil /\ \A w \in Vm : w # v => rec1[w] = recvFiber[w]
      BY <2>2 DEF Types
    <2>4. \A w \in Vm : ResumesOnce(incoming[w])
      BY <2>1 DEF Waiting
    <2>5. \A w \in Vm : /\ after[w] # r /\ r \notin Resumed(incoming[w])
                        /\ recvFiber[w] = r => w = v
      BY <1>2, <2>1 DEF Waiting
    <2>6. \A w \in Vm, x \in Fiber : x \notin {r} =>
              /\ x \in Resumed(incoming[w]) <=> x \in Resumed(incoming[w])
              /\ rec1[w] = x <=> recvFiber[w] = x
              /\ after[w] = x <=> after[w] = x
      BY <1>1, <2>1, <2>3
    <2>7. \A w \in Vm, x \in Fiber : x \in {r} =>
              /\ x \in Resumed(incoming[w]) <=> kind1[x] = "incoming" /\ home1[x] = w
              /\ rec1[w] = x <=> kind1[x] = "receiver" /\ home1[x] = w
              /\ after[w] = x <=> kind1[x] = "after" /\ home1[x] = w
      BY <1>2, <1>6, <2>1, <2>3, <2>5
    <2>8. Waiting(incoming, rec1, after, kind1, home1)
      BY <1>6, <2>1, <2>4, <2>6, <2>7, WaitMove
    <2> QED
      BY <2>2, <2>8 DEF Interrupting
  <1>11. FiberOK(r, kind1, home1, word1)'
    <2>1. PlaceOK(r, kind1)'
      BY <1>2, <1>6, InterruptPlace
    <2>2. at'[r] = "receive"
      BY <1>2 DEF Interrupting
    <2>3. WordOK(r, kind1, home1, word1)'
      BY <1>2, <1>6, <2>2 DEF WordOK
    <2> QED
      BY <1>6, <2>1, <2>3 DEF FiberOK, ReceiverOK, SenderOK, InSend
  <1>12. \A x \in Fiber : FiberOK(x, kind1, home1, word1)'
    <2>1. \A x \in Fiber : FiberOK(x, kind, home, word)
      BY DEF Accounts
    <2>2. \A x \in Fiber : x \notin {g, r} => Still(x, kind, home)
      BY InterruptOthers
    <2>3. Elsewhere({g, r}, kind, home, word, kind1, home1, word1)
      BY <1>6 DEF Elsewhere
    <2>4. g # r => FiberOK(g, kind1, home1, word1)'
      <3>1. SUFFICES ASSUME g # r PROVE FiberOK(g, kind1, home1, word1)'
        OBVIOUS
      <3>2. kind1[g] = kind[g] /\ home1[g] = home[g] /\ word1[g] = word[g]
        BY <1>6, <3>1 DEF Elsewhere
      <3> QED
        BY <2>1, <3>2, InterruptStays
    <2>5. \A x \in Fiber : x \in {g, r} => FiberOK(x, kind1, home1, word1)'
      BY <1>11, <2>4
    <2> QED
      BY <2>1, <2>2, <2>3, <2>5, FibersStill
  <1> QED
    BY <1>6, <1>8, <1>9, <1>10, <1>12, Assemble

\* fiber_interrupt().
LEMMA StepInterrupt ==
    ASSUME Inv, NEW f \in Fiber, NEW g \in Fiber, Interrupt(f, g) PROVE Inv'
  <1>1. PICK kind, home, word : Accounts(kind, home, word)
    BY DEF Inv
  <1>2. Types /\ (\A w \in Vm : VmOK(w)) /\ strand \in [Vm -> Seq(Handler)] /\ Calls(f)
    BY DEF Inv, Types, Interrupt
  <1>3. IsCaller(f, kind, home, word)
    BY <1>1, <1>2, Caller
  <1>4. PICK v \in Vm : v = VmOf[g]
    BY VmContextAssumption
  <1>5. ~destroyed[v] /\ ~destroyed[VmOf[g]] /\ VmOf[g] = VmOf[f]
    BY <1>3, <1>4 DEF IsCaller, Interrupt
  <1>6. /\ interrupted' = [interrupted EXCEPT ![g] = TRUE]
        /\ ret' = [ret EXCEPT ![f] = "none"]
        /\ UNCHANGED <<running, at, valid, counters, incoming, open, imported, inboxLive, nsenders,
                       forgotten, tx, after, destroyed, taken>>
    BY DEF Interrupt, Return, addressVars
  <1>7. /\ interrupter \in [Fiber -> Vm \cup {Receiving} \cup {Nil}]
        /\ recvFiber \in [Vm -> Fiber \cup {Nil}] /\ crashed \in BOOLEAN
    BY <1>2 DEF Types, CoreTypeOK
  <1>8. CASE UNCHANGED <<strand, recvFiber, interrupter, crashed>>
    <2>1. Interrupting(g)
      BY <1>6, <1>7, <1>8 DEF Interrupting
    <2>2. Types'
      BY <1>2, <1>6, <1>7, <1>8, <2>1, InterruptTypes
    <2>3. strand' = strand /\ recvFiber' = recvFiber
      BY <1>8
    <2> QED
      BY <1>1, <1>2, <1>5, <2>1, <2>2, <2>3, InterruptQuiet
  <1>9. CASE interrupter' = [interrupter EXCEPT ![g] = Nil] /\ ReceiveInterrupter(g)
    <2>1. Interrupting(g)
      BY <1>6, <1>7, <1>9 DEF Interrupting, ReceiveInterrupter
    <2>2. /\ strand' = Posted(strand, v, Resume(recvFiber[v], "interrupted"))
          /\ recvFiber' = [recvFiber EXCEPT ![v] = Nil]
      BY <1>4, <1>9 DEF ReceiveInterrupter, Post, Posted
    <2>3. PICK h \in Handler : h = Resume(recvFiber[v], "interrupted")
      <3>1. recvFiber[v] \in Fiber \cup {Nil} /\ "interrupted" \in Result
        BY <1>7 DEF Result
      <3> QED
        BY <3>1, Made
    <2>4. strand' \in [Vm -> Seq(Handler)]
      BY <1>2, <2>2, <2>3, PostType DEF Posted
    <2>5. recvFiber' \in [Vm -> Fiber \cup {Nil}]
      BY <1>7, <2>2
    <2>6. Types'
      BY <1>2, <1>6, <2>1, <2>4, <2>5, InterruptTypes
    <2>7. CASE recvFiber[v] = Nil
      <3>1. recvFiber' = recvFiber
        BY <1>7, <2>2, <2>7
      <3>2. h.op = "resume" /\ h.fiber = Nil
        BY <2>3, <2>7, Shapes
      <3>3. \E u \in Vm, x \in Handler :
                 /\ ~destroyed[u] /\ strand' = Posted(strand, u, x)
                 /\ x.op \notin Owing \/ x.fiber = Nil
                 /\ x.op = "revoke" => x.fiber = g
        BY <1>5, <2>2, <2>3, <3>2
      <3> QED
        BY <1>1, <1>2, <1>5, <2>1, <2>6, <3>1, <3>3, InterruptQuiet
    <2>8. CASE recvFiber[v] # Nil
      BY <1>1, <1>2, <1>4, <1>5, <2>1, <2>2, <2>6, <2>8, InterruptReceiver
    <2> QED
      BY <2>7, <2>8
  <1>10. CASE /\ interrupter' = [interrupter EXCEPT ![g] = Nil]
              /\ interrupter[g] \in Vm /\ SendInterrupter(g, interrupter[g])
    <2>1. Interrupting(g)
      BY <1>6, <1>7, <1>10 DEF Interrupting, SendInterrupter
    <2>2. PICK w \in Vm : w = interrupter[g]
      BY <1>10
    <2>3. PICK h \in Handler : h = Revoke(g)
      BY Made
    <2>4. /\ strand' = IF CanLock(w) THEN Posted(strand, w, h) ELSE strand
          /\ recvFiber' = recvFiber
      BY <1>10, <2>2, <2>3 DEF SendInterrupter, Post, Posted
    <2>5. strand' \in [Vm -> Seq(Handler)]
      BY <1>2, <2>4, PostType DEF Posted
    <2>6. Types'
      BY <1>2, <1>6, <1>7, <2>1, <2>4, <2>5, InterruptTypes
    <2>7. h.op = "revoke" /\ h.fiber = g /\ h.op \notin Owing
      BY <2>3, Shapes DEF Owing
    <2>8. \/ strand' = strand
          \/ \E u \in Vm, x \in Handler :
                 /\ ~destroyed[u] /\ strand' = Posted(strand, u, x)
                 /\ x.op \notin Owing \/ x.fiber = Nil
                 /\ x.op = "revoke" => x.fiber = g
      BY <2>4, <2>7 DEF CanLock
    <2> QED
      BY <1>1, <1>2, <1>5, <2>1, <2>4, <2>6, <2>8, InterruptQuiet
  <1>11. interrupter[g] # Nil /\ interrupter[g] # Receiving => interrupter[g] \in Vm
    BY <1>7
  <1> QED
    BY <1>8, <1>9, <1>10, <1>11 DEF Interrupt

-----------------------------------------------------------------------------
(* An inbox is emptied.                                                      *)

\* The senders queued in the inbox of v are owed a resumption with channel_closed.
Answered(v, kind, home, word, kind1, home1, word1) ==
    /\ Ghosts(kind1, home1)
    /\ Elsewhere(Resumed(incoming[v]), kind, home, word, kind1, home1, word1)
    /\ \A f \in Resumed(incoming[v]) :
          /\ f \in Fiber /\ kind[f] = "incoming" /\ home[f] = v
          /\ kind1[f] = "resume" /\ home1[f] = VmOf[f] /\ word1[f] = "channel_closed"

\* The strands s0 become those of st, which owe it to them.
Emptied(v, s0, st, kind1, home1, word1) ==
    /\ st \in State
    /\ Grown(s0, st.strand, Resumed(incoming[v]))
    /\ OnStrand(st.strand, kind1, home1, word1)

\* There is an account of that.
LEMMA EmptyGhosts ==
    ASSUME Types, NEW v \in Vm, NEW rec, NEW aft, NEW kind, NEW home, NEW word,
           Ghosts(kind, home), Waiting(incoming, rec, aft, kind, home)
    PROVE  \E kind1, home1, word1 : Answered(v, kind, home, word, kind1, home1, word1)
  <1>1. PICK fs : fs = Resumed(incoming[v])
    OBVIOUS
  <1>2. incoming[v] \in Seq(Sender)
    BY DEF Types
  <1>3. \A f \in fs : f \in Fiber
    <2>1. \A i \in 1..Len(incoming[v]) : incoming[v][i] \in Sender
      BY <1>2, QueueFacts
    <2>2. \A i \in 1..Len(incoming[v]) : incoming[v][i].fiber \in Fiber
      BY <2>1 DEF Sender
    <2> QED
      BY <1>1, <2>2 DEF Resumed
  <1>4. \A f \in fs : kind[f] = "incoming" /\ home[f] = v
    BY <1>1, <1>3 DEF Waiting
  <1>5. PICK kind1 : kind1 = [g \in Fiber |-> IF g \in fs THEN "resume" ELSE kind[g]]
    OBVIOUS
  <1>6. PICK home1 : home1 = [g \in Fiber |-> IF g \in fs THEN VmOf[g] ELSE home[g]]
    OBVIOUS
  <1>7. PICK word1 : word1 = [g \in Fiber |-> IF g \in fs THEN "channel_closed" ELSE word[g]]
    OBVIOUS
  <1>8. Ghosts(kind1, home1)
    BY <1>5, <1>6, VmContextAssumption DEF Ghosts, Kind
  <1>9. Elsewhere(fs, kind, home, word, kind1, home1, word1)
    BY <1>5, <1>6, <1>7 DEF Elsewhere
  <1>10. \A f \in fs : kind1[f] = "resume" /\ home1[f] = VmOf[f] /\ word1[f] = "channel_closed"
    BY <1>3, <1>5, <1>6, <1>7
  <1>11. Answered(v, kind, home, word, kind1, home1, word1)
    BY <1>1, <1>3, <1>4, <1>8, <1>9, <1>10 DEF Answered
  <1> QED
    BY <1>11

\* incoming.clear() pays it.
LEMMA EmptyStrands ==
    ASSUME Types, NEW v \in Vm, NEW rec, NEW aft, NEW kind, NEW home, NEW word,
           Waiting(incoming, rec, aft, kind, home), NEW st \in State,
           OnStrand(st.strand, kind, home, word),
           NEW kind1, NEW home1, NEW word1, Answered(v, kind, home, word, kind1, home1, word1)
    PROVE  Emptied(v, st.strand, ClearIncoming(v, st), kind1, home1, word1)
  <1>1. incoming[v] \in Seq(Sender) /\ ResumesOnce(incoming[v])
    BY DEF Types, Waiting
  <1>2. \A f \in Resumed(incoming[v]) : kind[f] \notin Owing
    BY DEF Answered, Owing
  <1>3. /\ Elsewhere(Resumed(incoming[v]), kind, home, word, kind1, home1, word1)
        /\ \A f \in Resumed(incoming[v]) :
               kind1[f] = "resume" /\ home1[f] = VmOf[f] /\ word1[f] = "channel_closed"
    BY DEF Answered
  <1>4. Wakes(st, ClearIncoming(v, st), Resumed(incoming[v]), kind1, home1, word1)
    BY <1>1, <1>2, <1>3, ClearFacts
  <1> QED
    BY <1>4 DEF Emptied, Wakes

\* Nobody waits in the inbox any more.
LEMMA EmptyWaits ==
    ASSUME NEW v \in Vm, NEW rec, NEW aft, NEW kind, NEW home, NEW word,
           Waiting(incoming, rec, aft, kind, home), NEW inc1, inc1[v] = <<>>,
           \A w \in Vm : w # v => inc1[w] = incoming[w],
           NEW kind1, NEW home1, NEW word1, Answered(v, kind, home, word, kind1, home1, word1)
    PROVE  Waiting(inc1, rec, aft, kind1, home1)
  <1>1. PICK fs : fs = Resumed(incoming[v])
    OBVIOUS
  <1>2. /\ Elsewhere(fs, kind, home, word, kind1, home1, word1)
        /\ \A f \in fs : f \in Fiber /\ kind[f] = "incoming" /\ home[f] = v /\ kind1[f] = "resume"
    BY <1>1 DEF Answered
  <1>3. ResumesOnce(<<>>) /\ \A x : x \notin Resumed(<<>>)
    BY DEF ResumesOnce, Resumed
  <1>4. \A w \in Vm : ResumesOnce(inc1[w])
    <2>1. \A w \in Vm : ResumesOnce(incoming[w])
      BY DEF Waiting
    <2> QED
      BY <1>3, <2>1
  <1>5. \A w \in Vm, x \in Fiber : x \notin fs =>
              /\ x \in Resumed(inc1[w]) <=> x \in Resumed(incoming[w])
              /\ rec[w] = x <=> rec[w] = x
              /\ aft[w] = x <=> aft[w] = x
    BY <1>1, <1>3
  <1>6. \A w \in Vm, x \in Fiber : x \in fs =>
              /\ rec[w] # x /\ aft[w] # x
              /\ x \in Resumed(incoming[w]) => w = v
    BY <1>2 DEF Waiting
  <1>7. \A w \in Vm, x \in Fiber : x \in fs =>
              /\ x \in Resumed(inc1[w]) <=> kind1[x] = "incoming" /\ home1[x] = w
              /\ rec[w] = x <=> kind1[x] = "receiver" /\ home1[x] = w
              /\ aft[w] = x <=> kind1[x] = "after" /\ home1[x] = w
    BY <1>2, <1>3, <1>6
  <1> QED
    BY <1>2, <1>4, <1>5, <1>7, WaitMove

\* A queued sender that stays is told that the channel is closed.
LEMMA EmptyFiber ==
    ASSUME Types, NEW v \in Vm, NEW kind, NEW home, NEW word, NEW f \in Fiber,
           f \in Resumed(incoming[v]), FiberOK(f, kind, home, word), Stays(f), taken' = taken,
           NEW kind1, NEW home1, NEW word1, Answered(v, kind, home, word, kind1, home1, word1)
    PROVE  FiberOK(f, kind1, home1, word1)'
  <1>1. PICK x : x = "channel_closed"
    OBVIOUS
  <1>2. /\ kind[f] = "incoming" /\ kind1[f] = "resume" /\ home1[f] = VmOf[f] /\ word1[f] = x
    BY <1>1 DEF Answered
  <1>3. ~taken[f] /\ taken[f] \in BOOLEAN /\ kind[f] \in InSend \cup {"receiver"}
    BY <1>2 DEF FiberOK, SenderOK, InSend, Types
  <1>4. /\ x \in {"sent", "channel_closed", "interrupted"}
        /\ at[f] = "send" => (x = "sent" <=> taken'[f]) /\ (x = "interrupted" => interrupted[f])
    BY <1>1, <1>3
  <1> QED
    BY <1>2, <1>3, <1>4, FiberWoken

\* What is true of a fiber depends on its own account only.
LEMMA FiberSame ==
    ASSUME NEW f, NEW kind, NEW home, NEW word, NEW kind1, NEW home1, NEW word1,
           kind1[f] = kind[f], home1[f] = home[f], word1[f] = word[f]
    PROVE  FiberOK(f, kind, home, word) => FiberOK(f, kind1, home1, word1)
  BY DEF FiberOK, PlaceOK, WordOK, ReceiverOK, SenderOK

\* ... also after a step.
LEMMA FiberSameNext ==
    ASSUME NEW f, NEW kind, NEW home, NEW word, NEW kind1, NEW home1, NEW word1,
           kind1[f] = kind[f], home1[f] = home[f], word1[f] = word[f],
           FiberOK(f, kind, home, word)'
    PROVE  FiberOK(f, kind1, home1, word1)'
  BY DEF FiberOK, PlaceOK, WordOK, ReceiverOK, SenderOK

\* The fibers of gs move before the inbox of v is emptied; the others stay.
Parting(v, gs, kind, home, word, kind2, home2, word2) ==
    /\ Ghosts(kind2, home2)
    /\ Elsewhere(gs, kind, home, word, kind2, home2, word2)
    /\ \A x \in gs : x \notin Resumed(incoming[v]) /\ ~destroyed[VmOf[x]]
    /\ Waiting(incoming, recvFiber', after, kind2, home2)
    /\ \A x \in Fiber : x \notin gs => Stays(x) /\ (kind[x] = "receiver" => VmOf[x] # v)
    /\ \A x \in Fiber : x \in gs => FiberOK(x, kind2, home2, word2)'

\* The inbox is emptied, which leads from st to strands and counters.
Emptying(v, st) ==
    /\ strand' = ClearIncoming(v, st).strand
    /\ incoming'[v] = <<>>
    /\ \A w \in Vm : w # v => incoming'[w] = incoming[w] /\ open'[w] = open[w]
    /\ UNCHANGED <<valid, interrupted, tx, taken, after, destroyed>>
    /\ \A w \in Vm : ~valid[w] => running'[w] = Nil

\* The inbox of v is emptied, after the fibers of gs moved, in a VM that lives on.
LEMMA ShutStep ==
    ASSUME Types, \A u \in Vm : VmOK(u), NEW kind, NEW home, NEW word,
           Accounts(kind, home, word), Types', NEW v \in Vm,
           NEW gs, NEW kind2, NEW home2, NEW word2,
           Parting(v, gs, kind, home, word, kind2, home2, word2),
           NEW st \in State, OnStrand(st.strand, kind2, home2, word2), Grown(strand, st.strand, gs),
           Emptying(v, st)
    PROVE  Inv'
  <1>0. /\ Ghosts(kind2, home2)
        /\ Elsewhere(gs, kind, home, word, kind2, home2, word2)
        /\ \A x \in gs : x \notin Resumed(incoming[v])
        /\ Waiting(incoming, recvFiber', after, kind2, home2)
        /\ strand' = ClearIncoming(v, st).strand
        /\ \A w \in Vm : w # v => open'[w] = open[w]
        /\ \A x \in Fiber : x \notin gs => Stays(x) /\ (kind[x] = "receiver" => VmOf[x] # v)
        /\ \A x \in Fiber : x \in gs => FiberOK(x, kind2, home2, word2)'
        /\ \A x \in gs : ~destroyed[VmOf[x]]
        /\ UNCHANGED <<valid, interrupted, tx, taken, after, destroyed>>
        /\ \A w \in Vm : ~valid[w] => running'[w] = Nil
    BY DEF Parting, Emptying
  <1>1. PICK fs : fs = Resumed(incoming[v])
    OBVIOUS
  <1>2. PICK kind1, home1, word1 : Answered(v, kind2, home2, word2, kind1, home1, word1)
    BY <1>0, EmptyGhosts
  <1>3. /\ Ghosts(kind1, home1) /\ Elsewhere(fs, kind2, home2, word2, kind1, home1, word1)
        /\ \A x \in fs : x \in Fiber /\ x \notin gs /\ kind2[x] = "incoming" /\ home2[x] = v
    BY <1>0, <1>1, <1>2 DEF Answered
  <1>4. Elsewhere(gs \cup fs, kind, home, word, kind1, home1, word1)
    BY <1>0, <1>3 DEF Elsewhere
  <1>5. Emptied(v, st.strand, ClearIncoming(v, st), kind1, home1, word1)
    BY <1>0, <1>2, EmptyStrands
  <1>6. OnStrand(strand', kind1, home1, word1) /\ Grown(st.strand, strand', fs)
    BY <1>0, <1>1, <1>5 DEF Emptied
  <1>7. Grown(strand, strand', gs \cup fs)
    BY <1>0, <1>6, GrownTrans
  <1>8. PICK inc1 : inc1 = incoming'
    OBVIOUS
  <1>9. inc1[v] = <<>> /\ \A w \in Vm : w # v => inc1[w] = incoming[w]
    BY <1>8 DEF Emptying
  <1>10. Waiting(incoming', recvFiber', after', kind1, home1)
    <2>1. Waiting(inc1, recvFiber', after, kind1, home1)
      BY <1>0, <1>2, <1>9, EmptyWaits
    <2> QED
      BY <1>0, <1>8, <2>1
  <1>11. \A x \in Fiber : FiberOK(x, kind, home, word) /\ VmOf[x] \in Vm
    BY <1>0, VmContextAssumption DEF Accounts
  <1>12. ASSUME NEW x \in Fiber, x \notin gs \cup fs PROVE Still(x, kind, home)
    <2>1. Stays(x) /\ (kind[x] = "receiver" => VmOf[x] # v)
      BY <1>0, <1>12
    <2>2. kind[x] = "receiver" => open'[VmOf[x]] /\ incoming'[VmOf[x]] = <<>>
      BY <1>0, <1>8, <1>9, <1>11, <2>1 DEF FiberOK, ReceiverOK
    <2> QED
      BY <1>0, <1>11, <2>1, <2>2 DEF Still, FiberOK, SenderOK
  <1>13. ASSUME NEW x \in Fiber, x \in gs \cup fs PROVE FiberOK(x, kind1, home1, word1)'
    <2>1. CASE x \in gs
      <3>1. FiberOK(x, kind2, home2, word2)'
        BY <1>0, <2>1
      <3>2. kind1[x] = kind2[x] /\ home1[x] = home2[x] /\ word1[x] = word2[x]
        BY <1>0, <1>3, <2>1 DEF Elsewhere
      <3> QED
        BY <1>0, <3>1, <3>2, FiberSameNext
    <2>2. CASE x \in fs
      <3>1. x \notin gs
        BY <1>0, <1>3, <2>2
      <3>2. kind2[x] = kind[x] /\ home2[x] = home[x] /\ word2[x] = word[x]
        BY <1>0, <3>1 DEF Elsewhere
      <3>3. FiberOK(x, kind2, home2, word2)
        BY <1>0, <1>11, <3>2, FiberSame
      <3>4. Stays(x) /\ taken' = taken /\ x \in Resumed(incoming[v])
        BY <1>0, <1>1, <2>2, <3>1
      <3> QED
        BY <1>0, <1>2, <3>3, <3>4, EmptyFiber
    <2> QED
      BY <1>0, <1>13, <2>1, <2>2
  <1>14. RevokesKept
    BY <1>0, <1>7 DEF RevokesKept, Grown, OfSender
  <1>15. VmsKept
    <2>1. ASSUME NEW w \in Vm
          PROVE  /\ ~open'[w] => incoming'[w] = <<>>
                 /\ ~valid'[w] => running'[w] = Nil
                 /\ destroyed[w] => ~valid'[w] /\ strand'[w] = <<>> /\ after'[w] = Nil
      <3>1. VmOK(w)
        BY <1>0
      <3>2. ~open'[w] => incoming'[w] = <<>>
        BY <1>0, <1>8, <1>9, <3>1 DEF VmOK
      <3>3. ASSUME destroyed[w] PROVE strand'[w] = <<>>
        <4>1. strand[w] = <<>> /\ ~CanLock(w)
          BY <1>0, <3>1, <3>3 DEF VmOK, CanLock
        <4>2. ASSUME NEW x \in gs \cup fs, VmOf[x] = w PROVE FALSE
          <5>1. x \in fs
            BY <1>0, <3>3, <4>2
          <5>2. kind[x] = "incoming"
            BY <1>0, <1>3, <5>1 DEF Elsewhere
          <5> QED
            BY <1>0, <1>3, <1>11, <3>3, <4>2, <5>1, <5>2 DEF FiberOK, PlaceOK
        <4> QED
          BY <1>0, <1>7, <4>1, <4>2 DEF Grown, OfSender
      <3> QED
        BY <1>0, <3>1, <3>2, <3>3 DEF VmOK
    <2> QED
      BY <1>0, <2>1 DEF VmsKept
  <1>16. /\ \A x \in Fiber : x \notin gs \cup fs => Still(x, kind, home)
         /\ \A x \in Fiber : x \in gs \cup fs => FiberOK(x, kind1, home1, word1)'
    BY <1>0, <1>12, <1>13
  <1> QED
    BY <1>0, <1>3, <1>4, <1>6, <1>10, <1>14, <1>15, <1>16, MoveStep

\* incoming.clear() leads to strands and counters.
LEMMA EmptyType ==
    ASSUME Types, NEW v \in Vm, NEW rec, NEW aft, NEW kind, NEW home, NEW word,
           Ghosts(kind, home), Waiting(incoming, rec, aft, kind, home), NEW st \in State,
           OnStrand(st.strand, kind, home, word)
    PROVE  ClearIncoming(v, st) \in State
  <1>1. PICK kind1, home1, word1 : Answered(v, kind, home, word, kind1, home1, word1)
    BY EmptyGhosts
  <1>2. Emptied(v, st.strand, ClearIncoming(v, st), kind1, home1, word1)
    BY <1>1, EmptyStrands
  <1> QED
    BY <1>2 DEF Emptied

\* The one that receives from an inbox is the one the inbox knows.
LEMMA OnlyReceiver ==
    ASSUME NEW kind, NEW home, NEW word, Accounts(kind, home, word), NEW v \in Vm, NEW x \in Fiber,
           kind[x] = "receiver", VmOf[x] = v
    PROVE  recvFiber[v] = x
  <1>1. FiberOK(x, kind, home, word) /\ Waiting(incoming, recvFiber, after, kind, home)
    BY DEF Accounts
  <1>2. home[x] = v
    BY <1>1 DEF FiberOK, ReceiverOK
  <1> QED
    BY <1>1, <1>2 DEF Waiting

\* The inbox is shut and everything keeps its type.
LEMMA ShutTypes ==
    ASSUME Types, NEW v \in Vm, NEW st \in State, ShutInbox(v, st),
           running' \in [Vm -> Fiber \cup {Nil}],
           at' \in [Fiber -> Suspended \cup Gone \cup {"running"}], ret' \in [Fiber -> Result],
           recvFiber' \in [Vm -> Fiber \cup {Nil}], inboxLive' \in [Vm -> BOOLEAN],
           UNCHANGED <<valid, fiberData, imported, forgotten, tx, after, destroyed, crashed, taken>>
    PROVE  /\ Types' /\ strand' = st.strand /\ incoming' = [incoming EXCEPT ![v] = <<>>]
           /\ \A w \in Vm : w # v => open'[w] = open[w]
  <1>1. /\ strand' = st.strand /\ incoming' = [incoming EXCEPT ![v] = <<>>]
        /\ nsenders' = st.nsenders /\ open' = [open EXCEPT ![v] = FALSE]
    BY DEF ShutInbox, Becomes
  <1>2. strand' \in [Vm -> Seq(Handler)] /\ nsenders' \in [Vm -> Int]
    BY <1>1, StateFacts
  <1>3. <<>> \in Seq(Sender)
    OBVIOUS
  <1>4. incoming' \in [Vm -> Seq(Sender)]
    BY <1>1, <1>3 DEF Types
  <1>5. open' \in [Vm -> BOOLEAN] /\ \A w \in Vm : w # v => open'[w] = open[w]
    BY <1>1 DEF Types
  <1> QED
    BY <1>1, <1>2, <1>4, <1>5 DEF Types, CoreTypeOK, fiberData, IsMain

\* The garbage collector takes the inbox.
LEMMA StepInboxGc ==
    ASSUME Inv, NEW f \in Fiber, InboxGc(f) PROVE Inv'
  <1>1. PICK kind, home, word : Accounts(kind, home, word)
    BY DEF Inv
  <1>2. Types /\ (\A w \in Vm : VmOK(w)) /\ strand \in [Vm -> Seq(Handler)]
    BY DEF Inv, Types
  <1>3. PICK v \in Vm : v = VmOf[f]
    BY VmContextAssumption
  <1>4. /\ recvFiber[v] = Nil /\ inboxLive' = [inboxLive EXCEPT ![v] = FALSE]
        /\ UNCHANGED <<running, valid, at, fiberData, ret, recvFiber, imported, forgotten, tx, after,
                       destroyed, crashed, taken>>
        /\ \/ ShutInbox(v, ClearIncoming(v, Now))
           \/ UNCHANGED <<open, incoming, nsenders, strand>>
    BY <1>3 DEF InboxGc
  <1>5. inboxLive' \in [Vm -> BOOLEAN]
    BY <1>2, <1>4 DEF Types
  <1>6. CASE UNCHANGED <<open, incoming, nsenders, strand>>
    <2>1. Types'
      BY <1>2, <1>4, <1>5, <1>6 DEF Types, CoreTypeOK, fiberData, IsMain
    <2> QED
      BY <1>4, <1>6, <2>1, AnswerStep
  <1>7. CASE ShutInbox(v, ClearIncoming(v, Now))
    <2>1. PICK st \in State : st = Now /\ st.strand = strand
      BY <1>2, NowFacts
    <2>2. /\ Ghosts(kind, home) /\ Waiting(incoming, recvFiber, after, kind, home)
          /\ OnStrand(st.strand, kind, home, word)
      BY <1>1, <2>1 DEF Accounts
    <2>3. PICK st1 \in State : st1 = ClearIncoming(v, st)
      BY <1>2, <2>2, EmptyType
    <2>4. ShutInbox(v, st1)
      BY <1>7, <2>1, <2>3
    <2>5. /\ running' \in [Vm -> Fiber \cup {Nil}]
          /\ at' \in [Fiber -> Suspended \cup Gone \cup {"running"}] /\ ret' \in [Fiber -> Result]
          /\ recvFiber' \in [Vm -> Fiber \cup {Nil}]
          /\ UNCHANGED <<valid, fiberData, imported, forgotten, tx, after, destroyed, crashed, taken>>
      BY <1>2, <1>4 DEF Types, CoreTypeOK
    <2>6. /\ Types' /\ strand' = st1.strand /\ incoming' = [incoming EXCEPT ![v] = <<>>]
          /\ \A w \in Vm : w # v => open'[w] = open[w]
      BY <1>2, <1>5, <2>4, <2>5, ShutTypes
    <2>7. PICK gs : gs = {}
      OBVIOUS
    <2>8. \A x \in Fiber : x \notin gs => Stays(x) /\ (kind[x] = "receiver" => VmOf[x] # v)
      <3>1. \A x \in Fiber : Stays(x)
        BY <1>4 DEF Stays, fiberData
      <3>2. \A x \in Fiber : kind[x] = "receiver" => VmOf[x] # v
        BY <1>1, <1>4, OnlyReceiver, VmContextAssumption
      <3> QED
        BY <3>1, <3>2
    <2>9. Grown(strand, st.strand, gs)
      BY <1>2, <2>1, <2>7, GrownSame
    <2>10. Parting(v, gs, kind, home, word, kind, home, word)
      <3>1. Waiting(incoming, recvFiber', after, kind, home)
        BY <1>4, <2>2
      <3> QED
        BY <2>2, <2>7, <2>8, <3>1 DEF Parting, Elsewhere
    <2>11. Emptying(v, st)
      <3>1. \A w \in Vm : ~valid[w] => running'[w] = Nil
        BY <1>2, <1>4 DEF VmOK
      <3>2. incoming'[v] = <<>> /\ \A w \in Vm : w # v => incoming'[w] = incoming[w]
        BY <1>2, <2>6 DEF Types
      <3> QED
        BY <1>4, <2>3, <2>6, <3>1, <3>2 DEF Emptying, fiberData
    <2>12. Types'
      BY <2>6
    <2> QED
      BY <1>1, <1>2, <2>2, <2>9, <2>10, <2>11, <2>12, ShutStep
  <1> QED
    BY <1>4, <1>6, <1>7

\* Only an inbox that was imported has a receiver.
ImportedFirst == \A v \in Vm : recvFiber[v] # Nil => imported[v]

\* A fiber ends; when it is the main one, an inbox it never imported is shut.
LEMMA StepEnd ==
    ASSUME Inv, ImportedFirst, NEW f \in Fiber, End(f) PROVE Inv'
  <1>1. PICK kind, home, word : Accounts(kind, home, word)
    BY DEF Inv
  <1>2. Types /\ (\A w \in Vm : VmOK(w)) /\ strand \in [Vm -> Seq(Handler)] /\ Calls(f)
    BY DEF Inv, Types, End
  <1>3. PICK v \in Vm : v = VmOf[f]
    BY VmContextAssumption
  <1>4. IsCaller(f, kind, home, word)
    BY <1>1, <1>2, Caller
  <1>5. /\ kind[f] = "none" /\ valid[v] /\ running[v] = f /\ destroyed[v] = FALSE
        /\ at[Main[v]] # "unborn" /\ FiberOK(f, kind, home, word) /\ f # Nil
    BY <1>3, <1>4 DEF IsCaller
  <1>6. /\ Suspend(f, "dead")
        /\ UNCHANGED <<valid, fiberData, recvFiber, imported, inboxLive, forgotten, tx, after,
                       destroyed, crashed, taken>>
        /\ \/ ~imported[v] /\ ShutInbox(v, ClearIncoming(v, Now))
           \/ UNCHANGED <<open, incoming, nsenders, strand>>
    BY <1>3 DEF End
  <1>7. /\ running' \in [Vm -> Fiber \cup {Nil}] /\ running'[v] = Nil
        /\ at' \in [Fiber -> Suspended \cup Gone \cup {"running"}] /\ at'[f] = "dead"
        /\ ret' \in [Fiber -> Result]
        /\ \A u \in Vm : u # v => running'[u] = running[u]
        /\ \A g \in Fiber : g # f => at'[g] = at[g]
        /\ \A g \in Fiber : g # f => (running'[VmOf[g]] = g <=> running[VmOf[g]] = g)
        /\ \A u \in Vm : at[Main[u]] # "unborn" => at'[Main[u]] # "unborn"
    <2>1. PICK site : site = "dead"
      OBVIOUS
    <2>2. site \in Suspended \cup Gone /\ site # "unborn" /\ Suspend(f, site) /\ running[VmOf[f]] = f
      BY <1>3, <1>5, <1>6, <2>1 DEF Gone
    <2> QED
      BY <1>2, <1>3, <2>1, <2>2, SuspendFacts
  <1>8. \A x \in Fiber : x # f => Stays(x)
    <2>1. \A g \in Fiber : g # f => at'[g] = at[g] /\ interrupter'[g] = interrupter[g]
      BY <1>6, <1>7 DEF fiberData
    <2>2. UNCHANGED <<valid, counters, interrupted, destroyed>>
      BY <1>6 DEF fiberData, counters
    <2> QED
      BY <1>7, <2>1, <2>2, OthersWait
  <1>9. FiberOK(f, kind, home, word)'
    <2>1. valid'[VmOf[f]] /\ destroyed'[VmOf[f]] = FALSE /\ running'[VmOf[f]] # f
          /\ interrupter'[f] = Nil
      BY <1>3, <1>4, <1>5, <1>6, <1>7 DEF IsCaller, fiberData
    <2>2. at'[Main[VmOf[f]]] # "unborn" /\ at'[f] \notin Suspended /\ at'[f] # "running"
      BY <1>3, <1>5, <1>7 DEF Suspended
    <2>3. PlaceOK(f, kind)'
      BY <1>5, <2>1, <2>2 DEF PlaceOK
    <2> QED
      BY <1>5, <2>3 DEF FiberOK, WordOK, ReceiverOK, SenderOK, InSend
  <1>10. \A w \in Vm : ~valid[w] => running'[w] = Nil
    <2>1. SUFFICES ASSUME NEW w \in Vm, ~valid[w] PROVE running'[w] = Nil
      OBVIOUS
    <2>2. VmOK(w)
      BY <1>2
    <2> QED
      BY <1>7, <2>1, <2>2 DEF VmOK
  <1>11. CASE UNCHANGED <<open, incoming, nsenders, strand>>
    <2>1. Types'
      BY <1>2, <1>6, <1>7, <1>11 DEF Types, CoreTypeOK, fiberData, IsMain
    <2>2. Ghosts(kind, home) /\ Elsewhere({f}, kind, home, word, kind, home, word)
      BY <1>1 DEF Accounts, Elsewhere
    <2>3. /\ OnStrand(strand', kind, home, word)
          /\ Waiting(incoming', recvFiber', after', kind, home)
      BY <1>1, <1>6, <1>11 DEF Accounts
    <2>4. \A x \in Fiber : x \notin {f} => Still(x, kind, home)
      <3>1. SUFFICES ASSUME NEW x \in Fiber, x # f PROVE Still(x, kind, home)
        OBVIOUS
      <3>2. Stays(x) /\ FiberOK(x, kind, home, word)
        BY <1>1, <1>8, <3>1 DEF Accounts
      <3> QED
        BY <1>6, <1>11, <3>2 DEF Still, FiberOK, ReceiverOK, SenderOK
    <2>5. RevokesKept
      BY <1>6, <1>11 DEF RevokesKept, fiberData
    <2>6. VmsKept
      <3>1. ASSUME NEW u \in Vm
            PROVE  /\ ~open'[u] => incoming'[u] = <<>>
                   /\ ~valid'[u] => running'[u] = Nil
                   /\ destroyed[u] => ~valid'[u] /\ strand'[u] = <<>> /\ after'[u] = Nil
        <4>1. VmOK(u)
          BY <1>2
        <4> QED
          BY <1>6, <1>10, <1>11, <4>1 DEF VmOK
      <3> QED
        BY <3>1 DEF VmsKept
    <2>7. \A x \in Fiber : x \in {f} => FiberOK(x, kind, home, word)'
      BY <1>9
    <2> QED
      BY <1>1, <1>2, <2>1, <2>2, <2>3, <2>4, <2>5, <2>6, <2>7, MoveStep
  <1>12. CASE ~imported[v] /\ ShutInbox(v, ClearIncoming(v, Now))
    <2>1. PICK st \in State : st = Now /\ st.strand = strand
      BY <1>2, NowFacts
    <2>2. /\ Ghosts(kind, home) /\ Waiting(incoming, recvFiber, after, kind, home)
          /\ OnStrand(st.strand, kind, home, word)
      BY <1>1, <2>1 DEF Accounts
    <2>3. PICK st1 \in State : st1 = ClearIncoming(v, st)
      BY <1>2, <2>2, EmptyType
    <2>4. ShutInbox(v, st1)
      BY <1>12, <2>1, <2>3
    <2>5. /\ recvFiber' \in [Vm -> Fiber \cup {Nil}] /\ inboxLive' \in [Vm -> BOOLEAN]
          /\ UNCHANGED <<valid, fiberData, imported, forgotten, tx, after, destroyed, crashed, taken>>
      BY <1>2, <1>6 DEF Types
    <2>6. /\ Types' /\ strand' = st1.strand /\ incoming' = [incoming EXCEPT ![v] = <<>>]
          /\ \A w \in Vm : w # v => open'[w] = open[w]
      BY <1>2, <1>7, <2>4, <2>5, ShutTypes
    <2>7. PICK gs : gs = {f}
      OBVIOUS
    <2>8. \A x \in Fiber : x \notin gs => Stays(x) /\ (kind[x] = "receiver" => VmOf[x] # v)
      <3>1. recvFiber[v] = Nil
        BY <1>12 DEF ImportedFirst
      <3>2. \A x \in Fiber : kind[x] = "receiver" => VmOf[x] # v
        BY <1>1, <3>1, OnlyReceiver, VmContextAssumption
      <3> QED
        BY <1>8, <2>7, <3>2
    <2>9. Grown(strand, st.strand, gs)
      <3>1. Grown(strand, strand, {})
        BY <1>2, GrownSame
      <3> QED
        BY <2>1, <3>1 DEF Grown, OfSender
    <2>10. Parting(v, gs, kind, home, word, kind, home, word)
      <3>1. Waiting(incoming, recvFiber', after, kind, home)
        BY <1>6, <2>2
      <3>2. f \notin Resumed(incoming[v]) /\ ~destroyed[VmOf[f]]
        BY <1>3, <1>5, <2>2 DEF Waiting
      <3> QED
        BY <1>9, <2>2, <2>7, <2>8, <3>1, <3>2 DEF Parting, Elsewhere
    <2>11. Emptying(v, st)
      <3>1. incoming'[v] = <<>> /\ \A w \in Vm : w # v => incoming'[w] = incoming[w]
        BY <1>2, <2>6 DEF Types
      <3> QED
        BY <1>6, <1>10, <2>3, <2>6, <3>1 DEF Emptying, fiberData
    <2>12. Types'
      BY <2>6
    <2> QED
      BY <1>1, <1>2, <2>2, <2>9, <2>10, <2>11, <2>12, ShutStep
  <1> QED
    BY <1>6, <1>11, <1>12

\* inbox_close(): the receiver is told, then the queued senders are.
LEMMA StepInboxClose ==
    ASSUME Inv, NEW f \in Fiber, InboxClose(f) PROVE Inv'
  <1>1. PICK kind, home, word : Accounts(kind, home, word)
    BY DEF Inv
  <1>2. Types /\ (\A w \in Vm : VmOK(w)) /\ strand \in [Vm -> Seq(Handler)]
    BY DEF Inv, Types
  <1>3. PICK v \in Vm : v = VmOf[f]
    BY VmContextAssumption
  <1>4. PICK st : st = IF recvFiber[v] = Nil THEN Now
                       ELSE PostIn(Now, v, Resume(recvFiber[v], "channel_closed"))
    OBVIOUS
  <1>5. /\ recvFiber' = [recvFiber EXCEPT ![v] = Nil] /\ ret' = [ret EXCEPT ![f] = "none"]
        /\ ShutInbox(v, ClearIncoming(v, st))
        /\ UNCHANGED <<running, at, valid, fiberData, imported, inboxLive, forgotten, tx, after,
                       destroyed, crashed, taken>>
    BY <1>3, <1>4 DEF InboxClose, Return
  <1>6. \A x \in Fiber : Stays(x) /\ FiberOK(x, kind, home, word)
    BY <1>1, <1>5 DEF Stays, fiberData, Accounts
  <1>7. PICK rec1 : rec1 = recvFiber'
    OBVIOUS
  <1>8. /\ rec1 \in [Vm -> Fiber \cup {Nil}] /\ rec1[v] = Nil
        /\ \A w \in Vm : w # v => rec1[w] = recvFiber[w]
    BY <1>2, <1>5, <1>7 DEF Types
  <1>9. Now \in State /\ Now.strand = strand
    BY <1>2, NowFacts
  <1>10. Waiting(incoming, recvFiber, after, kind, home) /\ Nil \notin Fiber /\ Ghosts(kind, home)
         /\ OnStrand(strand, kind, home, word)
    BY <1>1, VmContextAssumption DEF Accounts
  <1>11. \E gs, kind2, home2, word2 :
            /\ Parting(v, gs, kind, home, word, kind2, home2, word2)
            /\ st \in State /\ OnStrand(st.strand, kind2, home2, word2) /\ Grown(strand, st.strand, gs)
    <2>1. CASE recvFiber[v] = Nil
      <3>1. st = Now /\ recvFiber' = recvFiber
        BY <1>2, <1>4, <1>5, <2>1 DEF Types
      <3>2. Grown(strand, st.strand, {})
        BY <1>2, <1>9, <3>1, GrownSame
      <3>3. \A x \in Fiber : kind[x] = "receiver" => VmOf[x] # v
        BY <1>1, <2>1, OnlyReceiver, VmContextAssumption
      <3>4. Parting(v, {}, kind, home, word, kind, home, word)
        BY <1>6, <1>10, <3>1, <3>3 DEF Parting, Elsewhere
      <3> QED
        BY <1>9, <1>10, <3>1, <3>2, <3>4
    <2>2. CASE recvFiber[v] # Nil
      <3>1. PICK r : r = recvFiber[v]
        OBVIOUS
      <3>2. /\ r \in Fiber /\ kind[r] = "receiver" /\ home[r] = v /\ VmOf[r] = v /\ at[r] = "receive"
            /\ valid[v] /\ incoming[v] = <<>>
        BY <1>1, <1>2, <2>2, <3>1, Receiver
      <3>3. PICK h : h = Resume(r, "channel_closed")
        OBVIOUS
      <3>4. /\ h \in Handler /\ h.op = "resume" /\ h.fiber = r /\ h.clear = TRUE
            /\ h.val = "channel_closed"
        BY <3>2, <3>3, Made, Shapes DEF Result
      <3>5. st = PostIn(Now, v, h)
        BY <1>4, <2>2, <3>1, <3>3
      <3>6. st \in State /\ st.strand = Posted(strand, v, h)
        BY <1>9, <3>4, <3>5, PostInFacts
      <3>7. Grown(strand, Posted(strand, v, h), {r})
        BY <1>2, <3>2, <3>4, GrownPost
      <3>8. PICK kind2, home2, word2 :
                Moved(kind, home, word, r, "resume", v, "channel_closed", kind2, home2, word2)
        <4>1. "resume" \in Kind
          BY DEF Kind
        <4>2. Moved(kind, home, word, r, "resume", v, "channel_closed",
                    Put(kind, r, "resume"), Put(home, r, v), Put(word, r, "channel_closed"))
          BY <1>10, <3>2, <4>1, GhostMove
        <4> QED
          BY <4>2
      <3>9. /\ Ghosts(kind2, home2) /\ kind2[r] = "resume" /\ home2[r] = v
            /\ word2[r] = "channel_closed"
            /\ Elsewhere({r}, kind, home, word, kind2, home2, word2)
        BY <3>8 DEF Moved
      <3>10. OnStrand(Posted(strand, v, h), kind2, home2, word2)
        <4>1. /\ OnStrand(strand, kind, home, word) /\ h.op \in Owing /\ h.fiber \in Fiber
              /\ kind[h.fiber] \notin Owing
              /\ Elsewhere({h.fiber}, kind, home, word, kind2, home2, word2)
              /\ kind2[h.fiber] = h.op /\ home2[h.fiber] = v
              /\ h.op = "resume" => word2[h.fiber] = h.val /\ (h.clear <=> h.val # "none")
          BY <1>10, <3>2, <3>4, <3>9 DEF Owing
        <4> QED
          BY <1>2, <3>4, <4>1, PostOwed
      <3>11. Waiting(incoming, rec1, after, kind2, home2)
        <4>1. \A w \in Vm : ResumesOnce(incoming[w])
          BY <1>10 DEF Waiting
        <4>2. \A w \in Vm : /\ after[w] # r /\ r \notin Resumed(incoming[w])
                            /\ recvFiber[w] = r => w = v
          BY <1>10, <3>2 DEF Waiting
        <4>3. \A w \in Vm, x \in Fiber : x \notin {r} =>
                  /\ x \in Resumed(incoming[w]) <=> x \in Resumed(incoming[w])
                  /\ rec1[w] = x <=> recvFiber[w] = x
                  /\ after[w] = x <=> after[w] = x
          BY <1>8, <1>10, <3>1
        <4>4. \A w \in Vm, x \in Fiber : x \in {r} =>
                  /\ x \in Resumed(incoming[w]) <=> kind2[x] = "incoming" /\ home2[x] = w
                  /\ rec1[w] = x <=> kind2[x] = "receiver" /\ home2[x] = w
                  /\ after[w] = x <=> kind2[x] = "after" /\ home2[x] = w
          BY <1>8, <1>10, <3>2, <3>9, <4>2
        <4> QED
          BY <1>10, <3>9, <4>1, <4>3, <4>4, WaitMove
      <3>12. FiberOK(r, kind2, home2, word2)'
        <4>1. PICK x : x = "channel_closed"
          OBVIOUS
        <4>2. /\ kind[r] \in InSend \cup {"receiver"} /\ taken[r] \in BOOLEAN
              /\ word2[r] = x /\ x \in {"sent", "channel_closed", "interrupted"}
              /\ at[r] = "send" => (x = "sent" <=> taken'[r]) /\ (x = "interrupted" => interrupted[r])
              /\ home2[r] = VmOf[r]
          BY <1>2, <3>2, <3>9, <4>1 DEF Types
        <4> QED
          BY <1>6, <3>2, <3>9, <4>2, FiberWoken
      <3>13. \A x \in Fiber : x # r /\ kind[x] = "receiver" => VmOf[x] # v
        BY <1>1, <3>1, OnlyReceiver
      <3>14. r \notin Resumed(incoming[v]) /\ ~destroyed[VmOf[r]]
        <4>1. VmOK(v)
          BY <1>2
        <4> QED
          BY <1>10, <3>2, <4>1 DEF VmOK, Waiting
      <3>15. Parting(v, {r}, kind, home, word, kind2, home2, word2)
        BY <1>6, <1>7, <3>9, <3>11, <3>12, <3>13, <3>14 DEF Parting
      <3> QED
        BY <3>6, <3>7, <3>10, <3>15
    <2> QED
      BY <2>1, <2>2
  <1>12. PICK gs, kind2, home2, word2 :
            /\ Parting(v, gs, kind, home, word, kind2, home2, word2)
            /\ st \in State /\ OnStrand(st.strand, kind2, home2, word2) /\ Grown(strand, st.strand, gs)
    BY <1>11
  <1>13. PICK st1 \in State : st1 = ClearIncoming(v, st)
    <2>1. Ghosts(kind2, home2) /\ Waiting(incoming, recvFiber', after, kind2, home2)
      BY <1>12 DEF Parting
    <2> QED
      BY <1>2, <1>12, <2>1, EmptyType
  <1>14. /\ Types' /\ strand' = st1.strand /\ incoming' = [incoming EXCEPT ![v] = <<>>]
         /\ \A w \in Vm : w # v => open'[w] = open[w]
    <2>1. ShutInbox(v, st1)
      BY <1>5, <1>13
    <2>2. ret' \in [Fiber -> Result]
      BY <1>2, <1>5 DEF Types, CoreTypeOK, Result
    <2>3. /\ running' \in [Vm -> Fiber \cup {Nil}]
          /\ at' \in [Fiber -> Suspended \cup Gone \cup {"running"}]
          /\ recvFiber' \in [Vm -> Fiber \cup {Nil}] /\ inboxLive' \in [Vm -> BOOLEAN]
          /\ UNCHANGED <<valid, fiberData, imported, forgotten, tx, after, destroyed, crashed, taken>>
      BY <1>2, <1>5, <1>7, <1>8 DEF Types, CoreTypeOK
    <2> QED
      BY <1>2, <2>1, <2>2, <2>3, ShutTypes
  <1>15. Emptying(v, st)
    <2>1. \A w \in Vm : ~valid[w] => running'[w] = Nil
      BY <1>2, <1>5 DEF VmOK
    <2>2. incoming'[v] = <<>> /\ \A w \in Vm : w # v => incoming'[w] = incoming[w]
      BY <1>2, <1>14 DEF Types
    <2> QED
      BY <1>5, <1>13, <1>14, <2>1, <2>2 DEF Emptying, fiberData
  <1>16. Types'
    BY <1>14
  <1> QED
    BY <1>1, <1>2, <1>12, <1>15, <1>16, ShutStep

-----------------------------------------------------------------------------
(* A VM is closed.                                                           *)

\* What close() of v does to the fibers and the inbox, as long as it leads to
\* strands and counters.
Closing(v) ==
    /\ valid'[v] = FALSE /\ running'[v] = Nil
    /\ \A w \in Vm : w # v => valid'[w] = valid[w] /\ running'[w] = running[w]
    /\ \A x \in Fiber : VmOf[x] = v => at'[x] = "dead" /\ interrupter'[x] = Nil
    /\ \A x \in Fiber : VmOf[x] # v =>
          /\ at'[x] = at[x] /\ interrupter'[x] = interrupter[x] /\ interrupted'[x] = interrupted[x]
          /\ interruptionDisabled'[x] = interruptionDisabled[x]
    /\ recvFiber'[v] = Nil /\ incoming'[v] = <<>>
    /\ \A w \in Vm : w # v => /\ recvFiber'[w] = recvFiber[w] /\ incoming'[w] = incoming[w]
                              /\ open'[w] = open[w] /\ tx'[w] = tx[w]
    /\ UNCHANGED <<after, taken>>

\* close() keeps the types and gives up what belongs to v.
LEMMA CloseFacts ==
    ASSUME Types, NEW v \in Vm, NEW st \in State, Close(v, st), destroyed' \in [Vm -> BOOLEAN]
    PROVE  Types' /\ Closing(v) /\ strand' = st.strand
  <1>1. /\ valid' = [valid EXCEPT ![v] = FALSE] /\ running' = [running EXCEPT ![v] = Nil]
        /\ at' = Freed(at, v, "dead")
        /\ interruptionDisabled' = Freed(interruptionDisabled, v, 0)
        /\ suspensionDisallowed' = Freed(suspensionDisallowed, v, 0)
        /\ interrupted' = Freed(interrupted, v, FALSE)
        /\ interrupter' = Freed(interrupter, v, Nil)
        /\ ret' = Freed(ret, v, "none")
        /\ recvFiber' = [recvFiber EXCEPT ![v] = Nil]
        /\ inboxLive' = [inboxLive EXCEPT ![v] = FALSE]
        /\ tx' = [tx EXCEPT ![v] = NoAddress]
        /\ open' = [open EXCEPT ![v] = FALSE]
        /\ incoming' = [incoming EXCEPT ![v] = <<>>]
        /\ strand' = st.strand /\ nsenders' = st.nsenders
        /\ UNCHANGED <<forgotten, imported, after, crashed, taken>>
    BY DEF Close, CloseVm, ShutInbox, Becomes
  <1>2. strand' \in [Vm -> Seq(Handler)] /\ nsenders' \in [Vm -> Int]
    BY <1>1, StateFacts
  <1>3. <<>> \in Seq(Sender) /\ NoAddress \in [Vm -> Nat]
    BY DEF NoAddress
  <1>4. /\ incoming' \in [Vm -> Seq(Sender)] /\ incoming'[v] = <<>>
        /\ \A w \in Vm : w # v => incoming'[w] = incoming[w]
    BY <1>1, <1>3 DEF Types
  <1>5. tx' \in [Vm -> [Vm -> Nat]] /\ \A w \in Vm : w # v => tx'[w] = tx[w]
    BY <1>1, <1>3 DEF Types
  <1>6. /\ open' \in [Vm -> BOOLEAN] /\ inboxLive' \in [Vm -> BOOLEAN]
        /\ \A w \in Vm : w # v => open'[w] = open[w]
    BY <1>1 DEF Types
  <1>7. /\ recvFiber' \in [Vm -> Fiber \cup {Nil}] /\ recvFiber'[v] = Nil
        /\ \A w \in Vm : w # v => recvFiber'[w] = recvFiber[w]
    BY <1>1 DEF Types
  <1>8. /\ valid' \in [Vm -> BOOLEAN] /\ valid'[v] = FALSE
        /\ running' \in [Vm -> Fiber \cup {Nil}] /\ running'[v] = Nil
        /\ \A w \in Vm : w # v => valid'[w] = valid[w] /\ running'[w] = running[w]
    BY <1>1 DEF Types, CoreTypeOK
  <1>9. /\ at' \in [Fiber -> Suspended \cup Gone \cup {"running"}]
        /\ \A x \in Fiber : at'[x] = IF VmOf[x] = v THEN "dead" ELSE at[x]
    BY <1>1 DEF Types, CoreTypeOK, Freed, Gone
  <1>10. /\ interrupter' \in [Fiber -> Vm \cup {Receiving} \cup {Nil}]
         /\ \A x \in Fiber : interrupter'[x] = IF VmOf[x] = v THEN Nil ELSE interrupter[x]
    BY <1>1 DEF Types, CoreTypeOK, Freed
  <1>11. /\ interrupted' \in [Fiber -> BOOLEAN]
         /\ \A x \in Fiber : VmOf[x] # v => interrupted'[x] = interrupted[x]
    BY <1>1 DEF Types, CoreTypeOK, Freed
  <1>12. ret' \in [Fiber -> Result]
    BY <1>1 DEF Types, CoreTypeOK, Freed, Result
  <1>13. /\ interruptionDisabled' \in [Fiber -> Int]
         /\ \A x \in Fiber : VmOf[x] # v => interruptionDisabled'[x] = interruptionDisabled[x]
         /\ \A x \in Fiber : \/ interruptionDisabled'[x] \in 0..MaxDisable[x]
                             \/ IsMain(x) /\ interruptionDisabled'[x] = AlwaysDisabled
    <2>1. /\ interruptionDisabled \in [Fiber -> Int]
          /\ \A x \in Fiber : \/ interruptionDisabled[x] \in 0..MaxDisable[x]
                              \/ IsMain(x) /\ interruptionDisabled[x] = AlwaysDisabled
      BY DEF Types, CoreTypeOK
    <2>2. interruptionDisabled' = [x \in Fiber |-> IF VmOf[x] = v THEN 0 ELSE interruptionDisabled[x]]
      BY <1>1 DEF Freed
    <2>3. \A x \in Fiber : interruptionDisabled'[x] = IF VmOf[x] = v THEN 0 ELSE interruptionDisabled[x]
      BY <2>2
    <2>4. interruptionDisabled' \in [Fiber -> Int]
      BY <2>1, <2>2
    <2>5. \A x \in Fiber : 0 \in 0..MaxDisable[x]
      BY VmContextAssumption
    <2> QED
      BY <2>1, <2>3, <2>4, <2>5
  <1>14. /\ suspensionDisallowed' \in [Fiber -> Int]
         /\ \A x \in Fiber : suspensionDisallowed'[x] \in 0..MaxForbid[x]
    <2>1. /\ suspensionDisallowed \in [Fiber -> Int]
          /\ \A x \in Fiber : suspensionDisallowed[x] \in 0..MaxForbid[x]
      BY DEF Types, CoreTypeOK
    <2>2. suspensionDisallowed' = [x \in Fiber |-> IF VmOf[x] = v THEN 0 ELSE suspensionDisallowed[x]]
      BY <1>1 DEF Freed
    <2>3. \A x \in Fiber : suspensionDisallowed'[x] = IF VmOf[x] = v THEN 0 ELSE suspensionDisallowed[x]
      BY <2>2
    <2>4. suspensionDisallowed' \in [Fiber -> Int]
      BY <2>1, <2>2
    <2>5. \A x \in Fiber : 0 \in 0..MaxForbid[x]
      BY VmContextAssumption
    <2> QED
      BY <2>1, <2>3, <2>4, <2>5
  <1>15. Closing(v)
    BY <1>1, <1>4, <1>5, <1>6, <1>7, <1>8, <1>9, <1>10, <1>11, <1>13 DEF Closing
  <1>16. CoreTypeOK(Suspended, Result, Vm \cup {Receiving})'
    BY <1>8, <1>9, <1>10, <1>11, <1>12, <1>13, <1>14 DEF CoreTypeOK, IsMain
  <1>17. Types'
    BY <1>1, <1>2, <1>4, <1>5, <1>6, <1>7, <1>16 DEF Types
  <1> QED
    BY <1>1, <1>15, <1>17

\* The receiver of v is owed nothing any more.
Unreceived(v, kind, kind2) ==
    \A x \in Fiber : kind2[x] = IF kind[x] = "receiver" /\ VmOf[x] = v THEN "none" ELSE kind[x]

\* The receiver of v, if any, is owed nothing any more.
LEMMA CloseGhosts ==
    ASSUME Types, NEW v \in Vm, NEW kind, NEW home, NEW word, Accounts(kind, home, word),
           NEW rec1, rec1[v] = Nil, \A w \in Vm : w # v => rec1[w] = recvFiber[w]
    PROVE  \E kind2 : /\ Ghosts(kind2, home) /\ Unreceived(v, kind, kind2)
                      /\ OnStrand(strand, kind2, home, word)
                      /\ Waiting(incoming, rec1, after, kind2, home)
  <1>1. PICK kind2 : kind2 = [x \in Fiber |-> IF kind[x] = "receiver" /\ VmOf[x] = v
                                              THEN "none" ELSE kind[x]]
    OBVIOUS
  <1>2. Ghosts(kind2, home) /\ Unreceived(v, kind, kind2)
    BY <1>1 DEF Accounts, Ghosts, Kind, Unreceived
  <1>3. PICK fs : fs = {x \in Fiber : kind[x] = "receiver" /\ VmOf[x] = v}
    OBVIOUS
  <1>4. Elsewhere(fs, kind, home, word, kind2, home, word)
    BY <1>1, <1>3 DEF Elsewhere
  <1>5. \A x \in Fiber : x \in fs => kind[x] = "receiver" /\ kind2[x] = "none" /\ home[x] = v
    BY <1>1, <1>3 DEF Accounts, FiberOK, ReceiverOK
  <1>6. OnStrand(strand, kind2, home, word)
    <2>1. \A x \in Fiber : x \in fs => kind[x] \notin Owing /\ kind2[x] \notin Owing
      BY <1>5 DEF Owing
    <2>2. strand \in [Vm -> Seq(Handler)] /\ OnStrand(strand, kind, home, word)
      BY DEF Types, Accounts
    <2> QED
      BY <1>4, <2>1, <2>2, MoveElsewhere
  <1>7. Waiting(incoming, rec1, after, kind2, home)
    <2>1. Waiting(incoming, recvFiber, after, kind, home) /\ Nil \notin Fiber
      BY VmContextAssumption DEF Accounts
    <2>2. \A w \in Vm : ResumesOnce(incoming[w])
      BY <2>1 DEF Waiting
    <2>3. \A x \in Fiber : recvFiber[v] = x => x \in fs
      <3>1. SUFFICES ASSUME NEW x \in Fiber, recvFiber[v] = x PROVE x \in fs
        OBVIOUS
      <3>2. kind[x] = "receiver" /\ home[x] = v
        BY <2>1, <3>1 DEF Waiting
      <3>3. VmOf[x] = v
        BY <3>2 DEF Accounts, FiberOK, ReceiverOK
      <3> QED
        BY <1>3, <3>2, <3>3
    <2>4. \A w \in Vm, x \in Fiber : x \notin fs =>
              /\ x \in Resumed(incoming[w]) <=> x \in Resumed(incoming[w])
              /\ rec1[w] = x <=> recvFiber[w] = x
              /\ after[w] = x <=> after[w] = x
      BY <2>1, <2>3
    <2>5. \A w \in Vm, x \in Fiber : x \in fs =>
              /\ after[w] # x /\ x \notin Resumed(incoming[w])
              /\ recvFiber[w] = x => w = v
      BY <1>5, <2>1 DEF Waiting
    <2>6. \A w \in Vm, x \in Fiber : x \in fs =>
              /\ x \in Resumed(incoming[w]) <=> kind2[x] = "incoming" /\ home[x] = w
              /\ rec1[w] = x <=> kind2[x] = "receiver" /\ home[x] = w
              /\ after[w] = x <=> kind2[x] = "after" /\ home[x] = w
      BY <1>5, <2>1, <2>5
    <2> QED
      BY <1>4, <2>1, <2>2, <2>4, <2>6, WaitMove
  <1> QED
    BY <1>2, <1>6, <1>7

\* The two orders in which close() destroys addresses and queued senders.
ClosedTo(v) == {Closed(v), Drop(ClearIncoming(v, Now), tx[v])}

\* The senders in the queue of v are told, in whichever order close() works.
LEMMA CloseStrands ==
    ASSUME Types, NEW v \in Vm, NEW st \in ClosedTo(v), NEW rec, NEW aft,
           NEW kind, NEW home, NEW word, OnStrand(strand, kind, home, word),
           Waiting(incoming, rec, aft, kind, home),
           NEW kind1, NEW home1, NEW word1, Answered(v, kind, home, word, kind1, home1, word1)
    PROVE  Emptied(v, strand, st, kind1, home1, word1)
  <1>1. PICK bag \in [Vm -> Int] : bag = tx[v]
    BY DEF Types
  <1>2. PICK fs : fs = Resumed(incoming[v])
    OBVIOUS
  <1>3. PICK now \in State : now = Now /\ now.strand = strand
    BY NowFacts
  <1>4. strand \in [Vm -> Seq(Handler)] /\ fs = {} \cup fs /\ fs = fs \cup {}
    BY DEF Types
  <1>5. CASE st = Closed(v)
    <2>1. PICK st0 : st0 = Drop(now, bag)
      OBVIOUS
    <2>2. st0 \in State /\ Told(strand, st0.strand)
      BY <1>3, <2>1, DropFacts
    <2>3. OnStrand(st0.strand, kind, home, word) /\ Grown(strand, st0.strand, {})
      <3>1. PICK s1 : s1 = st0.strand
        OBVIOUS
      <3>2. OnStrand(s1, kind, home, word) /\ Grown(strand, s1, {})
        BY <1>4, <2>2, <3>1, OnStrandTold, GrownTold
      <3> QED
        BY <3>1, <3>2
    <2>4. Emptied(v, st0.strand, ClearIncoming(v, st0), kind1, home1, word1)
      BY <2>2, <2>3, EmptyStrands
    <2>5. st = ClearIncoming(v, st0)
      BY <1>1, <1>3, <1>5, <2>1 DEF Closed
    <2>6. /\ st \in State /\ OnStrand(st.strand, kind1, home1, word1)
          /\ Grown(st0.strand, st.strand, fs)
      BY <1>2, <2>4, <2>5 DEF Emptied
    <2>7. Grown(strand, st.strand, {} \cup fs)
      BY <2>3, <2>6, GrownTrans
    <2> QED
      BY <1>2, <1>4, <2>6, <2>7 DEF Emptied
  <1>6. CASE st = Drop(ClearIncoming(v, Now), tx[v])
    <2>1. Emptied(v, now.strand, ClearIncoming(v, now), kind1, home1, word1)
      <3>1. OnStrand(now.strand, kind, home, word)
        BY <1>3
      <3> QED
        BY <3>1, EmptyStrands
    <2>2. PICK st0 : st0 = ClearIncoming(v, now)
      OBVIOUS
    <2>3. st0 \in State /\ OnStrand(st0.strand, kind1, home1, word1) /\ Grown(strand, st0.strand, fs)
      BY <1>2, <1>3, <2>1, <2>2 DEF Emptied
    <2>4. st = Drop(st0, bag)
      BY <1>1, <1>3, <1>6, <2>2
    <2>5. st \in State /\ Told(st0.strand, st.strand)
      BY <2>3, <2>4, DropFacts
    <2>6. PICK s0, s1 : s0 = st0.strand /\ s1 = st.strand
      OBVIOUS
    <2>7. s0 \in [Vm -> Seq(Handler)]
      BY <2>3, <2>6, StateFacts
    <2>8. OnStrand(s1, kind1, home1, word1) /\ Grown(s0, s1, {})
      BY <2>3, <2>5, <2>6, <2>7, OnStrandTold, GrownTold
    <2>9. Grown(strand, s1, fs \cup {})
      BY <2>3, <2>6, <2>8, GrownTrans
    <2> QED
      BY <1>2, <1>4, <2>5, <2>6, <2>8, <2>9 DEF Emptied
  <1> QED
    BY <1>5, <1>6 DEF ClosedTo

\* Nothing refers to v.
Deserted(v, kind) ==
    /\ \A x \in Fiber : VmOf[x] = v => kind[x] = "none"
    /\ strand[v] = <<>> /\ after[v] = Nil /\ running[v] = Nil /\ ~CanLock(v)
    /\ \A w \in Vm : \A h \in Members(strand[w]) : h.op = "revoke" => VmOf[h.fiber] # v

\* Nobody owes a fiber of a VM that is not referred to.
LEMMA Unreferenced ==
    ASSUME Types, NEW kind, NEW home, NEW word, Accounts(kind, home, word),
           NEW v \in Vm, ~Referenced(v)
    PROVE  Deserted(v, kind)
  <1>1. /\ strand[v] = <<>> /\ running[v] = Nil /\ after[v] = Nil /\ recvFiber[v] = Nil
        /\ \A w \in Vm, f \in Fiber : VmOf[f] = v => f \notin SendersIn(w)
    BY DEF Referenced
  <1>2. \A w \in Vm : DOMAIN strand[w] = 1..Len(strand[w]) /\ DOMAIN incoming[w] = 1..Len(incoming[w])
    BY QueueFacts DEF Types
  <1>3. /\ OnStrand(strand, kind, home, word) /\ Waiting(incoming, recvFiber, after, kind, home)
        /\ Ghosts(kind, home) /\ Nil \notin Fiber
    BY VmContextAssumption DEF Accounts
  <1>4. ASSUME NEW x \in Fiber, VmOf[x] = v PROVE kind[x] = "none"
    <2>1. FiberOK(x, kind, home, word) /\ home[x] \in Vm /\ kind[x] \in Kind
      BY <1>3 DEF Accounts, Ghosts
    <2>2. PICK w \in Vm : w = home[x]
      BY <2>1
    <2>3. x \notin SendersIn(w)
      BY <1>1, <1>4
    <2>4. kind[x] # "resume"
      <3>1. SUFFICES ASSUME kind[x] = "resume" PROVE FALSE
        OBVIOUS
      <3>2. home[x] = v
        BY <1>4, <2>1, <3>1 DEF FiberOK, WordOK
      <3>3. Has(strand[v], "resume", x)
        BY <1>3, <3>1, <3>2 DEF OnStrand
      <3>4. Len(strand[v]) = 0
        BY <1>1
      <3> QED
        BY <3>3, <3>4 DEF Has
    <2>5. kind[x] # "receiver"
      <3>1. SUFFICES ASSUME kind[x] = "receiver" PROVE FALSE
        OBVIOUS
      <3>2. home[x] = v
        BY <1>4, <2>1, <3>1 DEF FiberOK, ReceiverOK
      <3> QED
        BY <1>1, <1>3, <3>1, <3>2 DEF Waiting
    <2>6. kind[x] # "deliver"
      <3>1. SUFFICES ASSUME kind[x] = "deliver" PROVE FALSE
        OBVIOUS
      <3>2. Has(strand[w], "deliver", x)
        BY <1>3, <2>2, <3>1 DEF OnStrand
      <3>3. PICK i \in DOMAIN strand[w] : strand[w][i].op = "deliver" /\ strand[w][i].fiber = x
        BY <1>2, <3>2 DEF Has
      <3> QED
        BY <2>3, <3>3 DEF SendersIn
    <2>7. kind[x] # "incoming"
      <3>1. SUFFICES ASSUME kind[x] = "incoming" PROVE FALSE
        OBVIOUS
      <3>2. x \in Resumed(incoming[w])
        BY <1>3, <2>2, <3>1 DEF Waiting
      <3>3. PICK i \in DOMAIN incoming[w] : incoming[w][i].fiber = x
        BY <1>2, <3>2 DEF Resumed
      <3> QED
        BY <2>3, <3>3 DEF SendersIn
    <2>8. kind[x] # "after"
      <3>1. SUFFICES ASSUME kind[x] = "after" PROVE FALSE
        OBVIOUS
      <3>2. after[w] = x /\ x # Nil
        BY <1>3, <2>2, <3>1 DEF Waiting
      <3> QED
        BY <2>3, <3>2 DEF SendersIn
    <2> QED
      BY <2>1, <2>4, <2>5, <2>6, <2>7, <2>8 DEF Kind
  <1>5. ASSUME NEW w \in Vm, NEW h \in Members(strand[w]), h.op = "revoke" PROVE VmOf[h.fiber] # v
    <2>1. h \in Handler
      BY QueueFacts DEF Types
    <2>2. h.fiber \in Fiber
      BY <1>5, <2>1, HandlerFacts
    <2>3. PICK i \in DOMAIN strand[w] : strand[w][i] = h
      BY <1>2 DEF Members
    <2>4. h.fiber \in SendersIn(w)
      BY <1>5, <2>3 DEF SendersIn
    <2> QED
      BY <1>1, <2>2, <2>4
  <1>6. ~CanLock(v)
    BY DEF CanLock
  <1> QED
    BY <1>1, <1>4, <1>5, <1>6 DEF Deserted

\* A fiber of the closed VM.
LEMMA ClosedFiber ==
    ASSUME NEW v \in Vm, Closing(v), NEW x \in Fiber, VmOf[x] = v, NEW kind, NEW home, NEW word,
           FiberOK(x, kind, home, word), NEW kind1, NEW home1, NEW word1,
           \/ kind1[x] = "none"
           \/ kind1[x] = "resume" /\ home1[x] = v /\ word1[x] = "channel_closed"
           \/ kind[x] # "receiver" /\ kind1[x] = kind[x] /\ home1[x] = home[x] /\ word1[x] = word[x],
           destroyed'[v] => kind1[x] = "none"
    PROVE  FiberOK(x, kind1, home1, word1)'
  <1>1. /\ valid'[VmOf[x]] = FALSE /\ running'[VmOf[x]] = Nil /\ x # Nil /\ at'[x] = "dead"
        /\ interrupter'[x] = Nil /\ at'[Main[VmOf[x]]] = "dead" /\ taken'[x] = taken[x]
    BY VmContextAssumption DEF Closing
  <1>2. PlaceOK(x, kind1)'
    BY <1>1 DEF PlaceOK
  <1>3. WordOK(x, kind1, home1, word1)'
    BY <1>1 DEF FiberOK, WordOK
  <1>4. ReceiverOK(x, kind1, home1)'
    BY DEF ReceiverOK
  <1>5. SenderOK(x, kind1, home1)'
    BY <1>1 DEF FiberOK, SenderOK, InSend
  <1> QED
    BY <1>2, <1>3, <1>4, <1>5 DEF FiberOK

\* close(), be the VM destroyed with it or not.
LEMMA CloseStep ==
    ASSUME Types, \A u \in Vm : VmOK(u), NEW kind, NEW home, NEW word,
           Accounts(kind, home, word), Types', NEW v \in Vm, Closing(v),
           NEW st \in ClosedTo(v), strand' = st.strand,
           \A w \in Vm : w # v => destroyed'[w] = destroyed[w],
           destroyed'[v] => Deserted(v, kind)
    PROVE  Inv'
  <1>1. PICK rec1 : rec1 = recvFiber'
    OBVIOUS
  <1>2. rec1[v] = Nil /\ \A w \in Vm : w # v => rec1[w] = recvFiber[w]
    BY <1>1 DEF Closing
  <1>3. PICK kind2 : /\ Ghosts(kind2, home) /\ Unreceived(v, kind, kind2)
                     /\ OnStrand(strand, kind2, home, word)
                     /\ Waiting(incoming, rec1, after, kind2, home)
    BY <1>2, CloseGhosts
  <1>4. PICK fs : fs = Resumed(incoming[v])
    OBVIOUS
  <1>5. PICK kind1, home1, word1 : Answered(v, kind2, home, word, kind1, home1, word1)
    BY <1>3, EmptyGhosts
  <1>6. /\ Ghosts(kind1, home1) /\ Elsewhere(fs, kind2, home, word, kind1, home1, word1)
        /\ \A x \in fs : /\ x \in Fiber /\ kind2[x] = "incoming" /\ home[x] = v
                         /\ kind1[x] = "resume" /\ home1[x] = VmOf[x] /\ word1[x] = "channel_closed"
    BY <1>4, <1>5 DEF Answered
  <1>7. \A x \in fs : kind[x] = "incoming"
    BY <1>3, <1>6 DEF Unreceived
  <1>8. Emptied(v, strand, st, kind1, home1, word1)
    BY <1>3, <1>5, CloseStrands
  <1>9. OnStrand(strand', kind1, home1, word1) /\ Grown(strand, strand', fs)
    BY <1>4, <1>8 DEF Emptied
  <1>10. Waiting(incoming', recvFiber', after', kind1, home1)
    <2>1. PICK inc1 : inc1 = incoming'
      OBVIOUS
    <2>2. inc1[v] = <<>> /\ (\A w \in Vm : w # v => inc1[w] = incoming[w]) /\ after' = after
      BY <2>1 DEF Closing
    <2>3. Waiting(inc1, rec1, after, kind1, home1)
      BY <1>3, <1>5, <2>2, EmptyWaits
    <2> QED
      BY <1>1, <2>1, <2>2, <2>3
  <1>11. \A x \in Fiber : FiberOK(x, kind, home, word) /\ VmOf[x] \in Vm
    BY VmContextAssumption DEF Accounts
  <1>12. \A x \in Fiber : VmOf[x] # v => Stays(x)
    <2>1. SUFFICES ASSUME NEW x \in Fiber, VmOf[x] # v PROVE Stays(x)
      OBVIOUS
    <2>2. Main[VmOf[x]] \in Fiber /\ VmOf[Main[VmOf[x]]] = VmOf[x] /\ VmOf[x] \in Vm
      BY VmContextAssumption
    <2> QED
      BY <2>1, <2>2 DEF Stays, Closing
  <1>13. PICK gs : gs = fs \cup {x \in Fiber : VmOf[x] = v}
    OBVIOUS
  <1>14. Elsewhere(gs, kind, home, word, kind1, home1, word1)
    BY <1>3, <1>6, <1>13 DEF Elsewhere, Unreceived
  <1>15. ASSUME NEW x \in Fiber, x \notin gs PROVE Still(x, kind, home)
    <2>1. Stays(x) /\ VmOf[x] # v /\ FiberOK(x, kind, home, word) /\ VmOf[x] \in Vm
      BY <1>11, <1>12, <1>13, <1>15
    <2> QED
      BY <2>1 DEF Still, Closing, FiberOK, ReceiverOK, SenderOK
  <1>16. ASSUME NEW x \in Fiber, x \in gs PROVE FiberOK(x, kind1, home1, word1)'
    <2>1. CASE VmOf[x] = v
      <3>1. x \notin fs => kind1[x] = kind2[x] /\ home1[x] = home[x] /\ word1[x] = word[x]
        BY <1>6 DEF Elsewhere
      <3>2. kind2[x] = IF kind[x] = "receiver" THEN "none" ELSE kind[x]
        BY <1>3, <2>1 DEF Unreceived
      <3>3. \/ kind1[x] = "none"
            \/ kind1[x] = "resume" /\ home1[x] = v /\ word1[x] = "channel_closed"
            \/ kind[x] # "receiver" /\ kind1[x] = kind[x] /\ home1[x] = home[x] /\ word1[x] = word[x]
        BY <1>6, <2>1, <3>1, <3>2
      <3>4. destroyed'[v] => kind1[x] = "none"
        <4>1. SUFFICES ASSUME destroyed'[v] PROVE kind1[x] = "none"
          OBVIOUS
        <4>2. kind[x] = "none"
          BY <2>1, <4>1 DEF Deserted
        <4> QED
          BY <1>7, <3>1, <3>2, <4>2
      <3> QED
        BY <1>11, <2>1, <3>3, <3>4, ClosedFiber
    <2>2. CASE VmOf[x] # v
      <3>1. x \in fs /\ Stays(x)
        BY <1>12, <1>13, <1>16, <2>2
      <3>2. kind2[x] = kind[x]
        BY <1>3, <2>2 DEF Unreceived
      <3>3. FiberOK(x, kind2, home, word)
        BY <1>11, <3>2, FiberSame
      <3>4. taken' = taken /\ x \in Resumed(incoming[v])
        BY <1>4, <3>1 DEF Closing
      <3> QED
        BY <1>5, <3>1, <3>3, <3>4, EmptyFiber
    <2> QED
      BY <2>1, <2>2
  <1>17. \A x \in Fiber : FiberOK(x, kind1, home1, word1)'
    <2>1. /\ \A x \in Fiber : FiberOK(x, kind, home, word)
          /\ \A x \in Fiber : x \notin gs => Still(x, kind, home)
          /\ \A x \in Fiber : x \in gs => FiberOK(x, kind1, home1, word1)'
      BY <1>11, <1>15, <1>16
    <2> QED
      BY <1>14, <2>1, FibersStill
  <1>18. ASSUME NEW w \in Vm PROVE VmOK(w)'
    <2>1. VmOK(w)
      OBVIOUS
    <2>2. ~open'[w] => incoming'[w] = <<>>
      BY <2>1 DEF VmOK, Closing
    <2>3. ~valid'[w] => running'[w] = Nil
      BY <2>1 DEF VmOK, Closing
    <2>4. ASSUME destroyed'[w] PROVE ~valid'[w] /\ strand'[w] = <<>> /\ after'[w] = Nil
      <3>1. strand[w] = <<>> /\ ~CanLock(w) /\ after[w] = Nil /\ ~valid'[w]
        BY <2>1, <2>4 DEF VmOK, CanLock, Deserted, Closing
      <3>2. ASSUME NEW x \in fs, VmOf[x] = w PROVE FALSE
        <4>1. kind[x] = "incoming" /\ x \in Fiber
          BY <1>6, <1>7
        <4>2. w # v
          BY <2>4, <3>2, <4>1 DEF Deserted
        <4>3. destroyed[w]
          BY <2>4, <4>2
        <4> QED
          BY <1>11, <3>2, <4>1, <4>3 DEF FiberOK, PlaceOK
      <3>3. strand'[w] = <<>>
        BY <1>9, <3>1, <3>2 DEF Grown, OfSender
      <3> QED
        BY <3>1, <3>3 DEF Closing
    <2>5. ASSUME NEW h \in Members(strand'[w]), h.op = "revoke"
          PROVE  /\ valid'[VmOf[h.fiber]] => interrupted'[h.fiber]
                 /\ ~destroyed'[VmOf[h.fiber]]
      <3>1. h \in Members(strand[w])
        BY <1>9, <2>5 DEF Grown, OfSender
      <3>2. h \in Handler
        BY <3>1, QueueFacts DEF Types
      <3>3. h.fiber \in Fiber /\ VmOf[h.fiber] \in Vm
        BY <2>5, <3>2, HandlerFacts, VmContextAssumption
      <3>4. /\ valid[VmOf[h.fiber]] => interrupted[h.fiber]
            /\ ~destroyed[VmOf[h.fiber]]
        BY <2>1, <2>5, <3>1 DEF VmOK
      <3>5. CASE VmOf[h.fiber] = v
        <4>1. valid'[VmOf[h.fiber]] = FALSE
          BY <3>5 DEF Closing
        <4>2. ~destroyed'[v]
          BY <2>5, <3>1, <3>5 DEF Deserted
        <4> QED
          BY <3>5, <4>1, <4>2
      <3>6. CASE VmOf[h.fiber] # v
        BY <3>3, <3>4, <3>6 DEF Closing
      <3> QED
        BY <3>5, <3>6
    <2> QED
      BY <2>2, <2>3, <2>4, <2>5 DEF VmOK
  <1> QED
    BY <1>6, <1>9, <1>10, <1>17, <1>18, Assemble

\* close() leads to strands and counters.
LEMMA ClosedType ==
    ASSUME Types, NEW kind, NEW home, NEW word, Accounts(kind, home, word), NEW v \in Vm,
           NEW st \in ClosedTo(v)
    PROVE  st \in State
  <1>1. /\ Ghosts(kind, home) /\ Waiting(incoming, recvFiber, after, kind, home)
        /\ OnStrand(strand, kind, home, word)
    BY DEF Accounts
  <1>2. PICK kind1, home1, word1 : Answered(v, kind, home, word, kind1, home1, word1)
    BY <1>1, EmptyGhosts
  <1>3. Emptied(v, strand, st, kind1, home1, word1)
    BY <1>1, <1>2, CloseStrands
  <1> QED
    BY <1>3 DEF Emptied

\* The VM of the caller is closed and not destroyed yet.
LEMMA CloseCaller ==
    ASSUME Inv, NEW f \in Fiber, Calls(f), NEW st \in ClosedTo(VmOf[f]), Close(VmOf[f], st),
           UNCHANGED destroyed
    PROVE  Inv'
  <1>1. PICK kind, home, word : Accounts(kind, home, word)
    BY DEF Inv
  <1>2. Types /\ (\A w \in Vm : VmOK(w))
    BY DEF Inv
  <1>3. PICK v \in Vm : v = VmOf[f]
    BY VmContextAssumption
  <1>4. IsCaller(f, kind, home, word)
    BY <1>1, <1>2, Caller
  <1>5. ~destroyed'[v]
    BY <1>3, <1>4 DEF IsCaller
  <1>6. st \in State /\ Close(v, st) /\ st \in ClosedTo(v)
    BY <1>1, <1>2, <1>3, ClosedType
  <1>7. destroyed' \in [Vm -> BOOLEAN]
    BY <1>2 DEF Types
  <1>8. Types' /\ Closing(v) /\ strand' = st.strand
    BY <1>2, <1>6, <1>7, CloseFacts
  <1> QED
    BY <1>1, <1>2, <1>5, <1>6, <1>8, CloseStep

\* An exit request.
LEMMA StepTerminate ==
    ASSUME Inv, NEW f \in Fiber, Terminate(f) PROVE Inv'
  <1>1. Closed(VmOf[f]) \in ClosedTo(VmOf[f])
    BY DEF ClosedTo
  <1>2. Calls(f) /\ Close(VmOf[f], Closed(VmOf[f])) /\ UNCHANGED destroyed
    BY DEF Terminate
  <1> QED
    BY <1>1, <1>2, CloseCaller

\* An error of the main fiber.
LEMMA StepMainFails ==
    ASSUME Inv, NEW f \in Fiber, MainFails(f) PROVE Inv'
  <1>1. PICK st : st = IF imported[VmOf[f]] THEN Closed(VmOf[f])
                       ELSE Drop(ClearIncoming(VmOf[f], Now), tx[VmOf[f]])
    OBVIOUS
  <1>2. st \in ClosedTo(VmOf[f])
    BY <1>1 DEF ClosedTo
  <1>3. Calls(f) /\ Close(VmOf[f], st) /\ UNCHANGED destroyed
    BY <1>1 DEF MainFails
  <1> QED
    BY <1>2, <1>3, CloseCaller

\* ~vm_context(), which closes a VM that still is open.
LEMMA StepDestroy ==
    ASSUME Inv, NEW v \in Vm, Destroy(v) PROVE Inv'
  <1>1. PICK kind, home, word : Accounts(kind, home, word)
    BY DEF Inv
  <1>2. Types /\ (\A w \in Vm : VmOK(w))
    BY DEF Inv
  <1>3. Deserted(v, kind)
    BY <1>1, <1>2, Unreferenced DEF Destroy
  <1>4. destroyed' = [destroyed EXCEPT ![v] = TRUE]
    BY DEF Destroy
  <1>5. /\ destroyed' \in [Vm -> BOOLEAN] /\ destroyed'[v] = TRUE
        /\ \A w \in Vm : w # v => destroyed'[w] = destroyed[w]
    BY <1>2, <1>4 DEF Types
  <1>6. CASE valid[v]
    <2>1. PICK st : st = Closed(v)
      OBVIOUS
    <2>2. Close(v, st) /\ st \in ClosedTo(v)
      BY <1>6, <2>1 DEF Destroy, ClosedTo
    <2>3. st \in State
      BY <1>1, <1>2, <2>2, ClosedType
    <2>4. Types' /\ Closing(v) /\ strand' = st.strand
      BY <1>2, <1>5, <2>2, <2>3, CloseFacts
    <2> QED
      BY <1>1, <1>2, <1>3, <1>5, <2>2, <2>4, CloseStep
  <1>7. CASE ~valid[v]
    <2>1. UNCHANGED <<strand, running, valid, at, fiberData, ret, recvFiber, incoming, open, imported,
                      inboxLive, nsenders, forgotten, tx, after, crashed, taken>>
      BY <1>7 DEF Destroy, inboxVars, addressVars
    <2>2. Types'
      BY <1>2, <1>5, <2>1 DEF Types, CoreTypeOK, fiberData, IsMain
    <2>3. /\ Ghosts(kind, home) /\ OnStrand(strand', kind, home, word)
          /\ Waiting(incoming', recvFiber', after', kind, home)
      BY <1>1, <2>1 DEF Accounts
    <2>4. ASSUME NEW x \in Fiber PROVE FiberOK(x, kind, home, word)'
      <3>1. FiberOK(x, kind, home, word) /\ VmOf[x] \in Vm
        BY <1>1, VmContextAssumption DEF Accounts
      <3>2. destroyed'[VmOf[x]] => kind[x] = "none"
        <4>1. CASE VmOf[x] = v
          BY <1>3, <4>1 DEF Deserted
        <4>2. CASE VmOf[x] # v
          BY <1>5, <3>1, <4>2 DEF FiberOK, PlaceOK
        <4> QED
          BY <4>1, <4>2
      <3>3. PlaceOK(x, kind)'
        BY <2>1, <3>1, <3>2 DEF FiberOK, PlaceOK, Disabled, fiberData
      <3>4. WordOK(x, kind, home, word)'
        BY <2>1, <3>1 DEF FiberOK, WordOK, fiberData
      <3>5. ReceiverOK(x, kind, home)' /\ SenderOK(x, kind, home)'
        BY <2>1, <3>1 DEF FiberOK, ReceiverOK, SenderOK, fiberData
      <3> QED
        BY <3>3, <3>4, <3>5 DEF FiberOK
    <2>5. ASSUME NEW w \in Vm PROVE VmOK(w)'
      <3>1. VmOK(w) /\ VmOK(v)
        BY <1>2
      <3>2. destroyed'[w] => ~valid'[w] /\ strand'[w] = <<>> /\ after'[w] = Nil
        BY <1>3, <1>5, <1>7, <2>1, <3>1 DEF VmOK, Deserted
      <3>3. ASSUME NEW h \in Members(strand'[w]), h.op = "revoke"
            PROVE  /\ valid'[VmOf[h.fiber]] => interrupted'[h.fiber]
                   /\ ~destroyed'[VmOf[h.fiber]]
        <4>1. h \in Members(strand[w])
          BY <2>1, <3>3
        <4>2. h \in Handler
          BY <1>2, <4>1, QueueFacts DEF Types
        <4>3. h.fiber \in Fiber /\ VmOf[h.fiber] \in Vm
          BY <3>3, <4>2, HandlerFacts, VmContextAssumption
        <4>4. VmOf[h.fiber] # v
          BY <1>3, <3>3, <4>1 DEF Deserted
        <4> QED
          BY <1>5, <2>1, <3>1, <3>3, <4>1, <4>3, <4>4 DEF VmOK, fiberData
      <3> QED
        BY <2>1, <3>1, <3>2, <3>3 DEF VmOK
    <2> QED
      BY <2>2, <2>3, <2>4, <2>5, Assemble
  <1> QED
    BY <1>6, <1>7

-----------------------------------------------------------------------------
(* Receivers have imported the inbox.                                        *)

\* An inbox that gets a receiver was imported, and stays so.
LEMMA StepImportedFirst ==
    ASSUME Types, ImportedFirst, [Next]_vars PROVE ImportedFirst'
  <1>1. SUFFICES ASSUME NEW v \in Vm, recvFiber'[v] # Nil PROVE imported'[v]
    BY DEF ImportedFirst
  <1>2. recvFiber[v] # Nil => imported[v]
    BY DEF ImportedFirst
  <1>3. /\ recvFiber \in [Vm -> Fiber \cup {Nil}] /\ imported \in [Vm -> BOOLEAN]
        /\ \A f \in Fiber : VmOf[f] \in Vm
    BY VmContextAssumption DEF Types
  <1>4. ASSUME UNCHANGED <<recvFiber, imported>> PROVE imported'[v]
    BY <1>1, <1>2, <1>4
  <1>5. ASSUME NEW w \in Vm, recvFiber' = [recvFiber EXCEPT ![w] = Nil], imported' = imported
        PROVE  imported'[v]
    BY <1>1, <1>2, <1>3, <1>5
  <1>6. ASSUME NEW w \in Vm, RunStrand(w) PROVE imported'[v]
    <2>1. CASE UNCHANGED <<recvFiber, imported>>
      BY <1>4, <2>1
    <2>2. CASE recvFiber' = [recvFiber EXCEPT ![w] = Nil] /\ imported' = imported
      BY <1>5, <2>2
    <2> QED
      BY <1>6, <2>1, <2>2
      DEF RunStrand, RunFiber, DeliverToClosed, DeliverToQueue, DeliverToReceiver, WakeSender,
          RunNoSenders, RunRevoke, inboxVars
  <1>7. ASSUME NEW w \in Vm, NEW st, Close(w, st) PROVE imported'[v]
    BY <1>5, <1>7 DEF Close
  <1>8. ASSUME NEW w \in Vm, Destroy(w) PROVE imported'[v]
    BY <1>4, <1>7, <1>8 DEF Destroy, inboxVars
  <1>9. ASSUME NEW f \in Fiber, ImportInbox(f) PROVE imported'[v]
    BY <1>1, <1>2, <1>3, <1>9 DEF ImportInbox
  <1>10. ASSUME NEW f \in Fiber, ReceiveWaits(f) PROVE imported'[v]
    BY <1>1, <1>2, <1>3, <1>10 DEF ReceiveWaits, HasInbox
  <1>11. ASSUME NEW f \in Fiber, InboxClose(f) PROVE imported'[v]
    BY <1>3, <1>5, <1>11 DEF InboxClose
  <1>12. ASSUME NEW f \in Fiber, ActorCall(f) PROVE imported'[v]
    <2>1. CASE UNCHANGED <<recvFiber, imported>>
      BY <1>4, <2>1
    <2> QED
      BY <1>9, <1>10, <1>11, <1>12, <2>1
      DEF ActorCall, ReceiveRaises, ReceiveQueued, InboxGc, SpawnVm, SendRaises, DropAddress, Send,
          inboxVars
  <1>13. ASSUME NEW f \in Fiber, End(f) \/ Terminate(f) \/ MainFails(f) PROVE imported'[v]
    BY <1>3, <1>4, <1>7, <1>13 DEF End, Terminate, MainFails
  <1>14. ASSUME NEW f \in Fiber, NEW g \in Fiber, Spawn(f, g) \/ Interrupt(f, g) PROVE imported'[v]
    <2>1. CASE Spawn(f, g)
      BY <1>4, <2>1 DEF Spawn, inboxVars
    <2>2. CASE Interrupt(f, g)
      <3>1. imported' = imported
        BY <2>2 DEF Interrupt
      <3>2. recvFiber' = recvFiber \/ recvFiber' = [recvFiber EXCEPT ![VmOf[g]] = Nil]
        BY <2>2 DEF Interrupt, ReceiveInterrupter, SendInterrupter
      <3> QED
        BY <1>3, <1>4, <1>5, <3>1, <3>2
    <2> QED
      BY <1>14, <2>1, <2>2
  <1>15. CASE UNCHANGED vars
    BY <1>4, <1>15 DEF vars, inboxVars
  <1> QED
    BY <1>6, <1>8, <1>12, <1>13, <1>14, <1>15 DEF Next

-----------------------------------------------------------------------------
(* The invariant holds.                                                      *)

\* In the beginning only the main fiber of the first VM is owed its resumption.
LEMMA InvInit ==
    ASSUME Init PROVE Inv /\ ImportedFirst
  <1>1. PICK m \in Fiber : m = Main[Root]
    BY VmContextAssumption, ActorAssumption
  <1>2. VmOf[m] = Root /\ Root \in Vm /\ Nil \notin Fiber
    BY <1>1, VmContextAssumption, ActorAssumption
  <1>3. PICK h : h = ResumeSkipClear(m)
    OBVIOUS
  <1>4. h \in Handler /\ h.op = "resume" /\ h.fiber = m /\ h.clear = FALSE /\ h.val = "none"
    BY <1>3, Made, Shapes
  <1>5. PICK q : q = <<h>>
    OBVIOUS
  <1>6. q \in Seq(Handler) /\ Len(q) = 1 /\ q[1] = h
    BY <1>4, <1>5
  <1>7. PICK e \in Seq(Handler) : e = <<>> /\ Len(e) = 0
    <2>1. <<>> \in Seq(Handler)
      OBVIOUS
    <2>2. Len(<<>>) = 0
      OBVIOUS
    <2> QED
      BY <2>1, <2>2
  <1>8. /\ strand \in [Vm -> Seq(Handler)] /\ strand[Root] = q
        /\ \A v \in Vm : v # Root => strand[v] = e
    <2>1. strand = [v \in Vm |-> IF v = Root THEN <<ResumeSkipClear(Main[v])>> ELSE <<>>]
      BY DEF Init
    <2>2. strand = [v \in Vm |-> IF v = Root THEN q ELSE e]
      BY <1>1, <1>3, <1>5, <1>7, <2>1
    <2> QED
      BY <1>2, <1>6, <2>2
  <1>9. /\ running = [v \in Vm |-> Nil] /\ valid = [v \in Vm |-> TRUE]
        /\ at = [f \in Fiber |-> IF f = m THEN "start" ELSE "unborn"]
        /\ interruptionDisabled = [f \in Fiber |-> IF IsMain(f) THEN AlwaysDisabled ELSE 0]
        /\ suspensionDisallowed = [f \in Fiber |-> 0]
        /\ interrupted = [f \in Fiber |-> FALSE]
        /\ interrupter = [f \in Fiber |-> Nil]
        /\ ret = [f \in Fiber |-> "none"]
    BY <1>1 DEF Init
  <1>10. CoreTypeOK(Suspended, Result, Vm \cup {Receiving})
    <2>1. /\ running \in [Vm -> Fiber \cup {Nil}] /\ valid \in [Vm -> BOOLEAN]
          /\ interrupted \in [Fiber -> BOOLEAN]
          /\ interrupter \in [Fiber -> Vm \cup {Receiving} \cup {Nil}]
          /\ ret \in [Fiber -> Result]
      BY <1>9 DEF Result
    <2>2. at \in [Fiber -> Suspended \cup Gone \cup {"running"}]
      BY <1>9 DEF Suspended, Gone
    <2>3. interruptionDisabled \in [Fiber -> Int] /\ suspensionDisallowed \in [Fiber -> Int]
      BY <1>9 DEF AlwaysDisabled
    <2>4. \A f \in Fiber : 0 \in 0..MaxDisable[f] /\ 0 \in 0..MaxForbid[f]
      BY VmContextAssumption
    <2>5. \A f \in Fiber : /\ \/ interruptionDisabled[f] \in 0..MaxDisable[f]
                              \/ IsMain(f) /\ interruptionDisabled[f] = AlwaysDisabled
                           /\ suspensionDisallowed[f] \in 0..MaxForbid[f]
      BY <1>9, <2>4
    <2> QED
      BY <2>1, <2>2, <2>3, <2>5 DEF CoreTypeOK
  <1>11. /\ recvFiber = [v \in Vm |-> Nil] /\ incoming = [v \in Vm |-> <<>>]
         /\ open = [v \in Vm |-> TRUE] /\ imported = [v \in Vm |-> FALSE]
         /\ inboxLive = [v \in Vm |-> TRUE] /\ nsenders = [v \in Vm |-> 0]
         /\ forgotten = [v \in Vm |-> 0] /\ tx = [v \in Vm |-> [w \in Vm |-> 0]]
         /\ after = [v \in Vm |-> Nil] /\ destroyed = [v \in Vm |-> FALSE]
         /\ crashed = FALSE /\ taken = [f \in Fiber |-> FALSE]
    BY DEF Init
  <1>12. Types
    <2>1. <<>> \in Seq(Sender)
      OBVIOUS
    <2>2. incoming \in [Vm -> Seq(Sender)]
      BY <1>11, <2>1
    <2>3. tx \in [Vm -> [Vm -> Nat]]
      BY <1>11
    <2>4. /\ recvFiber \in [Vm -> Fiber \cup {Nil}] /\ after \in [Vm -> Fiber \cup {Nil}]
          /\ nsenders \in [Vm -> Int] /\ forgotten \in [Vm -> Nat]
      BY <1>11
    <2>5. /\ open \in [Vm -> BOOLEAN] /\ imported \in [Vm -> BOOLEAN]
          /\ inboxLive \in [Vm -> BOOLEAN] /\ destroyed \in [Vm -> BOOLEAN]
          /\ taken \in [Fiber -> BOOLEAN] /\ crashed \in BOOLEAN
      BY <1>11
    <2> QED
      BY <1>8, <1>10, <2>2, <2>3, <2>4, <2>5 DEF Types
  <1>13. \A v \in Vm : \A x \in Members(strand[v]) : v = Root /\ x = h
    BY <1>6, <1>7, <1>8 DEF Members
  <1>14. ASSUME NEW v \in Vm PROVE VmOK(v)
    <2>1. open[v] /\ valid[v] /\ ~destroyed[v]
      BY <1>9, <1>11
    <2>2. \A x \in Members(strand[v]) : x.op # "revoke"
      BY <1>4, <1>13
    <2> QED
      BY <2>1, <2>2 DEF VmOK
  <1>15. PICK kind, home, word :
            /\ kind = [f \in Fiber |-> IF f = m THEN "resume" ELSE "none"]
            /\ home = VmOf /\ word = [f \in Fiber |-> "none"]
    OBVIOUS
  <1>16. Ghosts(kind, home)
    BY <1>15, VmContextAssumption DEF Ghosts, Kind
  <1>17. OnStrand(strand, kind, home, word)
    <2>1. \A v \in Vm : OwesOnce(strand[v])
      BY <1>6, <1>7, <1>8 DEF OwesOnce
    <2>2. ASSUME NEW v \in Vm, NEW f \in Fiber
          PROVE  /\ Has(strand[v], "resume", f) <=> kind[f] = "resume" /\ home[f] = v
                 /\ Has(strand[v], "deliver", f) <=> kind[f] = "deliver" /\ home[f] = v
      <3>1. CASE v = Root
        <4>1. \A op : Has(strand[v], op, f) <=> op = "resume" /\ f = m
          <5>1. \A op : Has(q, op, f) <=> h.op = op /\ h.fiber = f
            BY <1>6 DEF Has
          <5> QED
            BY <1>4, <1>8, <3>1, <5>1
        <4> QED
          BY <1>2, <1>15, <3>1, <4>1
      <3>2. CASE v # Root
        <4>1. \A op : ~Has(strand[v], op, f)
          BY <1>7, <1>8, <3>2 DEF Has
        <4> QED
          BY <1>2, <1>15, <3>2, <4>1
      <3> QED
        BY <3>1, <3>2
    <2>3. ASSUME NEW v \in Vm, NEW x \in Members(strand[v])
          PROVE  x.op = "resume" /\ x.fiber # Nil =>
                    x.val = word[x.fiber] /\ (x.clear <=> word[x.fiber] # "none")
      <3>1. x = h
        BY <1>13
      <3> QED
        BY <1>4, <1>15, <3>1
    <2> QED
      BY <2>1, <2>2, <2>3 DEF OnStrand
  <1>18. Waiting(incoming, recvFiber, after, kind, home)
    <2>1. \A v \in Vm : /\ ResumesOnce(incoming[v]) /\ (\A f : f \notin Resumed(incoming[v]))
                        /\ recvFiber[v] = Nil /\ after[v] = Nil
      <3>1. ResumesOnce(<<>>) /\ \A f : f \notin Resumed(<<>>)
        BY DEF ResumesOnce, Resumed
      <3> QED
        BY <1>11, <3>1
    <2>2. \A f \in Fiber : kind[f] \in {"resume", "none"}
      BY <1>15
    <2> QED
      BY <1>2, <2>1, <2>2 DEF Waiting
  <1>19. ASSUME NEW f \in Fiber PROVE FiberOK(f, kind, home, word)
    <2>1. /\ VmOf[f] \in Vm /\ valid[VmOf[f]] /\ running[VmOf[f]] = Nil /\ ~destroyed[VmOf[f]]
          /\ interrupter[f] = Nil /\ f # Nil
          /\ at[f] = IF f = m THEN "start" ELSE "unborn"
          /\ kind[f] = IF f = m THEN "resume" ELSE "none"
          /\ word[f] = "none" /\ home[f] = VmOf[f]
      BY <1>9, <1>11, <1>15, VmContextAssumption
    <2>2. at[f] # "unborn" => at[Main[VmOf[f]]] # "unborn"
      BY <1>1, <1>2, <2>1
    <2>3. PlaceOK(f, kind)
      BY <2>1, <2>2 DEF PlaceOK, Suspended
    <2> QED
      BY <2>1, <2>3 DEF FiberOK, WordOK, ReceiverOK, SenderOK, InSend
  <1>20. Accounts(kind, home, word)
    BY <1>16, <1>17, <1>18, <1>19 DEF Accounts
  <1>21. ImportedFirst
    BY <1>11 DEF ImportedFirst
  <1> QED
    BY <1>12, <1>14, <1>20, <1>21 DEF Inv

\* Every step keeps the invariant.
LEMMA InvNext ==
    ASSUME Inv, ImportedFirst, [Next]_vars PROVE Inv' /\ ImportedFirst'
  <1>1. ImportedFirst'
    BY StepImportedFirst DEF Inv
  <1>2. ASSUME NEW v \in Vm, RunStrand(v) PROVE Inv'
    BY <1>2, StepRunFiber, StepDeliverToClosed, StepDeliverToQueue, StepDeliverToReceiver,
       StepWakeSender, StepRunNoSenders, StepRunRevoke DEF RunStrand
  <1>3. ASSUME NEW v \in Vm, Destroy(v) PROVE Inv'
    BY <1>3, StepDestroy
  <1>4. ASSUME NEW f \in Fiber, ActorCall(f) PROVE Inv'
    BY <1>4, StepImportInbox, StepReceiveRaises, StepReceiveQueued, StepReceiveWaits, StepInboxClose,
       StepInboxGc, StepSpawnVm, StepSendRaises, StepDropAddress, StepSend DEF ActorCall
  <1>5. ASSUME NEW f \in Fiber, End(f) \/ Terminate(f) \/ MainFails(f) PROVE Inv'
    BY <1>5, StepEnd, StepTerminate, StepMainFails
  <1>6. ASSUME NEW f \in Fiber, NEW g \in Fiber, Spawn(f, g) \/ Interrupt(f, g) PROVE Inv'
    BY <1>6, StepSpawn, StepInterrupt
  <1>7. CASE UNCHANGED vars
    <2>1. UNCHANGED <<strand, running, valid, at, fiberData, recvFiber, incoming, open, after,
                      destroyed, taken, tx>>
      BY <1>7 DEF vars, coreVars, inboxVars, addressVars
    <2>2. Types'
      BY <1>7 DEF Inv, Types, vars, coreVars, fiberData, inboxVars, addressVars, CoreTypeOK, IsMain
    <2>3. Inv'
      BY <2>1, <2>2, AnswerStep
    <2> QED
      BY <1>1, <2>3
  <1> QED
    BY <1>1, <1>2, <1>3, <1>4, <1>5, <1>6, <1>7 DEF Next

\* The invariant holds in every state.
LEMMA Invariance == Spec => [](Inv /\ ImportedFirst)
  <1>1. Init => Inv /\ ImportedFirst
    BY InvInit
  <1>2. Inv /\ ImportedFirst /\ [Next]_vars => (Inv /\ ImportedFirst)'
    BY InvNext
  <1> QED
    BY <1>1, <1>2, PTL DEF Spec

-----------------------------------------------------------------------------
(* Every suspended fiber is resumed once.                                    *)

\* x is a place in what belongs to w that owes f its resumption.
WakerIn(w, f, x) ==
    \/ \E i \in 1..Len(strand[w]) : /\ strand[w][i].op \in Owing /\ strand[w][i].fiber = f
                                    /\ x = <<w, "queued", i>>
    \/ \E i \in 1..Len(incoming[w]) : incoming[w][i].fiber = f /\ x = <<w, "incoming", i>>
    \/ recvFiber[w] = f /\ x = <<w, "receiver", 0>>
    \/ after[w] = f /\ x = <<w, "after", 0>>

\* Wakers(f) are these places.
LEMMA WakerFacts ==
    ASSUME Types, NEW f \in Fiber
    PROVE  \A x : x \in Wakers(f) <=> \E w \in Vm : WakerIn(w, f, x)
  <1> DEFINE W(w) == {<<w, "queued", i>> : i \in Queued(w, f, "resume") \cup Queued(w, f, "deliver")}
                       \cup {<<w, "incoming", i>> : i \in {j \in DOMAIN incoming[w] :
                                                             incoming[w][j].fiber = f}}
                       \cup {<<w, "receiver", 0>> : x \in {recvFiber[w]} \cap {f}}
                       \cup {<<w, "after", 0>> : x \in {after[w]} \cap {f}}
  <1>1. ASSUME NEW w \in Vm, NEW x PROVE x \in W(w) <=> WakerIn(w, f, x)
    <2>1. DOMAIN strand[w] = 1..Len(strand[w]) /\ DOMAIN incoming[w] = 1..Len(incoming[w])
      <3>1. strand[w] \in Seq(Handler) /\ incoming[w] \in Seq(Sender)
        BY DEF Types
      <3> QED
        BY <3>1, QueueFacts
    <2>2. \A i : i \in Queued(w, f, "resume") \cup Queued(w, f, "deliver") <=>
                    i \in 1..Len(strand[w]) /\ strand[w][i].op \in Owing /\ strand[w][i].fiber = f
      BY <2>1 DEF Queued, Owing
    <2>3. x \in {<<w, "queued", i>> : i \in Queued(w, f, "resume") \cup Queued(w, f, "deliver")} <=>
             \E i \in 1..Len(strand[w]) : /\ strand[w][i].op \in Owing /\ strand[w][i].fiber = f
                                          /\ x = <<w, "queued", i>>
      BY <2>2
    <2>4. x \in {<<w, "incoming", i>> : i \in {j \in DOMAIN incoming[w] : incoming[w][j].fiber = f}} <=>
             \E i \in 1..Len(incoming[w]) : incoming[w][i].fiber = f /\ x = <<w, "incoming", i>>
      BY <2>1
    <2>5. /\ x \in {<<w, "receiver", 0>> : y \in {recvFiber[w]} \cap {f}} <=>
                recvFiber[w] = f /\ x = <<w, "receiver", 0>>
          /\ x \in {<<w, "after", 0>> : y \in {after[w]} \cap {f}} <=>
                after[w] = f /\ x = <<w, "after", 0>>
      OBVIOUS
    <2> QED
      BY <2>3, <2>4, <2>5 DEF WakerIn
  <1>2. Wakers(f) = UNION {W(w) : w \in Vm}
    BY DEF Wakers
  <1> HIDE DEF W
  <1> QED
    BY <1>1, <1>2

\* There is one such place when f is owed its resumption, and none when it is not.
LEMMA OneWaker ==
    ASSUME Types, NEW kind, NEW home, NEW word, Accounts(kind, home, word), NEW f \in Fiber
    PROVE  /\ kind[f] = "none" => Wakers(f) = {}
           /\ kind[f] # "none" => \E x : Wakers(f) = {x}
  <1>1. /\ Ghosts(kind, home) /\ OnStrand(strand, kind, home, word)
        /\ Waiting(incoming, recvFiber, after, kind, home)
    BY DEF Accounts
  <1>2. kind[f] \in Kind /\ home[f] \in Vm
    BY <1>1 DEF Ghosts
  <1>3. PICK v \in Vm : v = home[f]
    BY <1>2
  <1>4. ASSUME NEW w \in Vm, NEW i \in 1..Len(strand[w]), strand[w][i].op \in Owing,
               strand[w][i].fiber = f
        PROVE  kind[f] \in Owing /\ w = v
    <2>1. Has(strand[w], "resume", f) \/ Has(strand[w], "deliver", f)
      BY <1>4 DEF Has, Owing
    <2> QED
      BY <1>1, <1>3, <2>1 DEF OnStrand, Owing
  <1>5. ASSUME NEW w \in Vm
        PROVE  /\ \A i \in 1..Len(incoming[w]) : incoming[w][i].fiber = f => kind[f] = "incoming" /\ w = v
               /\ recvFiber[w] = f => kind[f] = "receiver" /\ w = v
               /\ after[w] = f => kind[f] = "after" /\ w = v
    BY <1>1, <1>3 DEF Waiting, Resumed
  <1>6. CASE kind[f] = "none"
    <2>1. \A w \in Vm : \A x : ~WakerIn(w, f, x)
      BY <1>4, <1>5, <1>6 DEF WakerIn, Owing
    <2> QED
      BY <1>6, <2>1, WakerFacts
  <1>7. CASE kind[f] \in Owing
    <2>1. Has(strand[v], "resume", f) \/ Has(strand[v], "deliver", f)
      BY <1>1, <1>3, <1>7 DEF OnStrand, Owing
    <2>2. PICK i \in 1..Len(strand[v]) : strand[v][i].op \in Owing /\ strand[v][i].fiber = f
      BY <2>1 DEF Has, Owing
    <2>3. \A j \in 1..Len(strand[v]) : strand[v][j].op \in Owing /\ strand[v][j].fiber = f => j = i
      <3>1. f # Nil /\ OwesOnce(strand[v])
        BY <1>1, VmContextAssumption DEF OnStrand
      <3> QED
        BY <2>2, <3>1 DEF OwesOnce
    <2>4. ASSUME NEW w \in Vm, NEW x, WakerIn(w, f, x) PROVE x = <<v, "queued", i>>
      BY <1>4, <1>5, <1>7, <2>3, <2>4 DEF WakerIn, Owing
    <2>5. WakerIn(v, f, <<v, "queued", i>>)
      BY <2>2 DEF WakerIn
    <2>6. Wakers(f) = {<<v, "queued", i>>}
      BY <2>4, <2>5, WakerFacts
    <2> QED
      BY <1>7, <2>6 DEF Owing
  <1>8. CASE kind[f] = "incoming"
    <2>1. f \in Resumed(incoming[v])
      BY <1>1, <1>3, <1>8 DEF Waiting
    <2>2. PICK i \in 1..Len(incoming[v]) : incoming[v][i].fiber = f
      BY <2>1 DEF Resumed
    <2>3. \A j \in 1..Len(incoming[v]) : incoming[v][j].fiber = f => j = i
      BY <1>1, <2>2 DEF Waiting, ResumesOnce
    <2>4. ASSUME NEW w \in Vm, NEW x, WakerIn(w, f, x) PROVE x = <<v, "incoming", i>>
      BY <1>4, <1>5, <1>8, <2>3, <2>4 DEF WakerIn, Owing
    <2>5. WakerIn(v, f, <<v, "incoming", i>>)
      BY <2>2 DEF WakerIn
    <2>6. Wakers(f) = {<<v, "incoming", i>>}
      BY <2>4, <2>5, WakerFacts
    <2> QED
      BY <1>8, <2>6
  <1>9. CASE kind[f] = "receiver"
    <2>1. recvFiber[v] = f
      BY <1>1, <1>3, <1>9 DEF Waiting
    <2>2. ASSUME NEW w \in Vm, NEW x, WakerIn(w, f, x) PROVE x = <<v, "receiver", 0>>
      BY <1>4, <1>5, <1>9, <2>2 DEF WakerIn, Owing
    <2>3. WakerIn(v, f, <<v, "receiver", 0>>)
      BY <2>1 DEF WakerIn
    <2>4. Wakers(f) = {<<v, "receiver", 0>>}
      BY <2>2, <2>3, WakerFacts
    <2> QED
      BY <1>9, <2>4
  <1>10. CASE kind[f] = "after"
    <2>1. after[v] = f
      BY <1>1, <1>3, <1>10 DEF Waiting
    <2>2. ASSUME NEW w \in Vm, NEW x, WakerIn(w, f, x) PROVE x = <<v, "after", 0>>
      BY <1>4, <1>5, <1>10, <2>2 DEF WakerIn, Owing
    <2>3. WakerIn(v, f, <<v, "after", 0>>)
      BY <2>1 DEF WakerIn
    <2>4. Wakers(f) = {<<v, "after", 0>>}
      BY <2>2, <2>3, WakerFacts
    <2> QED
      BY <1>10, <2>4
  <1> QED
    BY <1>2, <1>6, <1>7, <1>8, <1>9, <1>10 DEF Kind, Owing

\* Across VMs, exactly one party owes a suspended fiber its resumption: its own
\* strand, the strand or the queue its message is in, the delivery that is
\* running, or the inbox it receives from (chan_send(), chan_receive(), close()).
THEOREM ResumedExactlyOnce == Spec => []WakeOnce
  <1>1. Inv => WakeOnce
    <2> SUFFICES ASSUME Inv PROVE WakeOnce
      OBVIOUS
    <2>1. Types
      BY DEF Inv
    <2>2. PICK kind, home, word : Accounts(kind, home, word)
      BY DEF Inv
    <2>3. ASSUME NEW f \in Fiber, valid[VmOf[f]]
          PROVE  Cardinality(Wakers(f)) = IF at[f] \in Suspended THEN 1 ELSE 0
      <3>1. at[f] \in Suspended <=> kind[f] # "none"
        BY <2>2, <2>3 DEF Accounts, FiberOK, PlaceOK
      <3>2. CASE kind[f] = "none"
        <4>1. Wakers(f) = {}
          BY <2>1, <2>2, <3>2, OneWaker
        <4> QED
          BY <3>1, <3>2, <4>1, FS_EmptySet
      <3>3. CASE kind[f] # "none"
        <4>1. PICK x : Wakers(f) = {x}
          BY <2>1, <2>2, <3>3, OneWaker
        <4>2. Cardinality({x}) = 1
          BY FS_Singleton
        <4> QED
          BY <3>1, <3>3, <4>1, <4>2
      <3> QED
        BY <3>2, <3>3
    <2> QED
      BY <2>3 DEF WakeOnce
  <1> QED
    BY <1>1, Invariance, PTL

\* No message waits while a receiver does: the inbox of a blocked receiver is open
\* and empty, and the fiber it will resume is the one in chan_receive().
THEOREM MessagesAndReceiversMeet == Spec => []NoneWaitsForTheOther
  <1>1. Inv => NoneWaitsForTheOther
    <2> SUFFICES ASSUME Inv PROVE NoneWaitsForTheOther
      OBVIOUS
    <2>1. Types
      BY DEF Inv
    <2>2. PICK kind, home, word : Accounts(kind, home, word)
      BY DEF Inv
    <2>3. \A v \in Vm : recvFiber[v] # Nil =>
             open[v] /\ incoming[v] = <<>> /\ at[recvFiber[v]] = "receive"
      BY <2>1, <2>2, Receiver
    <2> QED
      BY <2>3 DEF NoneWaitsForTheOther
  <1> QED
    BY <1>1, Invariance, PTL

-----------------------------------------------------------------------------
(* send() tells the truth.                                                   *)

\* What SendTellsTheTruth says of one fiber and one step.
Truthful(f) ==
    /\ at[f] = "send" /\ at'[f] = "running" =>
          /\ (ret'[f] = "sent") <=> taken[f]
          /\ ret'[f] = "interrupted" => interrupted[f]
    /\ valid[VmOf[f]] /\ taken'[f] # taken[f] => at[f] = "send" \/ at'[f] = "send"

\* A step that resumes nobody and takes no message.
Wordless == taken' = taken /\ \A f \in Fiber : at'[f] = at[f] \/ at'[f] # "running"

\* A strand resumes a sender with the answer that is queued for it.
LEMMA TruthRunFiber ==
    ASSUME Inv, NEW v \in Vm, RunFiber(v), NEW f \in Fiber PROVE Truthful(f)
  <1>1. Types /\ taken' = taken
    BY DEF Inv, RunFiber
  <1>2. PICK kind, home, word : Accounts(kind, home, word)
    BY DEF Inv
  <1>3. NextHandler(v, "resume")
    BY DEF RunFiber
  <1>4. PICK h : h = Head(strand[v])
    OBVIOUS
  <1>5. /\ strand[v] \in Seq(Handler) /\ h \in Handler /\ h \in Members(strand[v]) /\ h.op = "resume"
    BY <1>1, <1>3, <1>4, NextTaken
  <1>6. \/ at' = at
        \/ /\ valid[v] /\ h.fiber # Nil /\ at' = [at EXCEPT ![h.fiber] = "running"]
           /\ ret' = [ret EXCEPT ![h.fiber] = h.val]
    BY <1>4 DEF RunFiber, RunResume, FiberResume, coreVars
  <1>7. CASE at' = at
    BY <1>1, <1>7 DEF Truthful
  <1>8. CASE /\ valid[v] /\ h.fiber # Nil /\ at' = [at EXCEPT ![h.fiber] = "running"]
             /\ ret' = [ret EXCEPT ![h.fiber] = h.val]
    <2>1. h.fiber \in Fiber
      BY <1>5, <1>8, HandlerFacts
    <2>2. at \in [Fiber -> Suspended \cup Gone \cup {"running"}] /\ ret \in [Fiber -> Result]
      BY <1>1 DEF Types, CoreTypeOK
    <2>3. CASE f # h.fiber
      <3>1. at'[f] = at[f]
        BY <1>8, <2>2, <2>3
      <3> QED
        BY <1>1, <3>1 DEF Truthful
    <2>4. CASE f = h.fiber
      <3>1. ret'[f] = h.val
        BY <1>8, <2>2, <2>4
      <3>2. Has(strand[v], "resume", f)
        BY <1>5, <2>4 DEF Has, Members
      <3>3. kind[f] = "resume" /\ h.val = word[f]
        BY <1>2, <1>5, <1>8, <2>4, <3>2 DEF Accounts, OnStrand
      <3>4. at[f] = "send" => (word[f] = "sent" <=> taken[f]) /\ (word[f] = "interrupted" => interrupted[f])
        BY <1>2, <3>3 DEF Accounts, FiberOK, WordOK
      <3> QED
        BY <1>1, <3>1, <3>3, <3>4 DEF Truthful
    <2> QED
      BY <2>3, <2>4
  <1> QED
    BY <1>6, <1>7, <1>8

\* A delivery takes the message of a blocked sender, and resumes a receiver.
LEMMA TruthDeliver ==
    ASSUME Inv, NEW v \in Vm, DeliverToReceiver(v), NEW f \in Fiber PROVE Truthful(f)
  <1>1. Types /\ NextHandler(v, "deliver") /\ recvFiber[v] # Nil
    BY DEF Inv, DeliverToReceiver
  <1>2. PICK kind, home, word : Accounts(kind, home, word)
    BY DEF Inv
  <1>3. PICK s \in Fiber : s = Head(strand[v]).fiber /\ kind[s] = "deliver"
    BY <1>1, <1>2, NextMessage
  <1>4. PICK r \in Fiber : r = recvFiber[v] /\ at[r] = "receive"
    BY <1>1, <1>2, Receiver
  <1>5. at' = [at EXCEPT ![r] = "running"] /\ taken' = [taken EXCEPT ![s] = TRUE]
    BY <1>3, <1>4 DEF DeliverToReceiver, FiberResume
  <1>6. valid[VmOf[s]] => at[s] = "send"
    BY <1>2, <1>3 DEF Accounts, FiberOK, SenderOK, InSend
  <1>7. at[f] = "send" => at'[f] = at[f]
    BY <1>1, <1>4, <1>5 DEF Types, CoreTypeOK
  <1>8. taken'[f] # taken[f] => f = s
    BY <1>1, <1>5 DEF Types
  <1> QED
    BY <1>6, <1>7, <1>8 DEF Truthful

\* A receiver that is told that no sender is left was not sending.
LEMMA TruthNoSenders ==
    ASSUME Inv, NEW v \in Vm, RunNoSenders(v), NEW f \in Fiber PROVE Truthful(f)
  <1>1. Types /\ taken' = taken
    BY DEF Inv, RunNoSenders
  <1>2. PICK kind, home, word : Accounts(kind, home, word)
    BY DEF Inv
  <1>3. at' = at \/ (recvFiber[v] # Nil /\ at' = [at EXCEPT ![recvFiber[v]] = "running"])
    BY DEF RunNoSenders, FiberResume
  <1>4. at[f] = "send" => at'[f] = at[f]
    <2>1. CASE at' = at
      BY <2>1
    <2>2. CASE recvFiber[v] # Nil /\ at' = [at EXCEPT ![recvFiber[v]] = "running"]
      <3>1. at[recvFiber[v]] = "receive" /\ recvFiber[v] \in Fiber
        BY <1>1, <1>2, <2>2, Receiver
      <3> QED
        BY <1>1, <2>2, <3>1 DEF Types, CoreTypeOK
    <2> QED
      BY <1>3, <2>1, <2>2
  <1> QED
    BY <1>1, <1>4 DEF Truthful

\* chan_receive() takes the message of a blocked sender.
LEMMA TruthQueued ==
    ASSUME Inv, NEW g \in Fiber, ReceiveQueued(g), NEW f \in Fiber PROVE Truthful(f)
  <1>1. Types /\ incoming[VmOf[g]] # <<>> /\ at' = at
    BY DEF Inv, ReceiveQueued, Return
  <1>2. PICK kind, home, word : Accounts(kind, home, word)
    BY DEF Inv
  <1>3. PICK v \in Vm : v = VmOf[g]
    BY VmContextAssumption
  <1>4. PICK s : s = Head(incoming[v])
    OBVIOUS
  <1>5. taken' = [taken EXCEPT ![s.fiber] = TRUE]
    BY <1>3, <1>4 DEF ReceiveQueued
  <1>6. s.fiber \in Resumed(incoming[v]) /\ s.fiber \in Fiber
    <2>1. PICK q \in Seq(Sender) : q = incoming[v]
      BY <1>1 DEF Types
    <2>2. q # <<>>
      BY <1>1, <1>3, <2>1
    <2>3. 1 \in 1..Len(q) /\ Head(q) = q[1] /\ q[1] \in Sender
      BY <2>2
    <2> QED
      BY <1>4, <2>1, <2>3 DEF Resumed, Sender
  <1>7. kind[s.fiber] = "incoming"
    BY <1>2, <1>6 DEF Accounts, Waiting
  <1>8. valid[VmOf[s.fiber]] => at[s.fiber] = "send"
    BY <1>2, <1>6, <1>7 DEF Accounts, FiberOK, SenderOK, InSend
  <1>9. taken'[f] # taken[f] => f = s.fiber
    BY <1>1, <1>5 DEF Types
  <1> QED
    BY <1>1, <1>8, <1>9 DEF Truthful

\* chan_send() starts with a message that nobody has taken.
LEMMA TruthSend ==
    ASSUME Inv, NEW g \in Fiber, NEW w \in Vm, NEW msg \in Msg, Send(g, w, msg), NEW f \in Fiber
    PROVE  Truthful(f)
  <1>1. Types
    BY DEF Inv
  <1>2. at' = [at EXCEPT ![g] = "send"] /\ taken' = [taken EXCEPT ![g] = FALSE]
    BY DEF Send, Suspend
  <1>3. f # g => at'[f] = at[f] /\ taken'[f] = taken[f]
    BY <1>1, <1>2 DEF Types, CoreTypeOK
  <1>4. at'[g] = "send"
    BY <1>1, <1>2 DEF Types, CoreTypeOK
  <1> QED
    BY <1>3, <1>4 DEF Truthful

\* The other steps resume nobody and take no message.
LEMMA WordlessStrand ==
    ASSUME Types, NEW v \in Vm,
           DeliverToClosed(v) \/ DeliverToQueue(v) \/ WakeSender(v) \/ RunRevoke(v)
    PROVE  Wordless
  <1>1. at' = at /\ taken' = taken
    BY DEF DeliverToClosed, DeliverToQueue, WakeSender, RunRevoke
  <1> QED
    BY <1>1 DEF Wordless

\* Nor do these calls.
LEMMA WordlessCall ==
    ASSUME Types, NEW f \in Fiber, NEW w \in Vm,
           \/ ImportInbox(f) \/ ReceiveRaises(f) \/ ReceiveWaits(f) \/ InboxClose(f) \/ InboxGc(f)
           \/ SpawnVm(f, w) \/ SendRaises(f, w) \/ DropAddress(f, w) \/ End(f)
    PROVE  Wordless
  <1>1. at \in [Fiber -> Suspended \cup Gone \cup {"running"}]
    BY DEF Types, CoreTypeOK
  <1>2. CASE \/ ImportInbox(f) \/ ReceiveRaises(f) \/ InboxClose(f) \/ InboxGc(f)
             \/ SendRaises(f, w) \/ DropAddress(f, w)
    <2>1. at' = at /\ taken' = taken
      BY <1>2 DEF ImportInbox, ReceiveRaises, InboxClose, InboxGc, SendRaises, DropAddress, Return
    <2> QED
      BY <2>1 DEF Wordless
  <1>3. CASE ReceiveWaits(f)
    <2>1. at' = [at EXCEPT ![f] = "receive"] /\ taken' = taken
      BY <1>3 DEF ReceiveWaits, Suspend
    <2> QED
      BY <1>1, <2>1 DEF Wordless
  <1>4. CASE SpawnVm(f, w)
    <2>1. at' = [at EXCEPT ![Main[w]] = "start"] /\ taken' = taken
      BY <1>4 DEF SpawnVm
    <2> QED
      BY <1>1, <2>1 DEF Wordless
  <1>5. CASE End(f)
    <2>1. at' = [at EXCEPT ![f] = "dead"] /\ taken' = taken
      BY <1>5 DEF End, Suspend
    <2> QED
      BY <1>1, <2>1 DEF Wordless
  <1> QED
    BY <1>2, <1>3, <1>4, <1>5

\* Nor do spawn(), fiber_interrupt() and close().
LEMMA WordlessRest ==
    ASSUME Types, NEW f \in Fiber, NEW g \in Fiber, NEW v \in Vm,
           Spawn(f, g) \/ Interrupt(f, g) \/ Terminate(f) \/ MainFails(f) \/ Destroy(v)
    PROVE  Wordless
  <1>1. at \in [Fiber -> Suspended \cup Gone \cup {"running"}]
    BY DEF Types, CoreTypeOK
  <1>2. CASE Spawn(f, g)
    <2>1. at' = [at EXCEPT ![g] = "start"] /\ taken' = taken
      BY <1>2 DEF Spawn, SpawnFiber
    <2> QED
      BY <1>1, <2>1 DEF Wordless
  <1>3. CASE Interrupt(f, g)
    <2>1. at' = at /\ taken' = taken
      BY <1>3 DEF Interrupt, Return
    <2> QED
      BY <2>1 DEF Wordless
  <1>4. ASSUME NEW u, NEW st, Close(u, st) PROVE Wordless
    <2>1. at' = [x \in Fiber |-> IF VmOf[x] = u THEN "dead" ELSE at[x]] /\ taken' = taken
      BY <1>4 DEF Close, CloseVm, Freed
    <2> QED
      BY <2>1 DEF Wordless
  <1>5. CASE Terminate(f) \/ MainFails(f)
    BY <1>4, <1>5 DEF Terminate, MainFails
  <1>6. CASE Destroy(v)
    <2>1. CASE valid[v]
      BY <1>4, <1>6, <2>1 DEF Destroy
    <2>2. CASE ~valid[v]
      BY <1>6, <2>2 DEF Destroy, Wordless
    <2> QED
      BY <2>1, <2>2
  <1> QED
    BY <1>2, <1>3, <1>5, <1>6

\* Every step of every VM is truthful.
LEMMA TruthNext ==
    ASSUME Inv, [Next]_vars, NEW f \in Fiber PROVE Truthful(f)
  <1>0. Types
    BY DEF Inv
  <1>1. Wordless => Truthful(f)
    BY DEF Wordless, Truthful
  <1>2. ASSUME NEW v \in Vm, RunStrand(v) PROVE Truthful(f)
    BY <1>0, <1>1, <1>2, TruthRunFiber, TruthDeliver, TruthNoSenders, WordlessStrand DEF RunStrand
  <1>3. ASSUME NEW v \in Vm, Destroy(v) PROVE Truthful(f)
    BY <1>0, <1>1, <1>3, WordlessRest
  <1>4. ASSUME NEW g \in Fiber, ActorCall(g) PROVE Truthful(f)
    <2>1. CASE \/ ImportInbox(g) \/ ReceiveRaises(g) \/ ReceiveWaits(g) \/ InboxClose(g) \/ InboxGc(g)
      BY <1>0, <1>1, <2>1, WordlessCall, VmContextAssumption
    <2>2. CASE \E w \in Vm : SpawnVm(g, w) \/ SendRaises(g, w) \/ DropAddress(g, w)
      BY <1>0, <1>1, <2>2, WordlessCall
    <2>3. CASE ReceiveQueued(g) \/ \E w \in Vm, msg \in Msg : Send(g, w, msg)
      BY <2>3, TruthQueued, TruthSend
    <2> QED
      BY <1>4, <2>1, <2>2, <2>3 DEF ActorCall
  <1>5. ASSUME NEW g \in Fiber, End(g) \/ Terminate(g) \/ MainFails(g) PROVE Truthful(f)
    <2>1. VmOf[g] \in Vm
      BY VmContextAssumption
    <2> QED
      BY <1>0, <1>1, <1>5, <2>1, WordlessCall, WordlessRest
  <1>6. ASSUME NEW g \in Fiber, NEW h \in Fiber, Spawn(g, h) \/ Interrupt(g, h) PROVE Truthful(f)
    <2>1. VmOf[g] \in Vm
      BY VmContextAssumption
    <2> QED
      BY <1>0, <1>1, <1>6, <2>1, WordlessRest
  <1>7. CASE UNCHANGED vars
    <2>1. Wordless
      BY <1>7 DEF vars, coreVars, Wordless
    <2> QED
      BY <1>1, <2>1
  <1> QED
    BY <1>2, <1>3, <1>4, <1>5, <1>6, <1>7 DEF Next

\* send() succeeds if and only if a receiver took the message (chan_receive(), or
\* the handler that chan_send() posted); a message whose send() was interrupted or
\* refused was not received, nor is it received later.
THEOREM SendIsTruthful == Spec => SendTellsTheTruth
  <1>1. ASSUME Inv, [Next]_vars
        PROVE  [\A f \in Fiber :
                   /\ at[f] = "send" /\ at'[f] = "running" =>
                         /\ (ret'[f] = "sent") <=> taken[f]
                         /\ ret'[f] = "interrupted" => interrupted[f]
                   /\ valid[VmOf[f]] /\ taken'[f] # taken[f] =>
                         at[f] = "send" \/ at'[f] = "send"]_vars
    BY <1>1, TruthNext DEF Truthful
  <1> QED
    BY <1>1, Invariance, PTL DEF Spec, SendTellsTheTruth

=============================================================================
