-------------------------- MODULE VmContext_proofs --------------------------
(***************************************************************************)
(* Facts about the execution engine that the proofs about its components   *)
(* share: strands and waiting lists as queues that name no fiber twice,    *)
(* the nesting counters, and who owes a suspended fiber its resumption.    *)
(***************************************************************************)
EXTENDS VmContext, SequenceTheorems, FiniteSetTheorems, TLAPS

-----------------------------------------------------------------------------
(* Queues as sets.  The arguments about who is queued where need only what a *)
(* queue holds and that it holds nobody twice.                               *)

Members(q) == {q[i] : i \in 1..Len(q)}

\* The fibers that the handlers of a strand resume.
Resumed(s) == {s[i].fiber : i \in 1..Len(s)}

\* No fiber is in the queue twice; no two handlers resume the same fiber.
NoRepeat(q) == \A i, j \in 1..Len(q) : q[i] = q[j] => i = j
ResumesOnce(s) == \A i, j \in 1..Len(s) : s[i].fiber = s[j].fiber => i = j

\* A queue holds members of its type, and is empty when it has no member.
LEMMA QueueFacts ==
    ASSUME NEW S, NEW q \in Seq(S)
    PROVE  /\ Len(q) \in Nat /\ DOMAIN q = 1..Len(q)
           /\ \A i \in 1..Len(q) : q[i] \in S
           /\ Members(q) \subseteq S
           /\ q = <<>> <=> Members(q) = {}
  <1>1. Len(q) \in Nat /\ DOMAIN q = 1..Len(q) /\ \A i \in 1..Len(q) : q[i] \in S
    BY LenProperties, ElementOfSeq
  <1>2. q = <<>> => Members(q) = {}
    BY EmptySeq DEF Members
  <1>3. q # <<>> => q[1] \in Members(q)
    BY <1>1, EmptySeq DEF Members
  <1> QED
    BY <1>1, <1>2, <1>3 DEF Members

\* One more element at the end.
LEMMA AppendFacts ==
    ASSUME NEW S, NEW q \in Seq(S), NEW e \in S
    PROVE  /\ Append(q, e) \in Seq(S)
           /\ Members(Append(q, e)) = Members(q) \cup {e}
           /\ Resumed(Append(q, e)) = Resumed(q) \cup {e.fiber}
           /\ NoRepeat(q) /\ e \notin Members(q) => NoRepeat(Append(q, e))
           /\ ResumesOnce(q) /\ e.fiber \notin Resumed(q) => ResumesOnce(Append(q, e))
  <1> DEFINE r == Append(q, e)
  <1>1. /\ Len(q) \in Nat /\ r \in Seq(S) /\ Len(r) = Len(q) + 1
        /\ \A i \in 1..Len(q) : r[i] = q[i]
        /\ r[Len(q) + 1] = e
    OBVIOUS
  <1> HIDE DEF r
  <1>2. 1..Len(r) = 1..Len(q) \cup {Len(q) + 1}
    BY <1>1
  <1>3. Members(r) = Members(q) \cup {e}
    BY <1>1, <1>2 DEF Members
  <1>4. Resumed(r) = Resumed(q) \cup {e.fiber}
    BY <1>1, <1>2 DEF Resumed
  <1>5. NoRepeat(q) /\ e \notin Members(q) => NoRepeat(r)
    BY <1>1, <1>2 DEF Members, NoRepeat
  <1>6. ResumesOnce(q) /\ e.fiber \notin Resumed(q) => ResumesOnce(r)
    BY <1>1, <1>2 DEF Resumed, ResumesOnce
  <1> QED
    BY <1>1, <1>3, <1>4, <1>5, <1>6 DEF r

\* The first element is taken off.
LEMMA TailFacts ==
    ASSUME NEW S, NEW q \in Seq(S), q # <<>>
    PROVE  /\ Head(q) \in S /\ Head(q) \in Members(q) /\ Head(q).fiber \in Resumed(q)
           /\ Tail(q) \in Seq(S)
           /\ Members(Tail(q)) \subseteq Members(q)
           /\ NoRepeat(q) => /\ NoRepeat(Tail(q))
                             /\ Members(Tail(q)) = Members(q) \ {Head(q)}
           /\ ResumesOnce(q) => /\ ResumesOnce(Tail(q))
                                /\ Resumed(Tail(q)) = Resumed(q) \ {Head(q).fiber}
  <1> DEFINE r == Tail(q)
             h == Head(q)
  <1>1. /\ Len(q) \in Nat /\ Len(q) >= 1 /\ r \in Seq(S) /\ Len(r) = Len(q) - 1
        /\ \A i \in 1..Len(r) : r[i] = q[i + 1]
        /\ h = q[1] /\ h \in S
    OBVIOUS
  <1> HIDE DEF r, h
  <1>2. /\ \A i \in 1..Len(q) : i = 1 \/ (i - 1 \in 1..Len(r) /\ q[i] = r[i - 1])
        /\ \A i \in 1..Len(r) : i + 1 \in 1..Len(q) /\ q[i + 1] = r[i]
        /\ 1 \in 1..Len(q)
    BY <1>1
  <1>3. h \in Members(q) /\ h.fiber \in Resumed(q)
    BY <1>1 DEF Members, Resumed
  <1>4. Members(r) \subseteq Members(q)
    BY <1>1 DEF Members
  <1>5. ASSUME NoRepeat(q)
        PROVE  NoRepeat(r) /\ Members(r) = Members(q) \ {h}
    <2>1. \A i \in 1..Len(r) : r[i] # h
      BY <1>1, <1>5 DEF NoRepeat
    <2>2. NoRepeat(r)
      BY <1>1, <1>5 DEF NoRepeat
    <2>3. Members(q) = {h} \cup Members(r)
      BY <1>1, <1>2 DEF Members
    <2> QED
      BY <2>1, <2>2, <2>3 DEF Members
  <1>6. ASSUME ResumesOnce(q)
        PROVE  ResumesOnce(r) /\ Resumed(r) = Resumed(q) \ {h.fiber}
    <2>1. \A i \in 1..Len(r) : r[i].fiber # h.fiber
      BY <1>1, <1>6 DEF ResumesOnce
    <2>2. ResumesOnce(r)
      BY <1>1, <1>6 DEF ResumesOnce
    <2>3. Resumed(q) = {h.fiber} \cup Resumed(r)
      BY <1>1, <1>2 DEF Resumed
    <2> QED
      BY <2>1, <2>2, <2>3 DEF Resumed
  <1> QED
    BY <1>1, <1>3, <1>4, <1>5, <1>6 DEF r, h

\* One element is erased, wherever it is.
LEMMA RemoveFacts ==
    ASSUME NEW S, NEW q \in Seq(S), NoRepeat(q), NEW k \in 1..Len(q)
    PROVE  /\ SeqExt!RemoveAt(q, k) \in Seq(S)
           /\ Members(SeqExt!RemoveAt(q, k)) = Members(q) \ {q[k]}
           /\ NoRepeat(SeqExt!RemoveAt(q, k))
  <1> DEFINE a == SubSeq(q, 1, k - 1)
             b == SubSeq(q, k + 1, Len(q))
             r == a \o b
  <1>1. a \in Seq(S) /\ Len(a) = k - 1 /\ \A i \in 1..(k - 1) : a[i] = q[i]
    OBVIOUS
  <1>2. b \in Seq(S) /\ Len(b) = Len(q) - k /\ \A i \in 1..(Len(q) - k) : b[i] = q[k + i]
    OBVIOUS
  <1> HIDE DEF a, b
  <1>3. /\ r \in Seq(S) /\ Len(r) = Len(a) + Len(b)
        /\ \A i \in 1..(Len(a) + Len(b)) : r[i] = IF i <= Len(a) THEN a[i] ELSE b[i - Len(a)]
    BY <1>1, <1>2, ConcatProperties
  <1> HIDE DEF r
  <1>4. /\ Len(q) \in Nat /\ Len(r) = Len(q) - 1
        /\ \A i \in 1..(k - 1) : r[i] = q[i]
        /\ \A i \in k..(Len(q) - 1) : r[i] = q[i + 1]
    <2>1. Len(q) \in Nat /\ Len(r) = Len(q) - 1
      BY <1>1, <1>2, <1>3
    <2>2. \A i \in 1..(k - 1) : r[i] = q[i]
      BY <1>1, <1>2, <1>3
    <2>3. ASSUME NEW i \in k..(Len(q) - 1) PROVE r[i] = q[i + 1]
      <3>1. k \in Int /\ i \in Int /\ k >= 1 /\ i >= k /\ i <= Len(q) - 1
        BY <2>1
      <3>2. /\ i \in 1..(Len(a) + Len(b)) /\ ~(i <= Len(a))
            /\ i - Len(a) = i - (k - 1) /\ i - (k - 1) \in 1..(Len(q) - k)
            /\ k + (i - (k - 1)) = i + 1
        BY <1>1, <1>2, <2>1, <3>1
      <3>3. r[i] = b[i - (k - 1)]
        BY <1>3, <3>2
      <3> QED
        BY <1>2, <3>2, <3>3
    <2> QED
      BY <2>1, <2>2, <2>3
  <1>5. NoRepeat(r)
    BY <1>4 DEF NoRepeat
  <1>6. ASSUME NEW x \in Members(r) PROVE x \in Members(q) /\ x # q[k]
    <2>1. PICK i \in 1..Len(r) : x = r[i]
      BY DEF Members
    <2>2. CASE i < k
      BY <1>4, <2>1, <2>2 DEF Members, NoRepeat
    <2>3. CASE i >= k
      BY <1>4, <2>1, <2>3 DEF Members, NoRepeat
    <2> QED
      BY <1>4, <2>2, <2>3
  <1>7. ASSUME NEW x \in Members(q), x # q[k] PROVE x \in Members(r)
    <2>1. PICK i \in 1..Len(q) : x = q[i]
      BY DEF Members
    <2>2. CASE i < k
      BY <1>4, <2>1, <2>2 DEF Members
    <2>3. CASE i > k
      <3>1. i - 1 \in 1..Len(r) /\ i - 1 \in k..(Len(q) - 1)
        BY <1>4, <2>3
      <3>2. r[i - 1] = q[i]
        BY <1>4, <3>1
      <3> QED
        BY <2>1, <3>1, <3>2 DEF Members
    <2> QED
      BY <1>4, <1>7, <2>1, <2>2, <2>3
  <1>8. Members(r) = Members(q) \ {q[k]}
    BY <1>6, <1>7
  <1> QED
    BY <1>3, <1>5, <1>8 DEF SeqExt!RemoveAt, r, a, b

\* Two strands one after the other.
LEMMA ConcatFacts ==
    ASSUME NEW S, NEW s \in Seq(S), NEW u \in Seq(S)
    PROVE  /\ s \o u \in Seq(S)
           /\ Members(s \o u) = Members(s) \cup Members(u)
           /\ Resumed(s \o u) = Resumed(s) \cup Resumed(u)
           /\ ResumesOnce(s) /\ ResumesOnce(u) /\ Resumed(s) \cap Resumed(u) = {}
                 => ResumesOnce(s \o u)
  <1> DEFINE t == s \o u
             m == Len(s)
             n == Len(u)
  <1>1. m \in Nat /\ n \in Nat
    OBVIOUS
  <1>2. /\ t \in Seq(S) /\ Len(t) = m + n
        /\ \A i \in 1..(m + n) : t[i] = IF i <= m THEN s[i] ELSE u[i - m]
    BY ConcatProperties
  <1> HIDE DEF m, n, t
  <1>3. /\ \A i \in 1..m : i \in 1..Len(t) /\ t[i] = s[i]
        /\ \A i \in 1..n : m + i \in 1..Len(t) /\ t[m + i] = u[i]
        /\ \A i \in 1..Len(t) : i \in 1..m \/ (i - m \in 1..n /\ i = m + (i - m))
    <2>1. \A i \in 1..n : m + i \in 1..(m + n) /\ ~(m + i <= m) /\ (m + i) - m = i
      BY <1>1
    <2>2. \A i \in 1..n : t[m + i] = u[i]
      BY <1>2, <2>1
    <2>3. \A i \in 1..m : i \in 1..(m + n) /\ i <= m
      BY <1>1
    <2>4. \A i \in 1..(m + n) : i \in 1..m \/ (i - m \in 1..n /\ i = m + (i - m))
      BY <1>1
    <2> QED
      BY <1>2, <2>1, <2>2, <2>3, <2>4
  <1>4. Members(t) = Members(s) \cup Members(u)
    <2>1. Members(s) \subseteq Members(t) /\ Members(u) \subseteq Members(t)
      BY <1>3 DEF Members, m, n
    <2>2. \A i \in 1..Len(t) : t[i] \in Members(s) \/ t[i] \in Members(u)
      BY <1>3 DEF Members, m, n
    <2>3. Members(t) \subseteq Members(s) \cup Members(u)
      BY <2>2 DEF Members
    <2> QED
      BY <2>1, <2>3
  <1>5. Resumed(t) = Resumed(s) \cup Resumed(u)
    <2>1. Resumed(s) \subseteq Resumed(t) /\ Resumed(u) \subseteq Resumed(t)
      <3>1. \A i \in 1..m : i \in 1..Len(t) /\ t[i].fiber = s[i].fiber
        BY <1>3
      <3>2. \A i \in 1..n : m + i \in 1..Len(t) /\ t[m + i].fiber = u[i].fiber
        BY <1>3
      <3>3. Resumed(s) \subseteq Resumed(t)
        BY <3>1 DEF Resumed, m
      <3>4. Resumed(u) \subseteq Resumed(t)
        BY <3>2 DEF Resumed, n
      <3> QED
        BY <3>3, <3>4
    <2>2. \A i \in 1..Len(t) : t[i].fiber \in Resumed(s) \/ t[i].fiber \in Resumed(u)
      <3> SUFFICES ASSUME NEW i \in 1..Len(t)
                   PROVE  t[i].fiber \in Resumed(s) \/ t[i].fiber \in Resumed(u)
        OBVIOUS
      <3>1. CASE i \in 1..m
        BY <1>3, <3>1 DEF Resumed, m
      <3>2. CASE i - m \in 1..n /\ i = m + (i - m)
        <4>1. t[i] = u[i - m]
          BY <1>3, <3>2
        <4> QED
          BY <3>2, <4>1 DEF Resumed, n
      <3> QED
        BY <1>3, <3>1, <3>2
    <2>3. Resumed(t) \subseteq Resumed(s) \cup Resumed(u)
      BY <2>2 DEF Resumed
    <2> QED
      BY <2>1, <2>3
  <1>6. ASSUME ResumesOnce(s), ResumesOnce(u), Resumed(s) \cap Resumed(u) = {}
        PROVE  ResumesOnce(t)
    <2> SUFFICES ASSUME NEW i \in 1..Len(t), NEW j \in 1..Len(t), t[i].fiber = t[j].fiber
                 PROVE  i = j
      BY DEF ResumesOnce
    <2>1. ASSUME NEW k \in 1..Len(t)
          PROVE  \/ k \in 1..m /\ t[k].fiber = s[k].fiber /\ t[k].fiber \in Resumed(s)
                 \/ /\ k - m \in 1..n /\ k = m + (k - m)
                    /\ t[k].fiber = u[k - m].fiber /\ t[k].fiber \in Resumed(u)
      <3>1. CASE k \in 1..m
        BY <1>3, <3>1 DEF Resumed, m
      <3>2. CASE k - m \in 1..n /\ k = m + (k - m)
        <4>1. t[k] = u[k - m]
          BY <1>3, <3>2
        <4> QED
          BY <3>2, <4>1 DEF Resumed, n
      <3> QED
        BY <1>3, <3>1, <3>2
    <2>2. CASE i \in 1..m /\ j \in 1..m /\ t[i].fiber = s[i].fiber /\ t[j].fiber = s[j].fiber
      BY <1>6, <2>2 DEF ResumesOnce, m
    <2>3. CASE /\ i - m \in 1..n /\ j - m \in 1..n /\ i = m + (i - m) /\ j = m + (j - m)
               /\ t[i].fiber = u[i - m].fiber /\ t[j].fiber = u[j - m].fiber
      BY <1>6, <2>3 DEF ResumesOnce, n
    <2> QED
      BY <1>6, <2>1, <2>2, <2>3
  <1> QED
    BY <1>2, <1>4, <1>5, <1>6 DEF t

\* The resumes of everybody in a list.
LEMMA ResumeAllFacts ==
    ASSUME NEW H, NEW q \in Seq(Fiber), NEW val, \A f \in Fiber : Resume(f, val) \in H
    PROVE  /\ ResumeAll(q, val) \in Seq(H)
           /\ \A h \in Members(ResumeAll(q, val)) : \E f \in Members(q) : h = Resume(f, val)
           /\ Resumed(ResumeAll(q, val)) = Members(q)
           /\ NoRepeat(q) => ResumesOnce(ResumeAll(q, val))
  <1> DEFINE n == Len(q)
             e == ResumeAll(q, val)
  <1>1. n \in Nat /\ DOMAIN q = 1..n /\ \A i \in 1..n : q[i] \in Fiber
    BY QueueFacts
  <1> HIDE DEF n
  <1>2. e \in [1..n -> H] /\ \A i \in 1..n : e[i] = Resume(q[i], val)
    BY <1>1 DEF ResumeAll
  <1> HIDE DEF e
  <1>3. e \in Seq(H) /\ Len(e) = n
    BY <1>1, <1>2
  <1>4. \A i \in 1..n : e[i].fiber = q[i]
    BY <1>2 DEF Resume
  <1>5. \A h \in Members(e) : \E f \in Members(q) : h = Resume(f, val)
    BY <1>2, <1>3 DEF Members, n
  <1>6. Resumed(e) = Members(q)
    BY <1>3, <1>4 DEF Resumed, Members, n
  <1>7. NoRepeat(q) => ResumesOnce(e)
    BY <1>3, <1>4 DEF NoRepeat, ResumesOnce, n
  <1> QED
    BY <1>3, <1>5, <1>6, <1>7 DEF e

-----------------------------------------------------------------------------
(* Who owes a fiber its resumption.  The ledger of a state: the current      *)
(* fiber of a VM is the one that runs, and a fiber is suspended at one of    *)
(* sites if and only if a handler of its strand resumes it or it is waiting  *)
(* in some list of its component, never both.  The lemmas say how the ledger *)
(* changes in the steps every component is made of.                          *)

Ledger(run, place, str, waiting, sites) ==
    /\ \A f \in Fiber : place[f] = "running" <=> run[VmOf[f]] = f
    /\ \A v \in Vm : ResumesOnce(str[v])
    /\ \A v \in Vm : \A f \in Resumed(str[v]) : VmOf[f] = v
    /\ \A f \in Fiber : place[f] \in sites <=> f \in Resumed(str[VmOf[f]]) \/ f \in waiting
    /\ \A f \in Fiber : ~(f \in Resumed(str[VmOf[f]]) /\ f \in waiting)

\* post() of the resume of a fiber that waits.
LEMMA LedgerPost ==
    ASSUME NEW H, NEW run, NEW place, NEW str \in [Vm -> Seq(H)], NEW W, NEW S,
           Ledger(run, place, str, W, S),
           NEW h \in H, h.fiber \in Fiber, h.fiber \in W, NEW v \in Vm, VmOf[h.fiber] = v
    PROVE  Ledger(run, place, [str EXCEPT ![v] = Append(@, h)], W \ {h.fiber}, S)
  <1> DEFINE str1 == [str EXCEPT ![v] = Append(@, h)]
  <1>1. /\ Resumed(str1[v]) = Resumed(str[v]) \cup {h.fiber}
        /\ \A w \in Vm : w # v => str1[w] = str[w]
        /\ ResumesOnce(str[v]) /\ h.fiber \notin Resumed(str[v]) => ResumesOnce(str1[v])
    BY AppendFacts
  <1>2. h.fiber \notin Resumed(str[v])
    BY DEF Ledger
  <1> HIDE DEF str1
  <1>3. \A f \in Fiber : VmOf[f] \in Vm
    BY VmContextAssumption
  <1>4. /\ \A w \in Vm : ResumesOnce(str1[w])
        /\ \A w \in Vm : \A f \in Resumed(str1[w]) : VmOf[f] = w
    <2>1. ResumesOnce(str1[v]) /\ \A f \in Resumed(str1[v]) : VmOf[f] = v
      BY <1>1, <1>2 DEF Ledger
    <2> QED
      BY <1>1, <2>1 DEF Ledger
  <1>5. \A f \in Fiber : f \in Resumed(str1[VmOf[f]]) <=>
                             f = h.fiber \/ f \in Resumed(str[VmOf[f]])
    BY <1>1, <1>3
  <1>6. Ledger(run, place, str1, W \ {h.fiber}, S)
    BY <1>2, <1>4, <1>5 DEF Ledger
  <1> QED
    BY <1>6 DEF str1

\* The resumes of a whole list of fibers that wait are posted.
LEMMA LedgerPostAll ==
    ASSUME NEW H, NEW run, NEW place, NEW str \in [Vm -> Seq(H)], NEW W, NEW S,
           Ledger(run, place, str, W, S),
           NEW q \in Seq(Fiber), NoRepeat(q), Members(q) \subseteq W, NEW val,
           \A f \in Fiber : Resume(f, val) \in H,
           NEW v \in Vm, \A f \in Members(q) : VmOf[f] = v
    PROVE  LET str1 == [str EXCEPT ![v] = @ \o ResumeAll(q, val)]
           IN  str1 \in [Vm -> Seq(H)] /\ Ledger(run, place, str1, W \ Members(q), S)
  <1> DEFINE str1 == [str EXCEPT ![v] = @ \o ResumeAll(q, val)]
  <1>1. Members(q) \subseteq Fiber
    BY QueueFacts
  <1>2. Resumed(str[v]) \cap Members(q) = {}
    BY <1>1 DEF Ledger
  <1>3. str1[v] = str[v] \o ResumeAll(q, val)
    OBVIOUS
  <1>4. ResumesOnce(str[v]) /\ str[v] \in Seq(H)
    BY DEF Ledger
  <1> HIDE DEF str1
  <1>5. /\ str1[v] \in Seq(H)
        /\ Resumed(str1[v]) = Resumed(str[v]) \cup Members(q)
        /\ ResumesOnce(str1[v])
    <2>1. /\ ResumeAll(q, val) \in Seq(H)
          /\ Resumed(ResumeAll(q, val)) = Members(q)
          /\ ResumesOnce(ResumeAll(q, val))
      BY ResumeAllFacts
    <2> QED
      BY <1>2, <1>3, <1>4, <2>1, ConcatFacts
  <1>6. str1 \in [Vm -> Seq(H)] /\ \A w \in Vm : w # v => str1[w] = str[w]
    BY <1>5 DEF str1
  <1>7. \A f \in Fiber : VmOf[f] \in Vm
    BY VmContextAssumption
  <1>8. Ledger(run, place, str1, W \ Members(q), S)
    BY <1>1, <1>5, <1>6, <1>7 DEF Ledger
  <1> QED
    BY <1>6, <1>8 DEF str1

\* The current fiber gives control back and waits.
LEMMA LedgerSuspend ==
    ASSUME NEW P, NEW run \in [Vm -> Fiber \cup {Nil}], NEW place \in [Fiber -> P],
           NEW str, NEW W, NEW S, Ledger(run, place, str, W, S), "running" \notin S,
           NEW f \in Fiber, run[VmOf[f]] = f, NEW site \in S
    PROVE  Ledger([run EXCEPT ![VmOf[f]] = Nil], [place EXCEPT ![f] = site], str, W \cup {f}, S)
  <1>1. VmOf[f] \in Vm /\ (\A g \in Fiber : VmOf[g] \in Vm) /\ Nil \notin Fiber
    BY VmContextAssumption
  <1>2. place[f] = "running" /\ f \notin Resumed(str[VmOf[f]]) /\ f \notin W
    BY DEF Ledger
  <1> QED
    BY <1>1, <1>2 DEF Ledger

\* A fiber that was nowhere is created, and waits for its first resume.
LEMMA LedgerBorn ==
    ASSUME NEW P, NEW run, NEW place \in [Fiber -> P],
           NEW str, NEW W, NEW S, Ledger(run, place, str, W, S), "running" \notin S,
           NEW g \in Fiber, place[g] \notin S \cup {"running"}, NEW site \in S
    PROVE  Ledger(run, [place EXCEPT ![g] = site], str, W \cup {g}, S)
  BY DEF Ledger

\* The current fiber ends.
LEMMA LedgerEnd ==
    ASSUME NEW P, NEW run \in [Vm -> Fiber \cup {Nil}], NEW place \in [Fiber -> P],
           NEW str, NEW W, NEW S, Ledger(run, place, str, W, S), "running" \notin S,
           NEW f \in Fiber, run[VmOf[f]] = f, NEW site, site \notin S \cup {"running"}
    PROVE  Ledger([run EXCEPT ![VmOf[f]] = Nil], [place EXCEPT ![f] = site], str, W, S)
  <1>1. VmOf[f] \in Vm /\ (\A g \in Fiber : VmOf[g] \in Vm) /\ Nil \notin Fiber
    BY VmContextAssumption
  <1>2. place[f] = "running" /\ f \notin Resumed(str[VmOf[f]]) /\ f \notin W
    BY DEF Ledger
  <1> QED
    BY <1>1, <1>2 DEF Ledger

\* Whoever a strand resumes is suspended, waits nowhere else, and is of its VM.
LEMMA LedgerQueued ==
    ASSUME NEW run, NEW place, NEW str, NEW W, NEW S, Ledger(run, place, str, W, S),
           NEW v \in Vm, NEW f \in Fiber, f \in Resumed(str[v])
    PROVE  f \notin W /\ place[f] \in S /\ VmOf[f] = v
  BY DEF Ledger

\* What the strands hold once v has taken its first handler.
Popped(str, v) == [str EXCEPT ![v] = Tail(@)]

\* The strand resumes the fiber of its first handler.
LEMMA LedgerResume ==
    ASSUME NEW H, NEW P, NEW run \in [Vm -> Fiber \cup {Nil}], NEW place \in [Fiber -> P],
           NEW str \in [Vm -> Seq(H)], NEW W, NEW S, Ledger(run, place, str, W, S),
           "running" \notin S, NEW v \in Vm, run[v] = Nil, str[v] # <<>>,
           NEW f \in Fiber, f = Head(str[v]).fiber
    PROVE  Ledger([run EXCEPT ![v] = f], [place EXCEPT ![f] = "running"], Popped(str, v), W, S)
  <1> DEFINE str1 == Popped(str, v)
  <1>1. /\ f \in Resumed(str[v])
        /\ ResumesOnce(str[v]) => /\ ResumesOnce(str1[v])
                                  /\ Resumed(str1[v]) = Resumed(str[v]) \ {f}
        /\ \A w \in Vm : w # v => str1[w] = str[w]
    BY TailFacts DEF Popped
  <1> HIDE DEF str1
  <1>2. (\A g \in Fiber : VmOf[g] \in Vm) /\ Nil \notin Fiber
    BY VmContextAssumption
  <1>3. VmOf[f] = v /\ f \notin W /\ place[f] \in S
    BY <1>1 DEF Ledger
  <1>4. /\ \A w \in Vm : ResumesOnce(str1[w])
        /\ \A w \in Vm : \A g \in Resumed(str1[w]) : VmOf[g] = w
    BY <1>1 DEF Ledger
  <1>5. \A g \in Fiber : g \in Resumed(str1[VmOf[g]]) <=>
                             g # f /\ g \in Resumed(str[VmOf[g]])
    BY SMTT(30), <1>1, <1>2, <1>3 DEF Ledger
  <1>6. \A g \in Fiber :
            [place EXCEPT ![f] = "running"][g] = "running" <=> [run EXCEPT ![v] = f][VmOf[g]] = g
    BY <1>2, <1>3 DEF Ledger
  <1>7. Ledger([run EXCEPT ![v] = f], [place EXCEPT ![f] = "running"], str1, W, S)
    BY <1>3, <1>4, <1>5, <1>6 DEF Ledger
  <1> QED
    BY <1>7 DEF str1

\* The current fiber is owed nothing.
LEMMA LedgerRunning ==
    ASSUME NEW run, NEW place, NEW str, NEW W, NEW S, Ledger(run, place, str, W, S),
           "running" \notin S, NEW f \in Fiber, run[VmOf[f]] = f
    PROVE  place[f] = "running" /\ f \notin W /\ f \notin Resumed(str[VmOf[f]])
  BY DEF Ledger

\* The current fiber posts its own resume and gives control back.
LEMMA LedgerYield ==
    ASSUME NEW H, NEW P, NEW run \in [Vm -> Fiber \cup {Nil}], NEW place \in [Fiber -> P],
           NEW str \in [Vm -> Seq(H)], NEW W, NEW S, Ledger(run, place, str, W, S),
           "running" \notin S, NEW f \in Fiber, run[VmOf[f]] = f, NEW site \in S,
           NEW h \in H, h.fiber = f
    PROVE  Ledger([run EXCEPT ![VmOf[f]] = Nil], [place EXCEPT ![f] = site],
                  [str EXCEPT ![VmOf[f]] = Append(@, h)], W, S)
  <1>1. Ledger([run EXCEPT ![VmOf[f]] = Nil], [place EXCEPT ![f] = site], str, W \cup {f}, S)
    BY LedgerSuspend
  <1>2. VmOf[f] \in Vm /\ (W \cup {f}) \ {f} = W
    BY VmContextAssumption, LedgerRunning
  <1> DEFINE run1 == [run EXCEPT ![VmOf[f]] = Nil]
             place1 == [place EXCEPT ![f] = site]
             W1 == W \cup {f}
  <1>3. Ledger(run1, place1, str, W1, S) /\ f \in W1
    BY <1>1
  <1> HIDE DEF run1, place1, W1
  <1>4. Ledger(run1, place1, [str EXCEPT ![VmOf[f]] = Append(@, h)], W1 \ {f}, S)
    BY <1>2, <1>3, LedgerPost
  <1> QED
    BY <1>2, <1>4 DEF run1, place1, W1

\* A fiber is created and its first resume posted.
LEMMA LedgerSpawn ==
    ASSUME NEW H, NEW P, NEW run, NEW place \in [Fiber -> P],
           NEW str \in [Vm -> Seq(H)], NEW W, NEW S, Ledger(run, place, str, W, S),
           "running" \notin S, NEW g \in Fiber, place[g] \notin S \cup {"running"},
           NEW site \in S, NEW h \in H, h.fiber = g
    PROVE  Ledger(run, [place EXCEPT ![g] = site], [str EXCEPT ![VmOf[g]] = Append(@, h)], W, S)
  <1>1. Ledger(run, [place EXCEPT ![g] = site], str, W \cup {g}, S)
    BY LedgerBorn
  <1>2. VmOf[g] \in Vm /\ (W \cup {g}) \ {g} = W
    BY VmContextAssumption DEF Ledger
  <1> DEFINE place1 == [place EXCEPT ![g] = site]
             W1 == W \cup {g}
  <1>3. Ledger(run, place1, str, W1, S) /\ g \in W1
    BY <1>1
  <1> HIDE DEF place1, W1
  <1>4. Ledger(run, place1, [str EXCEPT ![VmOf[g]] = Append(@, h)], W1 \ {g}, S)
    BY <1>2, <1>3, LedgerPost
  <1> QED
    BY <1>2, <1>4 DEF place1, W1

\* In the beginning each VM owes its main fiber the first resume.
LEMMA LedgerInit ==
    ASSUME CoreInit, NEW S, "start" \in S, "unborn" \notin S
    PROVE  Ledger(running, at, strand, {}, S)
  <1> USE VmContextAssumption
  <1>1. \A v \in Vm : Resumed(strand[v]) = {Main[v]} /\ ResumesOnce(strand[v])
    <2> SUFFICES ASSUME NEW v \in Vm
                 PROVE  Resumed(strand[v]) = {Main[v]} /\ ResumesOnce(strand[v])
      OBVIOUS
    <2>1. strand[v] = <<ResumeSkipClear(Main[v])>>
      BY DEF CoreInit
    <2>2. Len(strand[v]) = 1 /\ strand[v][1].fiber = Main[v]
      BY <2>1 DEF ResumeSkipClear
    <2> QED
      BY <2>2 DEF Resumed, ResumesOnce
  <1>2. \A f \in Fiber : at[f] = IF Main[VmOf[f]] = f THEN "start" ELSE "unborn"
    BY DEF CoreInit, IsMain
  <1>3. \A v \in Vm : running[v] = Nil
    BY DEF CoreInit
  <1>4. \A f \in Fiber : at[f] # "running" /\ running[VmOf[f]] # f
    BY <1>2, <1>3
  <1>5. \A f \in Fiber : f \in Resumed(strand[VmOf[f]]) <=> Main[VmOf[f]] = f
    BY <1>1
  <1>6. \A f \in Fiber : at[f] \in S <=> Main[VmOf[f]] = f
    BY <1>2
  <1>7. \A v \in Vm : \A f \in Resumed(strand[v]) : VmOf[f] = v
    BY <1>1
  <1> QED
    BY <1>1, <1>4, <1>5, <1>6, <1>7 DEF Ledger

-----------------------------------------------------------------------------
(* The engine's variables with their types, and the ledger.  What each piece *)
(* of an action does to them, for a component whose fibers suspend at sites  *)
(* S, whose calls return results R, and that keeps the fibers W waiting.     *)

Engine(run, place, str, W, S, R) ==
    /\ run \in [Vm -> Fiber \cup {Nil}]
    /\ place \in [Fiber -> S \cup Gone \cup {"running"}]
    /\ str \in [Vm -> Seq(ResumeHandler(Fiber, R))]
    /\ Ledger(run, place, str, W, S)

\* The sites and results every component has.
Sites(S) == "start" \in S /\ "yield" \in S /\ S \cap (Gone \cup {"running"}) = {}
Answers(R) == {"none", "interrupted"} \subseteq R

\* What can be posted.
LEMMA Handlers ==
    ASSUME NEW R, Answers(R), NEW f \in Fiber
    PROVE  /\ ResumeSkipClear(f) \in ResumeHandler(Fiber, R) /\ ResumeSkipClear(f).fiber = f
           /\ \A r \in R : Resume(f, r) \in ResumeHandler(Fiber, R) /\ Resume(f, r).fiber = f
  BY DEF ResumeSkipClear, Resume, ResumeHandler, Answers

\* One more handler, whatever it is.
LEMMA PostType ==
    ASSUME NEW H, NEW str \in [Vm -> Seq(H)], NEW v \in Vm, NEW h \in H
    PROVE  [str EXCEPT ![v] = Append(@, h)] \in [Vm -> Seq(H)]
  <1>1. Append(str[v], h) \in Seq(H)
    BY AppendFacts
  <1> QED
    BY <1>1

\* What the strands hold after a post, and after the resumes of a whole list.
Posted(str, v, h) == [str EXCEPT ![v] = Append(@, h)]
PostedAll(str, v, q, val) == [str EXCEPT ![v] = @ \o ResumeAll(q, val)]

\* The strands hold no handler that they did not hold before, except those of new.
Adds(str1, str, new) == \A w \in Vm : Members(str1[w]) \subseteq Members(str[w]) \cup new

LEMMA PostMembers ==
    ASSUME NEW H, NEW str \in [Vm -> Seq(H)], NEW v \in Vm, NEW h \in H
    PROVE  Adds(Posted(str, v, h), str, {h})
  <1>1. Members(Append(str[v], h)) = Members(str[v]) \cup {h}
    BY AppendFacts
  <1> QED
    BY <1>1 DEF Posted, Adds

LEMMA PostAllMembers ==
    ASSUME NEW H, NEW str \in [Vm -> Seq(H)], NEW v \in Vm,
           NEW q \in Seq(Fiber), NEW val, \A f \in Fiber : Resume(f, val) \in H
    PROVE  /\ Adds(PostedAll(str, v, q, val), str, Members(ResumeAll(q, val)))
           /\ \A e \in Members(ResumeAll(q, val)) : \E f \in Members(q) : e = Resume(f, val)
  <1> DEFINE all == ResumeAll(q, val)
  <1>1. str[v] \in Seq(H)
    OBVIOUS
  <1>2. all \in Seq(H) /\ \A e \in Members(all) : \E f \in Members(q) : e = Resume(f, val)
    BY ZenonT(30), ResumeAllFacts
  <1> HIDE DEF all
  <1>3. Members(str[v] \o all) = Members(str[v]) \cup Members(all)
    BY <1>1, <1>2, ConcatFacts
  <1>4. Adds([str EXCEPT ![v] = @ \o all], str, Members(all))
    BY <1>3 DEF Adds
  <1> QED
    BY <1>2, <1>4 DEF all, PostedAll

LEMMA PopMembers ==
    ASSUME NEW H, NEW str \in [Vm -> Seq(H)], NEW v \in Vm, str[v] # <<>>
    PROVE  Adds(Popped(str, v), str, {})
  <1>1. Members(Tail(str[v])) \subseteq Members(str[v])
    BY TailFacts
  <1> QED
    BY <1>1 DEF Popped, Adds

\* The strands still hold every handler they held, except those that resume one of fs.
Keeps(str1, str, fs) ==
    \A w \in Vm : \A h \in Members(str[w]) : h \in Members(str1[w]) \/ h.fiber \in fs

\* post() takes nothing off a strand.
LEMMA PostKeeps ==
    ASSUME NEW H, NEW str \in [Vm -> Seq(H)], NEW v \in Vm, NEW h \in H
    PROVE  Keeps(Posted(str, v, h), str, {}) /\ h \in Members(Posted(str, v, h)[v])
  <1>1. Members(Append(str[v], h)) = Members(str[v]) \cup {h}
    BY AppendFacts
  <1> QED
    BY <1>1 DEF Posted, Keeps

\* Neither do the resumes of a whole list, which are all there afterwards.
LEMMA PostAllKeeps ==
    ASSUME NEW H, NEW str \in [Vm -> Seq(H)], NEW v \in Vm,
           NEW q \in Seq(Fiber), NEW val, \A f \in Fiber : Resume(f, val) \in H
    PROVE  /\ Keeps(PostedAll(str, v, q, val), str, {})
           /\ \A f \in Members(q) : Resume(f, val) \in Members(PostedAll(str, v, q, val)[v])
  <1> DEFINE all == ResumeAll(q, val)
  <1>1. str[v] \in Seq(H)
    OBVIOUS
  <1>2. all \in Seq(H)
    BY ResumeAllFacts
  <1>3. \A f \in Members(q) : Resume(f, val) \in Members(all)
    BY QueueFacts, <1>2, LenProperties DEF Members, ResumeAll
  <1> HIDE DEF all
  <1>4. Members(str[v] \o all) = Members(str[v]) \cup Members(all)
    BY <1>1, <1>2, ConcatFacts
  <1>5. Keeps([str EXCEPT ![v] = @ \o all], str, {})
    BY <1>4 DEF Keeps
  <1>6. \A f \in Members(q) : Resume(f, val) \in Members([str EXCEPT ![v] = @ \o all][v])
    BY <1>3, <1>4
  <1> QED
    BY <1>5, <1>6 DEF all, PostedAll

\* Running a handler takes that one off.
LEMMA PopKeeps ==
    ASSUME NEW H, NEW str \in [Vm -> Seq(H)], NEW v \in Vm, str[v] # <<>>
    PROVE  Keeps(Popped(str, v), str, {Head(str[v]).fiber})
  <1> DEFINE q == str[v]
             r == Tail(q)
  <1>1. /\ Len(q) \in Nat /\ Len(q) >= 1 /\ Len(r) = Len(q) - 1
        /\ \A i \in 1..Len(r) : r[i] = q[i + 1]
        /\ Head(q) = q[1]
    OBVIOUS
  <1> HIDE DEF r
  <1>2. \A i \in 1..Len(q) : i = 1 \/ (i - 1 \in 1..Len(r) /\ q[i] = r[i - 1])
    BY <1>1
  <1>3. \A h \in Members(q) : h \in Members(r) \/ h = Head(q)
    <2> SUFFICES ASSUME NEW i \in 1..Len(q) PROVE q[i] \in Members(r) \/ q[i] = Head(q)
      BY DEF Members
    <2> HIDE DEF q
    <2>1. CASE i = 1
      BY <1>1, <2>1
    <2>2. CASE i # 1
      BY <1>2, <2>2 DEF Members
    <2> QED
      BY <2>1, <2>2
  <1> QED
    BY <1>3 DEF Popped, Keeps, r

LEMMA EngineInit ==
    ASSUME CoreInit, NEW S, Sites(S), NEW R, Answers(R)
    PROVE  Engine(running, at, strand, {}, S, R)
  <1>1. \A v \in Vm : <<ResumeSkipClear(Main[v])>> \in Seq(ResumeHandler(Fiber, R))
    BY Handlers, VmContextAssumption
  <1>2. "start" \in S /\ "unborn" \notin S
    BY DEF Sites, Gone
  <1>3. Ledger(running, at, strand, {}, S)
    BY <1>2, LedgerInit
  <1> QED
    BY <1>1, <1>2, <1>3 DEF CoreInit, Engine, Gone, IsMain

LEMMA EnginePost ==
    ASSUME NEW run, NEW place, NEW str, NEW W, NEW S, NEW R, Engine(run, place, str, W, S, R),
           NEW h \in ResumeHandler(Fiber, R), h.fiber \in W, NEW v \in Vm, VmOf[h.fiber] = v
    PROVE  Engine(run, place, Posted(str, v, h), W \ {h.fiber}, S, R)
  <1> DEFINE H == ResumeHandler(Fiber, R)
  <1>1. h \in H /\ h.fiber \in Fiber /\ str \in [Vm -> Seq(H)] /\ Ledger(run, place, str, W, S)
    BY DEF Engine, ResumeHandler
  <1> HIDE DEF H
  <1>2. [str EXCEPT ![v] = Append(@, h)] \in [Vm -> Seq(H)]
    BY <1>1, PostType
  <1>3. Ledger(run, place, [str EXCEPT ![v] = Append(@, h)], W \ {h.fiber}, S)
    BY <1>1, LedgerPost
  <1> QED
    BY <1>2, <1>3 DEF Engine, H, Posted

LEMMA EnginePostAll ==
    ASSUME NEW run, NEW place, NEW str, NEW W, NEW S, NEW R, Engine(run, place, str, W, S, R),
           Answers(R), NEW q \in Seq(Fiber), NoRepeat(q), Members(q) \subseteq W, NEW val \in R,
           NEW v \in Vm, \A f \in Members(q) : VmOf[f] = v
    PROVE  Engine(run, place, PostedAll(str, v, q, val), W \ Members(q), S, R)
  <1> DEFINE H == ResumeHandler(Fiber, R)
             str1 == [str EXCEPT ![v] = @ \o ResumeAll(q, val)]
  <1>1. /\ str \in [Vm -> Seq(H)] /\ Ledger(run, place, str, W, S)
        /\ \A f \in Fiber : Resume(f, val) \in H
    BY Handlers DEF Engine
  <1> HIDE DEF H
  <1>2. str1 \in [Vm -> Seq(H)] /\ Ledger(run, place, str1, W \ Members(q), S)
    BY <1>1, LedgerPostAll
  <1> HIDE DEF str1
  <1>3. Engine(run, place, str1, W \ Members(q), S, R)
    BY <1>2 DEF Engine, H
  <1> QED
    BY <1>3 DEF str1, PostedAll

LEMMA EngineSuspend ==
    ASSUME NEW run, NEW place, NEW str, NEW W, NEW S, NEW R, Engine(run, place, str, W, S, R),
           Sites(S), NEW f \in Fiber, run[VmOf[f]] = f, NEW site \in S
    PROVE  Engine([run EXCEPT ![VmOf[f]] = Nil], [place EXCEPT ![f] = site], str, W \cup {f}, S, R)
  <1>1. Ledger([run EXCEPT ![VmOf[f]] = Nil], [place EXCEPT ![f] = site], str, W \cup {f}, S)
    BY LedgerSuspend DEF Engine, Sites
  <1> QED
    BY <1>1, VmContextAssumption DEF Engine

LEMMA EngineEnd ==
    ASSUME NEW W, NEW S, NEW R, Engine(running, at, strand, W, S, R), Sites(S),
           NEW f \in Fiber, Running(f), Suspend(f, "dead"), UNCHANGED strand
    PROVE  Engine(running', at', strand', W, S, R)
  <1>1. "running" \notin S /\ "dead" \notin S \cup {"running"}
    BY DEF Sites, Gone
  <1>2. Ledger([running EXCEPT ![VmOf[f]] = Nil], [at EXCEPT ![f] = "dead"], strand, W, S)
    BY <1>1, LedgerEnd DEF Engine, Running
  <1> QED
    BY <1>2, VmContextAssumption DEF Engine, Suspend, Gone

LEMMA EngineSpawn ==
    ASSUME NEW W, NEW S, NEW R, Engine(running, at, strand, W, S, R), Sites(S), Answers(R),
           NEW f \in Fiber, NEW g \in Fiber, SpawnFiber(f, g)
    PROVE  Engine(running', at', strand', W, S, R)
  <1> DEFINE H == ResumeHandler(Fiber, R)
             h == ResumeSkipClear(g)
  <1>1. /\ at[g] = "unborn" /\ VmOf[g] = VmOf[f] /\ running' = running
        /\ at' = [at EXCEPT ![g] = "start"]
        /\ strand' = [strand EXCEPT ![VmOf[g]] = Append(@, h)]
    BY DEF SpawnFiber, Post
  <1>2. h \in H /\ h.fiber = g /\ VmOf[g] \in Vm
    BY Handlers, VmContextAssumption
  <1> HIDE DEF h, H
  <1>3. /\ strand \in [Vm -> Seq(H)] /\ Ledger(running, at, strand, W, S)
        /\ at \in [Fiber -> S \cup Gone \cup {"running"}]
        /\ "running" \notin S /\ "start" \in S /\ at[g] \notin S \cup {"running"}
    BY <1>1 DEF Engine, Sites, Gone, H
  <1>4. Ledger(running, [at EXCEPT ![g] = "start"], [strand EXCEPT ![VmOf[g]] = Append(@, h)], W, S)
    BY <1>2, <1>3, LedgerSpawn
  <1>5. [strand EXCEPT ![VmOf[g]] = Append(@, h)] \in [Vm -> Seq(H)]
    BY <1>2, <1>3, PostType
  <1>6. at' \in [Fiber -> S \cup Gone \cup {"running"}]
    BY <1>1, <1>3
  <1> QED
    BY <1>1, <1>4, <1>5, <1>6 DEF Engine, H

LEMMA EngineYield ==
    ASSUME NEW W, NEW S, NEW R, Engine(running, at, strand, W, S, R), Sites(S), Answers(R),
           NEW f \in Fiber, Yield(f)
    PROVE  Engine(running', at', strand', W, S, R)
  <1>1. CASE ~CanSuspend(f)
    BY <1>1 DEF Yield, Return
  <1>2. CASE CanSuspend(f)
    <2> DEFINE H == ResumeHandler(Fiber, R)
               h == ResumeSkipClear(f)
    <2>1. /\ running[VmOf[f]] = f
          /\ running' = [running EXCEPT ![VmOf[f]] = Nil] /\ at' = [at EXCEPT ![f] = "yield"]
          /\ strand' = [strand EXCEPT ![VmOf[f]] = Append(@, h)]
      BY <1>2 DEF Yield, Suspend, Post, Running
    <2>2. h \in H /\ h.fiber = f /\ VmOf[f] \in Vm
      BY Handlers, VmContextAssumption
    <2> HIDE DEF h, H
    <2>3. /\ strand \in [Vm -> Seq(H)] /\ Ledger(running, at, strand, W, S)
          /\ at \in [Fiber -> S \cup Gone \cup {"running"}]
          /\ running \in [Vm -> Fiber \cup {Nil}]
          /\ "running" \notin S /\ "yield" \in S
      BY DEF Engine, Sites, H
    <2>4. Ledger([running EXCEPT ![VmOf[f]] = Nil], [at EXCEPT ![f] = "yield"],
                 [strand EXCEPT ![VmOf[f]] = Append(@, h)], W, S)
      BY <2>1, <2>2, <2>3, LedgerYield
    <2>5. [strand EXCEPT ![VmOf[f]] = Append(@, h)] \in [Vm -> Seq(H)]
      BY <2>2, <2>3, PostType
    <2>6. at' \in [Fiber -> S \cup Gone \cup {"running"}] /\ running' \in [Vm -> Fiber \cup {Nil}]
      BY <2>1, <2>3
    <2> QED
      BY <2>1, <2>4, <2>5, <2>6 DEF Engine, H
  <1> QED
    BY <1>1, <1>2

\* The fiber the strand resumes next.
LEMMA EngineHead ==
    ASSUME NEW W, NEW S, NEW R, Engine(running, at, strand, W, S, R), NEW v \in Vm, StrandReady(v)
    PROVE  /\ Head(strand[v]).fiber \in Fiber /\ Head(strand[v]).val \in R
           /\ Head(strand[v]).fiber \notin W /\ at[Head(strand[v]).fiber] \in S
           /\ VmOf[Head(strand[v]).fiber] = v
           /\ Head(strand[v]).fiber \in Resumed(strand[v])
           /\ Head(strand[v]) \in Members(strand[v])
  <1> DEFINE H == ResumeHandler(Fiber, R)
  <1>1. strand[v] \in Seq(H) /\ strand[v] # <<>> /\ Ledger(running, at, strand, W, S)
    BY DEF Engine, StrandReady
  <1> HIDE DEF H
  <1>2. /\ Head(strand[v]) \in H /\ Head(strand[v]).fiber \in Resumed(strand[v])
        /\ Head(strand[v]) \in Members(strand[v])
    BY <1>1, TailFacts
  <1>3. Head(strand[v]).fiber \in Fiber /\ Head(strand[v]).val \in R
    BY <1>2 DEF H, ResumeHandler
  <1> QED
    BY <1>1, <1>2, <1>3, LedgerQueued

LEMMA EngineResume ==
    ASSUME NEW W, NEW S, NEW R, Engine(running, at, strand, W, S, R), Sites(S),
           NEW v \in Vm, StrandReady(v), NEW f \in Fiber, f = Head(strand[v]).fiber,
           strand' = Popped(strand, v), NEW clear, NEW val, FiberResume(f, clear, val)
    PROVE  Engine(running', at', strand', W, S, R)
  <1> DEFINE H == ResumeHandler(Fiber, R)
  <1>1. /\ strand[v] \in Seq(H) /\ strand[v] # <<>> /\ running[v] = Nil
        /\ Ledger(running, at, strand, W, S) /\ strand \in [Vm -> Seq(H)]
        /\ running \in [Vm -> Fiber \cup {Nil}] /\ at \in [Fiber -> S \cup Gone \cup {"running"}]
        /\ "running" \notin S
    BY DEF Engine, StrandReady, Sites
  <1> HIDE DEF H
  <1>2. VmOf[f] = v
    BY EngineHead
  <1>3. running' = [running EXCEPT ![v] = f] /\ at' = [at EXCEPT ![f] = "running"]
    BY <1>2 DEF FiberResume
  <1>4. Ledger([running EXCEPT ![v] = f], [at EXCEPT ![f] = "running"], Popped(strand, v), W, S)
    BY <1>1, LedgerResume
  <1>5. Tail(strand[v]) \in Seq(H)
    BY <1>1, TailFacts
  <1>6. Popped(strand, v) \in [Vm -> Seq(H)]
    BY <1>1, <1>5 DEF Popped
  <1>7. at' \in [Fiber -> S \cup Gone \cup {"running"}] /\ running' \in [Vm -> Fiber \cup {Nil}]
    BY <1>1, <1>3
  <1> QED
    BY <1>3, <1>4, <1>6, <1>7 DEF Engine, H

-----------------------------------------------------------------------------
(* How often a fiber is queued.                                              *)

\* A strand that resumes nobody twice holds one resume of f, or none.
LEMMA OnceInStrand ==
    ASSUME NEW S, NEW s \in Seq(S), ResumesOnce(s), NEW f
    PROVE  Cardinality({i \in DOMAIN s : s[i].fiber = f}) = IF f \in Resumed(s) THEN 1 ELSE 0
  <1> DEFINE Is == {i \in DOMAIN s : s[i].fiber = f}
  <1>1. DOMAIN s = 1..Len(s)
    BY QueueFacts
  <1>2. CASE f \notin Resumed(s)
    <2>1. Is = {}
      BY <1>1, <1>2 DEF Resumed
    <2> QED
      BY <1>2, <2>1, FS_EmptySet
  <1>3. CASE f \in Resumed(s)
    <2>1. PICK k \in 1..Len(s) : s[k].fiber = f
      BY <1>3 DEF Resumed
    <2>2. Is = {k}
      BY <1>1, <2>1 DEF ResumesOnce
    <2> QED
      BY <1>3, <2>2, FS_Singleton
  <1> QED
    BY <1>2, <1>3

\* So do waiting lists that have no fiber in common and none twice.
LEMMA OnceInLists ==
    ASSUME NEW K, NEW S, NEW lists \in [K -> Seq(S)], \A k \in K : NoRepeat(lists[k]), NEW f,
           \A j, k \in K : f \in Members(lists[j]) /\ f \in Members(lists[k]) => j = k
    PROVE  Cardinality(Places(lists, f)) =
              IF \E k \in K : f \in Members(lists[k]) THEN 1 ELSE 0
  <1>1. \A k \in K : DOMAIN lists[k] = 1..Len(lists[k])
    BY QueueFacts
  <1>2. \A p : p \in Places(lists, f) <=>
            \E k \in K : \E i \in 1..Len(lists[k]) : lists[k][i] = f /\ p = <<k, i>>
    BY <1>1 DEF Places
  <1>3. CASE \A k \in K : f \notin Members(lists[k])
    <2>1. Places(lists, f) = {}
      BY <1>2, <1>3 DEF Members
    <2> QED
      BY <1>3, <2>1, FS_EmptySet
  <1>4. CASE \E k \in K : f \in Members(lists[k])
    <2>0. PICK k \in K : f \in Members(lists[k])
      BY <1>4
    <2>1. PICK i \in 1..Len(lists[k]) : lists[k][i] = f
      BY <2>0 DEF Members
    <2>2. ASSUME NEW j \in K, NEW n \in 1..Len(lists[j]), lists[j][n] = f
          PROVE  j = k /\ n = i
      <3>1. j = k
        BY <2>1, <2>2 DEF Members
      <3> QED
        BY <2>1, <2>2, <3>1 DEF NoRepeat
    <2>3. <<k, i>> \in Places(lists, f) /\ \A p \in Places(lists, f) : p = <<k, i>>
      BY <1>2, <2>1, <2>2
    <2>4. Places(lists, f) = {<<k, i>>}
      BY <2>3
    <2> QED
      BY <1>4, <2>4, FS_Singleton
  <1> QED
    BY <1>3, <1>4

-----------------------------------------------------------------------------
(* The nesting counters of this_fiber.                                       *)

CountersOK ==
    /\ interruptionDisabled \in [Fiber -> Int]
    /\ suspensionDisallowed \in [Fiber -> Int]
    /\ \A f \in Fiber :
          /\ \/ interruptionDisabled[f] \in 0..MaxDisable[f]
             \/ IsMain(f) /\ interruptionDisabled[f] = AlwaysDisabled
          /\ suspensionDisallowed[f] \in 0..MaxForbid[f]

\* The calls that nest and unnest, which do nothing else than count and return.
Nesting(f) ==
    DisableInterruption(f) \/ RestoreInterruption(f) \/ ForbidSuspend(f) \/ AllowSuspend(f)

\* The counters start in their range.
LEMMA CountersInit == CoreInit => CountersOK
  BY VmContextAssumption DEF CoreInit, CountersOK, AlwaysDisabled

\* They stay in it.
LEMMA CountersStep ==
    ASSUME CountersOK, NEW f \in Fiber, Nesting(f)
    PROVE  CountersOK'
  <1> USE VmContextAssumption
  <1>1. CASE DisableInterruption(f)
    BY <1>1 DEF CountersOK, DisableInterruption, Increment, AlwaysDisabled
  <1>2. CASE RestoreInterruption(f)
    BY <1>2 DEF CountersOK, RestoreInterruption, AlwaysDisabled
  <1>3. CASE ForbidSuspend(f)
    BY <1>3 DEF CountersOK, ForbidSuspend
  <1>4. CASE AllowSuspend(f)
    BY <1>4 DEF CountersOK, AllowSuspend
  <1> QED
    BY <1>1, <1>2, <1>3, <1>4 DEF Nesting

\* They belong to the current fiber, and nothing moves.
LEMMA NestingIsQuiet ==
    ASSUME NEW f \in Fiber, Nesting(f)
    PROVE  /\ Running(f)
           /\ UNCHANGED <<strand, running, valid, at, interrupted, interrupter>>
           /\ \E r \in {"none", "interruption_already_allowed", "suspension_already_allowed"} :
                 ret' = [ret EXCEPT ![f] = r]
  BY DEF Nesting, DisableInterruption, RestoreInterruption, ForbidSuspend, AllowSuspend, Return
=============================================================================
