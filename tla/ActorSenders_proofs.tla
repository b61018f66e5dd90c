------------------------ MODULE ActorSenders_proofs ------------------------
(***************************************************************************)
(* The second part of the proofs about Actor: nsenders counts the          *)
(* addresses of each VM, the types follow, and no_senders is final.        *)
(***************************************************************************)
EXTENDS Actor_proofs

-----------------------------------------------------------------------------
(* Counting.                                                                 *)

\* Sets that correspond one to one have the same size.
LEMMA SameSize ==
    ASSUME NEW S, NEW T, IsFiniteSet(S), NEW F \in [S -> T],
           \A x, y \in S : F[x] = F[y] => x = y,
           \A t \in T : \E x \in S : F[x] = t
    PROVE  IsFiniteSet(T) /\ Cardinality(T) = Cardinality(S) /\ Cardinality(T) \in Nat
  <1>1. F \in Bijection(S, T)
    BY DEF Bijection, Injection, Surjection, IsInjective
  <1>2. ExistsBijection(S, T)
    BY <1>1 DEF ExistsBijection
  <1>3. IsFiniteSet(T) /\ Cardinality(T) = Cardinality(S)
    BY <1>2, FS_Bijection
  <1> QED
    BY <1>3, FS_CardinalityType

\* Sets that have nothing in common.
LEMMA DisjointSize ==
    ASSUME NEW A, NEW B, NEW C, IsFiniteSet(A), IsFiniteSet(B), A \cap B = {}, C = A \cup B
    PROVE  /\ IsFiniteSet(C) /\ Cardinality(A) \in Nat /\ Cardinality(B) \in Nat
           /\ Cardinality(C) = Cardinality(A) + Cardinality(B)
  <1>1. Cardinality(A) \in Nat /\ Cardinality(B) \in Nat /\ Cardinality({}) = 0
    BY FS_CardinalityType, FS_EmptySet
  <1>2. /\ IsFiniteSet(A \cup B)
        /\ Cardinality(A \cup B) = Cardinality(A) + Cardinality(B) - Cardinality(A \cap B)
    BY FS_Union
  <1>3. Cardinality(A \cap B) = 0
    BY <1>1
  <1> QED
    BY <1>1, <1>2, <1>3

\* A family of finite sets, one for each VM, whose members are marked with it.
Marked(F) == \A v \in Vm : IsFiniteSet(F[v]) /\ \A x \in F[v] : x[1] = v

Total(F) == UNION {F[v] : v \in Vm}

\* When the set of one VM changes, the total changes by as much.
LEMMA TotalChange ==
    ASSUME NEW F, F \in [Vm -> SUBSET Total(F)], NEW G, Marked(F), Marked(G), NEW v \in Vm,
           \A w \in Vm : w # v => G[w] = F[w]
    PROVE  /\ Cardinality(Total(F)) \in Nat /\ Cardinality(Total(G)) \in Nat
           /\ Cardinality(F[v]) \in Nat /\ Cardinality(G[v]) \in Nat
           /\ Cardinality(F[v]) <= Cardinality(Total(F))
           /\ Cardinality(Total(G)) = Cardinality(Total(F)) - Cardinality(F[v]) + Cardinality(G[v])
  <1> DEFINE fam == {F[w] : w \in Vm}
             rest == {x \in Total(F) : x[1] # v}
  <1>1. IsFiniteSet(Vm)
    BY ActorAssumption
  <1>2. F \in Surjection(Vm, fam)
    BY DEF Surjection
  <1>3. IsFiniteSet(fam)
    <2> HIDE DEF fam
    <2> QED
      BY <1>1, <1>2, FS_Surjection
  <1>4. \A T \in fam : IsFiniteSet(T)
    BY DEF Marked
  <1>5. IsFiniteSet(Total(F))
    BY <1>3, <1>4, FS_UNION DEF Total
  <1>6. rest \subseteq Total(F)
    OBVIOUS
  <1>7. IsFiniteSet(rest)
    BY <1>5, <1>6, FS_Subset
  <1>8. Total(F) = rest \cup F[v] /\ rest \cap F[v] = {}
    BY DEF Total, Marked
  <1>9. Total(G) = rest \cup G[v] /\ rest \cap G[v] = {}
    <2>1. \A x : x \in rest <=> \E w \in Vm : w # v /\ x \in F[w]
      BY DEF Total, Marked
    <2>2. \A x : x \in Total(G) <=> \E w \in Vm : x \in G[w]
      BY DEF Total
    <2>3. \A x \in G[v] : x[1] = v
      BY DEF Marked
    <2> QED
      BY <2>1, <2>2, <2>3
  <1>10. IsFiniteSet(F[v]) /\ IsFiniteSet(G[v])
    BY DEF Marked
  <1> HIDE DEF rest
  <1>11. /\ Cardinality(rest) \in Nat /\ Cardinality(F[v]) \in Nat /\ Cardinality(G[v]) \in Nat
         /\ Cardinality({}) = 0
    BY <1>7, <1>10, FS_CardinalityType, FS_EmptySet
  <1>12. Cardinality(Total(F)) = Cardinality(rest) + Cardinality(F[v])
    BY <1>7, <1>8, <1>10, DisjointSize
  <1>13. Cardinality(Total(G)) = Cardinality(rest) + Cardinality(G[v])
    BY <1>7, <1>9, <1>10, DisjointSize
  <1> QED
    BY <1>11, <1>12, <1>13

\* The addresses that Lua states hold, when t[v] of them are in the state of v.
HeldIn(t) == [v \in Vm |-> {v} \X (1..t[v])]

\* The addresses that Lua states hold, as sets marked with their holder.
LEMMA HeldFacts ==
    ASSUME NEW t \in [Vm -> Nat]
    PROVE  /\ Marked(HeldIn(t)) /\ HeldIn(t) \in [Vm -> SUBSET Total(HeldIn(t))]
           /\ \A v \in Vm : Cardinality(HeldIn(t)[v]) = t[v]
  <1>1. ASSUME NEW v \in Vm
        PROVE  /\ IsFiniteSet({v} \X (1..t[v])) /\ Cardinality({v} \X (1..t[v])) = t[v]
               /\ \A x \in {v} \X (1..t[v]) : x[1] = v
    <2>1. t[v] \in Nat
      OBVIOUS
    <2>2. IsFiniteSet(1..t[v]) /\ Cardinality(1..t[v]) = t[v]
      BY <2>1, FS_Interval
    <2>3. IsFiniteSet({v}) /\ Cardinality({v}) = 1
      BY FS_Singleton
    <2>4. IsFiniteSet({v} \X (1..t[v])) /\ Cardinality({v} \X (1..t[v])) = 1 * t[v]
      BY <2>2, <2>3, FS_Product
    <2> QED
      BY <2>1, <2>4
  <1>2. Marked(HeldIn(t))
    BY <1>1 DEF Marked, HeldIn
  <1>3. HeldIn(t) \in [Vm -> SUBSET Total(HeldIn(t))]
    BY DEF HeldIn, Total
  <1>4. \A v \in Vm : Cardinality(HeldIn(t)[v]) = t[v]
    BY <1>1 DEF HeldIn
  <1> QED
    BY <1>2, <1>3, <1>4

\* The addresses in messages, where D[v] and I[v] say at which places of the
\* strand and of the queue of v.
MailIn(D, I) ==
    [v \in Vm |-> {<<v, "queued", i>> : i \in D[v]} \cup {<<v, "incoming", i>> : i \in I[v]}]

\* The addresses in messages, as sets marked with the VM the message is at.
LEMMA MailFacts ==
    ASSUME NEW D, NEW I, \A v \in Vm : IsFiniteSet(D[v]) /\ IsFiniteSet(I[v])
    PROVE  /\ Marked(MailIn(D, I)) /\ MailIn(D, I) \in [Vm -> SUBSET Total(MailIn(D, I))]
           /\ \A v \in Vm : /\ Cardinality(D[v]) \in Nat /\ Cardinality(I[v]) \in Nat
                            /\ Cardinality(MailIn(D, I)[v]) = Cardinality(D[v]) + Cardinality(I[v])
  <1>1. ASSUME NEW v \in Vm
        PROVE  /\ IsFiniteSet(MailIn(D, I)[v])
               /\ \A x \in MailIn(D, I)[v] : x[1] = v
               /\ Cardinality(D[v]) \in Nat /\ Cardinality(I[v]) \in Nat
               /\ Cardinality(MailIn(D, I)[v]) = Cardinality(D[v]) + Cardinality(I[v])
    <2> DEFINE A == {<<v, "queued", i>> : i \in D[v]}
               B == {<<v, "incoming", i>> : i \in I[v]}
               fa == [i \in D[v] |-> <<v, "queued", i>>]
               fb == [i \in I[v] |-> <<v, "incoming", i>>]
    <2>1. /\ fa \in [D[v] -> A] /\ \A i, j \in D[v] : fa[i] = fa[j] => i = j
          /\ \A x \in A : \E i \in D[v] : fa[i] = x
      OBVIOUS
    <2>2. /\ fb \in [I[v] -> B] /\ \A i, j \in I[v] : fb[i] = fb[j] => i = j
          /\ \A x \in B : \E i \in I[v] : fb[i] = x
      OBVIOUS
    <2>3. A \cap B = {}
      OBVIOUS
    <2>4. MailIn(D, I)[v] = A \cup B
      BY DEF MailIn
    <2>5. \A x \in A \cup B : x[1] = v
      OBVIOUS
    <2>6. PICK Dv, Iv : Dv = D[v] /\ Iv = I[v]
      OBVIOUS
    <2> HIDE DEF A, B, fa, fb
    <2>7. IsFiniteSet(A) /\ Cardinality(A) = Cardinality(Dv) /\ Cardinality(A) \in Nat
      <3>1. /\ fa \in [Dv -> A] /\ (\A i, j \in Dv : fa[i] = fa[j] => i = j)
            /\ (\A x \in A : \E i \in Dv : fa[i] = x) /\ IsFiniteSet(Dv)
        BY <2>1, <2>6
      <3> QED
        BY <3>1, SameSize
    <2>8. IsFiniteSet(B) /\ Cardinality(B) = Cardinality(Iv) /\ Cardinality(B) \in Nat
      <3>1. /\ fb \in [Iv -> B] /\ (\A i, j \in Iv : fb[i] = fb[j] => i = j)
            /\ (\A x \in B : \E i \in Iv : fb[i] = x) /\ IsFiniteSet(Iv)
        BY <2>2, <2>6
      <3> QED
        BY <3>1, SameSize
    <2>9. PICK C : C = MailIn(D, I)[v]
      OBVIOUS
    <2>10. C = A \cup B
      BY <2>4, <2>9
    <2>11. IsFiniteSet(C) /\ Cardinality(C) = Cardinality(A) + Cardinality(B)
      BY <2>3, <2>7, <2>8, <2>10, DisjointSize
    <2>12. \A x \in C : x[1] = v
      BY <2>5, <2>10
    <2> QED
      BY <2>6, <2>7, <2>8, <2>9, <2>11, <2>12
  <1>2. MailIn(D, I) \in [Vm -> SUBSET Total(MailIn(D, I))]
    BY DEF MailIn, Total
  <1> QED
    BY <1>1, <1>2 DEF Marked

-----------------------------------------------------------------------------
(* How many addresses of w there are.                                        *)

\* In Lua states, when v holds t[v][w].
HeldCount(t, w) == Cardinality(UNION {{v} \X (1..t[v][w]) : v \in Vm})

\* In messages, on the strands str and in the queues inc.
SentCount(str, inc, w) ==
    Cardinality(
      UNION {{<<v, "queued", i>> : i \in {j \in DOMAIN str[v] :
                                             str[v][j].op = "deliver" /\ str[v][j].val = w}}
               \cup {<<v, "incoming", i>> : i \in {j \in DOMAIN inc[v] :
                                                   inc[v][j].msg = w}} : v \in Vm})

\* These are the two parts of Addresses, now and after a step.
LEMMA AddressParts ==
    \A w : /\ Addresses(w) = HeldCount(tx, w) + SentCount(strand, incoming, w)
           /\ Addresses(w)' = HeldCount(tx', w) + SentCount(strand', incoming', w)
  BY DEF Addresses, HeldAddresses, SentAddresses, HeldCount, SentCount

\* When one Lua state gains or loses addresses, the count changes by as much.
LEMMA HeldChange ==
    ASSUME NEW t \in [Vm -> [Vm -> Nat]], NEW t1 \in [Vm -> [Vm -> Nat]], NEW w \in Vm, NEW v \in Vm,
           \A u \in Vm : u # v => t1[u][w] = t[u][w]
    PROVE  /\ HeldCount(t, w) \in Nat /\ HeldCount(t1, w) \in Nat
           /\ t[v][w] <= HeldCount(t, w)
           /\ HeldCount(t1, w) = HeldCount(t, w) - t[v][w] + t1[v][w]
  <1>1. PICK a, b : a = [u \in Vm |-> t[u][w]] /\ b = [u \in Vm |-> t1[u][w]]
    OBVIOUS
  <1>2. /\ a \in [Vm -> Nat] /\ b \in [Vm -> Nat]
        /\ \A u \in Vm : a[u] = t[u][w] /\ b[u] = t1[u][w]
    BY <1>1
  <1>3. \A u \in Vm : HeldIn(a)[u] = {u} \X (1..t[u][w]) /\ HeldIn(b)[u] = {u} \X (1..t1[u][w])
    BY <1>2 DEF HeldIn
  <1>4. /\ Total(HeldIn(a)) = UNION {{u} \X (1..t[u][w]) : u \in Vm}
        /\ Total(HeldIn(b)) = UNION {{u} \X (1..t1[u][w]) : u \in Vm}
    BY <1>3 DEF Total
  <1>5. HeldCount(t, w) = Cardinality(Total(HeldIn(a))) /\ HeldCount(t1, w) = Cardinality(Total(HeldIn(b)))
    BY <1>4 DEF HeldCount
  <1>6. /\ Marked(HeldIn(a)) /\ HeldIn(a) \in [Vm -> SUBSET Total(HeldIn(a))]
        /\ Marked(HeldIn(b)) /\ Cardinality(HeldIn(a)[v]) = t[v][w]
        /\ Cardinality(HeldIn(b)[v]) = t1[v][w]
    BY <1>2, HeldFacts
  <1>7. \A u \in Vm : u # v => HeldIn(b)[u] = HeldIn(a)[u]
    BY <1>3
  <1>8. PICK F, G : F = HeldIn(a) /\ G = HeldIn(b)
    OBVIOUS
  <1>9. /\ F \in [Vm -> SUBSET Total(F)] /\ Marked(F) /\ Marked(G)
        /\ \A u \in Vm : u # v => G[u] = F[u]
    BY <1>6, <1>7, <1>8
  <1>10. /\ Cardinality(Total(F)) \in Nat /\ Cardinality(Total(G)) \in Nat
         /\ Cardinality(F[v]) <= Cardinality(Total(F))
         /\ Cardinality(Total(G)) = Cardinality(Total(F)) - Cardinality(F[v]) + Cardinality(G[v])
    BY <1>9, TotalChange, ZenonT(60)
  <1> QED
    BY <1>5, <1>6, <1>8, <1>10

\* Nothing changes for w: nor does the count.
LEMMA HeldSame ==
    ASSUME NEW t \in [Vm -> [Vm -> Nat]], NEW t1 \in [Vm -> [Vm -> Nat]], NEW w \in Vm,
           \A u \in Vm : t1[u][w] = t[u][w]
    PROVE  HeldCount(t1, w) = HeldCount(t, w) /\ HeldCount(t, w) \in Nat
  <1>1. {{v} \X (1..t[v][w]) : v \in Vm} = {{v} \X (1..t1[v][w]) : v \in Vm}
    OBVIOUS
  <1>2. HeldCount(t, w) \in Nat
    <2>1. \A u \in Vm : u # w => t[u][w] = t[u][w]
      OBVIOUS
    <2> QED
      BY <2>1, HeldChange
  <1> QED
    BY <1>1, <1>2 DEF HeldCount

\* How many messages of the strand q, or of the queue q, carry x.
OnWay(q, x) == Cardinality(DeliverAt(q, x))
InQueue(q, x) == Cardinality(SentAt(q, x))

\* These are finite.
LEMMA PlacesFinite ==
    ASSUME NEW S, NEW q \in Seq(S), NEW x
    PROVE  /\ IsFiniteSet(DeliverAt(q, x)) /\ IsFiniteSet(SentAt(q, x))
           /\ OnWay(q, x) \in Nat /\ InQueue(q, x) \in Nat
  <1>1. Len(q) \in Nat
    BY QueueFacts
  <1>2. IsFiniteSet(1..Len(q))
    BY <1>1, FS_Interval
  <1>3. DeliverAt(q, x) \subseteq 1..Len(q) /\ SentAt(q, x) \subseteq 1..Len(q)
    BY DEF DeliverAt, SentAt, SentUpTo
  <1>4. IsFiniteSet(DeliverAt(q, x)) /\ IsFiniteSet(SentAt(q, x))
    BY <1>2, <1>3, FS_Subset
  <1> QED
    BY <1>4, FS_CardinalityType DEF OnWay, InQueue

\* The messages of the VMs other than v that carry w stay as they are.
SentElsewhere(str, inc, str1, inc1, v, w) ==
    \A u \in Vm : u # v => /\ DeliverAt(str1[u], w) = DeliverAt(str[u], w)
                           /\ SentAt(inc1[u], w) = SentAt(inc[u], w)

\* The number of messages that carry w changes as those of v do.
SentMoves(str, inc, str1, inc1, v, w) ==
    /\ SentCount(str, inc, w) \in Nat /\ SentCount(str1, inc1, w) \in Nat
    /\ OnWay(str[v], w) + InQueue(inc[v], w) <= SentCount(str, inc, w)
    /\ SentCount(str1, inc1, w) = SentCount(str, inc, w) - (OnWay(str[v], w) + InQueue(inc[v], w))
                                    + (OnWay(str1[v], w) + InQueue(inc1[v], w))

\* When the messages of one VM change, the count changes by as much.
LEMMA SentChange ==
    ASSUME NEW str \in [Vm -> Seq(Handler)], NEW str1 \in [Vm -> Seq(Handler)],
           NEW inc \in [Vm -> Seq(Sender)], NEW inc1 \in [Vm -> Seq(Sender)],
           NEW w \in Vm, NEW v \in Vm, SentElsewhere(str, inc, str1, inc1, v, w)
    PROVE  SentMoves(str, inc, str1, inc1, v, w)
  <1>1. ASSUME NEW s \in [Vm -> Seq(Handler)], NEW q \in [Vm -> Seq(Sender)]
        PROVE  \E D, I : /\ \A u \in Vm : D[u] = DeliverAt(s[u], w) /\ I[u] = SentAt(q[u], w)
                         /\ SentCount(s, q, w) = Cardinality(Total(MailIn(D, I)))
    <2>1. PICK D, I : D = [u \in Vm |-> DeliverAt(s[u], w)] /\ I = [u \in Vm |-> SentAt(q[u], w)]
      OBVIOUS
    <2>2. \A u \in Vm : D[u] = DeliverAt(s[u], w) /\ I[u] = SentAt(q[u], w)
      BY <2>1
    <2> DEFINE A(u) == {<<u, "queued", i>> : i \in {j \in DOMAIN s[u] :
                                                  s[u][j].op = "deliver" /\ s[u][j].val = w}}
                         \cup {<<u, "incoming", i>> : i \in {j \in DOMAIN q[u] : q[u][j].msg = w}}
    <2>3. ASSUME NEW u \in Vm PROVE MailIn(D, I)[u] = A(u)
      <3>1. DOMAIN s[u] = 1..Len(s[u]) /\ DOMAIN q[u] = 1..Len(q[u])
        <4>1. s[u] \in Seq(Handler) /\ q[u] \in Seq(Sender)
          OBVIOUS
        <4> QED
          BY <4>1, QueueFacts
      <3>2. /\ {j \in DOMAIN s[u] : s[u][j].op = "deliver" /\ s[u][j].val = w} = D[u]
            /\ {j \in DOMAIN q[u] : q[u][j].msg = w} = I[u]
        BY <2>2, <3>1 DEF DeliverAt, SentAt, SentUpTo
      <3>3. MailIn(D, I)[u] = {<<u, "queued", i>> : i \in D[u]} \cup {<<u, "incoming", i>> : i \in I[u]}
        BY DEF MailIn
      <3> QED
        BY <3>2, <3>3
    <2>4. SentCount(s, q, w) = Cardinality(UNION {A(u) : u \in Vm})
      BY DEF SentCount
    <2> HIDE DEF A
    <2>5. UNION {A(u) : u \in Vm} = Total(MailIn(D, I))
      BY <2>3 DEF Total
    <2> QED
      BY <2>2, <2>4, <2>5
  <1>2. PICK D, I : /\ \A u \in Vm : D[u] = DeliverAt(str[u], w) /\ I[u] = SentAt(inc[u], w)
                    /\ SentCount(str, inc, w) = Cardinality(Total(MailIn(D, I)))
    BY <1>1
  <1>3. PICK D1, I1 : /\ \A u \in Vm : D1[u] = DeliverAt(str1[u], w) /\ I1[u] = SentAt(inc1[u], w)
                      /\ SentCount(str1, inc1, w) = Cardinality(Total(MailIn(D1, I1)))
    BY <1>1
  <1>4. \A u \in Vm : IsFiniteSet(D[u]) /\ IsFiniteSet(I[u]) /\ IsFiniteSet(D1[u]) /\ IsFiniteSet(I1[u])
    <2>1. ASSUME NEW u \in Vm
          PROVE  /\ IsFiniteSet(DeliverAt(str[u], w)) /\ IsFiniteSet(SentAt(inc[u], w))
                 /\ IsFiniteSet(DeliverAt(str1[u], w)) /\ IsFiniteSet(SentAt(inc1[u], w))
      <3>1. /\ str[u] \in Seq(Handler) /\ inc[u] \in Seq(Sender)
            /\ str1[u] \in Seq(Handler) /\ inc1[u] \in Seq(Sender)
        OBVIOUS
      <3> QED
        BY <3>1, PlacesFinite
    <2> QED
      BY <1>2, <1>3, <2>1
  <1>5. PICK F, G : F = MailIn(D, I) /\ G = MailIn(D1, I1)
    OBVIOUS
  <1>6. /\ Marked(F) /\ F \in [Vm -> SUBSET Total(F)]
        /\ Cardinality(F[v]) = Cardinality(D[v]) + Cardinality(I[v])
        /\ Cardinality(D[v]) \in Nat /\ Cardinality(I[v]) \in Nat
    BY <1>4, <1>5, MailFacts
  <1>7. /\ Marked(G) /\ Cardinality(G[v]) = Cardinality(D1[v]) + Cardinality(I1[v])
        /\ Cardinality(D1[v]) \in Nat /\ Cardinality(I1[v]) \in Nat
    BY <1>4, <1>5, MailFacts
  <1>8. \A u \in Vm : u # v => G[u] = F[u]
    BY <1>2, <1>3, <1>5, SMTT(30) DEF MailIn, SentElsewhere
  <1>9. /\ Cardinality(Total(F)) \in Nat /\ Cardinality(Total(G)) \in Nat
        /\ Cardinality(F[v]) <= Cardinality(Total(F))
        /\ Cardinality(Total(G)) = Cardinality(Total(F)) - Cardinality(F[v]) + Cardinality(G[v])
    BY <1>6, <1>7, <1>8, TotalChange
  <1>10. /\ Cardinality(F[v]) = OnWay(str[v], w) + InQueue(inc[v], w)
         /\ Cardinality(G[v]) = OnWay(str1[v], w) + InQueue(inc1[v], w)
    BY <1>2, <1>3, <1>6, <1>7 DEF OnWay, InQueue
  <1> QED
    BY <1>2, <1>3, <1>5, <1>9, <1>10 DEF SentMoves

\* Where the first n places of q hold members of X.
PlacesIn(q, n, X) == {i \in 1..n : q[i] \in X}

\* r is q, of length n, without its place k.
Gap(q, r, n, k) ==
    /\ k \in 1..n
    /\ \A i \in 1..(k - 1) : r[i] = q[i]
    /\ \A i \in k..(n - 1) : r[i] = q[i + 1]

\* It has as many members of X, but for the one that is left out.
LEMMA GapCount ==
    ASSUME NEW n \in Nat, NEW q, NEW r, NEW k, NEW X, Gap(q, r, n, k)
    PROVE  /\ Cardinality(PlacesIn(r, n - 1, X)) \in Nat
           /\ Cardinality(PlacesIn(q, n, X)) =
                 Cardinality(PlacesIn(r, n - 1, X)) + (IF q[k] \in X THEN 1 ELSE 0)
  <1> DEFINE R == {i \in 1..(n - 1) : r[i] \in X}
             Q == {i \in 1..n : q[i] \in X}
             P == {i \in 1..n : q[i] \in X /\ i # k}
             F == [i \in R |-> IF i < k THEN i ELSE i + 1]
  <1>0. /\ k \in 1..n
        /\ \A i \in 1..(k - 1) : r[i] = q[i]
        /\ \A i \in k..(n - 1) : r[i] = q[i + 1]
    BY DEF Gap
  <1>1. n - 1 \in Nat /\ k \in Nat /\ k \in 1..n
    BY <1>0
  <1>2. IsFiniteSet(R)
    <2>1. IsFiniteSet(1..(n - 1)) /\ R \subseteq 1..(n - 1)
      BY <1>1, FS_Interval
    <2> QED
      BY <2>1, FS_Subset
  <1>3. F \in [R -> P]
    <2>1. ASSUME NEW i \in R PROVE (IF i < k THEN i ELSE i + 1) \in P
      <3>1. i \in 1..(n - 1) /\ r[i] \in X
        OBVIOUS
      <3>2. CASE i < k
        <4>1. i \in 1..(k - 1) /\ i \in 1..n /\ i # k
          BY <1>0, <3>1, <3>2
        <4>2. q[i] \in X
          BY <1>0, <3>1, <4>1
        <4> QED
          BY <3>2, <4>1, <4>2
      <3>3. CASE ~(i < k)
        <4>1. i \in k..(n - 1) /\ i + 1 \in 1..n /\ i + 1 # k
          BY <1>0, <3>1, <3>3
        <4>2. q[i + 1] \in X
          BY <1>0, <3>1, <4>1
        <4> QED
          BY <3>3, <4>1, <4>2
      <3> QED
        BY <3>2, <3>3
    <2> HIDE DEF P, R
    <2> QED
      BY <2>1
  <1>4. \A i, j \in R : F[i] = F[j] => i = j
    BY <1>1
  <1>5. ASSUME NEW p \in P PROVE \E i \in R : F[i] = p
    <2>1. p \in 1..n /\ p # k /\ q[p] \in X
      OBVIOUS
    <2>2. CASE p < k
      <3>1. p \in 1..(k - 1) /\ p \in 1..(n - 1)
        BY <1>0, <2>1, <2>2
      <3>2. p \in R
        BY <1>0, <2>1, <3>1
      <3> QED
        BY <2>2, <3>2
    <2>3. CASE ~(p < k)
      <3>1. p - 1 \in k..(n - 1) /\ p - 1 \in 1..(n - 1) /\ p - 1 + 1 = p /\ ~(p - 1 < k)
        BY <1>0, <2>1, <2>3
      <3>2. r[p - 1] = q[p]
        BY <1>0, <3>1
      <3>3. p - 1 \in R
        BY <2>1, <3>1, <3>2
      <3>4. F[p - 1] = p
        BY <1>0, <3>1, <3>3
      <3> QED
        BY <3>3, <3>4
    <2> QED
      BY <2>2, <2>3
  <1>6. Q = P \cup (IF q[k] \in X THEN {k} ELSE {}) /\ k \notin P
    BY <1>1
  <1> HIDE DEF R, P, Q, F
  <1>7. IsFiniteSet(P) /\ Cardinality(P) = Cardinality(R) /\ Cardinality(P) \in Nat
    BY <1>2, <1>3, <1>4, <1>5, SameSize
  <1>8. Cardinality(Q) = Cardinality(P) + (IF q[k] \in X THEN 1 ELSE 0)
    <2>1. CASE q[k] \in X
      <3>1. Q = P \cup {k}
        BY <1>6, <2>1
      <3> QED
        BY <1>6, <1>7, <2>1, <3>1, FS_AddElement
    <2>2. CASE q[k] \notin X
      BY <1>6, <1>7, <2>2
    <2> QED
      BY <1>0, <2>1, <2>2
  <1> QED
    BY <1>7, <1>8 DEF R, Q, PlacesIn

\* The handler h brings an address of x.
Brings(h, x) == IF h.op = "deliver" /\ h.val = x THEN 1 ELSE 0

\* A strand has one handler more, or one less.
LEMMA OnWayFacts ==
    ASSUME NEW q \in Seq(Handler), NEW x
    PROVE  /\ \A h \in Handler : OnWay(Append(q, h), x) = OnWay(q, x) + Brings(h, x)
           /\ q # <<>> => OnWay(q, x) = OnWay(Tail(q), x) + Brings(Head(q), x)
  <1> DEFINE X == {h \in Handler : h.op = "deliver" /\ h.val = x}
  <1>1. ASSUME NEW s \in Seq(Handler)
        PROVE  OnWay(s, x) = Cardinality(PlacesIn(s, Len(s), X)) /\ OnWay(s, x) \in Nat
    <2>1. \A i \in 1..Len(s) : s[i] \in Handler
      BY QueueFacts
    <2>2. DeliverAt(s, x) = PlacesIn(s, Len(s), X)
      BY <2>1 DEF DeliverAt, PlacesIn
    <2>3. OnWay(s, x) \in Nat
      BY PlacesFinite
    <2> QED
      BY <2>2, <2>3 DEF OnWay
  <1>2. \A h \in Handler : Brings(h, x) = IF h \in X THEN 1 ELSE 0
    BY DEF Brings
  <1> HIDE DEF X
  <1>3. ASSUME NEW h \in Handler PROVE OnWay(Append(q, h), x) = OnWay(q, x) + Brings(h, x)
    <2>0. Append(q, h) \in Seq(Handler)
      OBVIOUS
    <2>1. PICK s \in Seq(Handler) : s = Append(q, h)
      BY <2>0
    <2>2. PICK n \in Nat : n = Len(s)
      BY QueueFacts
    <2>3. n \in 1..n /\ n - 1 = Len(q) /\ s[n] = h /\ \A i \in 1..(n - 1) : q[i] = s[i]
      BY <2>1, <2>2
    <2>4. Gap(s, q, n, n)
      BY <2>2, <2>3 DEF Gap
    <2>5. Cardinality(PlacesIn(s, n, X)) =
             Cardinality(PlacesIn(q, n - 1, X)) + (IF s[n] \in X THEN 1 ELSE 0)
      BY <2>4, GapCount
    <2>6. OnWay(s, x) = OnWay(q, x) + (IF s[n] \in X THEN 1 ELSE 0)
      BY <1>1, <2>2, <2>3, <2>5
    <2> QED
      BY <1>2, <2>1, <2>3, <2>6
  <1>4. ASSUME q # <<>> PROVE OnWay(q, x) = OnWay(Tail(q), x) + Brings(Head(q), x)
    <2>0. Tail(q) \in Seq(Handler)
      BY <1>4
    <2>1. PICK r \in Seq(Handler) : r = Tail(q)
      BY <2>0
    <2>2. PICK n \in Nat : n = Len(q)
      BY QueueFacts
    <2>3. /\ 1 \in 1..n /\ n - 1 = Len(r) /\ Head(q) = q[1] /\ Head(q) \in Handler
          /\ \A i \in 1..(n - 1) : r[i] = q[i + 1]
      BY <1>4, <2>1, <2>2
    <2>4. PICK k : k = 1
      OBVIOUS
    <2>5. Gap(q, r, n, k)
      BY <2>2, <2>3, <2>4 DEF Gap
    <2>6. Cardinality(PlacesIn(q, n, X)) =
             Cardinality(PlacesIn(r, n - 1, X)) + (IF q[k] \in X THEN 1 ELSE 0)
      BY <2>5, GapCount
    <2>7. OnWay(q, x) = OnWay(r, x) + (IF q[1] \in X THEN 1 ELSE 0)
      BY <1>1, <2>2, <2>3, <2>4, <2>6
    <2> QED
      BY <1>2, <2>1, <2>3, <2>7
  <1> QED
    BY <1>3, <1>4

\* A queue has one message more, or one less.
LEMMA InQueueFacts ==
    ASSUME NEW q \in Seq(Sender), NEW x
    PROVE  /\ \A s \in Sender : InQueue(Append(q, s), x) = InQueue(q, x) + Carries(s, x)
           /\ q # <<>> => InQueue(q, x) = InQueue(Tail(q), x) + Carries(Head(q), x)
           /\ \A k \in 1..Len(q) :
                 InQueue(q, x) = InQueue(SeqExt!RemoveAt(q, k), x) + Carries(q[k], x)
  <1> DEFINE X == {s \in Sender : s.msg = x}
  <1>1. ASSUME NEW s \in Seq(Sender)
        PROVE  InQueue(s, x) = Cardinality(PlacesIn(s, Len(s), X)) /\ InQueue(s, x) \in Nat
    <2>1. \A i \in 1..Len(s) : s[i] \in Sender
      BY QueueFacts
    <2>2. SentAt(s, x) = PlacesIn(s, Len(s), X)
      BY <2>1 DEF SentAt, SentUpTo, PlacesIn
    <2>3. InQueue(s, x) \in Nat
      BY PlacesFinite
    <2> QED
      BY <2>2, <2>3 DEF InQueue
  <1>2. \A s \in Sender : Carries(s, x) = IF s \in X THEN 1 ELSE 0
    BY DEF Carries
  <1> HIDE DEF X
  <1>3. ASSUME NEW h \in Sender PROVE InQueue(Append(q, h), x) = InQueue(q, x) + Carries(h, x)
    <2>0. Append(q, h) \in Seq(Sender)
      OBVIOUS
    <2>1. PICK s \in Seq(Sender) : s = Append(q, h)
      BY <2>0
    <2>2. PICK n \in Nat : n = Len(s)
      BY QueueFacts
    <2>3. n \in 1..n /\ n - 1 = Len(q) /\ s[n] = h /\ \A i \in 1..(n - 1) : q[i] = s[i]
      BY <2>1, <2>2
    <2>4. Gap(s, q, n, n)
      BY <2>2, <2>3 DEF Gap
    <2>5. Cardinality(PlacesIn(s, n, X)) =
             Cardinality(PlacesIn(q, n - 1, X)) + (IF s[n] \in X THEN 1 ELSE 0)
      BY <2>4, GapCount
    <2>6. InQueue(s, x) = InQueue(q, x) + (IF s[n] \in X THEN 1 ELSE 0)
      BY <1>1, <2>2, <2>3, <2>5
    <2> QED
      BY <1>2, <2>1, <2>3, <2>6
  <1>4. ASSUME NEW r \in Seq(Sender), NEW k \in 1..Len(q), Len(r) = Len(q) - 1,
               \A i \in 1..(k - 1) : r[i] = q[i], \A i \in k..(Len(q) - 1) : r[i] = q[i + 1]
        PROVE  InQueue(q, x) = InQueue(r, x) + Carries(q[k], x)
    <2>1. PICK n \in Nat : n = Len(q)
      BY QueueFacts
    <2>2. Gap(q, r, n, k)
      BY <1>4, <2>1 DEF Gap
    <2>3. Cardinality(PlacesIn(q, n, X)) =
             Cardinality(PlacesIn(r, n - 1, X)) + (IF q[k] \in X THEN 1 ELSE 0)
      BY <2>2, GapCount
    <2>4. q[k] \in Sender
      BY QueueFacts, SMTT(30)
    <2> QED
      BY <1>1, <1>2, <1>4, <2>1, <2>3, <2>4
  <1>5. ASSUME q # <<>> PROVE InQueue(q, x) = InQueue(Tail(q), x) + Carries(Head(q), x)
    <2>0. Tail(q) \in Seq(Sender)
      BY <1>5
    <2>1. PICK r \in Seq(Sender) : r = Tail(q)
      BY <2>0
    <2>2. PICK k \in 1..Len(q) : k = 1
      BY <1>5
    <2>3. /\ Len(r) = Len(q) - 1 /\ Head(q) = q[k]
          /\ (\A i \in 1..(k - 1) : r[i] = q[i]) /\ \A i \in k..(Len(q) - 1) : r[i] = q[i + 1]
      BY <1>5, <2>1, <2>2
    <2> QED
      BY <1>4, <2>1, <2>3
  <1>6. ASSUME NEW k \in 1..Len(q)
        PROVE  InQueue(q, x) = InQueue(SeqExt!RemoveAt(q, k), x) + Carries(q[k], x)
    BY <1>4, EraseFacts
  <1> QED
    BY <1>3, <1>5, <1>6

\* No message comes or goes that carries w: nor does the count change.
LEMMA SentSame ==
    ASSUME NEW str \in [Vm -> Seq(Handler)], NEW str1 \in [Vm -> Seq(Handler)],
           NEW inc \in [Vm -> Seq(Sender)], NEW inc1 \in [Vm -> Seq(Sender)], NEW w \in Vm,
           \A u \in Vm : /\ DeliverAt(str1[u], w) = DeliverAt(str[u], w)
                         /\ SentAt(inc1[u], w) = SentAt(inc[u], w)
    PROVE  SentCount(str1, inc1, w) = SentCount(str, inc, w) /\ SentCount(str, inc, w) \in Nat
  <1>0. SentElsewhere(str, inc, str1, inc1, w, w)
    BY DEF SentElsewhere
  <1>1. /\ SentCount(str, inc, w) \in Nat
        /\ SentCount(str1, inc1, w) = SentCount(str, inc, w) - (OnWay(str[w], w) + InQueue(inc[w], w))
                                        + (OnWay(str1[w], w) + InQueue(inc1[w], w))
    <2>1. SentMoves(str, inc, str1, inc1, w, w)
      BY <1>0, SentChange
    <2> QED
      BY <2>1 DEF SentMoves
  <1>2. OnWay(str1[w], w) = OnWay(str[w], w) /\ InQueue(inc1[w], w) = InQueue(inc[w], w)
    BY DEF OnWay, InQueue
  <1>3. OnWay(str[w], w) \in Nat /\ InQueue(inc[w], w) \in Nat
    <2>1. str[w] \in Seq(Handler) /\ inc[w] \in Seq(Sender)
      OBVIOUS
    <2> QED
      BY <2>1, PlacesFinite
  <1> QED
    BY <1>1, <1>2, <1>3

-----------------------------------------------------------------------------
(* What keeps a VM alive.                                                    *)

\* What is on the strands, in the queues, in a delivery or in a VM refers to VMs
\* that can be locked, unless they are destroyed.
StrandsRefer(str) ==
    \A u \in Vm : /\ str[u] # <<>> => Referenced(u)
                  /\ \A h \in Members(str[u]) : h.op \in OfSender => Referenced(VmOf[h.fiber])

QueuesRefer(inc) == \A u \in Vm : \A s \in Members(inc[u]) : Referenced(VmOf[s.fiber])

AfterRefers(aft) == \A u \in Vm : aft[u] # Nil => Referenced(u) /\ Referenced(VmOf[aft[u]])

FibersRefer(run) == \A u \in Vm : run[u] # Nil => Referenced(u)

\* That is how Referenced is defined.
LEMMA Refers ==
    ASSUME Types
    PROVE  /\ StrandsRefer(strand) /\ QueuesRefer(incoming) /\ AfterRefers(after)
           /\ FibersRefer(running) /\ FibersRefer(recvFiber)
  <1>1. ASSUME NEW u \in Vm
        PROVE  DOMAIN strand[u] = 1..Len(strand[u]) /\ DOMAIN incoming[u] = 1..Len(incoming[u])
    <2>1. strand[u] \in Seq(Handler) /\ incoming[u] \in Seq(Sender)
      BY DEF Types
    <2> QED
      BY <2>1, QueueFacts
  <1>2. ASSUME NEW u \in Vm, NEW f \in Fiber, f \in SendersIn(u) PROVE Referenced(VmOf[f])
    BY <1>2 DEF Referenced
  <1>3. ASSUME NEW u \in Vm, NEW h \in Members(strand[u]), h.op \in OfSender
        PROVE  Referenced(VmOf[h.fiber])
    <2>1. PICK i \in 1..Len(strand[u]) : h = strand[u][i]
      BY DEF Members
    <2>2. h.fiber \in SendersIn(u)
      BY <1>1, <1>3, <2>1 DEF SendersIn, OfSender
    <2>3. h \in Handler
      <3>1. strand[u] \in Seq(Handler)
        BY DEF Types
      <3> QED
        BY <3>1, QueueFacts
    <2>4. h.fiber \in Fiber
      BY <1>3, <2>3, HandlerFacts DEF OfSender
    <2> QED
      BY <1>2, <2>2, <2>4
  <1>4. ASSUME NEW u \in Vm, NEW s \in Members(incoming[u]) PROVE Referenced(VmOf[s.fiber])
    <2>1. PICK i \in 1..Len(incoming[u]) : s = incoming[u][i]
      BY DEF Members
    <2>2. s.fiber \in SendersIn(u)
      BY <1>1, <2>1 DEF SendersIn
    <2>3. s \in Sender
      <3>1. incoming[u] \in Seq(Sender)
        BY DEF Types
      <3> QED
        BY <3>1, QueueFacts
    <2> QED
      BY <1>2, <2>2, <2>3 DEF Sender
  <1>5. ASSUME NEW u \in Vm, after[u] # Nil PROVE Referenced(u) /\ Referenced(VmOf[after[u]])
    <2>1. after[u] \in SendersIn(u) /\ after[u] \in Fiber
      BY <1>5 DEF SendersIn, Types
    <2> QED
      BY <1>2, <1>5, <2>1 DEF Referenced
  <1>6. \A u \in Vm : /\ strand[u] # <<>> => Referenced(u)
                      /\ running[u] # Nil => Referenced(u)
                      /\ recvFiber[u] # Nil => Referenced(u)
    BY DEF Referenced
  <1> QED
    BY <1>3, <1>4, <1>5, <1>6 DEF StrandsRefer, QueuesRefer, AfterRefers, FibersRefer

\* A step refers to no VM that was not referred to.
LEMMA LockedBefore ==
    ASSUME Types', StrandsRefer(strand'), QueuesRefer(incoming'), AfterRefers(after'),
           FibersRefer(running'), FibersRefer(recvFiber'),
           \A u \in Vm : destroyed[u] => destroyed'[u]
    PROVE  \A w \in Vm : CanLock(w)' => CanLock(w)
  <1>1. ASSUME NEW u \in Vm
        PROVE  DOMAIN strand'[u] = 1..Len(strand'[u]) /\ DOMAIN incoming'[u] = 1..Len(incoming'[u])
    <2>1. strand'[u] \in Seq(Handler) /\ incoming'[u] \in Seq(Sender)
      BY DEF Types
    <2> QED
      BY <2>1, QueueFacts
  <1>2. ASSUME NEW u \in Vm, NEW f \in Fiber, f \in SendersIn(u)' PROVE Referenced(VmOf[f])
    <2>1. \/ \E i \in 1..Len(incoming'[u]) : incoming'[u][i].fiber = f
          \/ \E i \in 1..Len(strand'[u]) : strand'[u][i].op \in OfSender /\ strand'[u][i].fiber = f
          \/ after'[u] = f /\ f # Nil
      BY <1>1, <1>2 DEF SendersIn, OfSender
    <2>2. CASE \E i \in 1..Len(incoming'[u]) : incoming'[u][i].fiber = f
      <3>1. PICK s \in Members(incoming'[u]) : s.fiber = f
        BY <2>2 DEF Members
      <3> QED
        BY <3>1 DEF QueuesRefer
    <2>3. CASE \E i \in 1..Len(strand'[u]) : strand'[u][i].op \in OfSender /\ strand'[u][i].fiber = f
      <3>1. PICK h \in Members(strand'[u]) : h.op \in OfSender /\ h.fiber = f
        BY <2>3 DEF Members
      <3> QED
        BY <3>1 DEF StrandsRefer
    <2>4. CASE after'[u] = f /\ f # Nil
      BY <2>4 DEF AfterRefers
    <2> QED
      BY <2>1, <2>2, <2>3, <2>4
  <1>3. ASSUME NEW w \in Vm, Referenced(w)' PROVE Referenced(w)
    <2>1. \/ strand'[w] # <<>> \/ running'[w] # Nil \/ after'[w] # Nil \/ recvFiber'[w] # Nil
          \/ \E u \in Vm, f \in Fiber : VmOf[f] = w /\ f \in SendersIn(u)'
      BY <1>3 DEF Referenced
    <2> QED
      BY <1>2, <2>1 DEF StrandsRefer, AfterRefers, FibersRefer
  <1> QED
    BY <1>3 DEF CanLock

\* Destructors post to VMs that are referred to.
LEMMA GrownRefers ==
    ASSUME NEW s0, NEW s1, NEW fs, StrandsRefer(s0), Grown(s0, s1, fs),
           \A f \in fs : Referenced(VmOf[f])
    PROVE  StrandsRefer(s1)
  <1>1. ASSUME NEW u \in Vm, s1[u] # <<>> PROVE Referenced(u)
    <2>1. s0[u] # <<>> \/ CanLock(u) \/ \E f \in fs : VmOf[f] = u
      BY <1>1 DEF Grown
    <2> QED
      BY <2>1 DEF StrandsRefer, CanLock
  <1>2. ASSUME NEW u \in Vm, NEW h \in Members(s1[u]), h.op \in OfSender
        PROVE  Referenced(VmOf[h.fiber])
    <2>1. h \in Members(s0[u])
      BY <1>2 DEF Grown
    <2> QED
      BY <1>2, <2>1 DEF StrandsRefer
  <1> QED
    BY <1>1, <1>2 DEF StrandsRefer

\* So does a post() that a referred VM makes, or one to a VM that was locked.
LEMMA PostRefers ==
    ASSUME NEW s0, NEW s1, NEW v \in Vm, NEW h, StrandsRefer(s0), IsPost(s1, s0, v, h), Referenced(v),
           h.op \in OfSender => Referenced(VmOf[h.fiber])
    PROVE  StrandsRefer(s1)
  <1>1. ASSUME NEW u \in Vm, s1[u] # <<>> PROVE Referenced(u)
    BY <1>1 DEF IsPost, StrandsRefer
  <1>2. ASSUME NEW u \in Vm, NEW x \in Members(s1[u]), x.op \in OfSender
        PROVE  Referenced(VmOf[x.fiber])
    <2>1. x \in Members(s0[u]) \/ x = h
      BY DEF IsPost
    <2> QED
      BY <1>2, <2>1 DEF StrandsRefer
  <1> QED
    BY <1>1, <1>2 DEF StrandsRefer

\* A strand that takes its next handler refers to nothing new.
LEMMA PopRefers ==
    ASSUME NEW s0 \in [Vm -> Seq(Handler)], NEW v \in Vm, s0[v] # <<>>, StrandsRefer(s0)
    PROVE  StrandsRefer(Popped(s0, v))
  <1>1. PICK s1 : s1 = Popped(s0, v)
    OBVIOUS
  <1>2. /\ \A w \in Vm : \A x \in Members(s1[w]) : x \in Members(s0[w])
        /\ \A w \in Vm : s0[w] = <<>> => s1[w] = <<>>
    BY <1>1, PoppedFacts
  <1>3. StrandsRefer(s1)
    BY <1>2 DEF StrandsRefer
  <1> QED
    BY <1>1, <1>3

-----------------------------------------------------------------------------
(* Destructors and the count.                                                *)

\* st leads to st1, which wakes the fibers of fs.
Destroys(st, st1, fs) == st1 \in State /\ Grown(st.strand, st1.strand, fs)

\* ~sender_state() uncounts the address that the message carries.
LEMMA DestroyCount ==
    ASSUME NEW st \in State, NEW s \in Sender
    PROVE  /\ Destroys(st, DestroySender(st, s), {s.fiber})
           /\ \A w \in Vm : DestroySender(st, s).nsenders[w] = st.nsenders[w] - Uncounted(s, w)
  <1> DEFINE h == Resume(s.fiber, "channel_closed")
             v == VmOf[s.fiber]
             st1 == PostIn(st, v, h)
             bag == CarriedBy(s.msg)
             st2 == Drop(st1, bag)
  <1>1. s.fiber \in Fiber /\ v \in Vm /\ st.strand \in [Vm -> Seq(Handler)]
        /\ st.nsenders \in [Vm -> Int]
    BY VmContextAssumption, StateFacts DEF Sender
  <1>2. h \in Handler /\ h.op = "resume"
    BY <1>1, Made, Shapes DEF Result
  <1> HIDE DEF h
  <1>3. st1 \in State /\ st1.strand = Posted(st.strand, v, h) /\ st1.nsenders = st.nsenders
    BY <1>1, <1>2, PostInFacts
  <1>4. bag \in [Vm -> Int] /\ \A w \in Vm : bag[w] = IF s.msg = w THEN 1 ELSE 0
    BY CarriedFacts
  <1> HIDE DEF st1, bag
  <1>5. /\ st2 \in State /\ Told(st1.strand, st2.strand)
        /\ \A w \in Vm : st2.nsenders[w] =
              IF CanLock(w) THEN st1.nsenders[w] - bag[w] ELSE st1.nsenders[w]
    BY <1>3, <1>4, DropFacts
  <1>6. st1.strand \in [Vm -> Seq(Handler)]
    BY <1>3, StateFacts
  <1>7. Grown(st.strand, st1.strand, {s.fiber})
    BY <1>1, <1>2, <1>3, GrownPost
  <1>8. Grown(st1.strand, st2.strand, {})
    BY <1>5, <1>6, GrownTold
  <1>9. Grown(st.strand, st2.strand, {s.fiber} \cup {})
    BY <1>7, <1>8, GrownTrans
  <1>10. {s.fiber} \cup {} = {s.fiber}
    OBVIOUS
  <1>11. \A w \in Vm : st2.nsenders[w] = st.nsenders[w] - Uncounted(s, w)
    BY <1>1, <1>3, <1>4, <1>5 DEF Uncounted, Carries
  <1>12. DestroySender(st, s) = st2
    BY DEF DestroySender, st2, st1, bag, h, v
  <1> HIDE DEF st2
  <1> QED
    BY <1>5, <1>9, <1>10, <1>11, <1>12 DEF Destroys

\* incoming.clear() uncounts the addresses that the messages carry.
LEMMA ClearCount ==
    ASSUME NEW v \in Vm, NEW st \in State, incoming[v] \in Seq(Sender)
    PROVE  /\ Destroys(st, ClearIncoming(v, st), Resumed(incoming[v]))
           /\ Uncounts(v, st, ClearIncoming(v, st))
  <1>0. PICK q : q = incoming[v]
    OBVIOUS
  <1> DEFINE N == Len(q)
             First(n) == {q[i].fiber : i \in 1..n}
             Taken(w, n) == IF CanLock(w) THEN Cardinality(SentUpTo(q, n, w)) ELSE 0
  <1>1. N \in Nat /\ \A i \in 1..N : q[i] \in Sender
    BY <1>0, QueueFacts
  <1>2. PICK g : /\ g[0] = st
                 /\ \A n \in 1..N : g[n] = DestroySender(g[n - 1], q[n])
                 /\ ClearIncoming(v, st) = g[N]
    <2>1. Len(incoming[v]) \in Nat
      BY <1>0, <1>1
    <2>2. \E g : /\ g[0] = st
                 /\ \A n \in 1..Len(incoming[v]) : g[n] = DestroySender(g[n - 1], incoming[v][n])
                 /\ ClearIncoming(v, st) = g[Len(incoming[v])]
      BY <2>1, ClearedRuns
    <2> QED
      BY <1>0, <2>2
  <1>3. st.strand \in [Vm -> Seq(Handler)] /\ st.nsenders \in [Vm -> Int]
    BY StateFacts
  <1> DEFINE P(n) == /\ Destroys(st, g[n], First(n))
                     /\ \A w \in Vm : g[n].nsenders[w] = st.nsenders[w] - Taken(w, n)
             T == {n \in 0..N : P(n)}
  <1>4. P(0)
    <2>1. First(0) = {}
      OBVIOUS
    <2> HIDE DEF First
    <2>2. Grown(st.strand, st.strand, First(0))
      BY <1>3, <2>1, GrownSame
    <2>3. \A w \in Vm : Cardinality(SentUpTo(q, 0, w)) = 0
      BY SentUpToFacts
    <2>4. \A w \in Vm : st.nsenders[w] = st.nsenders[w] - Taken(w, 0)
      BY <1>3, <2>3
    <2> QED
      BY <1>2, <2>2, <2>4 DEF Destroys
  <1>5. ASSUME NEW n \in 0..N, n # 0, P(n - 1) PROVE P(n)
    <2>1. n \in 1..N /\ n - 1 \in Nat /\ n \in Nat /\ n > 0
      BY <1>1, <1>5
    <2>2. PICK s : s = q[n]
      OBVIOUS
    <2>3. PICK st0 : st0 = g[n - 1]
      OBVIOUS
    <2>4. s \in Sender
      BY <1>1, <2>1, <2>2
    <2>5. g[n] = DestroySender(st0, s)
      BY <1>2, <2>1, <2>2, <2>3
    <2>6. First(n) = First(n - 1) \cup {s.fiber}
      <3>1. 1..n = 1..(n - 1) \cup {n}
        BY <2>1
      <3> QED
        BY <2>2, <3>1
    <2>7. /\ st0 \in State /\ Grown(st.strand, st0.strand, First(n - 1))
          /\ \A w \in Vm : st0.nsenders[w] = st.nsenders[w] - Taken(w, n - 1)
      BY <1>5, <2>3 DEF Destroys
    <2> HIDE DEF First, Taken, P, T, N
    <2>8. /\ Destroys(st0, DestroySender(st0, s), {s.fiber})
          /\ \A w \in Vm : DestroySender(st0, s).nsenders[w] = st0.nsenders[w] - Uncounted(s, w)
      BY <2>4, <2>7, DestroyCount
    <2>9. Destroys(st, g[n], First(n))
      BY <2>5, <2>6, <2>7, <2>8, GrownTrans DEF Destroys
    <2>10. ASSUME NEW w \in Vm PROVE g[n].nsenders[w] = st.nsenders[w] - Taken(w, n)
      <3>1. /\ Cardinality(SentUpTo(q, n, w)) \in Nat /\ Cardinality(SentUpTo(q, n - 1, w)) \in Nat
            /\ Cardinality(SentUpTo(q, n, w)) =
                  Cardinality(SentUpTo(q, n - 1, w)) + Carries(q[n], w)
        BY <2>1, SentUpToFacts
      <3>2. st.nsenders[w] \in Int
        BY <1>3
      <3>3. g[n].nsenders[w] = st0.nsenders[w] - Uncounted(s, w)
        BY <2>5, <2>8
      <3>4. st0.nsenders[w] = st.nsenders[w] - Taken(w, n - 1)
        BY <2>7
      <3> QED
        BY <2>2, <3>1, <3>2, <3>3, <3>4 DEF Taken, Uncounted, Carries
    <2> QED
      BY <2>9, <2>10 DEF P
  <1> HIDE DEF P
  <1>6. T \subseteq 0..N /\ 0 \in T /\ \A n \in 0..N : n # 0 /\ n - 1 \in T => n \in T
    BY <1>1, <1>4, <1>5
  <1>7. N \in T
    <2> HIDE DEF T, N
    <2> QED
      BY <1>1, <1>6, Climb
  <1>8. P(N)
    BY <1>7
  <1>9. First(N) = Resumed(incoming[v])
    BY <1>0 DEF Resumed
  <1> HIDE DEF First
  <1> QED
    BY <1>0, <1>2, <1>8, <1>9 DEF P, SentAt, Uncounts

-----------------------------------------------------------------------------
(* A step keeps the count.                                                   *)

\* The addresses of w that v holds, or that are in messages to v.
Local(v, w) == tx[v][w] + OnWay(strand[v], w) + InQueue(incoming[v], w)

\* Only those of v change.
AtOne(v, w) ==
    \A u \in Vm : u # v => /\ tx'[u][w] = tx[u][w]
                           /\ DeliverAt(strand'[u], w) = DeliverAt(strand[u], w)
                           /\ SentAt(incoming'[u], w) = SentAt(incoming[u], w)

\* Then all addresses change by as much.
LEMMA LocalChange ==
    ASSUME Types, Types', NEW v \in Vm, NEW w \in Vm, AtOne(v, w)
    PROVE  /\ Addresses(w) \in Nat /\ Addresses(w)' \in Nat
           /\ Local(v, w) \in Nat /\ Local(v, w)' \in Nat /\ Local(v, w) <= Addresses(w)
           /\ Addresses(w)' = Addresses(w) + Local(v, w)' - Local(v, w)
  <1>1. PICK t, t1, s, s1, q, q1 : /\ t = tx /\ t1 = tx' /\ s = strand /\ s1 = strand'
                                   /\ q = incoming /\ q1 = incoming'
    OBVIOUS
  <1>2. /\ t \in [Vm -> [Vm -> Nat]] /\ t1 \in [Vm -> [Vm -> Nat]]
        /\ s \in [Vm -> Seq(Handler)] /\ s1 \in [Vm -> Seq(Handler)]
        /\ q \in [Vm -> Seq(Sender)] /\ q1 \in [Vm -> Seq(Sender)]
    BY <1>1 DEF Types
  <1>3. \A u \in Vm : u # v => t1[u][w] = t[u][w]
    BY <1>1 DEF AtOne
  <1>10. SentElsewhere(s, q, s1, q1, v, w)
    BY <1>1 DEF AtOne, SentElsewhere
  <1>4. /\ HeldCount(t, w) \in Nat /\ HeldCount(t1, w) \in Nat /\ t[v][w] <= HeldCount(t, w)
        /\ HeldCount(t1, w) = HeldCount(t, w) - t[v][w] + t1[v][w]
    BY <1>2, <1>3, HeldChange
  <1>5. /\ SentCount(s, q, w) \in Nat /\ SentCount(s1, q1, w) \in Nat
        /\ OnWay(s[v], w) + InQueue(q[v], w) <= SentCount(s, q, w)
        /\ SentCount(s1, q1, w) = SentCount(s, q, w) - (OnWay(s[v], w) + InQueue(q[v], w))
                                    + (OnWay(s1[v], w) + InQueue(q1[v], w))
    <2>1. SentMoves(s, q, s1, q1, v, w)
      BY <1>2, <1>10, SentChange
    <2> QED
      BY <2>1 DEF SentMoves
  <1>6. /\ OnWay(s[v], w) \in Nat /\ InQueue(q[v], w) \in Nat
        /\ OnWay(s1[v], w) \in Nat /\ InQueue(q1[v], w) \in Nat
    <2>1. /\ s[v] \in Seq(Handler) /\ q[v] \in Seq(Sender)
          /\ s1[v] \in Seq(Handler) /\ q1[v] \in Seq(Sender)
      BY <1>2
    <2> QED
      BY <2>1, PlacesFinite
  <1>7. t[v][w] \in Nat /\ t1[v][w] \in Nat
    BY <1>2
  <1>8. /\ Addresses(w) = HeldCount(t, w) + SentCount(s, q, w)
        /\ Addresses(w)' = HeldCount(t1, w) + SentCount(s1, q1, w)
    BY <1>1, AddressParts
  <1>9. /\ Local(v, w) = t[v][w] + OnWay(s[v], w) + InQueue(q[v], w)
        /\ Local(v, w)' = t1[v][w] + OnWay(s1[v], w) + InQueue(q1[v], w)
    BY <1>1 DEF Local
  <1> QED
    BY <1>4, <1>5, <1>6, <1>7, <1>8, <1>9

\* e addresses of w are made, d are uncounted and o are overwritten.
Balance(w, e, d, o) ==
    /\ Addresses(w)' = Addresses(w) + e - d - o
    /\ forgotten'[w] = forgotten[w] + o
    /\ nsenders'[w] = nsenders[w] + (IF CanLock(w) THEN e - d ELSE 0)
    /\ e > 0 => Spawned(w)

Balanced(w) == \E e, d, o \in Nat : Balance(w, e, d, o)

\* A step counts what it makes and uncounts what it destroys, and locks nothing
\* that could not be locked before.
LocksNoMore == \A w \in Vm : CanLock(w)' => CanLock(w)

KeepsCount == LocksNoMore /\ \A w \in Vm : Balanced(w)

\* The balance of the addresses of one VM is that of all.
LEMMA Balancing ==
    ASSUME Types, Types', NEW v \in Vm, NEW w \in Vm, AtOne(v, w),
           NEW e \in Nat, NEW d \in Nat, NEW o \in Nat,
           Local(v, w)' = Local(v, w) + e - d - o,
           forgotten'[w] = forgotten[w] + o,
           nsenders'[w] = nsenders[w] + (IF CanLock(w) THEN e - d ELSE 0),
           e > 0 => Spawned(w)
    PROVE  Balanced(w)
  <1>1. /\ Addresses(w) \in Nat /\ Addresses(w)' \in Nat
        /\ Local(v, w) \in Nat /\ Local(v, w)' \in Nat
        /\ Addresses(w)' = Addresses(w) + Local(v, w)' - Local(v, w)
    BY LocalChange
  <1>2. Addresses(w)' = Addresses(w) + e - d - o
    BY <1>1
  <1>3. Balance(w, e, d, o)
    BY <1>2 DEF Balance
  <1> QED
    BY <1>3 DEF Balanced

\* The count of addresses is right.
Counted ==
    /\ NsendersIsExact
    /\ \A w \in Vm : nsenders[w] \in Nat
    /\ \A w \in Vm : ~Spawned(w) => Addresses(w) = 0 /\ nsenders[w] = 0 /\ forgotten[w] = 0

\* There are finitely many addresses.
LEMMA AddressesNat ==
    ASSUME Types, NEW w \in Vm
    PROVE  Addresses(w) \in Nat
  <1>1. PICK t, s, q : t = tx /\ s = strand /\ q = incoming
    OBVIOUS
  <1>2. t \in [Vm -> [Vm -> Nat]] /\ s \in [Vm -> Seq(Handler)] /\ q \in [Vm -> Seq(Sender)]
    BY <1>1 DEF Types
  <1>3. HeldCount(t, w) \in Nat /\ SentCount(s, q, w) \in Nat
    BY <1>2, HeldSame, SentSame
  <1> QED
    BY <1>1, <1>3, AddressParts

\* Nor are there infinitely many after a step.
LEMMA AddressesNatNext ==
    ASSUME Types', NEW w \in Vm
    PROVE  Addresses(w)' \in Nat
  <1>1. PICK t, s, q : t = tx' /\ s = strand' /\ q = incoming'
    OBVIOUS
  <1>2. t \in [Vm -> [Vm -> Nat]] /\ s \in [Vm -> Seq(Handler)] /\ q \in [Vm -> Seq(Sender)]
    BY <1>1 DEF Types
  <1>3. HeldCount(t, w) \in Nat /\ SentCount(s, q, w) \in Nat
    BY <1>2, HeldSame, SentSame
  <1> QED
    BY <1>1, <1>3, AddressParts

\* It stays right for a VM that keeps its balance.
LEMMA CountStepAt ==
    ASSUME Types, Types', Counted, NEW w \in Vm, Balanced(w), CanLock(w)' => CanLock(w),
           Spawned(w) => Spawned(w)'
    PROVE  /\ CanLock(w)' => nsenders'[w] = Addresses(w)' + forgotten'[w]
           /\ nsenders'[w] \in Nat
           /\ ~Spawned(w)' => Addresses(w)' = 0 /\ nsenders'[w] = 0 /\ forgotten'[w] = 0
  <1>1. PICK e, d, o \in Nat : Balance(w, e, d, o)
    BY DEF Balanced
  <1>3. Addresses(w) \in Nat /\ Addresses(w)' \in Nat
    BY AddressesNat, AddressesNatNext
  <1>4. nsenders[w] \in Nat /\ forgotten[w] \in Nat /\ forgotten'[w] \in Nat
    BY DEF Counted, Types
  <1>5. CanLock(w) => nsenders[w] = Addresses(w) + forgotten[w]
    BY DEF Counted, NsendersIsExact
  <1>6. CanLock(w) => nsenders'[w] = Addresses(w)' + forgotten'[w]
    BY <1>1, <1>3, <1>4, <1>5 DEF Balance
  <1>7. ~CanLock(w) => nsenders'[w] = nsenders[w]
    BY <1>1, <1>4 DEF Balance
  <1>8. nsenders'[w] \in Nat
    <2>1. CASE CanLock(w)
      BY <1>3, <1>4, <1>6, <2>1
    <2>2. CASE ~CanLock(w)
      BY <1>4, <1>7, <2>2
    <2> QED
      BY <2>1, <2>2
  <1>9. ASSUME ~Spawned(w)' PROVE Addresses(w)' = 0 /\ nsenders'[w] = 0 /\ forgotten'[w] = 0
    <2>1. ~Spawned(w)
      BY <1>9
    <2>2. Addresses(w) = 0 /\ nsenders[w] = 0 /\ forgotten[w] = 0
      BY <2>1 DEF Counted
    <2>3. e = 0 /\ d = 0 /\ o = 0
      BY <1>1, <1>3, <2>1, <2>2 DEF Balance
    <2> QED
      BY <1>1, <2>2, <2>3 DEF Balance
  <1> QED
    BY <1>6, <1>8, <1>9

\* It stays right in a step that keeps the count.
LEMMA CountStep ==
    ASSUME Types, Types', Counted, KeepsCount, \A w \in Vm : Spawned(w) => Spawned(w)'
    PROVE  Counted'
  <1>1. ASSUME NEW w \in Vm
        PROVE  /\ CanLock(w)' => nsenders'[w] = Addresses(w)' + forgotten'[w]
               /\ nsenders'[w] \in Nat
               /\ ~Spawned(w)' => Addresses(w)' = 0 /\ nsenders'[w] = 0 /\ forgotten'[w] = 0
    <2>1. Balanced(w) /\ (CanLock(w)' => CanLock(w)) /\ (Spawned(w) => Spawned(w)')
      BY DEF KeepsCount, LocksNoMore
    <2> QED
      BY <2>1, CountStepAt
  <1> QED
    BY <1>1 DEF Counted, NsendersIsExact

\* A step refers to no VM that was not referred to.
Settled ==
    /\ StrandsRefer(strand') /\ QueuesRefer(incoming') /\ AfterRefers(after')
    /\ FibersRefer(running') /\ FibersRefer(recvFiber')

\* Together with a balance that is what has to be shown of a step.
LEMMA StepKeepsCount ==
    ASSUME Types', Settled, \A u \in Vm : destroyed[u] => destroyed'[u],
           \A w \in Vm : Balanced(w)
    PROVE  KeepsCount
  <1>1. LocksNoMore
    BY LockedBefore DEF Settled, LocksNoMore
  <1> QED
    BY <1>1 DEF KeepsCount

\* No message or address comes or goes, and at most one strand v changes.
LEMMA BalancedStill ==
    ASSUME Types, Types', UNCHANGED <<nsenders, forgotten, tx, incoming>>, NEW v \in Vm,
           \A u \in Vm : u # v => strand'[u] = strand[u],
           \A x : OnWay(strand'[v], x) = OnWay(strand[v], x)
    PROVE  \A w \in Vm : Balanced(w)
  <1> SUFFICES ASSUME NEW w \in Vm PROVE Balanced(w)
    OBVIOUS
  <1>1. AtOne(v, w)
    BY DEF AtOne
  <1>2. Local(v, w) \in Nat /\ Local(v, w)' = Local(v, w)
    <2>1. Local(v, w)' = Local(v, w)
      BY DEF Local
    <2> QED
      BY <1>1, <2>1, LocalChange
  <1>3. nsenders[w] \in Int /\ forgotten[w] \in Nat
    BY DEF Types
  <1>4. PICK z \in Nat : z = 0
    OBVIOUS
  <1>5. /\ Local(v, w)' = Local(v, w) + z - z - z
        /\ forgotten'[w] = forgotten[w] + z
        /\ nsenders'[w] = nsenders[w] + (IF CanLock(w) THEN z - z ELSE 0)
        /\ z > 0 => Spawned(w)
    BY <1>2, <1>3, <1>4
  <1> QED
    BY <1>1, <1>5, Balancing

-----------------------------------------------------------------------------
(* Steps in which no address moves.                                          *)

\* What the rest of the step refers to was referred to before.
RestSettled == AfterRefers(after') /\ FibersRefer(running') /\ FibersRefer(recvFiber')

StaysDestroyed == \A u \in Vm : destroyed[u] => destroyed'[u]

\* The strands stay as they are.
LEMMA StillCount ==
    ASSUME Types, Types', RestSettled, StaysDestroyed,
           UNCHANGED <<strand, incoming, nsenders, forgotten, tx>>
    PROVE  KeepsCount
  <1>1. \A w \in Vm : Balanced(w)
    <2>1. PICK v \in Vm : v = Root
      BY ActorAssumption
    <2>2. /\ UNCHANGED <<nsenders, forgotten, tx, incoming>>
          /\ \A u \in Vm : u # v => strand'[u] = strand[u]
          /\ \A x : OnWay(strand'[v], x) = OnWay(strand[v], x)
      OBVIOUS
    <2> QED
      BY <2>2, BalancedStill
  <1>2. StrandsRefer(strand') /\ QueuesRefer(incoming')
    BY Refers
  <1> QED
    BY <1>1, <1>2, StepKeepsCount DEF Settled, RestSettled, StaysDestroyed

\* Something else than a message is posted to v.
LEMMA PostCount ==
    ASSUME Types, Types', RestSettled, StaysDestroyed, UNCHANGED <<incoming, nsenders, forgotten, tx>>,
           NEW v \in Vm, NEW h \in Handler, IsPost(strand', strand, v, h), h.op # "deliver",
           Referenced(v), h.op \in OfSender => Referenced(VmOf[h.fiber])
    PROVE  KeepsCount
  <1>1. strand[v] \in Seq(Handler)
    BY DEF Types
  <1>2. strand'[v] = Append(strand[v], h) /\ \A u \in Vm : u # v => strand'[u] = strand[u]
    BY DEF IsPost
  <1>3. ASSUME NEW x PROVE OnWay(strand'[v], x) = OnWay(strand[v], x)
    <2>1. OnWay(Append(strand[v], h), x) = OnWay(strand[v], x) + Brings(h, x)
      BY <1>1, OnWayFacts
    <2>2. Brings(h, x) = 0
      BY DEF Brings
    <2>3. OnWay(strand[v], x) \in Nat
      BY <1>1, PlacesFinite
    <2> QED
      BY <1>2, <2>1, <2>2, <2>3
  <1>4. \A w \in Vm : Balanced(w)
    BY <1>2, <1>3, BalancedStill
  <1>5. StrandsRefer(strand) /\ QueuesRefer(incoming')
    BY Refers
  <1>6. StrandsRefer(strand')
    BY <1>5, PostRefers
  <1> QED
    BY <1>4, <1>5, <1>6, StepKeepsCount DEF Settled, RestSettled, StaysDestroyed

\* The strand of v takes something else than a message.
LEMMA PopCount ==
    ASSUME Types, Types', RestSettled, StaysDestroyed, UNCHANGED <<incoming, nsenders, forgotten, tx>>,
           NEW v \in Vm, strand' = Popped(strand, v), strand[v] # <<>>, Head(strand[v]).op # "deliver"
    PROVE  KeepsCount
  <1>1. strand[v] \in Seq(Handler) /\ strand \in [Vm -> Seq(Handler)]
    BY DEF Types
  <1>2. strand'[v] = Tail(strand[v]) /\ \A u \in Vm : u # v => strand'[u] = strand[u]
    BY <1>1, PoppedFacts
  <1>3. ASSUME NEW x PROVE OnWay(strand'[v], x) = OnWay(strand[v], x)
    <2>1. OnWay(strand[v], x) = OnWay(Tail(strand[v]), x) + Brings(Head(strand[v]), x)
      BY <1>1, OnWayFacts
    <2>2. Brings(Head(strand[v]), x) = 0
      BY DEF Brings
    <2>3. OnWay(strand'[v], x) \in Nat
      <3>1. strand'[v] \in Seq(Handler)
        BY DEF Types
      <3> QED
        BY <3>1, PlacesFinite
    <2> QED
      BY <1>2, <2>1, <2>2, <2>3
  <1>4. \A w \in Vm : Balanced(w)
    BY <1>2, <1>3, BalancedStill
  <1>5. StrandsRefer(strand) /\ QueuesRefer(incoming')
    BY Refers
  <1>6. StrandsRefer(strand')
    BY <1>1, <1>5, PopRefers
  <1> QED
    BY <1>4, <1>5, <1>6, StepKeepsCount DEF Settled, RestSettled, StaysDestroyed

\* Only v may have begun to run, or to receive.
LEMMA RestRefers ==
    ASSUME Types, NEW v \in Vm, Referenced(v), after' = after,
           \A u \in Vm : u # v => /\ running'[u] = running[u] \/ running'[u] = Nil
                                  /\ recvFiber'[u] = recvFiber[u] \/ recvFiber'[u] = Nil
    PROVE  RestSettled
  <1>1. AfterRefers(after') /\ FibersRefer(running) /\ FibersRefer(recvFiber)
    BY Refers
  <1> QED
    BY <1>1 DEF FibersRefer, RestSettled

\* The VM of a fiber that makes a call is referred to.
LEMMA CallerRefers ==
    ASSUME NEW f \in Fiber, Calls(f)
    PROVE  VmOf[f] \in Vm /\ Referenced(VmOf[f])
  <1>1. VmOf[f] \in Vm /\ running[VmOf[f]] = f /\ f # Nil
    BY VmContextAssumption DEF Calls, Running
  <1> QED
    BY <1>1 DEF Referenced

\* ... and so is that of a strand that takes a handler.
LEMMA TakenRefers ==
    ASSUME NEW v \in Vm, NEW op, NextHandler(v, op)
    PROVE  Referenced(v) /\ strand[v] # <<>> /\ Head(strand[v]).op = op
  BY DEF Referenced, NextHandler, StrandReady

\* A call that only returns an answer.
LEMMA CountAnswer ==
    ASSUME Types, Types',
           UNCHANGED <<strand, running, incoming, recvFiber, nsenders, forgotten, tx, after, destroyed>>
    PROVE  KeepsCount
  <1>1. RestSettled
    BY Refers DEF RestSettled
  <1>2. StaysDestroyed
    BY DEF StaysDestroyed
  <1> QED
    BY <1>1, <1>2, StillCount

\* chan_receive() suspends and no address moves.
LEMMA CountReceiveWaits ==
    ASSUME Types, Types', NEW f \in Fiber, ReceiveWaits(f)
    PROVE  KeepsCount
  <1>1. PICK v \in Vm : v = VmOf[f] /\ Referenced(v)
    BY CallerRefers DEF ReceiveWaits, HasInbox
  <1>2. /\ UNCHANGED <<strand, incoming, nsenders, forgotten, tx, after, destroyed>>
        /\ \A u \in Vm : u # v => running'[u] = running[u] /\ recvFiber'[u] = recvFiber[u]
    BY <1>1 DEF ReceiveWaits, Suspend, addressVars, Types, CoreTypeOK
  <1>3. RestSettled
    BY <1>1, <1>2, RestRefers
  <1>4. StaysDestroyed
    BY <1>2 DEF StaysDestroyed
  <1> QED
    BY <1>2, <1>3, <1>4, StillCount

\* spawn() posts a resumption.
LEMMA CountSpawn ==
    ASSUME Types, Types', NEW f \in Fiber, NEW g \in Fiber, Spawn(f, g)
    PROVE  KeepsCount
  <1>1. PICK v \in Vm : v = VmOf[f] /\ Referenced(v)
    BY CallerRefers DEF Spawn
  <1>2. PICK h : h = ResumeSkipClear(g)
    OBVIOUS
  <1>3. h \in Handler /\ h.op = "resume"
    BY <1>2, Made, Shapes
  <1>4. /\ UNCHANGED <<incoming, nsenders, forgotten, tx, after, destroyed, running, recvFiber>>
        /\ strand' = Posted(strand, v, h)
    BY <1>1, <1>2 DEF Spawn, SpawnFiber, Post, Posted, addressVars, inboxVars
  <1>5. IsPost(strand', strand, v, h)
    BY <1>3, <1>4, PostedFacts DEF Types
  <1>6. RestSettled
    BY <1>1, <1>4, RestRefers
  <1>7. StaysDestroyed
    BY <1>4 DEF StaysDestroyed
  <1>8. h.op # "deliver" /\ h.op \notin OfSender /\ UNCHANGED <<incoming, nsenders, forgotten, tx>>
    BY <1>3, <1>4 DEF OfSender
  <1> QED
    BY <1>1, <1>3, <1>5, <1>6, <1>7, <1>8, PostCount

\* fiber_interrupt() posts a resumption, or a request to give up a sender.
LEMMA CountInterrupt ==
    ASSUME Types, Types', NEW f \in Fiber, NEW g \in Fiber, Interrupt(f, g)
    PROVE  KeepsCount
  <1>1. PICK v \in Vm : v = VmOf[f] /\ Referenced(v) /\ v = VmOf[g]
    BY CallerRefers DEF Interrupt
  <1>2. /\ UNCHANGED <<incoming, nsenders, forgotten, tx, after, destroyed, running>>
        /\ \A u \in Vm : u # v => recvFiber'[u] = recvFiber[u]
    BY <1>1 DEF Interrupt, Return, addressVars, Types, ReceiveInterrupter, SendInterrupter
  <1>3. RestSettled
    BY <1>1, <1>2, RestRefers
  <1>4. StaysDestroyed
    BY <1>2 DEF StaysDestroyed
  <1>5. CASE strand' = strand
    BY <1>2, <1>3, <1>4, <1>5, StillCount
  <1>6. CASE strand' # strand
    <2>1. PICK w \in Vm, h \in Handler :
             /\ strand' = Posted(strand, w, h) /\ h.op # "deliver" /\ Referenced(w)
             /\ h.op \in OfSender => Referenced(VmOf[h.fiber])
      <3>1. g # f /\ interrupter[g] # Nil
        BY <1>6 DEF Interrupt
      <3>2. CASE interrupter[g] = Receiving
        <4>1. PICK r \in Fiber \cup {Nil} : r = recvFiber[v]
          BY DEF Types
        <4>2. PICK h : h = Resume(r, "interrupted")
          OBVIOUS
        <4>3. h \in Handler /\ h.op = "resume"
          BY <4>2, Made, Shapes DEF Result
        <4>4. strand' = Posted(strand, v, h)
          BY <1>1, <3>1, <3>2, <4>1, <4>2 DEF Interrupt, ReceiveInterrupter, Post, Posted
        <4> QED
          BY <1>1, <4>3, <4>4 DEF OfSender
      <3>3. CASE interrupter[g] # Receiving
        <4>1. PICK w \in Vm : w = interrupter[g]
          BY <3>1, <3>3 DEF Types, CoreTypeOK
        <4>2. PICK h : h = Revoke(g)
          OBVIOUS
        <4>3. h \in Handler /\ h.op = "revoke" /\ h.fiber = g
          BY <4>2, Made, Shapes
        <4>4. CanLock(w) /\ strand' = Posted(strand, w, h)
          BY <1>6, <3>1, <3>3, <4>1, <4>2 DEF Interrupt, SendInterrupter, Post, Posted
        <4> QED
          BY <1>1, <4>3, <4>4 DEF CanLock
      <3> QED
        BY <3>2, <3>3
    <2>2. IsPost(strand', strand, w, h)
      BY <2>1, PostedFacts DEF Types
    <2> QED
      BY <1>2, <1>3, <1>4, <2>1, <2>2, PostCount
  <1> QED
    BY <1>5, <1>6

\* The sender of a message that was received is resumed.
LEMMA CountWakeSender ==
    ASSUME Types, Types', NEW v \in Vm, WakeSender(v)
    PROVE  KeepsCount
  <1>1. PICK f \in Fiber : f = after[v] /\ f # Nil
    BY DEF WakeSender, Types
  <1>2. PICK w \in Vm : w = VmOf[f]
    BY VmContextAssumption
  <1>3. PICK h : h = Resume(f, "sent")
    OBVIOUS
  <1>4. h \in Handler /\ h.op = "resume"
    BY <1>3, Made, Shapes DEF Result
  <1>5. AfterRefers(after) /\ FibersRefer(running) /\ FibersRefer(recvFiber)
    BY Refers
  <1>6. Referenced(v) /\ Referenced(w)
    BY <1>1, <1>2, <1>5 DEF AfterRefers
  <1>7. /\ UNCHANGED <<incoming, nsenders, forgotten, tx, destroyed, running, recvFiber>>
        /\ \A u \in Vm : after'[u] = after[u] \/ after'[u] = Nil
        /\ strand' = Posted(strand, w, h)
    BY <1>1, <1>2, <1>3 DEF WakeSender, Post, Posted, addressVars, inboxVars, Types
  <1>8. RestSettled
    BY <1>5, <1>7 DEF RestSettled, AfterRefers
  <1>9. StaysDestroyed
    BY <1>7 DEF StaysDestroyed
  <1>10. IsPost(strand', strand, w, h)
    BY <1>4, <1>7, PostedFacts DEF Types
  <1>11. h.op # "deliver" /\ h.op \notin OfSender /\ UNCHANGED <<incoming, nsenders, forgotten, tx>>
    BY <1>4, <1>7 DEF OfSender
  <1> QED
    BY <1>4, <1>6, <1>8, <1>9, <1>10, <1>11, PostCount

\* The first handler of a strand is on it.
LEMMA HeadHas ==
    ASSUME NEW q \in Seq(Handler), q # <<>>
    PROVE  Has(q, Head(q).op, Head(q).fiber)
  <1>1. 1 \in 1..Len(q) /\ Head(q) = q[1]
    OBVIOUS
  <1> QED
    BY <1>1 DEF Has

\* A strand resumes a fiber.
LEMMA CountRunFiber ==
    ASSUME Inv, Types', NEW v \in Vm, RunFiber(v)
    PROVE  KeepsCount
  <1>0. Types
    BY DEF Inv
  <1>1. Referenced(v) /\ strand[v] # <<>> /\ Head(strand[v]).op = "resume"
    BY <1>0, TakenRefers DEF RunFiber
  <1>2. UNCHANGED <<incoming, recvFiber, nsenders, forgotten, tx, after, destroyed>>
    BY DEF RunFiber, inboxVars, addressVars
  <1>3. StaysDestroyed
    BY <1>2 DEF StaysDestroyed
  <1>4. CASE valid[v] /\ Head(strand[v]).fiber = Nil
    <2>1. UNCHANGED <<strand, running>>
      BY <1>4 DEF RunFiber, coreVars
    <2> QED
      BY <1>0, <1>2, <2>1, CountAnswer
  <1>5. CASE ~(valid[v] /\ Head(strand[v]).fiber = Nil)
    <2>1. RunResume(v)
      BY <1>5 DEF RunFiber
    <2>2. strand' = Popped(strand, v)
      BY <2>1 DEF RunResume, Popped
    <2>3. \A u \in Vm : running'[u] # Nil => Referenced(u)
      <3>1. FibersRefer(running)
        BY <1>0, Refers
      <3>2. CASE valid[v]
        <4>1. PICK h : h = Head(strand[v])
          OBVIOUS
        <4>2. h \in Handler
          <5>1. NextHandler(v, "resume")
            BY DEF RunFiber
          <5> QED
            BY <1>0, <4>1, <5>1, NextTaken
        <4>3. h.fiber \in Fiber
          <5>1. h.fiber \in Fiber \cup {Nil}
            BY <1>1, <4>1, <4>2, HandlerFacts
          <5> QED
            BY <1>5, <3>2, <4>1, <5>1
        <4>4. \A u \in Vm : running'[u] = running[u] \/ u = VmOf[h.fiber]
          BY <1>0, <2>1, <3>2, <4>1, ZenonT(60) DEF RunResume, FiberResume, Types, CoreTypeOK
        <4>5. VmOf[h.fiber] = v
          <5>1. PICK kind, home, word : Accounts(kind, home, word)
            BY DEF Inv
          <5>2. strand[v] \in Seq(Handler)
            BY <1>0 DEF Types
          <5>3. Has(strand[v], "resume", h.fiber)
            BY <1>1, <4>1, <5>2, HeadHas
          <5> QED
            BY <4>3, <5>1, <5>3 DEF Accounts, OnStrand, FiberOK, WordOK
        <4> QED
          BY <1>1, <3>1, <4>4, <4>5 DEF FibersRefer
      <3>3. CASE ~valid[v]
        BY <2>1, <3>1, <3>3 DEF RunResume, FibersRefer
      <3> QED
        BY <3>2, <3>3
    <2>4. RestSettled
      BY <1>0, <1>2, <2>3, Refers DEF RestSettled, FibersRefer
    <2> QED
      BY <1>0, <1>1, <1>2, <1>3, <2>2, <2>4, PopCount
  <1> QED
    BY <1>4, <1>5

\* The handler of the last ~actor_address() may resume the receiver.
LEMMA CountRunNoSenders ==
    ASSUME Inv, Types', NEW v \in Vm, RunNoSenders(v)
    PROVE  KeepsCount
  <1>0. Types
    BY DEF Inv
  <1>1. Referenced(v) /\ strand[v] # <<>> /\ Head(strand[v]).op = "no_senders"
    BY TakenRefers DEF RunNoSenders
  <1>2. /\ UNCHANGED <<incoming, nsenders, forgotten, tx, after, destroyed>>
        /\ strand' = Popped(strand, v)
    BY DEF RunNoSenders, addressVars, Pop, Popped
  <1>3. StaysDestroyed
    BY <1>2 DEF StaysDestroyed
  <1>4. \A u \in Vm : u # v => running'[u] = running[u] /\ recvFiber'[u] = recvFiber[u]
    <2>1. CASE nsenders[v] = 0 /\ recvFiber[v] # Nil
      <3>1. PICK kind, home, word : Accounts(kind, home, word)
        BY DEF Inv
      <3>2. VmOf[recvFiber[v]] = v
        BY <1>0, <2>1, <3>1, Receiver
      <3>3. /\ recvFiber' = [recvFiber EXCEPT ![v] = Nil]
            /\ running' = [running EXCEPT ![v] = recvFiber[v]]
        BY <2>1, <3>2 DEF RunNoSenders, FiberResume
      <3> QED
        BY <1>0, <3>3 DEF Types, CoreTypeOK
    <2>2. CASE ~(nsenders[v] = 0 /\ recvFiber[v] # Nil)
      BY <2>2 DEF RunNoSenders
    <2> QED
      BY <2>1, <2>2
  <1>5. RestSettled
    BY <1>0, <1>1, <1>2, <1>4, RestRefers
  <1> QED
    BY <1>0, <1>1, <1>2, <1>3, <1>5, PopCount

-----------------------------------------------------------------------------
(* Steps that move an address, from a strand to a queue or to a Lua state.   *)

\* What v has of them stays as it is.
LEMMA BalancedMove ==
    ASSUME Types, Types', NEW v \in Vm, NEW w \in Vm, AtOne(v, w), Local(v, w)' = Local(v, w),
           forgotten'[w] = forgotten[w], nsenders'[w] = nsenders[w]
    PROVE  Balanced(w)
  <1>1. Local(v, w) \in Nat
    BY LocalChange
  <1>2. nsenders[w] \in Int /\ forgotten[w] \in Nat
    BY DEF Types
  <1>3. PICK z \in Nat : z = 0
    OBVIOUS
  <1>4. /\ Local(v, w)' = Local(v, w) + z - z - z
        /\ forgotten'[w] = forgotten[w] + z
        /\ nsenders'[w] = nsenders[w] + (IF CanLock(w) THEN z - z ELSE 0)
        /\ z > 0 => Spawned(w)
    BY <1>1, <1>2, <1>3
  <1> QED
    BY <1>4, Balancing

\* The message that the strand of v takes.
TakesMessage(v, h) ==
    /\ h = Head(strand[v]) /\ h \in Handler /\ h.op = "deliver" /\ h.fiber \in Fiber /\ h.val \in Msg
    /\ strand[v] # <<>> /\ Referenced(v) /\ Referenced(VmOf[h.fiber])
    /\ Popped(strand, v) \in [Vm -> Seq(Handler)] /\ StrandsRefer(Popped(strand, v))
    /\ \A w \in Vm : w # v => Popped(strand, v)[w] = strand[w]
    /\ \A x : /\ OnWay(Popped(strand, v)[v], x) \in Nat
              /\ OnWay(strand[v], x) = OnWay(Popped(strand, v)[v], x) + (IF h.val = x THEN 1 ELSE 0)

\* It is the next handler, and its sender can be told.
LEMMA TakenMessage ==
    ASSUME Types, NEW v \in Vm, NextHandler(v, "deliver")
    PROVE  \E h : TakesMessage(v, h)
  <1>1. PICK h : h = Head(strand[v])
    OBVIOUS
  <1>2. /\ strand[v] \in Seq(Handler) /\ strand \in [Vm -> Seq(Handler)] /\ strand[v] # <<>>
        /\ h \in Handler /\ h \in Members(strand[v]) /\ h.op = "deliver"
    BY <1>1, NextTaken DEF Types
  <1>3. h.fiber \in Fiber /\ h.val \in Msg
    BY <1>2, HandlerFacts
  <1>4. StrandsRefer(strand)
    BY Refers
  <1>5. Referenced(v) /\ Referenced(VmOf[h.fiber])
    BY <1>2, <1>4 DEF StrandsRefer, OfSender
  <1>6. StrandsRefer(Popped(strand, v))
    BY <1>2, <1>4, PopRefers
  <1>7. /\ Popped(strand, v) \in [Vm -> Seq(Handler)] /\ Popped(strand, v)[v] = Tail(strand[v])
        /\ \A w \in Vm : w # v => Popped(strand, v)[w] = strand[w]
    BY <1>2, PoppedFacts
  <1>8. ASSUME NEW x
        PROVE  /\ OnWay(Popped(strand, v)[v], x) \in Nat
               /\ OnWay(strand[v], x) = OnWay(Popped(strand, v)[v], x) + (IF h.val = x THEN 1 ELSE 0)
    <2>1. OnWay(strand[v], x) = OnWay(Tail(strand[v]), x) + Brings(h, x)
      BY <1>1, <1>2, OnWayFacts
    <2>2. Tail(strand[v]) \in Seq(Handler)
      BY <1>2, HasTail
    <2>3. OnWay(Tail(strand[v]), x) \in Nat
      BY <2>2, PlacesFinite
    <2> QED
      BY <1>2, <1>7, <2>1, <2>3 DEF Brings
  <1> QED
    BY <1>1, <1>2, <1>3, <1>5, <1>6, <1>7, <1>8 DEF TakesMessage

\* A message goes from the strand to the queue, its address with it.
LEMMA CountDeliverToQueue ==
    ASSUME Types, Types', NEW v \in Vm, DeliverToQueue(v)
    PROVE  KeepsCount
  <1>1. PICK h : TakesMessage(v, h)
    BY TakenMessage DEF DeliverToQueue
  <1>2. PICK s : s = [fiber |-> h.fiber, msg |-> h.val]
    OBVIOUS
  <1>3. s \in Sender /\ s.fiber = h.fiber /\ s.msg = h.val
    BY <1>1, <1>2 DEF Sender, TakesMessage
  <1>4. /\ strand' = Popped(strand, v) /\ incoming' = [incoming EXCEPT ![v] = Append(@, s)]
        /\ UNCHANGED <<running, recvFiber, nsenders, forgotten, tx, after, destroyed>>
    BY <1>1, <1>2 DEF DeliverToQueue, TakesMessage, Pop, Popped, addressVars
  <1>5. incoming[v] \in Seq(Sender)
    BY DEF Types
  <1>6. /\ incoming'[v] = Append(incoming[v], s) /\ \A u \in Vm : u # v => incoming'[u] = incoming[u]
    BY <1>4 DEF Types
  <1>7. ASSUME NEW w \in Vm PROVE Balanced(w)
    <2>1. AtOne(v, w)
      BY <1>1, <1>4, <1>6 DEF AtOne, TakesMessage
    <2>2. InQueue(incoming'[v], w) = InQueue(incoming[v], w) + Carries(s, w)
          /\ InQueue(incoming[v], w) \in Nat
      BY <1>3, <1>5, <1>6, InQueueFacts, PlacesFinite
    <2>3. /\ OnWay(strand'[v], w) \in Nat
          /\ OnWay(strand[v], w) = OnWay(strand'[v], w) + (IF h.val = w THEN 1 ELSE 0)
      BY <1>1, <1>4 DEF TakesMessage
    <2>4. tx'[v][w] = tx[v][w] /\ tx[v][w] \in Nat
      BY <1>4 DEF Types
    <2>5. Local(v, w)' = Local(v, w)
      BY <1>3, <2>2, <2>3, <2>4 DEF Local, Carries
    <2> QED
      BY <1>4, <2>1, <2>5, BalancedMove
  <1>8. QueuesRefer(incoming')
    <2>1. QueuesRefer(incoming)
      BY Refers
    <2>2. \A x \in Members(incoming'[v]) : x \in Members(incoming[v]) \/ x = s
      BY <1>3, <1>5, <1>6, AppendFacts DEF Members
    <2> QED
      BY <1>1, <1>3, <1>6, <2>1, <2>2 DEF QueuesRefer, TakesMessage
  <1>9. Settled
    BY <1>1, <1>4, <1>8, Refers DEF Settled, TakesMessage
  <1>10. \A u \in Vm : destroyed[u] => destroyed'[u]
    BY <1>4
  <1> QED
    BY <1>7, <1>9, <1>10, StepKeepsCount

\* A message leaves its address with the Lua state of the receiver v.
Gains(v, msg) == tx' = [tx EXCEPT ![v] = Plus(@, CarriedBy(msg))]

\* One Lua state has one address more, or none.
LEMMA ArrivesAt ==
    ASSUME Types, NEW v \in Vm, NEW msg, Gains(v, msg)
    PROVE  /\ \A w \in Vm : tx[v][w] \in Nat /\ tx'[v][w] = tx[v][w] + (IF msg = w THEN 1 ELSE 0)
           /\ \A u \in Vm : u # v => tx'[u] = tx[u]
  <1>0. tx \in [Vm -> [Vm -> Nat]] /\ tx' = [tx EXCEPT ![v] = Plus(@, CarriedBy(msg))]
    BY DEF Types, Gains
  <1>1. PICK b : b = Plus(tx[v], CarriedBy(msg))
    OBVIOUS
  <1>2. \A w \in Vm : b[w] = tx[v][w] + (IF msg = w THEN 1 ELSE 0)
    BY <1>1 DEF Plus, CarriedBy
  <1>3. tx' = [tx EXCEPT ![v] = b]
    BY <1>0, <1>1
  <1>4. tx'[v] = b /\ \A u \in Vm : u # v => tx'[u] = tx[u]
    BY <1>0, <1>3
  <1> QED
    BY <1>0, <1>2, <1>4

\* A message goes to a receiver, whose Lua state gains the address.
LEMMA CountDeliverToReceiver ==
    ASSUME Inv, Types', NEW v \in Vm, DeliverToReceiver(v)
    PROVE  KeepsCount
  <1>0. Types
    BY DEF Inv
  <1>1. PICK h : TakesMessage(v, h)
    BY <1>0, TakenMessage DEF DeliverToReceiver
  <1>2. PICK r : r = recvFiber[v]
    OBVIOUS
  <1>3. VmOf[r] = v
    <2>1. PICK kind, home, word : Accounts(kind, home, word)
      BY DEF Inv
    <2>2. recvFiber[v] # Nil
      BY DEF DeliverToReceiver
    <2> QED
      BY <1>0, <1>2, <2>1, <2>2, Receiver
  <1>4. /\ strand' = Popped(strand, v) /\ tx' = [tx EXCEPT ![v] = Plus(@, CarriedBy(h.val))]
        /\ after' = [after EXCEPT ![v] = h.fiber] /\ recvFiber' = [recvFiber EXCEPT ![v] = Nil]
        /\ running' = [running EXCEPT ![v] = r]
        /\ UNCHANGED <<incoming, nsenders, forgotten, destroyed>>
    BY <1>1, <1>2, <1>3 DEF DeliverToReceiver, TakesMessage, FiberResume, Pop, Popped
  <1>5. ASSUME NEW w \in Vm PROVE Balanced(w)
    <2>1. /\ tx[v][w] \in Nat /\ tx'[v][w] = tx[v][w] + (IF h.val = w THEN 1 ELSE 0)
          /\ \A u \in Vm : u # v => tx'[u] = tx[u]
      <3>1. Gains(v, h.val)
        BY <1>4 DEF Gains
      <3> QED
        BY <1>0, <3>1, ArrivesAt
    <2>2. AtOne(v, w)
      BY <1>1, <1>4, <2>1 DEF AtOne, TakesMessage
    <2>3. /\ OnWay(strand'[v], w) \in Nat
          /\ OnWay(strand[v], w) = OnWay(strand'[v], w) + (IF h.val = w THEN 1 ELSE 0)
      BY <1>1, <1>4 DEF TakesMessage
    <2>4. InQueue(incoming'[v], w) = InQueue(incoming[v], w) /\ InQueue(incoming[v], w) \in Nat
      <3>1. incoming[v] \in Seq(Sender)
        BY <1>0 DEF Types
      <3> QED
        BY <1>4, <3>1, PlacesFinite
    <2>5. Local(v, w)' = Local(v, w)
      BY <2>1, <2>3, <2>4 DEF Local
    <2> QED
      BY <1>0, <1>4, <2>2, <2>5, BalancedMove
  <1>6. /\ QueuesRefer(incoming) /\ AfterRefers(after)
        /\ FibersRefer(running) /\ FibersRefer(recvFiber)
    BY <1>0, Refers
  <1>7. AfterRefers(after')
    BY <1>0, <1>1, <1>4, <1>6, SMTT(30) DEF AfterRefers, TakesMessage, Types
  <1>8. FibersRefer(running') /\ FibersRefer(recvFiber')
    BY <1>0, <1>1, <1>4, <1>6, ZenonT(60) DEF FibersRefer, TakesMessage, Types, CoreTypeOK
  <1>9. Settled
    BY <1>1, <1>4, <1>6, <1>7, <1>8 DEF Settled, TakesMessage
  <1>10. \A u \in Vm : destroyed[u] => destroyed'[u]
    BY <1>4
  <1> QED
    BY <1>5, <1>9, <1>10, StepKeepsCount

\* chan_receive() takes a message from the queue, and its address.
LEMMA CountReceiveQueued ==
    ASSUME Types, Types', NEW f \in Fiber, ReceiveQueued(f)
    PROVE  KeepsCount
  <1>1. PICK v \in Vm : v = VmOf[f] /\ Referenced(v)
    BY CallerRefers DEF ReceiveQueued, HasInbox
  <1>2. PICK q \in Seq(Sender) : q = incoming[v]
    BY DEF Types
  <1>3. PICK s : s = Head(q)
    OBVIOUS
  <1>4. q # <<>> /\ s \in Sender /\ s.fiber \in Fiber /\ s \in Members(q)
    <2>1. q # <<>>
      BY <1>1, <1>2 DEF ReceiveQueued
    <2>2. s \in Sender /\ s \in Members(q)
      BY <1>3, <2>1 DEF Members
    <2> QED
      BY <2>1, <2>2 DEF Sender
  <1>5. PICK u \in Vm : u = VmOf[s.fiber]
    BY <1>4, VmContextAssumption
  <1>6. PICK h : h = Resume(s.fiber, "sent")
    OBVIOUS
  <1>7. h \in Handler /\ h.op = "resume"
    BY <1>4, <1>6, Made, Shapes DEF Result
  <1>8. /\ strand' = Posted(strand, u, h) /\ incoming' = [incoming EXCEPT ![v] = Tail(@)]
        /\ tx' = [tx EXCEPT ![v] = Plus(@, CarriedBy(s.msg))]
        /\ UNCHANGED <<running, recvFiber, nsenders, forgotten, after, destroyed>>
    BY <1>1, <1>2, <1>3, <1>5, <1>6 DEF ReceiveQueued, Post, Posted, Return
  <1>9. strand \in [Vm -> Seq(Handler)]
    BY DEF Types
  <1>10. Grown(strand, strand', {s.fiber})
    BY <1>4, <1>5, <1>7, <1>8, <1>9, GrownPost
  <1>11. incoming'[v] = Tail(q) /\ \A x \in Vm : x # v => incoming'[x] = incoming[x]
    BY <1>2, <1>8 DEF Types
  <1>12. ASSUME NEW w \in Vm PROVE Balanced(w)
    <2>1. /\ tx[v][w] \in Nat /\ tx'[v][w] = tx[v][w] + (IF s.msg = w THEN 1 ELSE 0)
          /\ \A x \in Vm : x # v => tx'[x] = tx[x]
      <3>1. Gains(v, s.msg)
        BY <1>8 DEF Gains
      <3> QED
        BY <3>1, ArrivesAt
    <2>2. \A x \in Vm : DeliverAt(strand'[x], w) = DeliverAt(strand[x], w)
      BY <1>10 DEF Grown
    <2>3. AtOne(v, w)
      BY <1>11, <2>1, <2>2 DEF AtOne
    <2>4. OnWay(strand'[v], w) = OnWay(strand[v], w) /\ OnWay(strand[v], w) \in Nat
      <3>1. strand[v] \in Seq(Handler)
        BY <1>9
      <3>2. OnWay(strand[v], w) \in Nat
        BY <3>1, PlacesFinite
      <3> QED
        BY <2>2, <3>2 DEF OnWay
    <2>5. InQueue(q, w) = InQueue(Tail(q), w) + Carries(s, w)
      BY <1>3, <1>4, InQueueFacts
    <2>6. InQueue(Tail(q), w) \in Nat
      <3>1. Tail(q) \in Seq(Sender)
        BY <1>4
      <3> QED
        BY <3>1, PlacesFinite
    <2>7. Local(v, w)' = Local(v, w)
      BY <1>2, <1>11, <2>1, <2>4, <2>5, <2>6, SMTT(30) DEF Local, Carries
    <2> QED
      BY <1>8, <2>3, <2>7, BalancedMove
  <1>13. /\ StrandsRefer(strand) /\ QueuesRefer(incoming) /\ AfterRefers(after)
         /\ FibersRefer(running) /\ FibersRefer(recvFiber)
    BY Refers
  <1>14. QueuesRefer(incoming')
    <2>1. \A x \in Members(incoming'[v]) : x \in Members(incoming[v])
      BY <1>2, <1>4, <1>11, TailFacts DEF Members
    <2> QED
      BY <1>11, <1>13, <2>1 DEF QueuesRefer
  <1>15. StrandsRefer(strand')
    <2>1. \A x \in {s.fiber} : Referenced(VmOf[x])
      BY <1>2, <1>4, <1>13 DEF QueuesRefer
    <2> QED
      BY <1>10, <1>13, <2>1, GrownRefers
  <1>16. Settled
    BY <1>8, <1>13, <1>14, <1>15 DEF Settled
  <1>17. \A x \in Vm : destroyed[x] => destroyed'[x]
    BY <1>8
  <1> QED
    BY <1>12, <1>16, <1>17, StepKeepsCount

-----------------------------------------------------------------------------
(* Steps that destroy addresses.                                             *)

\* d addresses of w are uncounted and o are overwritten, at v.
LEMMA BalancedDrop ==
    ASSUME Types, Types', NEW v \in Vm, NEW w \in Vm, AtOne(v, w), NEW d \in Nat, NEW o \in Nat,
           Local(v, w)' = Local(v, w) - d - o, forgotten'[w] = forgotten[w] + o,
           nsenders'[w] = nsenders[w] - (IF CanLock(w) THEN d ELSE 0)
    PROVE  Balanced(w)
  <1>1. Local(v, w) \in Nat
    BY LocalChange
  <1>2. nsenders[w] \in Int
    BY DEF Types
  <1>3. PICK z \in Nat : z = 0
    OBVIOUS
  <1>4. /\ Local(v, w)' = Local(v, w) + z - d - o
        /\ nsenders'[w] = nsenders[w] + (IF CanLock(w) THEN z - d ELSE 0)
        /\ z > 0 => Spawned(w)
    BY <1>1, <1>2, <1>3
  <1> QED
    BY <1>4, Balancing

\* The VMs of the fibers of fs are referred to.
Known(fs) == \A f \in fs : Referenced(VmOf[f])

\* v gives up d[w] of the addresses of w it holds, and its queue.
EmptiesAt(v, d) ==
    /\ incoming'[v] = <<>> /\ forgotten' = forgotten
    /\ \A u \in Vm : u # v => incoming'[u] = incoming[u] /\ tx'[u] = tx[u]
    /\ \A w \in Vm :
          /\ d[w] \in Nat /\ tx'[v][w] = tx[v][w] - d[w]
          /\ nsenders'[w] = nsenders[w] - (IF CanLock(w) THEN InQueue(incoming[v], w) + d[w] ELSE 0)

\* An empty queue has no address.
LEMMA NoneInQueue == \A x : InQueue(<<>>, x) = 0
  <1> SUFFICES ASSUME NEW x PROVE InQueue(<<>>, x) = 0
    OBVIOUS
  <1>1. SentAt(<<>>, x) = {}
    BY DEF SentAt, SentUpTo
  <1> QED
    BY <1>1, FS_EmptySet DEF InQueue

\* All addresses that go are uncounted.
LEMMA EmptyCount ==
    ASSUME Types, Types', NEW v \in Vm, NEW d, EmptiesAt(v, d), NEW fs,
           Grown(strand, strand', fs), Known(fs), RestSettled, StaysDestroyed
    PROVE  KeepsCount
  <1>1. ASSUME NEW w \in Vm PROVE Balanced(w)
    <2>1. \A x \in Vm : DeliverAt(strand'[x], w) = DeliverAt(strand[x], w)
      BY DEF Grown
    <2>2. AtOne(v, w)
      BY <2>1 DEF AtOne, EmptiesAt
    <2>3. OnWay(strand'[v], w) = OnWay(strand[v], w)
      BY <2>1 DEF OnWay
    <2>4. InQueue(incoming'[v], w) = 0
      BY NoneInQueue DEF EmptiesAt
    <2>5. OnWay(strand[v], w) \in Nat /\ InQueue(incoming[v], w) \in Nat
      <3>1. strand[v] \in Seq(Handler) /\ incoming[v] \in Seq(Sender)
        BY DEF Types
      <3> QED
        BY <3>1, PlacesFinite
    <2>6. tx[v][w] \in Nat /\ tx'[v][w] = tx[v][w] - d[w] /\ d[w] \in Nat
      BY DEF Types, EmptiesAt
    <2>7. PICK n, o \in Nat : n = InQueue(incoming[v], w) + d[w] /\ o = 0
      BY <2>5, <2>6
    <2>8. Local(v, w)' = Local(v, w) - n - o
      BY <2>3, <2>4, <2>5, <2>6, <2>7 DEF Local
    <2>9. /\ forgotten'[w] = forgotten[w] + o
          /\ nsenders'[w] = nsenders[w] - (IF CanLock(w) THEN n ELSE 0)
      BY <2>7 DEF EmptiesAt, Types
    <2> QED
      BY <2>2, <2>8, <2>9, BalancedDrop
  <1>2. StrandsRefer(strand) /\ QueuesRefer(incoming)
    BY Refers
  <1>3. StrandsRefer(strand')
    BY <1>2, GrownRefers DEF Known
  <1>4. QueuesRefer(incoming')
    <2>1. Members(<<>>) = {}
      BY DEF Members
    <2>2. \A u \in Vm : incoming'[u] = incoming[u] \/ incoming'[u] = <<>>
      BY DEF EmptiesAt
    <2> QED
      BY <1>2, <2>1, <2>2 DEF QueuesRefer
  <1>5. Settled
    BY <1>3, <1>4 DEF Settled, RestSettled
  <1> QED
    BY <1>1, <1>5, StepKeepsCount DEF StaysDestroyed

\* The senders that wait in a queue belong to VMs that are referred to.
LEMMA QueueKnown ==
    ASSUME Types, NEW v \in Vm
    PROVE  Known(Resumed(incoming[v]))
  <1>1. QueuesRefer(incoming)
    BY Refers
  <1> QED
    BY <1>1 DEF Known, QueuesRefer, Resumed, Members

\* The inbox of v is shut, after the fibers of gs were woken.
LEMMA ShutCount ==
    ASSUME Types, Types', NEW v \in Vm, NEW st \in State, NEW gs, Grown(strand, st.strand, gs), Known(gs),
           st.nsenders = nsenders, ShutInbox(v, ClearIncoming(v, st)), UNCHANGED <<tx, forgotten>>,
           RestSettled, StaysDestroyed
    PROVE  KeepsCount
  <1>1. incoming[v] \in Seq(Sender) /\ incoming \in [Vm -> Seq(Sender)]
    BY DEF Types
  <1>2. PICK st1 : st1 = ClearIncoming(v, st)
    OBVIOUS
  <1>3. PICK fs : fs = Resumed(incoming[v])
    OBVIOUS
  <1>4. Destroys(st, st1, fs) /\ Uncounts(v, st, st1)
    BY <1>1, <1>2, <1>3, ClearCount
  <1>5. /\ strand' = st1.strand /\ nsenders' = st1.nsenders
        /\ incoming' = [incoming EXCEPT ![v] = <<>>]
    BY <1>2 DEF ShutInbox, Becomes
  <1>6. Grown(strand, strand', gs \cup fs)
    <2>1. Grown(st.strand, st1.strand, fs)
      BY <1>4 DEF Destroys
    <2> QED
      BY <1>5, <2>1, GrownTrans
  <1>7. Known(gs \cup fs)
    <2>1. Known(fs)
      BY <1>3, QueueKnown
    <2> QED
      BY <2>1 DEF Known
  <1>8. PICK d : d = [w \in Vm |-> 0]
    OBVIOUS
  <1>9. EmptiesAt(v, d)
    <2>1. incoming'[v] = <<>> /\ \A u \in Vm : u # v => incoming'[u] = incoming[u] /\ tx'[u] = tx[u]
      BY <1>1, <1>5
    <2>2. ASSUME NEW w \in Vm
          PROVE  /\ d[w] \in Nat /\ tx'[v][w] = tx[v][w] - d[w]
                 /\ nsenders'[w] = nsenders[w] - (IF CanLock(w) THEN InQueue(incoming[v], w) + d[w] ELSE 0)
      <3>1. d[w] = 0 /\ tx[v][w] \in Nat
        BY <1>8 DEF Types
      <3>2. InQueue(incoming[v], w) \in Nat
        BY <1>1, PlacesFinite
      <3>3. nsenders'[w] = nsenders[w] - (IF CanLock(w) THEN InQueue(incoming[v], w) ELSE 0)
        BY <1>4, <1>5 DEF Uncounts, InQueue
      <3> QED
        BY <3>1, <3>2, <3>3
    <2> QED
      BY <2>1, <2>2 DEF EmptiesAt
  <1> QED
    BY <1>6, <1>7, <1>9, EmptyCount

\* inbox_gc() uncounts the addresses in the queue.
LEMMA CountInboxGc ==
    ASSUME Types, Types', NEW f \in Fiber, InboxGc(f)
    PROVE  KeepsCount
  <1>1. PICK v \in Vm : v = VmOf[f]
    BY VmContextAssumption
  <1>2. /\ UNCHANGED <<running, recvFiber, forgotten, tx, after, destroyed>>
        /\ \/ ShutInbox(v, ClearIncoming(v, Now))
           \/ UNCHANGED <<incoming, nsenders, strand>>
    BY <1>1 DEF InboxGc
  <1>3. CASE UNCHANGED <<incoming, nsenders, strand>>
    BY <1>2, <1>3, CountAnswer
  <1>4. CASE ShutInbox(v, ClearIncoming(v, Now))
    <2>1. PICK st \in State : st = Now /\ st.strand = strand /\ st.nsenders = nsenders
      BY NowFacts
    <2>2. PICK gs : gs = {}
      OBVIOUS
    <2>3. Grown(strand, st.strand, gs) /\ Known(gs)
      BY <2>1, <2>2, GrownSame DEF Known, Types
    <2>4. RestSettled
      BY <1>2, Refers DEF RestSettled
    <2>5. StaysDestroyed
      BY <1>2 DEF StaysDestroyed
    <2>6. ShutInbox(v, ClearIncoming(v, st)) /\ UNCHANGED <<tx, forgotten>>
      BY <1>2, <1>4, <2>1
    <2> QED
      BY <2>1, <2>3, <2>4, <2>5, <2>6, ShutCount
  <1> QED
    BY <1>2, <1>3, <1>4

\* So does the end of a main fiber that did not import the inbox,
LEMMA CountEnd ==
    ASSUME Types, Types', NEW f \in Fiber, End(f)
    PROVE  KeepsCount
  <1>1. PICK v \in Vm : v = VmOf[f] /\ Referenced(v)
    BY CallerRefers DEF End
  <1>2. /\ UNCHANGED <<recvFiber, forgotten, tx, after, destroyed>>
        /\ \/ ShutInbox(v, ClearIncoming(v, Now))
           \/ UNCHANGED <<incoming, nsenders, strand>>
    BY <1>1 DEF End
  <1>3. \A u \in Vm : u # v => running'[u] = running[u] /\ recvFiber'[u] = recvFiber[u]
    BY <1>1, <1>2 DEF End, Suspend, Types, CoreTypeOK
  <1>4. RestSettled
    BY <1>1, <1>2, <1>3, RestRefers
  <1>5. StaysDestroyed
    BY <1>2 DEF StaysDestroyed
  <1>6. CASE UNCHANGED <<incoming, nsenders, strand>>
    BY <1>2, <1>4, <1>5, <1>6, StillCount
  <1>7. CASE ShutInbox(v, ClearIncoming(v, Now))
    <2>1. PICK st \in State : st = Now /\ st.strand = strand /\ st.nsenders = nsenders
      BY NowFacts
    <2>2. PICK gs : gs = {}
      OBVIOUS
    <2>3. Grown(strand, st.strand, gs) /\ Known(gs)
      BY <2>1, <2>2, GrownSame DEF Known, Types
    <2>4. ShutInbox(v, ClearIncoming(v, st)) /\ UNCHANGED <<tx, forgotten>>
      BY <1>2, <1>7, <2>1
    <2> QED
      BY <1>4, <1>5, <2>1, <2>3, <2>4, ShutCount
  <1> QED
    BY <1>2, <1>6, <1>7

\* and inbox_close().
LEMMA CountInboxClose ==
    ASSUME Inv, Types', NEW f \in Fiber, InboxClose(f)
    PROVE  KeepsCount
  <1>0. Types
    BY DEF Inv
  <1>1. PICK v \in Vm : v = VmOf[f] /\ Referenced(v)
    BY CallerRefers DEF InboxClose, HasInbox
  <1>2. PICK st : st = IF recvFiber[v] = Nil THEN Now
                       ELSE PostIn(Now, v, Resume(recvFiber[v], "channel_closed"))
    OBVIOUS
  <1>3. /\ recvFiber' = [recvFiber EXCEPT ![v] = Nil] /\ ShutInbox(v, ClearIncoming(v, st))
        /\ UNCHANGED <<running, forgotten, tx, after, destroyed>>
    BY <1>1, <1>2 DEF InboxClose, Return
  <1>4. \A u \in Vm : u # v => running'[u] = running[u] /\ recvFiber'[u] = recvFiber[u]
    BY <1>0, <1>3 DEF Types
  <1>5. RestSettled
    BY <1>0, <1>1, <1>3, <1>4, RestRefers
  <1>6. StaysDestroyed
    BY <1>3 DEF StaysDestroyed
  <1>7. Now \in State /\ Now.strand = strand /\ Now.nsenders = nsenders
        /\ strand \in [Vm -> Seq(Handler)]
    BY <1>0, NowFacts DEF Types
  <1>8. PICK gs : /\ st \in State /\ st.nsenders = nsenders
                  /\ Grown(strand, st.strand, gs) /\ Known(gs)
    <2>1. CASE recvFiber[v] = Nil
      <3>1. st = Now /\ Known({})
        BY <1>2, <2>1 DEF Known
      <3>2. Grown(strand, strand, {})
        BY <1>7, GrownSame
      <3> QED
        BY <1>7, <3>1, <3>2
    <2>2. CASE recvFiber[v] # Nil
      <3>1. PICK r : r = recvFiber[v]
        OBVIOUS
      <3>2. r \in Fiber /\ VmOf[r] = v
        <4>1. PICK kind, home, word : Accounts(kind, home, word)
          BY DEF Inv
        <4> QED
          BY <1>0, <2>2, <3>1, <4>1, Receiver
      <3>3. PICK h : h = Resume(r, "channel_closed")
        OBVIOUS
      <3>4. h \in Handler /\ h.op = "resume"
        BY <3>2, <3>3, Made, Shapes DEF Result
      <3>5. st = PostIn(Now, v, h)
        BY <1>2, <2>2, <3>1, <3>3
      <3>6. st \in State /\ st.strand = Posted(strand, v, h) /\ st.nsenders = nsenders
        BY <1>7, <3>4, <3>5, PostInFacts
      <3>7. Grown(strand, Posted(strand, v, h), {r})
        BY <1>7, <3>2, <3>4, GrownPost
      <3>8. Known({r})
        BY <1>1, <3>2 DEF Known
      <3> QED
        BY <3>6, <3>7, <3>8
    <2> QED
      BY <2>1, <2>2
  <1>9. UNCHANGED <<tx, forgotten>>
    BY <1>3
  <1> QED
    BY <1>0, <1>3, <1>5, <1>6, <1>8, <1>9, ShutCount

\* close() uncounts the addresses that v held and those in its queue.
LEMMA ClosedCount ==
    ASSUME Types, NEW v \in Vm, NEW st \in ClosedTo(v)
    PROVE  /\ st \in State /\ Grown(strand, st.strand, Resumed(incoming[v]))
           /\ \A w \in Vm : st.nsenders[w] =
                 nsenders[w] - (IF CanLock(w) THEN InQueue(incoming[v], w) + tx[v][w] ELSE 0)
  <1>1. PICK bag \in [Vm -> Int] : bag = tx[v]
    BY DEF Types
  <1>2. PICK fs : fs = Resumed(incoming[v])
    OBVIOUS
  <1>3. PICK now \in State : now = Now /\ now.strand = strand /\ now.nsenders = nsenders
    BY NowFacts
  <1>4. strand \in [Vm -> Seq(Handler)] /\ fs = {} \cup fs /\ fs = fs \cup {}
        /\ incoming[v] \in Seq(Sender)
    BY DEF Types
  <1>5. \A w \in Vm : /\ InQueue(incoming[v], w) \in Nat /\ tx[v][w] \in Nat /\ nsenders[w] \in Int
                      /\ bag[w] = tx[v][w]
    BY <1>1, <1>4, PlacesFinite DEF Types
  <1>6. CASE st = Closed(v)
    <2>1. PICK st0 : st0 = Drop(now, bag)
      OBVIOUS
    <2>2. /\ st0 \in State /\ Told(strand, st0.strand)
          /\ \A w \in Vm : st0.nsenders[w] =
                IF CanLock(w) THEN nsenders[w] - bag[w] ELSE nsenders[w]
      BY <1>3, <2>1, DropFacts
    <2>3. Grown(strand, st0.strand, {})
      <3>1. PICK s1 : s1 = st0.strand
        OBVIOUS
      <3>2. Grown(strand, s1, {})
        BY <1>4, <2>2, <3>1, GrownTold
      <3> QED
        BY <3>1, <3>2
    <2>4. st = ClearIncoming(v, st0)
      BY <1>1, <1>3, <1>6, <2>1 DEF Closed
    <2>5. Destroys(st0, st, fs) /\ Uncounts(v, st0, st)
      BY <1>2, <1>4, <2>2, <2>4, ClearCount
    <2>6. Grown(strand, st.strand, {} \cup fs)
      BY <2>3, <2>5, GrownTrans DEF Destroys
    <2>7. ASSUME NEW w \in Vm
          PROVE  st.nsenders[w] =
                    nsenders[w] - (IF CanLock(w) THEN InQueue(incoming[v], w) + tx[v][w] ELSE 0)
      <3>1. st.nsenders[w] = st0.nsenders[w] - (IF CanLock(w) THEN InQueue(incoming[v], w) ELSE 0)
        BY <2>5 DEF Uncounts, InQueue
      <3>2. st0.nsenders[w] = IF CanLock(w) THEN nsenders[w] - bag[w] ELSE nsenders[w]
        BY <2>2
      <3> QED
        BY <1>5, <3>1, <3>2
    <2> QED
      BY <1>2, <1>4, <2>5, <2>6, <2>7 DEF Destroys
  <1>7. CASE st = Drop(ClearIncoming(v, Now), tx[v])
    <2>1. PICK st0 : st0 = ClearIncoming(v, now)
      OBVIOUS
    <2>2. Destroys(now, st0, fs) /\ Uncounts(v, now, st0)
      BY <1>2, <1>4, <2>1, ClearCount
    <2>3. st0 \in State /\ Grown(strand, st0.strand, fs)
      BY <1>3, <2>2 DEF Destroys
    <2>4. st = Drop(st0, bag)
      BY <1>1, <1>3, <1>7, <2>1
    <2>5. /\ st \in State /\ Told(st0.strand, st.strand)
          /\ \A w \in Vm : st.nsenders[w] =
                IF CanLock(w) THEN st0.nsenders[w] - bag[w] ELSE st0.nsenders[w]
      BY <2>3, <2>4, DropFacts
    <2>6. PICK s0, s1 : s0 = st0.strand /\ s1 = st.strand
      OBVIOUS
    <2>7. s0 \in [Vm -> Seq(Handler)]
      BY <2>3, <2>6, StateFacts
    <2>8. Grown(s0, s1, {})
      BY <2>5, <2>6, <2>7, GrownTold
    <2>9. Grown(strand, s1, fs \cup {})
      BY <2>3, <2>6, <2>8, GrownTrans
    <2>10. ASSUME NEW w \in Vm
           PROVE  st.nsenders[w] =
                     nsenders[w] - (IF CanLock(w) THEN InQueue(incoming[v], w) + tx[v][w] ELSE 0)
      <3>1. st0.nsenders[w] = nsenders[w] - (IF CanLock(w) THEN InQueue(incoming[v], w) ELSE 0)
        BY <1>3, <2>2 DEF Uncounts, InQueue
      <3>2. st.nsenders[w] = IF CanLock(w) THEN st0.nsenders[w] - bag[w] ELSE st0.nsenders[w]
        BY <2>5
      <3> QED
        BY <1>5, <3>1, <3>2
    <2> QED
      BY <1>2, <1>4, <2>5, <2>6, <2>9, <2>10
  <1> QED
    BY <1>6, <1>7 DEF ClosedTo

\* close() uncounts the addresses of the Lua state and those in the queue.
LEMMA CountClose ==
    ASSUME Types, Types', NEW v \in Vm, NEW st \in ClosedTo(v), Close(v, st), StaysDestroyed
    PROVE  KeepsCount
  <1>1. PICK fs : fs = Resumed(incoming[v])
    OBVIOUS
  <1>2. /\ Grown(strand, st.strand, fs)
        /\ \A w \in Vm : st.nsenders[w] =
              nsenders[w] - (IF CanLock(w) THEN InQueue(incoming[v], w) + tx[v][w] ELSE 0)
    BY <1>1, ClosedCount
  <1>3. /\ strand' = st.strand /\ nsenders' = st.nsenders /\ UNCHANGED <<forgotten, after>>
        /\ running' = [running EXCEPT ![v] = Nil] /\ recvFiber' = [recvFiber EXCEPT ![v] = Nil]
        /\ tx' = [tx EXCEPT ![v] = NoAddress] /\ incoming' = [incoming EXCEPT ![v] = <<>>]
    BY DEF Close, CloseVm, ShutInbox, Becomes
  <1>4. /\ incoming'[v] = <<>> /\ tx'[v] = NoAddress
        /\ \A u \in Vm : u # v => incoming'[u] = incoming[u] /\ tx'[u] = tx[u]
        /\ \A u \in Vm : /\ running'[u] = running[u] \/ running'[u] = Nil
                         /\ recvFiber'[u] = recvFiber[u] \/ recvFiber'[u] = Nil
    BY <1>3 DEF Types, CoreTypeOK
  <1>5. PICK d : d = tx[v]
    OBVIOUS
  <1>6. EmptiesAt(v, d)
    <2>1. \A w \in Vm : d[w] \in Nat /\ tx'[v][w] = tx[v][w] - d[w]
      BY <1>4, <1>5 DEF Types, NoAddress
    <2> QED
      BY <1>2, <1>3, <1>4, <1>5, <2>1 DEF EmptiesAt
  <1>7. RestSettled
    BY <1>3, <1>4, Refers DEF RestSettled, FibersRefer
  <1>8. Grown(strand, strand', fs) /\ Known(fs)
    BY <1>1, <1>2, <1>3, QueueKnown
  <1> QED
    BY <1>6, <1>7, <1>8, EmptyCount

\* An exit request closes the VM.
LEMMA CountTerminate ==
    ASSUME Types, Types', NEW f \in Fiber, Terminate(f)
    PROVE  KeepsCount
  <1>1. PICK v \in Vm : v = VmOf[f]
    BY VmContextAssumption
  <1>2. Closed(v) \in ClosedTo(v) /\ Close(v, Closed(v)) /\ destroyed' = destroyed
    BY <1>1 DEF ClosedTo, Terminate
  <1>3. StaysDestroyed
    BY <1>2 DEF StaysDestroyed
  <1> QED
    BY <1>2, <1>3, CountClose

\* So does an error of the main fiber,
LEMMA CountMainFails ==
    ASSUME Types, Types', NEW f \in Fiber, MainFails(f)
    PROVE  KeepsCount
  <1>1. PICK v \in Vm : v = VmOf[f]
    BY VmContextAssumption
  <1>2. PICK st : st = IF imported[v] THEN Closed(v) ELSE Drop(ClearIncoming(v, Now), tx[v])
    OBVIOUS
  <1>3. st \in ClosedTo(v) /\ Close(v, st) /\ destroyed' = destroyed
    BY <1>1, <1>2 DEF ClosedTo, MainFails
  <1>4. StaysDestroyed
    BY <1>3 DEF StaysDestroyed
  <1> QED
    BY <1>3, <1>4, CountClose

\* and the end of the last shared_ptr.
LEMMA CountDestroy ==
    ASSUME Types, Types', NEW v \in Vm, Destroy(v)
    PROVE  KeepsCount
  <1>1. StaysDestroyed
    BY DEF StaysDestroyed, Destroy, Types
  <1>2. CASE valid[v]
    <2>1. Closed(v) \in ClosedTo(v) /\ Close(v, Closed(v))
      BY <1>2 DEF ClosedTo, Destroy
    <2> QED
      BY <1>1, <2>1, CountClose
  <1>3. CASE ~valid[v]
    <2>1. UNCHANGED <<strand, running, incoming, recvFiber, nsenders, forgotten, tx, after>>
      BY <1>3 DEF Destroy, inboxVars, addressVars
    <2>2. RestSettled
      BY <2>1, Refers DEF RestSettled
    <2> QED
      BY <1>1, <2>1, <2>2, StillCount
  <1> QED
    BY <1>2, <1>3

\* tx_chan_close() uncounts one address.
LEMMA CountDropAddress ==
    ASSUME Types, Types', NEW f \in Fiber, NEW x \in Vm, DropAddress(f, x)
    PROVE  KeepsCount
  <1>1. PICK v \in Vm : v = VmOf[f]
    BY VmContextAssumption
  <1>2. PICK bag \in [Vm -> Int] : bag = CarriedBy(x)
    BY CarriedFacts
  <1>3. PICK now \in State : now = Now /\ now.strand = strand /\ now.nsenders = nsenders
    BY NowFacts
  <1>4. PICK st : st = Drop(now, bag)
    OBVIOUS
  <1>5. /\ st \in State /\ Told(strand, st.strand)
        /\ \A w \in Vm : st.nsenders[w] = IF CanLock(w) THEN nsenders[w] - bag[w] ELSE nsenders[w]
    BY <1>3, <1>4, DropFacts
  <1>6. /\ strand' = st.strand /\ nsenders' = st.nsenders
        /\ UNCHANGED <<running, incoming, recvFiber, forgotten, after, destroyed>>
    BY <1>2, <1>3, <1>4 DEF DropAddress, Becomes, Return, inboxVars
  <1>7. /\ tx'[v][x] = tx[v][x] - 1
        /\ \A u, w \in Vm : <<u, w>> # <<v, x>> => tx'[u][w] = tx[u][w]
    <2>1. tx' = [tx EXCEPT ![v][x] = @ - 1] /\ tx \in [Vm -> [Vm -> Nat]]
      BY <1>1 DEF DropAddress, Types
    <2> QED
      BY <2>1
  <1>8. strand \in [Vm -> Seq(Handler)]
    BY DEF Types
  <1>9. Grown(strand, strand', {})
    BY <1>5, <1>6, <1>8, GrownTold
  <1>10. ASSUME NEW w \in Vm PROVE Balanced(w)
    <2>1. \A u \in Vm : DeliverAt(strand'[u], w) = DeliverAt(strand[u], w)
      BY <1>9 DEF Grown
    <2>2. \A u \in Vm : u # v => tx'[u][w] = tx[u][w]
      BY <1>7
    <2>3. AtOne(v, w)
      BY <1>6, <2>1, <2>2 DEF AtOne
    <2>4. PICK d, o \in Nat : d = (IF x = w THEN 1 ELSE 0) /\ o = 0
      OBVIOUS
    <2>5. tx'[v][w] = tx[v][w] - d /\ tx[v][w] \in Nat
      <3>1. tx[v][w] \in Nat
        BY DEF Types
      <3>2. CASE x = w
        BY <1>7, <2>4, <3>1, <3>2
      <3>3. CASE x # w
        BY <1>7, <2>4, <3>1, <3>3
      <3> QED
        BY <3>1, <3>2, <3>3
    <2>6. /\ OnWay(strand'[v], w) = OnWay(strand[v], w)
          /\ InQueue(incoming'[v], w) = InQueue(incoming[v], w)
      BY <1>6, <2>1 DEF OnWay
    <2>7. OnWay(strand[v], w) \in Nat /\ InQueue(incoming[v], w) \in Nat
      <3>1. strand[v] \in Seq(Handler) /\ incoming[v] \in Seq(Sender)
        BY DEF Types
      <3> QED
        BY <3>1, PlacesFinite
    <2>8. Local(v, w)' = Local(v, w) - d - o
      BY <2>4, <2>5, <2>6, <2>7 DEF Local
    <2>9. forgotten'[w] = forgotten[w] + o
      BY <1>6, <2>4 DEF Types
    <2>10. nsenders'[w] = nsenders[w] - (IF CanLock(w) THEN d ELSE 0)
      <3>1. bag[w] = d /\ nsenders[w] \in Int
        BY <1>2, <2>4, CarriedFacts DEF Types
      <3> QED
        BY <1>5, <1>6, <2>4, <3>1
    <2> QED
      BY <2>3, <2>8, <2>9, <2>10, BalancedDrop
  <1>11. /\ StrandsRefer(strand) /\ QueuesRefer(incoming) /\ AfterRefers(after)
         /\ FibersRefer(running) /\ FibersRefer(recvFiber)
    BY Refers
  <1>12. StrandsRefer(strand')
    <2>1. \A g \in {} : Referenced(VmOf[g])
      OBVIOUS
    <2> QED
      BY <1>9, <1>11, <2>1, GrownRefers
  <1>13. Settled
    BY <1>6, <1>11, <1>12 DEF Settled
  <1>14. \A u \in Vm : destroyed[u] => destroyed'[u]
    BY <1>6
  <1> QED
    BY <1>10, <1>13, <1>14, StepKeepsCount

\* What is destroyed after the strand of v took its next handler.
LEMMA PoppedState ==
    ASSUME Types, NEW v \in Vm, Popped(strand, v) \in [Vm -> Seq(Handler)]
    PROVE  \E st \in State : /\ st = [Now EXCEPT !.strand = Pop(v)]
                             /\ st.strand = Popped(strand, v) /\ st.nsenders = nsenders
  <1>1. PICK s : s = Popped(strand, v)
    OBVIOUS
  <1>2. Pop(v) = s
    BY <1>1 DEF Pop, Popped
  <1>3. nsenders \in [Vm -> Int] /\ s \in [Vm -> Seq(Handler)]
    BY <1>1 DEF Types
  <1>4. [Now EXCEPT !.strand = s] = [strand |-> s, nsenders |-> nsenders]
    BY DEF Now
  <1>5. PICK st : st = [strand |-> s, nsenders |-> nsenders]
    OBVIOUS
  <1>6. st \in State /\ st.strand = s /\ st.nsenders = nsenders
    BY <1>3, <1>5 DEF State
  <1> QED
    BY <1>1, <1>2, <1>4, <1>5, <1>6

\* A message to a closed inbox is destroyed, and its address uncounted.
LEMMA CountDeliverToClosed ==
    ASSUME Types, Types', NEW v \in Vm, DeliverToClosed(v)
    PROVE  KeepsCount
  <1>1. PICK h : TakesMessage(v, h)
    BY TakenMessage DEF DeliverToClosed
  <1>2. PICK s : s = [fiber |-> h.fiber, msg |-> h.val]
    OBVIOUS
  <1>3. s \in Sender /\ s.fiber = h.fiber /\ s.msg = h.val
    BY <1>1, <1>2 DEF Sender, TakesMessage
  <1>4. PICK p : p = Popped(strand, v)
    OBVIOUS
  <1>5. /\ p \in [Vm -> Seq(Handler)] /\ StrandsRefer(p) /\ Referenced(VmOf[s.fiber])
        /\ \A w \in Vm : w # v => p[w] = strand[w]
        /\ \A x : /\ OnWay(p[v], x) \in Nat
                  /\ OnWay(strand[v], x) = OnWay(p[v], x) + Carries(s, x)
    BY <1>1, <1>3, <1>4 DEF TakesMessage, Carries
  <1>6. PICK st \in State : /\ st = [Now EXCEPT !.strand = Pop(v)]
                            /\ st.strand = p /\ st.nsenders = nsenders
    BY <1>4, <1>5, PoppedState
  <1>7. PICK st1 : st1 = DestroySender(st, s)
    OBVIOUS
  <1>8. /\ Grown(p, st1.strand, {s.fiber})
        /\ \A w \in Vm : st1.nsenders[w] = nsenders[w] - Uncounted(s, w)
    BY <1>3, <1>6, <1>7, DestroyCount DEF Destroys
  <1>9. /\ strand' = st1.strand /\ nsenders' = st1.nsenders
        /\ UNCHANGED <<running, incoming, recvFiber, forgotten, tx, after, destroyed>>
    BY <1>1, <1>2, <1>6, <1>7 DEF DeliverToClosed, TakesMessage, Becomes, inboxVars
  <1>10. ASSUME NEW w \in Vm PROVE Balanced(w)
    <2>1. \A u \in Vm : DeliverAt(strand'[u], w) = DeliverAt(p[u], w)
      BY <1>8, <1>9 DEF Grown
    <2>2. AtOne(v, w)
      BY <1>5, <1>9, <2>1 DEF AtOne
    <2>3. PICK d, o \in Nat : d = Carries(s, w) /\ o = 0
      BY DEF Carries
    <2>4. OnWay(strand'[v], w) = OnWay(p[v], w)
      BY <2>1 DEF OnWay
    <2>5. OnWay(p[v], w) \in Nat /\ OnWay(strand[v], w) = OnWay(p[v], w) + d
      BY <1>5, <2>3
    <2>6. tx'[v][w] = tx[v][w] /\ tx[v][w] \in Nat
      BY <1>9 DEF Types
    <2>7. InQueue(incoming'[v], w) = InQueue(incoming[v], w) /\ InQueue(incoming[v], w) \in Nat
      <3>1. incoming[v] \in Seq(Sender)
        BY DEF Types
      <3> QED
        BY <1>9, <3>1, PlacesFinite
    <2>8. Local(v, w)' = Local(v, w) - d - o
      BY <2>3, <2>4, <2>5, <2>6, <2>7 DEF Local
    <2>9. forgotten'[w] = forgotten[w] + o
      BY <1>9, <2>3 DEF Types
    <2>10. nsenders'[w] = nsenders[w] - (IF CanLock(w) THEN d ELSE 0)
      BY <1>8, <1>9, <2>3 DEF Uncounted
    <2> QED
      BY <2>2, <2>8, <2>9, <2>10, BalancedDrop
  <1>11. /\ QueuesRefer(incoming) /\ AfterRefers(after)
         /\ FibersRefer(running) /\ FibersRefer(recvFiber)
    BY Refers
  <1>12. StrandsRefer(strand')
    <2>1. PICK fs : fs = {s.fiber}
      OBVIOUS
    <2>2. Grown(p, strand', fs) /\ \A g \in fs : Referenced(VmOf[g])
      BY <1>5, <1>8, <1>9, <2>1
    <2> QED
      BY <1>5, <2>2, GrownRefers
  <1>13. Settled
    BY <1>9, <1>11, <1>12 DEF Settled
  <1>14. \A u \in Vm : destroyed[u] => destroyed'[u]
    BY <1>9
  <1> QED
    BY <1>10, <1>13, <1>14, StepKeepsCount

\* deque::erase() of the message at place k uncounts its address or forgets it.
LEMMA ErasedAddress ==
    ASSUME NEW q \in Seq(Sender), NEW k \in 1..Len(q)
    PROVE  /\ DroppedByErase(q, k) \in [Vm -> Int]
           /\ \A w \in Vm : /\ DroppedByErase(q, k)[w] \in Nat /\ ForgottenByErase(q, k)[w] \in Nat
                            /\ DroppedByErase(q, k)[w] + ForgottenByErase(q, k)[w] = Carries(q[k], w)
  <1>1. PICK c, z : c = CarriedBy(q[k].msg) /\ z = NoAddress
    OBVIOUS
  <1>2. /\ c \in [Vm -> Int] /\ z \in [Vm -> Int]
        /\ \A w \in Vm : c[w] = Carries(q[k], w) /\ Carries(q[k], w) \in Nat /\ z[w] = 0
    BY <1>1 DEF CarriedBy, NoAddress, Carries
  <1>3. PICK f, d : f = ForgottenByErase(q, k) /\ d = DroppedByErase(q, k)
    OBVIOUS
  <1>4. f \in {c, z} /\ d = IF f = z THEN c ELSE z
    BY <1>1, <1>3 DEF ForgottenByErase, DroppedByErase
  <1>5. d \in [Vm -> Int]
    BY <1>2, <1>4
  <1>6. ASSUME NEW w \in Vm
        PROVE  d[w] \in Nat /\ f[w] \in Nat /\ d[w] + f[w] = Carries(q[k], w)
    <2>1. c[w] = Carries(q[k], w) /\ Carries(q[k], w) \in Nat /\ z[w] = 0
      BY <1>2
    <2>2. CASE f = z
      BY <1>4, <2>1, <2>2
    <2>3. CASE f # z
      BY <1>4, <2>1, <2>3
    <2> QED
      BY <2>2, <2>3
  <1> QED
    BY <1>3, <1>5, <1>6

\* The queue is without its element at k.
LEMMA ErasedMembers ==
    ASSUME NEW q \in Seq(Sender), NEW k \in 1..Len(q)
    PROVE  \A x \in Members(SeqExt!RemoveAt(q, k)) : x \in Members(q)
  <1>1. PICK r : r = SeqExt!RemoveAt(q, k)
    OBVIOUS
  <1>2. /\ Len(q) \in Nat /\ Len(r) = Len(q) - 1
        /\ \A i \in 1..(k - 1) : r[i] = q[i]
        /\ \A i \in k..(Len(q) - 1) : r[i] = q[i + 1]
    BY <1>1, EraseFacts
  <1>3. ASSUME NEW i \in 1..Len(r) PROVE \E j \in 1..Len(q) : r[i] = q[j]
    <2>1. CASE i \in 1..(k - 1)
      BY <1>2, <2>1
    <2>2. CASE i \notin 1..(k - 1)
      <3>1. i \in k..(Len(q) - 1) /\ i + 1 \in 1..Len(q)
        BY <1>2, <2>2
      <3> QED
        BY <1>2, <3>1
    <2> QED
      BY <2>1, <2>2
  <1>4. \A x \in Members(r) : x \in Members(q)
    BY <1>3 DEF Members
  <1> QED
    BY <1>1, <1>4

\* A sender is given up: what deque::erase() overwrites is forgotten.
LEMMA CountErase ==
    ASSUME Types, Types', NEW v \in Vm, NEW f \in Fiber, NEW i \in 1..Len(incoming[v]),
           NEW p \in [Vm -> Seq(Handler)], StrandsRefer(p), Referenced(VmOf[f]),
           \A w \in Vm : \A x : OnWay(p[w], x) = OnWay(strand[w], x),
           \A w \in Vm : w # v => p[w] = strand[w],
           NEW st \in State, st.strand = p, st.nsenders = nsenders,
           incoming' = [incoming EXCEPT ![v] = SeqExt!RemoveAt(@, i)],
           forgotten' = Plus(forgotten, ForgottenByErase(incoming[v], i)),
           Becomes(PostIn(Drop(st, DroppedByErase(incoming[v], i)), VmOf[f], Resume(f, "interrupted"))),
           UNCHANGED <<running, recvFiber, tx, after, destroyed>>
    PROVE  KeepsCount
  <1>1. PICK q \in Seq(Sender) : q = incoming[v]
    BY DEF Types
  <1>2. PICK bag, o : bag = DroppedByErase(q, i) /\ o = ForgottenByErase(q, i)
    OBVIOUS
  <1>3. /\ bag \in [Vm -> Int]
        /\ \A w \in Vm : bag[w] \in Nat /\ o[w] \in Nat /\ bag[w] + o[w] = Carries(q[i], w)
    BY <1>1, <1>2, ErasedAddress
  <1>4. PICK st1 : st1 = Drop(st, bag)
    OBVIOUS
  <1>5. /\ st1 \in State /\ Told(p, st1.strand) /\ st1.strand \in [Vm -> Seq(Handler)]
        /\ \A w \in Vm : st1.nsenders[w] = IF CanLock(w) THEN nsenders[w] - bag[w] ELSE nsenders[w]
    BY <1>3, <1>4, DropFacts, StateFacts
  <1>6. PICK n, u : n = Resume(f, "interrupted") /\ u = VmOf[f]
    OBVIOUS
  <1>7. n \in Handler /\ n.op = "resume" /\ u \in Vm
    BY <1>6, Made, Shapes, VmContextAssumption DEF Result
  <1>8. strand' = Posted(st1.strand, VmOf[f], n) /\ nsenders' = st1.nsenders
    <2>1. PostIn(st1, u, n).strand = Posted(st1.strand, u, n) /\ PostIn(st1, u, n).nsenders = st1.nsenders
      BY <1>5, <1>7, PostInFacts
    <2> QED
      BY <1>1, <1>2, <1>4, <1>6, <2>1 DEF Becomes
  <1>9. Grown(p, strand', {f})
    <2>1. PICK s1 : s1 = st1.strand
      OBVIOUS
    <2>2. Grown(p, s1, {})
      BY <1>5, <2>1, GrownTold
    <2>3. Grown(s1, Posted(s1, VmOf[f], n), {f})
      BY <1>5, <1>7, <2>1, GrownPost
    <2>4. Grown(p, Posted(s1, VmOf[f], n), {} \cup {f})
      BY <2>2, <2>3, GrownTrans
    <2> QED
      BY <1>8, <2>1, <2>4
  <1>10. /\ incoming'[v] = SeqExt!RemoveAt(q, i)
         /\ \A w \in Vm : w # v => incoming'[w] = incoming[w]
         /\ \A w \in Vm : forgotten'[w] = forgotten[w] + o[w]
    BY <1>1, <1>2 DEF Types, Plus
  <1>11. ASSUME NEW w \in Vm PROVE Balanced(w)
    <2>1. \A x \in Vm : DeliverAt(strand'[x], w) = DeliverAt(p[x], w)
      BY <1>9 DEF Grown
    <2>2. AtOne(v, w)
      BY <1>10, <2>1 DEF AtOne
    <2>3. OnWay(strand'[v], w) = OnWay(strand[v], w)
      BY <2>1 DEF OnWay
    <2>4. InQueue(q, w) = InQueue(incoming'[v], w) + Carries(q[i], w)
      BY <1>1, <1>10, InQueueFacts
    <2>5. /\ OnWay(strand[v], w) \in Nat /\ InQueue(q, w) \in Nat /\ InQueue(incoming'[v], w) \in Nat
      <3>1. strand[v] \in Seq(Handler) /\ incoming'[v] \in Seq(Sender)
        BY DEF Types
      <3> QED
        BY <3>1, PlacesFinite
    <2>6. tx'[v][w] = tx[v][w] /\ tx[v][w] \in Nat
      BY DEF Types
    <2>7. PICK d, e \in Nat : d = bag[w] /\ e = o[w] /\ d + e = Carries(q[i], w)
      BY <1>3
    <2>8. Local(v, w)' = Local(v, w) - d - e
      <3>1. Local(v, w) = tx[v][w] + OnWay(strand[v], w) + InQueue(q, w)
        BY <1>1 DEF Local
      <3>2. Local(v, w)' = tx[v][w] + OnWay(strand[v], w) + InQueue(incoming'[v], w)
        BY <2>3, <2>6 DEF Local
      <3>3. PICK a, b, c, c1 \in Nat : /\ a = tx[v][w] /\ b = OnWay(strand[v], w)
                                       /\ c = InQueue(q, w) /\ c1 = InQueue(incoming'[v], w)
        BY <2>5, <2>6
      <3>4. c = c1 + (d + e)
        BY <2>4, <2>7, <3>3
      <3>5. Local(v, w) = a + b + c /\ Local(v, w)' = a + b + c1
        BY <3>1, <3>2, <3>3
      <3> QED
        BY <3>4, <3>5
    <2>9. forgotten'[w] = forgotten[w] + e
      BY <1>10, <2>7
    <2>10. nsenders'[w] = nsenders[w] - (IF CanLock(w) THEN d ELSE 0)
      <3>1. nsenders[w] \in Int
        BY DEF Types
      <3> QED
        BY <1>5, <1>8, <2>7, <3>1
    <2> QED
      BY <2>2, <2>8, <2>9, <2>10, BalancedDrop
  <1>12. /\ QueuesRefer(incoming) /\ AfterRefers(after) /\ FibersRefer(running) /\ FibersRefer(recvFiber)
    BY Refers
  <1>13. StrandsRefer(strand')
    <2>1. PICK fs : fs = {f}
      OBVIOUS
    <2>2. Grown(p, strand', fs) /\ \A g \in fs : Referenced(VmOf[g])
      BY <1>9, <2>1
    <2> QED
      BY <2>2, GrownRefers
  <1>14. QueuesRefer(incoming')
    <2>1. \A x \in Members(incoming'[v]) : x \in Members(incoming[v])
      BY <1>1, <1>10, ErasedMembers
    <2> QED
      BY <1>10, <1>12, <2>1 DEF QueuesRefer
  <1>15. Settled
    BY <1>12, <1>13, <1>14 DEF Settled
  <1>16. \A w \in Vm : destroyed[w] => destroyed'[w]
    OBVIOUS
  <1> QED
    BY <1>11, <1>15, <1>16, StepKeepsCount

\* ... or nothing happens, when its message was taken before.
LEMMA CountRunRevoke ==
    ASSUME Types, Types', NEW v \in Vm, RunRevoke(v)
    PROVE  KeepsCount
  <1>1. PICK h : h = Head(strand[v])
    OBVIOUS
  <1>2. /\ strand[v] \in Seq(Handler) /\ strand \in [Vm -> Seq(Handler)] /\ strand[v] # <<>>
        /\ h \in Handler /\ h \in Members(strand[v]) /\ h.op = "revoke"
    BY <1>1, NextTaken DEF Types, RunRevoke
  <1>3. PICK f \in Fiber : f = h.fiber
    BY <1>2, HandlerFacts
  <1>4. StrandsRefer(strand)
    BY Refers
  <1>5. Referenced(v) /\ Referenced(VmOf[f])
    BY <1>2, <1>3, <1>4 DEF StrandsRefer, OfSender
  <1>6. PICK p : p = Popped(strand, v)
    OBVIOUS
  <1>7. p \in [Vm -> Seq(Handler)] /\ p[v] = Tail(strand[v]) /\ \A w \in Vm : w # v => p[w] = strand[w]
    BY <1>2, <1>6, PoppedFacts
  <1>8. StrandsRefer(p)
    BY <1>2, <1>4, <1>6, PopRefers
  <1>9. ASSUME NEW w \in Vm, NEW x PROVE OnWay(p[w], x) = OnWay(strand[w], x)
    <2>1. CASE w = v
      <3>1. OnWay(strand[v], x) = OnWay(Tail(strand[v]), x) + Brings(h, x)
        BY <1>1, <1>2, OnWayFacts
      <3>2. Brings(h, x) = 0
        BY <1>2 DEF Brings
      <3>3. p[v] \in Seq(Handler)
        BY <1>7
      <3>4. OnWay(p[v], x) \in Nat
        BY <3>3, PlacesFinite
      <3>5. OnWay(strand[v], x) = OnWay(p[v], x) + Brings(h, x)
        BY <1>7, <3>1
      <3>6. OnWay(p[v], x) = OnWay(strand[v], x)
        BY <3>2, <3>4, <3>5
      <3> QED
        BY <2>1, <3>6
    <2>2. CASE w # v
      BY <1>7, <2>2
    <2> QED
      BY <2>1, <2>2
  <1>10. PICK st \in State : st = [Now EXCEPT !.strand = Pop(v)] /\ st.strand = p /\ st.nsenders = nsenders
    BY <1>6, <1>7, PoppedState
  <1>11. UNCHANGED <<running, recvFiber, tx, after, destroyed>>
    BY DEF RunRevoke
  <1>12. CASE Becomes(st) /\ UNCHANGED <<incoming, forgotten>>
    <2>1. strand' = Popped(strand, v) /\ nsenders' = nsenders
      BY <1>6, <1>10, <1>12 DEF Becomes
    <2>2. RestSettled
      BY <1>11, Refers DEF RestSettled
    <2>3. StaysDestroyed
      BY <1>11 DEF StaysDestroyed
    <2>4. UNCHANGED <<incoming, nsenders, forgotten, tx>> /\ Head(strand[v]).op # "deliver"
      BY <1>1, <1>2, <1>11, <1>12, <2>1
    <2> QED
      BY <1>2, <2>1, <2>2, <2>3, <2>4, PopCount
  <1>13. ASSUME NEW i \in PlacesOf(f, v),
                incoming' = [incoming EXCEPT ![v] = SeqExt!RemoveAt(@, i)],
                forgotten' = Plus(forgotten, ForgottenByErase(incoming[v], i)),
                Becomes(PostIn(Drop(st, DroppedByErase(incoming[v], i)),
                               VmOf[f], Resume(f, "interrupted")))
         PROVE  KeepsCount
    <2>1. i \in 1..Len(incoming[v])
      <3>1. incoming[v] \in Seq(Sender) /\ DOMAIN incoming[v] = 1..Len(incoming[v])
        BY QueueFacts DEF Types
      <3> QED
        BY <3>1 DEF PlacesOf
    <2> QED
      BY <1>5, <1>7, <1>8, <1>9, <1>10, <1>11, <1>13, <2>1, CountErase
  <1> QED
    BY <1>1, <1>3, <1>10, <1>12, <1>13 DEF RunRevoke

-----------------------------------------------------------------------------
(* Addresses are made.                                                       *)

\* The addresses that a Lua state holds are counted.
LEMMA HeldIsCounted ==
    ASSUME Types, NEW v \in Vm, NEW w \in Vm
    PROVE  tx[v][w] \in Nat /\ Addresses(w) \in Nat /\ tx[v][w] <= Addresses(w)
  <1>1. PICK t, s, q : t = tx /\ s = strand /\ q = incoming
    OBVIOUS
  <1>2. t \in [Vm -> [Vm -> Nat]] /\ s \in [Vm -> Seq(Handler)] /\ q \in [Vm -> Seq(Sender)]
    BY <1>1 DEF Types
  <1>3. HeldCount(t, w) \in Nat /\ t[v][w] <= HeldCount(t, w)
    BY <1>2, HeldChange
  <1>4. SentCount(s, q, w) \in Nat
    BY <1>2, SentSame
  <1>5. Addresses(w) = HeldCount(t, w) + SentCount(s, q, w)
    BY <1>1, AddressParts
  <1>6. t[v][w] \in Nat
    BY <1>2
  <1> QED
    BY <1>1, <1>3, <1>4, <1>5, <1>6

\* What f may send an address of has been spawned.
LEMMA SentIsSpawned ==
    ASSUME Inv, Counted, NEW f \in Fiber, Calls(f), NEW msg \in Vm, MaySend(f, msg)
    PROVE  Spawned(msg)
  <1>1. PICK kind, home, word : Accounts(kind, home, word)
    BY DEF Inv
  <1>2. Types /\ \A u \in Vm : VmOK(u)
    BY DEF Inv
  <1>3. IsCaller(f, kind, home, word)
    BY <1>1, <1>2, Caller
  <1>4. VmOf[f] \in Vm /\ at[Main[VmOf[f]]] # "unborn"
    BY <1>3 DEF IsCaller
  <1>5. CASE VmOf[f] = msg
    BY <1>4, <1>5 DEF Spawned
  <1>6. CASE tx[VmOf[f]][msg] > 0
    <2>1. /\ tx[VmOf[f]][msg] \in Nat /\ Addresses(msg) \in Nat
          /\ tx[VmOf[f]][msg] <= Addresses(msg)
      BY <1>2, <1>4, HeldIsCounted
    <2>2. Addresses(msg) # 0
      BY <1>6, <2>1
    <2> QED
      BY <2>2 DEF Counted
  <1> QED
    BY <1>5, <1>6 DEF MaySend

\* The address in a message is counted.
LEMMA CountSend ==
    ASSUME Inv, Types', Counted, NEW f \in Fiber, NEW w \in Vm, NEW msg \in Msg, Send(f, w, msg)
    PROVE  KeepsCount
  <1>1. Types /\ strand \in [Vm -> Seq(Handler)] /\ Calls(f) /\ MaySend(f, msg)
    BY DEF Inv, Types, Send
  <1>2. PICK v \in Vm : v = VmOf[f]
    BY VmContextAssumption
  <1>3. Referenced(v) /\ Referenced(w)
    BY <1>1, <1>2, CallerRefers DEF Send, CanLock
  <1>4. PICK h : h = Deliver(f, msg)
    OBVIOUS
  <1>5. h \in Handler /\ h.op = "deliver" /\ h.fiber = f /\ h.val = msg
    BY <1>4, Made, Shapes
  <1>6. /\ strand' = Posted(strand, w, h)
        /\ nsenders' = IF msg \in Vm /\ CanLock(msg) THEN [nsenders EXCEPT ![msg] = @ + 1] ELSE nsenders
        /\ UNCHANGED <<recvFiber, incoming, forgotten, tx, after, destroyed>>
    BY <1>4 DEF Send, Post, Posted, inboxVars
  <1>7. IsPost(strand', strand, w, h)
    BY <1>1, <1>5, <1>6, PostedFacts
  <1>8. strand'[w] = Append(strand[w], h) /\ \A u \in Vm : u # w => strand'[u] = strand[u]
    BY <1>7 DEF IsPost
  <1>9. ASSUME NEW x \in Vm
        PROVE  nsenders[x] \in Int
               /\ nsenders'[x] = nsenders[x] + (IF x = msg /\ CanLock(x) THEN 1 ELSE 0)
    <2>1. nsenders \in [Vm -> Int]
      BY <1>1 DEF Types
    <2>2. CASE x = msg /\ CanLock(x)
      <3>1. nsenders' = [nsenders EXCEPT ![x] = @ + 1]
        BY <1>6, <2>2
      <3> QED
        BY <2>1, <2>2, <3>1
    <2>3. CASE ~(x = msg /\ CanLock(x))
      <3>1. nsenders'[x] = nsenders[x]
        BY <1>6, <2>1, <2>3
      <3> QED
        BY <2>1, <2>3, <3>1
    <2> QED
      BY <2>2, <2>3
  <1>10. ASSUME NEW x \in Vm PROVE Balanced(x)
    <2>1. AtOne(w, x)
      BY <1>6, <1>8 DEF AtOne
    <2>2. PICK e, z \in Nat : e = Brings(h, x) /\ z = 0
      BY DEF Brings
    <2>3. e = IF x = msg THEN 1 ELSE 0
      BY <1>5, <2>2 DEF Brings
    <2>4. strand[w] \in Seq(Handler) /\ incoming[w] \in Seq(Sender)
      BY <1>1 DEF Types
    <2>5. OnWay(strand'[w], x) = OnWay(strand[w], x) + e
      BY <1>5, <1>8, <2>2, <2>4, OnWayFacts
    <2>6. OnWay(strand[w], x) \in Nat /\ InQueue(incoming[w], x) \in Nat /\ tx[w][x] \in Nat
      BY <1>1, <2>4, PlacesFinite DEF Types
    <2>7. Local(w, x)' = Local(w, x) + e - z - z
      <3>1. Local(w, x)' = tx[w][x] + OnWay(strand'[w], x) + InQueue(incoming[w], x)
        BY <1>6 DEF Local
      <3>2. Local(w, x) = tx[w][x] + OnWay(strand[w], x) + InQueue(incoming[w], x)
        BY DEF Local
      <3> QED
        BY <2>2, <2>5, <2>6, <3>1, <3>2
    <2>8. forgotten'[x] = forgotten[x] + z
      BY <1>1, <1>6, <2>2 DEF Types
    <2>9. nsenders'[x] = nsenders[x] + (IF CanLock(x) THEN e - z ELSE 0)
      BY <1>9, <2>2, <2>3
    <2>10. e > 0 => Spawned(x)
      BY <1>1, <2>3, SentIsSpawned
    <2> QED
      BY <1>1, <2>1, <2>7, <2>8, <2>9, <2>10, Balancing
  <1>11. StrandsRefer(strand')
    <2>1. StrandsRefer(strand)
      BY <1>1, Refers
    <2>2. h.op \in OfSender => Referenced(VmOf[h.fiber])
      BY <1>2, <1>3, <1>5
    <2> QED
      BY <1>3, <1>7, <2>1, <2>2, PostRefers
  <1>12. QueuesRefer(incoming')
    BY <1>1, <1>6, Refers
  <1>13. RestSettled
    <2>1. \A u \in Vm : u # v => running'[u] = running[u]
      BY <1>1, <1>2 DEF Send, Suspend, Types, CoreTypeOK
    <2> QED
      BY <1>1, <1>3, <1>6, <2>1, RestRefers
  <1>14. Settled
    BY <1>11, <1>12, <1>13 DEF Settled, RestSettled
  <1>15. \A u \in Vm : destroyed[u] => destroyed'[u]
    BY <1>6
  <1> QED
    BY <1>10, <1>14, <1>15, StepKeepsCount

\* spawn_vm() posts the first handler of w, which changes nothing for the others.
LEMMA SpawnVmFacts ==
    ASSUME Types, NEW f \in Fiber, NEW w \in Vm, SpawnVm(f, w)
    PROVE  /\ IsPost(strand', strand, w, ResumeSkipClear(Main[w])) /\ VmOf[f] \in Vm
           /\ ResumeSkipClear(Main[w]) \in Handler /\ ResumeSkipClear(Main[w]).op = "resume"
           /\ \A a, b \in Vm : tx'[a][b] = IF a = VmOf[f] /\ b = w THEN tx[a][b] + 1 ELSE tx[a][b]
           /\ nsenders'[w] = nsenders[w] + 1 /\ \A x \in Vm : x # w => nsenders'[x] = nsenders[x]
           /\ Spawned(w)' /\ \A x \in Vm : x # w => (Spawned(x)' <=> Spawned(x))
           /\ ~Spawned(w) /\ UNCHANGED <<running, recvFiber, incoming, forgotten, after, destroyed>>
  <1>1. PICK g \in Fiber : g = Main[w]
    BY VmContextAssumption
  <1>2. PICK h : h = ResumeSkipClear(g)
    OBVIOUS
  <1>3. h \in Handler /\ h.op = "resume"
    BY <1>2, Made, Shapes
  <1>4. IsPost(strand', strand, w, h)
    <2>1. strand' = Posted(strand, w, h) /\ strand \in [Vm -> Seq(Handler)]
      BY <1>1, <1>2 DEF SpawnVm, Post, Posted, Types
    <2> QED
      BY <1>3, <2>1, PostedFacts
  <1>5. PICK u \in Vm : u = VmOf[f]
    BY VmContextAssumption
  <1>6. \A a, b \in Vm : tx'[a][b] = IF a = u /\ b = w THEN tx[a][b] + 1 ELSE tx[a][b]
    <2>1. tx \in [Vm -> [Vm -> Nat]] /\ tx' = [tx EXCEPT ![u][w] = @ + 1]
      BY <1>5 DEF Types, SpawnVm
    <2>2. PICK row : row = [tx[u] EXCEPT ![w] = @ + 1]
      OBVIOUS
    <2>3. row \in [Vm -> Nat] /\ \A b \in Vm : row[b] = IF b = w THEN tx[u][b] + 1 ELSE tx[u][b]
      BY <2>1, <2>2
    <2>4. tx' = [tx EXCEPT ![u] = row]
      BY <2>1, <2>2
    <2>5. tx'[u] = row /\ \A a \in Vm : a # u => tx'[a] = tx[a]
      BY <2>1, <2>3, <2>4
    <2> QED
      BY <2>3, <2>5
  <1>7. nsenders'[w] = nsenders[w] + 1 /\ \A x \in Vm : x # w => nsenders'[x] = nsenders[x]
    BY DEF SpawnVm, Types
  <1>8. at'[g] = "start" /\ at[g] = "unborn" /\ \A x \in Fiber : x # g => at'[x] = at[x]
    BY <1>1 DEF SpawnVm, Spawned, Types, CoreTypeOK
  <1>9. Spawned(w)' /\ ~Spawned(w)
    BY <1>1, <1>8 DEF Spawned
  <1>10. ASSUME NEW x \in Vm, x # w PROVE Spawned(x)' <=> Spawned(x)
    <2>1. Main[x] \in Fiber /\ Main[x] # g
      BY <1>1, <1>10, VmContextAssumption
    <2> QED
      BY <1>8, <2>1 DEF Spawned
  <1>11. UNCHANGED <<running, recvFiber, incoming, forgotten, after, destroyed>>
    BY DEF SpawnVm, inboxVars
  <1>12. /\ IsPost(strand', strand, w, ResumeSkipClear(Main[w])) /\ VmOf[f] \in Vm
         /\ ResumeSkipClear(Main[w]) \in Handler /\ ResumeSkipClear(Main[w]).op = "resume"
    BY <1>1, <1>2, <1>3, <1>4, <1>5
  <1>13. \A a, b \in Vm : tx'[a][b] = IF a = VmOf[f] /\ b = w THEN tx[a][b] + 1 ELSE tx[a][b]
    BY <1>5, <1>6
  <1> QED
    BY <1>7, <1>9, <1>10, <1>11, <1>12, <1>13

\* A handler that is posted to w keeps no other VM alive, unless it holds a sender.
LEMMA PostedLocks ==
    ASSUME Types, NEW w \in Vm, NEW h \in Handler, IsPost(strand', strand, w, h), h.op = "resume",
           UNCHANGED <<running, recvFiber, incoming, after, destroyed>>
    PROVE  \A x \in Vm : x # w => (CanLock(x)' => CanLock(x))
  <1>1. ASSUME NEW u \in Vm, NEW g \in Fiber, g \in SendersIn(u)' PROVE g \in SendersIn(u)
    <2>1. strand[u] \in Seq(Handler) /\ strand'[u] \in Seq(Handler)
      BY DEF Types, IsPost
    <2>2. DOMAIN strand[u] = 1..Len(strand[u]) /\ DOMAIN strand'[u] = 1..Len(strand'[u])
      BY <2>1, QueueFacts
    <2>3. \/ \E i \in DOMAIN incoming[u] : incoming[u][i].fiber = g
          \/ \E i \in 1..Len(strand'[u]) : strand'[u][i].op \in OfSender /\ strand'[u][i].fiber = g
          \/ after[u] = g /\ g # Nil
      BY <1>1, <2>2 DEF SendersIn, OfSender
    <2>4. CASE \E i \in DOMAIN incoming[u] : incoming[u][i].fiber = g
      BY <2>4 DEF SendersIn
    <2>5. CASE after[u] = g /\ g # Nil
      BY <2>5 DEF SendersIn
    <2>6. CASE \E i \in 1..Len(strand'[u]) : strand'[u][i].op \in OfSender /\ strand'[u][i].fiber = g
      <3>1. PICK k \in Members(strand'[u]) : k.op \in OfSender /\ k.fiber = g
        BY <2>6 DEF Members
      <3>2. k \in Members(strand[u])
        BY <3>1 DEF IsPost, OfSender
      <3>3. PICK i \in 1..Len(strand[u]) : strand[u][i] = k
        BY <3>2 DEF Members
      <3> QED
        BY <2>2, <3>1, <3>3 DEF SendersIn, OfSender
    <2> QED
      BY <2>3, <2>4, <2>5, <2>6
  <1>2. ASSUME NEW x \in Vm, x # w, Referenced(x)' PROVE Referenced(x)
    <2>1. strand'[x] = strand[x]
      BY <1>2 DEF IsPost
    <2>2. \/ strand[x] # <<>> \/ running[x] # Nil \/ after[x] # Nil \/ recvFiber[x] # Nil
          \/ \E u \in Vm, g \in Fiber : VmOf[g] = x /\ g \in SendersIn(u)'
      BY <1>2, <2>1 DEF Referenced
    <2> QED
      BY <1>1, <2>2 DEF Referenced
  <1> QED
    BY <1>2 DEF CanLock

\* The address that spawn_vm() returns is counted, and it is the only one.
LEMMA CountSpawnVm ==
    ASSUME Types, Types', Counted, NEW f \in Fiber, NEW w \in Vm, SpawnVm(f, w)
    PROVE  Counted'
  <1>1. PICK h : h = ResumeSkipClear(Main[w])
    OBVIOUS
  <1>2. PICK v \in Vm : v = VmOf[f]
    BY VmContextAssumption
  <1>3. /\ IsPost(strand', strand, w, h) /\ h \in Handler /\ h.op = "resume"
        /\ \A a, b \in Vm : tx'[a][b] = IF a = v /\ b = w THEN tx[a][b] + 1 ELSE tx[a][b]
        /\ nsenders'[w] = nsenders[w] + 1 /\ \A x \in Vm : x # w => nsenders'[x] = nsenders[x]
        /\ Spawned(w)' /\ \A x \in Vm : x # w => (Spawned(x)' <=> Spawned(x))
        /\ ~Spawned(w)
    BY <1>1, <1>2, SpawnVmFacts
  <1>4. UNCHANGED <<running, recvFiber, incoming, forgotten, after, destroyed>>
    BY SpawnVmFacts
  <1>5. ASSUME NEW u \in Vm, NEW x PROVE DeliverAt(strand'[u], x) = DeliverAt(strand[u], x)
    <2>1. CASE u = w
      <3>1. strand[w] \in Seq(Handler) /\ strand'[w] = Append(strand[w], h)
        BY <1>3 DEF Types, IsPost
      <3>2. DeliverAt(Append(strand[w], h), x) = DeliverAt(strand[w], x)
        BY <1>3, <3>1, HasAppend
      <3> QED
        BY <2>1, <3>1, <3>2
    <2>2. CASE u # w
      BY <1>3, <2>2 DEF IsPost
    <2> QED
      BY <2>1, <2>2
  <1>6. ASSUME NEW x \in Vm
        PROVE  /\ AtOne(v, x) /\ Local(v, x) \in Nat
               /\ Local(v, x)' = Local(v, x) + (IF x = w THEN 1 ELSE 0)
    <2>1. \A u \in Vm : u # v => tx'[u][x] = tx[u][x]
      BY <1>3
    <2>2. AtOne(v, x)
      BY <1>4, <1>5, <2>1 DEF AtOne
    <2>3. strand[v] \in Seq(Handler) /\ incoming[v] \in Seq(Sender)
      BY DEF Types
    <2>4. OnWay(strand[v], x) \in Nat /\ InQueue(incoming[v], x) \in Nat /\ tx[v][x] \in Nat
      BY <2>3, PlacesFinite DEF Types
    <2>5. OnWay(strand'[v], x) = OnWay(strand[v], x) /\ InQueue(incoming'[v], x) = InQueue(incoming[v], x)
      BY <1>4, <1>5 DEF OnWay
    <2>6. tx'[v][x] = tx[v][x] + (IF x = w THEN 1 ELSE 0)
      BY <1>3, <2>4
    <2> QED
      BY <2>2, <2>4, <2>5, <2>6 DEF Local
  <1>7. ASSUME NEW x \in Vm
        PROVE  /\ CanLock(x)' => nsenders'[x] = Addresses(x)' + forgotten'[x]
               /\ nsenders'[x] \in Nat
               /\ ~Spawned(x)' => Addresses(x)' = 0 /\ nsenders'[x] = 0 /\ forgotten'[x] = 0
    <2>1. CASE x # w
      <3>1. Local(v, x)' = Local(v, x) /\ AtOne(v, x)
        BY <1>6, <2>1
      <3>2. nsenders'[x] = nsenders[x] /\ forgotten'[x] = forgotten[x]
        BY <1>3, <1>4, <2>1
      <3>3. Balanced(x)
        BY <3>1, <3>2, BalancedMove
      <3>4. CanLock(x)' => CanLock(x)
        BY <1>3, <1>4, <2>1, PostedLocks
      <3>5. Spawned(x) => Spawned(x)'
        BY <1>3, <2>1
      <3> QED
        BY <3>3, <3>4, <3>5, CountStepAt
    <2>2. CASE x = w
      <3>1. Addresses(w) = 0 /\ nsenders[w] = 0 /\ forgotten[w] = 0
        BY <1>3 DEF Counted
      <3>2. AtOne(v, w) /\ Local(v, w) \in Nat /\ Local(v, w)' = Local(v, w) + 1
        BY <1>6
      <3>3. Addresses(w)' = Addresses(w) + Local(v, w)' - Local(v, w)
        BY <3>2, LocalChange
      <3>4. Addresses(w)' = 1
        BY <3>1, <3>2, <3>3
      <3>5. nsenders'[w] = 1 /\ forgotten'[w] = 0 /\ Spawned(w)'
        BY <1>3, <1>4, <3>1
      <3> QED
        BY <2>2, <3>4, <3>5
    <2> QED
      BY <2>1, <2>2
  <1> QED
    BY <1>7 DEF Counted, NsendersIsExact

-----------------------------------------------------------------------------
(* nsenders is right.                                                        *)

\* No fiber is unborn that was not.
Lives == \A g \in Fiber : at'[g] = "unborn" => at[g] = "unborn"

\* Strands resume fibers, which leaves every fiber born.
LEMMA LivesStrand ==
    ASSUME Types, NEW v \in Vm, RunStrand(v) PROVE Lives
  <1>1. at \in [Fiber -> Suspended \cup Gone \cup {"running"}]
    BY DEF Types, CoreTypeOK
  <1>2. ASSUME NEW g, at' = [at EXCEPT ![g] = "running"] PROVE Lives
    BY <1>1, <1>2 DEF Lives
  <1>3. ASSUME at' = at PROVE Lives
    BY <1>3 DEF Lives
  <1>4. CASE RunFiber(v)
    <2>1. at' = at \/ \E g : at' = [at EXCEPT ![g] = "running"]
      BY <1>4 DEF RunFiber, RunResume, FiberResume, coreVars
    <2> QED
      BY <1>2, <1>3, <2>1
  <1>5. CASE DeliverToReceiver(v)
    BY <1>2, <1>5 DEF DeliverToReceiver, FiberResume
  <1>6. CASE RunNoSenders(v)
    BY <1>2, <1>3, <1>6 DEF RunNoSenders, FiberResume
  <1>7. CASE DeliverToClosed(v) \/ DeliverToQueue(v) \/ WakeSender(v) \/ RunRevoke(v)
    <2>1. at' = at
      BY <1>7 DEF DeliverToClosed, DeliverToQueue, WakeSender, RunRevoke
    <2> QED
      BY <1>3, <2>1
  <1> QED
    BY <1>4, <1>5, <1>6, <1>7 DEF RunStrand

\* Calls suspend, spawn or end fibers.
LEMMA LivesCall ==
    ASSUME Types, NEW f \in Fiber, ActorCall(f) \/ End(f) PROVE Lives
  <1>1. at \in [Fiber -> Suspended \cup Gone \cup {"running"}]
    BY DEF Types, CoreTypeOK
  <1>2. ASSUME NEW g, NEW x, x # "unborn", at' = [at EXCEPT ![g] = x] PROVE Lives
    BY <1>1, <1>2 DEF Lives
  <1>3. ASSUME at' = at PROVE Lives
    BY <1>3 DEF Lives
  <1>4. CASE \/ ImportInbox(f) \/ ReceiveRaises(f) \/ ReceiveQueued(f) \/ InboxClose(f) \/ InboxGc(f)
             \/ \E w \in Vm : SendRaises(f, w) \/ DropAddress(f, w)
    <2>1. at' = at
      BY <1>4 DEF ImportInbox, ReceiveRaises, ReceiveQueued, InboxClose, InboxGc, SendRaises,
                  DropAddress, Return
    <2> QED
      BY <1>3, <2>1
  <1>5. CASE ReceiveWaits(f)
    BY <1>2, <1>5 DEF ReceiveWaits, Suspend
  <1>6. ASSUME NEW w \in Vm, NEW msg \in Msg, Send(f, w, msg) PROVE Lives
    BY <1>2, <1>6 DEF Send, Suspend
  <1>7. ASSUME NEW w \in Vm, SpawnVm(f, w) PROVE Lives
    BY <1>2, <1>7 DEF SpawnVm
  <1>8. CASE End(f)
    BY <1>2, <1>8 DEF End, Suspend
  <1> QED
    BY <1>4, <1>5, <1>6, <1>7, <1>8 DEF ActorCall

\* close() kills fibers, spawn() makes one and fiber_interrupt() does neither.
LEMMA LivesRest ==
    ASSUME Types, NEW f \in Fiber, NEW g \in Fiber, NEW v \in Vm,
           Spawn(f, g) \/ Interrupt(f, g) \/ Terminate(f) \/ MainFails(f) \/ Destroy(v)
    PROVE  Lives
  <1>1. at \in [Fiber -> Suspended \cup Gone \cup {"running"}]
    BY DEF Types, CoreTypeOK
  <1>2. CASE Spawn(f, g)
    <2>1. at' = [at EXCEPT ![g] = "start"]
      BY <1>2 DEF Spawn, SpawnFiber
    <2> QED
      BY <1>1, <2>1 DEF Lives
  <1>3. CASE Interrupt(f, g)
    <2>1. at' = at
      BY <1>3 DEF Interrupt, Return
    <2> QED
      BY <2>1 DEF Lives
  <1>4. ASSUME NEW u, NEW st, Close(u, st) PROVE Lives
    <2>1. at' = [x \in Fiber |-> IF VmOf[x] = u THEN "dead" ELSE at[x]]
      BY <1>4 DEF Close, CloseVm, Freed
    <2> QED
      BY <2>1 DEF Lives
  <1>5. CASE Terminate(f) \/ MainFails(f)
    BY <1>4, <1>5 DEF Terminate, MainFails
  <1>6. CASE Destroy(v)
    <2>1. CASE valid[v]
      BY <1>4, <1>6, <2>1 DEF Destroy
    <2>2. CASE ~valid[v]
      BY <1>6, <2>2 DEF Destroy, Lives
    <2> QED
      BY <2>1, <2>2
  <1> QED
    BY <1>2, <1>3, <1>5, <1>6

\* A VM that was spawned stays spawned.
LEMMA StaysSpawned ==
    ASSUME Lives PROVE \A w \in Vm : Spawned(w) => Spawned(w)'
  <1>1. \A w \in Vm : Main[w] \in Fiber
    BY VmContextAssumption
  <1> QED
    BY <1>1 DEF Lives, Spawned

\* In the beginning there is no address.
LEMMA CountedInit ==
    ASSUME Init PROVE Counted
  <1>1. Types
    BY InvInit DEF Inv
  <1>2. ASSUME NEW w \in Vm PROVE nsenders[w] = 0 /\ forgotten[w] = 0 /\ Addresses(w) = 0
    <2>1. nsenders[w] = 0 /\ forgotten[w] = 0
      BY DEF Init
    <2>2. HeldAddresses(w) = {}
      <3>1. \A v \in Vm : tx[v][w] = 0
        BY DEF Init
      <3> QED
        BY <3>1 DEF HeldAddresses
    <2>3. SentAddresses(w) = {}
      <3>1. \A v \in Vm : incoming[v] = <<>>
        BY DEF Init
      <3>2. ASSUME NEW v \in Vm, NEW i \in DOMAIN strand[v] PROVE strand[v][i].op = "resume"
        <4>1. strand[v] = IF v = Root THEN <<ResumeSkipClear(Main[v])>> ELSE <<>>
          BY DEF Init
        <4>2. CASE v = Root
          <5>1. PICK h : h = ResumeSkipClear(Main[v])
            OBVIOUS
          <5>2. strand[v] = <<h>> /\ i = 1
            BY <3>2, <4>1, <4>2, <5>1
          <5>3. strand[v][i] = h
            BY <5>2
          <5> QED
            BY <5>1, <5>3, Shapes
        <4>3. CASE v # Root
          BY <3>2, <4>1, <4>3
        <4> QED
          BY <4>2, <4>3
      <3>3. \A v \in Vm : /\ {j \in DOMAIN strand[v] : strand[v][j].op = "deliver" /\ strand[v][j].val = w} = {}
                          /\ {j \in DOMAIN incoming[v] : incoming[v][j].msg = w} = {}
        BY <3>1, <3>2
      <3> QED
        BY <3>3 DEF SentAddresses
    <2>4. Cardinality({}) = 0
      BY FS_EmptySet
    <2>5. Addresses(w) = 0
      BY <2>2, <2>3, <2>4 DEF Addresses
    <2> QED
      BY <2>1, <2>5
  <1> QED
    BY <1>2 DEF Counted, NsendersIsExact

\* Every step keeps the count.
LEMMA CountedNext ==
    ASSUME Inv, Inv', Counted, [Next]_vars PROVE Counted'
  <1>0. Types /\ Types'
    BY DEF Inv
  <1>1. ASSUME KeepsCount, Lives PROVE Counted'
    BY <1>0, <1>1, StaysSpawned, CountStep
  <1>2. ASSUME NEW v \in Vm, RunStrand(v) PROVE Counted'
    <2>1. KeepsCount
      BY <1>0, <1>2, CountRunFiber, CountDeliverToClosed, CountDeliverToQueue, CountDeliverToReceiver,
         CountWakeSender, CountRunNoSenders, CountRunRevoke DEF RunStrand
    <2>2. Lives
      BY <1>0, <1>2, LivesStrand
    <2> QED
      BY <1>1, <2>1, <2>2
  <1>3. ASSUME NEW f \in Fiber, NEW g \in Fiber, NEW v \in Vm,
               Spawn(f, g) \/ Interrupt(f, g) \/ Terminate(f) \/ MainFails(f) \/ Destroy(v)
        PROVE  Counted'
    <2>1. KeepsCount
      BY <1>0, <1>3, CountSpawn, CountInterrupt, CountTerminate, CountMainFails, CountDestroy
    <2>2. Lives
      BY <1>0, <1>3, LivesRest
    <2> QED
      BY <1>1, <2>1, <2>2
  <1>4. ASSUME NEW f \in Fiber, ActorCall(f) \/ End(f) PROVE Counted'
    <2>1. Lives
      BY <1>0, <1>4, LivesCall
    <2>2. CASE \E w \in Vm : SpawnVm(f, w)
      BY <1>0, <2>2, CountSpawnVm
    <2>3. CASE ImportInbox(f) \/ ReceiveRaises(f) \/ \E w \in Vm : SendRaises(f, w)
      <3>1. UNCHANGED <<strand, running, incoming, recvFiber, nsenders, forgotten, tx, after, destroyed>>
        BY <2>3 DEF ImportInbox, ReceiveRaises, SendRaises, Return, inboxVars, addressVars
      <3>2. KeepsCount
        BY <1>0, <3>1, CountAnswer
      <3> QED
        BY <1>1, <2>1, <3>2
    <2>4. CASE \E w \in Vm : \E msg \in Msg : Send(f, w, msg)
      <3>1. KeepsCount
        BY <1>0, <2>4, CountSend
      <3> QED
        BY <1>1, <2>1, <3>1
    <2>5. CASE \/ ReceiveQueued(f) \/ ReceiveWaits(f) \/ InboxClose(f) \/ InboxGc(f) \/ End(f)
               \/ \E w \in Vm : DropAddress(f, w)
      <3>1. KeepsCount
        BY <1>0, <2>5, CountReceiveQueued, CountReceiveWaits, CountInboxClose, CountInboxGc, CountEnd,
           CountDropAddress
      <3> QED
        BY <1>1, <2>1, <3>1
    <2> QED
      BY <1>4, <2>2, <2>3, <2>4, <2>5 DEF ActorCall
  <1>5. CASE UNCHANGED vars
    <2>1. UNCHANGED <<strand, running, incoming, recvFiber, nsenders, forgotten, tx, after, destroyed>>
      BY <1>5 DEF vars, coreVars, inboxVars, addressVars
    <2>2. KeepsCount
      BY <1>0, <2>1, CountAnswer
    <2>3. Lives
      BY <1>5 DEF Lives, vars, coreVars
    <2> QED
      BY <1>1, <2>2, <2>3
  <1>6. ASSUME NEW f \in Fiber, Terminate(f) \/ MainFails(f) PROVE Counted'
    <2>1. VmOf[f] \in Vm
      BY VmContextAssumption
    <2> QED
      BY <1>3, <1>6, <2>1
  <1>7. ASSUME NEW v \in Vm, Destroy(v) PROVE Counted'
    <2>1. PICK f \in Fiber : f = Main[v]
      BY VmContextAssumption
    <2> QED
      BY <1>3, <1>7, <2>1
  <1>8. ASSUME NEW f \in Fiber, NEW g \in Fiber, Spawn(f, g) \/ Interrupt(f, g) PROVE Counted'
    <2>1. VmOf[f] \in Vm
      BY VmContextAssumption
    <2> QED
      BY <1>3, <1>8, <2>1
  <1> QED
    BY <1>2, <1>4, <1>5, <1>6, <1>7, <1>8 DEF Next

\* The count of addresses is right in every state.
LEMMA CountedAlways == Spec => [](Inv /\ Counted)
  <1>1. Init => Counted
    BY CountedInit
  <1>2. Inv /\ Inv' /\ Counted /\ [Next]_vars => Counted'
    BY CountedNext
  <1> QED
    BY <1>1, <1>2, Invariance, PTL DEF Spec

\* nsenders, the atomic that every copy, destruction and overwriting of an
\* actor_address updates on whatever thread it happens, is at all times the number
\* of addresses of a VM that can still be locked, those included that a move
\* assignment of deque::erase() overwrote without uncounting them.
THEOREM SendersAreCounted == Spec => []NsendersIsExact
  <1>1. Inv /\ Counted => NsendersIsExact
    BY DEF Counted
  <1> QED
    BY <1>1, CountedAlways, PTL

\* The variables have their types; in particular nsenders, an unsigned counter, is
\* never decremented below zero.
THEOREM ActorTypes == Spec => []TypeOK
  <1>1. Inv /\ Counted => TypeOK
    <2>1. SUFFICES ASSUME Inv, Counted PROVE TypeOK
      OBVIOUS
    <2>2. Types
      BY <2>1 DEF Inv
    <2>3. nsenders \in [Vm -> Nat]
      BY <2>1, <2>2 DEF Types, Counted
    <2>4. \A x \in {open, imported, inboxLive, destroyed} : x \in [Vm -> BOOLEAN]
      BY <2>2 DEF Types
    <2> QED
      BY <2>2, <2>3, <2>4 DEF Types, TypeOK, Sender
  <1> QED
    BY <1>1, CountedAlways, PTL

-----------------------------------------------------------------------------
(* A message on its way to an inbox without senders is followed by a notice. *)

\* Each message in the queue of a strand has a no_senders behind it.
Followed(q) ==
    \A i \in DOMAIN q : q[i].op = "deliver" => \E j \in DOMAIN q : j > i /\ q[j] = NoSenders

\* So it is, on the strands str, wherever the count ns is zero.
Announced(str, ns) == \A w \in Vm : CanLock(w) /\ ns[w] = 0 => Followed(str[w])

\* Whatever is posted that is no message leaves it so, and a notice makes it so.
LEMMA FollowedAppend ==
    ASSUME NEW q \in Seq(Handler), NEW h \in Handler
    PROVE  /\ Followed(q) /\ h.op # "deliver" => Followed(Append(q, h))
           /\ Followed(Append(q, NoSenders))
  <1>1. Len(q) \in Nat /\ DOMAIN q = 1..Len(q)
    BY QueueFacts
  <1>2. ASSUME NEW x \in Handler
        PROVE  \E r : /\ r = Append(q, x) /\ DOMAIN r = 1..(Len(q) + 1)
                      /\ r[Len(q) + 1] = x /\ \A i \in 1..Len(q) : r[i] = q[i]
    <2>1. PICK r : r = Append(q, x)
      OBVIOUS
    <2>2. /\ DOMAIN r = 1..(Len(q) + 1) /\ r[Len(q) + 1] = x
          /\ \A i \in 1..Len(q) : r[i] = q[i]
      BY <2>1
    <2> QED
      BY <2>1, <2>2
  <1>3. ASSUME Followed(q), h.op # "deliver" PROVE Followed(Append(q, h))
    <2>1. PICK r : /\ r = Append(q, h) /\ DOMAIN r = 1..(Len(q) + 1)
                   /\ r[Len(q) + 1] = h /\ \A i \in 1..Len(q) : r[i] = q[i]
      BY <1>2
    <2>2. ASSUME NEW i \in DOMAIN r, r[i].op = "deliver"
          PROVE  \E j \in DOMAIN r : j > i /\ r[j] = NoSenders
      <3>1. i \in 1..Len(q) /\ q[i].op = "deliver"
        BY <1>1, <1>3, <2>1, <2>2
      <3>2. PICK j \in 1..Len(q) : j > i /\ q[j] = NoSenders
        BY <1>1, <1>3, <3>1 DEF Followed
      <3> QED
        BY <1>1, <2>1, <3>2
    <2> QED
      BY <2>1, <2>2 DEF Followed
  <1>4. Followed(Append(q, NoSenders))
    <2>1. PICK r : /\ r = Append(q, NoSenders) /\ DOMAIN r = 1..(Len(q) + 1)
                   /\ r[Len(q) + 1] = NoSenders /\ \A i \in 1..Len(q) : r[i] = q[i]
      BY <1>2, Made
    <2>2. NoSenders.op # "deliver"
      BY Shapes
    <2>3. ASSUME NEW i \in DOMAIN r, r[i].op = "deliver"
          PROVE  \E j \in DOMAIN r : j > i /\ r[j] = NoSenders
      <3>1. i # Len(q) + 1 /\ i \in 1..(Len(q) + 1) /\ Len(q) + 1 \in 1..(Len(q) + 1)
        BY <1>1, <2>1, <2>2, <2>3
      <3>2. Len(q) + 1 > i
        BY <1>1, <3>1
      <3> QED
        BY <2>1, <3>1, <3>2
    <2> QED
      BY <2>1, <2>3 DEF Followed
  <1> QED
    BY <1>3, <1>4

\* Nothing is lost when the strand takes its next handler.
LEMMA FollowedTail ==
    ASSUME NEW q \in Seq(Handler), q # <<>>, Followed(q) PROVE Followed(Tail(q))
  <1>1. PICK r : r = Tail(q) /\ r \in Seq(Handler)
    BY HasTail
  <1>2. /\ Len(q) \in Nat /\ Len(r) \in Nat /\ Len(r) = Len(q) - 1
        /\ DOMAIN q = 1..Len(q) /\ DOMAIN r = 1..Len(r)
        /\ \A i \in 1..Len(r) : r[i] = q[i + 1]
    BY <1>1
  <1>3. ASSUME NEW i \in DOMAIN r, r[i].op = "deliver"
        PROVE  \E j \in DOMAIN r : j > i /\ r[j] = NoSenders
    <2>1. i \in 1..Len(r) /\ i + 1 \in DOMAIN q /\ q[i + 1].op = "deliver"
      BY <1>2, <1>3
    <2>2. PICK k \in DOMAIN q : k > i + 1 /\ q[k] = NoSenders
      BY <2>1 DEF Followed
    <2>3. k - 1 \in 1..Len(r) /\ k - 1 > i /\ (k - 1) + 1 = k
      BY <1>2, <2>1, <2>2
    <2>4. r[k - 1] = NoSenders
      BY <1>2, <2>2, <2>3
    <2> QED
      BY <1>2, <2>3, <2>4
  <1> QED
    BY <1>1, <1>3 DEF Followed

\* Something that is no message is posted.
LEMMA AnnouncedPost ==
    ASSUME NEW str \in [Vm -> Seq(Handler)], NEW ns, Announced(str, ns), NEW v \in Vm,
           NEW h \in Handler, h.op # "deliver"
    PROVE  Announced(Posted(str, v, h), ns)
  <1>1. PICK s1 : s1 = Posted(str, v, h)
    OBVIOUS
  <1>2. s1[v] = Append(str[v], h) /\ \A w \in Vm : w # v => s1[w] = str[w]
    BY <1>1 DEF Posted
  <1>3. str[v] \in Seq(Handler)
    OBVIOUS
  <1>4. Followed(str[v]) => Followed(s1[v])
    BY <1>2, <1>3, FollowedAppend
  <1>5. Announced(s1, ns)
    BY <1>2, <1>4 DEF Announced
  <1> QED
    BY <1>1, <1>5

\* The strand of v takes its next handler.
LEMMA AnnouncedPop ==
    ASSUME NEW str \in [Vm -> Seq(Handler)], NEW ns, Announced(str, ns), NEW v \in Vm, str[v] # <<>>
    PROVE  Announced(Popped(str, v), ns)
  <1>1. PICK s1 : s1 = Popped(str, v)
    OBVIOUS
  <1>2. s1[v] = Tail(str[v]) /\ \A w \in Vm : w # v => s1[w] = str[w]
    BY <1>1 DEF Popped
  <1>3. str[v] \in Seq(Handler)
    OBVIOUS
  <1>4. Followed(str[v]) => Followed(s1[v])
    BY <1>2, <1>3, FollowedTail
  <1>5. Announced(s1, ns)
    BY <1>2, <1>4 DEF Announced
  <1> QED
    BY <1>1, <1>5

\* ~actor_address(): the one that takes the count to zero posts the notice.
LEMMA AnnouncedDrop ==
    ASSUME NEW st \in State, Announced(st.strand, st.nsenders), NEW bag, bag \in [Vm -> Nat]
    PROVE  Announced(Drop(st, bag).strand, Drop(st, bag).nsenders)
  <1>1. st.strand \in [Vm -> Seq(Handler)] /\ st.nsenders \in [Vm -> Int]
    BY StateFacts
  <1>2. PICK s1, n1 : s1 = Drop(st, bag).strand /\ n1 = Drop(st, bag).nsenders
    OBVIOUS
  <1>3. ASSUME NEW w \in Vm, CanLock(w), n1[w] = 0 PROVE Followed(s1[w])
    <2>1. /\ s1[w] = IF bag[w] > 0 /\ st.nsenders[w] = bag[w]
                     THEN Append(st.strand[w], NoSenders) ELSE st.strand[w]
          /\ n1[w] = st.nsenders[w] - bag[w]
      BY <1>2, <1>3 DEF Drop
    <2>2. st.nsenders[w] \in Int /\ bag[w] \in Nat /\ st.strand[w] \in Seq(Handler)
      BY <1>1
    <2>3. st.nsenders[w] = bag[w]
      BY <1>3, <2>1, <2>2
    <2>4. CASE bag[w] > 0
      BY <2>1, <2>2, <2>3, <2>4, FollowedAppend, Made
    <2>5. CASE bag[w] = 0
      BY <1>3, <2>1, <2>3, <2>5 DEF Announced
    <2> QED
      BY <2>2, <2>4, <2>5
  <1>4. Announced(s1, n1)
    BY <1>3 DEF Announced
  <1> QED
    BY <1>2, <1>4

\* ~sender_state().
LEMMA AnnouncedDestroy ==
    ASSUME NEW st \in State, Announced(st.strand, st.nsenders), NEW s \in Sender
    PROVE  /\ DestroySender(st, s) \in State
           /\ Announced(DestroySender(st, s).strand, DestroySender(st, s).nsenders)
  <1>1. PICK h, v : h = Resume(s.fiber, "channel_closed") /\ v = VmOf[s.fiber]
    OBVIOUS
  <1>2. h \in Handler /\ h.op = "resume" /\ v \in Vm
    <2>1. s.fiber \in Fiber
      BY DEF Sender
    <2> QED
      BY <1>1, <2>1, Made, Shapes, VmContextAssumption DEF Result
  <1>3. PICK st1 : st1 = PostIn(st, v, h)
    OBVIOUS
  <1>4. st1 \in State /\ st1.strand = Posted(st.strand, v, h) /\ st1.nsenders = st.nsenders
    BY <1>2, <1>3, PostInFacts
  <1>5. st.strand \in [Vm -> Seq(Handler)]
    BY StateFacts
  <1>6. Announced(st1.strand, st1.nsenders)
    BY <1>2, <1>4, <1>5, AnnouncedPost
  <1>7. PICK bag : bag = CarriedBy(s.msg)
    OBVIOUS
  <1>8. bag \in [Vm -> Nat] /\ bag \in [Vm -> Int]
    BY <1>7 DEF CarriedBy
  <1>9. Drop(st1, bag) \in State /\ Announced(Drop(st1, bag).strand, Drop(st1, bag).nsenders)
    BY <1>4, <1>6, <1>8, AnnouncedDrop, DropFacts
  <1> QED
    BY <1>1, <1>3, <1>7, <1>9 DEF DestroySender

\* incoming.clear().
LEMMA AnnouncedClear ==
    ASSUME NEW v \in Vm, NEW st \in State, incoming[v] \in Seq(Sender),
           Announced(st.strand, st.nsenders)
    PROVE  /\ ClearIncoming(v, st) \in State
           /\ Announced(ClearIncoming(v, st).strand, ClearIncoming(v, st).nsenders)
  <1>1. PICK q, N : q = incoming[v] /\ N = Len(incoming[v])
    OBVIOUS
  <1>2. N \in Nat /\ \A i \in 1..N : q[i] \in Sender
    BY <1>1, QueueFacts
  <1>3. PICK g : /\ g[0] = st
                 /\ \A n \in 1..N : g[n] = DestroySender(g[n - 1], q[n])
                 /\ ClearIncoming(v, st) = g[N]
    BY <1>1, <1>2, ClearedRuns
  <1> DEFINE T == {n \in 0..N : g[n] \in State /\ Announced(g[n].strand, g[n].nsenders)}
  <1>4. 0 \in T
    BY <1>2, <1>3
  <1>5. ASSUME NEW n \in 0..N, n # 0, n - 1 \in T PROVE n \in T
    <2>1. n \in 1..N /\ q[n] \in Sender
      BY <1>2, <1>5
    <2>2. g[n - 1] \in State /\ Announced(g[n - 1].strand, g[n - 1].nsenders)
      BY <1>5
    <2>3. g[n] = DestroySender(g[n - 1], q[n])
      BY <1>3, <2>1
    <2>4. g[n] \in State /\ Announced(g[n].strand, g[n].nsenders)
      BY <2>1, <2>2, <2>3, AnnouncedDestroy
    <2> QED
      BY <2>4
  <1>6. T \subseteq 0..N
    OBVIOUS
  <1>7. N \in T
    <2> HIDE DEF T
    <2> QED
      BY <1>2, <1>4, <1>5, <1>6, Climb
  <1> QED
    BY <1>3, <1>7

\* What the strands and the counters hold now.
LEMMA AnnouncedNow ==
    ASSUME Types, Announced(strand, nsenders)
    PROVE  \E st \in State : st = Now /\ Announced(st.strand, st.nsenders)
  BY NowFacts

\* The strand of v takes a handler that waits there.
LEMMA AnnouncedTaken ==
    ASSUME Types, Announced(strand, nsenders), NEW v \in Vm, NEW op, NextHandler(v, op)
    PROVE  /\ Announced(Pop(v), nsenders)
           /\ \E st \in State : /\ st = [Now EXCEPT !.strand = Pop(v)]
                                /\ Announced(st.strand, st.nsenders)
  <1>1. strand \in [Vm -> Seq(Handler)] /\ strand[v] # <<>>
    BY NextTaken DEF Types
  <1>2. Popped(strand, v) \in [Vm -> Seq(Handler)] /\ Announced(Popped(strand, v), nsenders)
    BY <1>1, PoppedFacts, AnnouncedPop
  <1>3. Pop(v) = Popped(strand, v)
    BY DEF Pop, Popped
  <1>4. PICK st \in State : /\ st = [Now EXCEPT !.strand = Pop(v)]
                            /\ st.strand = Popped(strand, v) /\ st.nsenders = nsenders
    BY <1>2, PoppedState
  <1> QED
    BY <1>2, <1>3, <1>4

\* The handlers.
LEMMA AnnouncedStrand ==
    ASSUME Types, Announced(strand, nsenders), NEW v \in Vm, RunStrand(v)
    PROVE  Announced(strand', nsenders')
  <1>1. strand \in [Vm -> Seq(Handler)]
    BY DEF Types
  <1>2. CASE RunFiber(v)
    <2>1. nsenders' = nsenders /\ NextHandler(v, "resume")
      BY <1>2 DEF RunFiber, addressVars
    <2>2. strand' = strand \/ strand' = Pop(v)
      BY <1>2 DEF RunFiber, RunResume, coreVars, Pop
    <2>3. Announced(Pop(v), nsenders)
      BY <2>1, AnnouncedTaken
    <2> QED
      BY <2>1, <2>2, <2>3
  <1>3. CASE DeliverToQueue(v) \/ DeliverToReceiver(v)
    <2>1. nsenders' = nsenders /\ NextHandler(v, "deliver") /\ strand' = Pop(v)
      BY <1>3 DEF DeliverToQueue, DeliverToReceiver, addressVars
    <2> QED
      BY <2>1, AnnouncedTaken
  <1>4. CASE RunNoSenders(v)
    <2>1. nsenders' = nsenders /\ NextHandler(v, "no_senders") /\ strand' = Pop(v)
      BY <1>4 DEF RunNoSenders, addressVars
    <2> QED
      BY <2>1, AnnouncedTaken
  <1>5. CASE WakeSender(v)
    <2>1. PICK f \in Fiber : f = after[v]
      BY <1>5 DEF WakeSender, Types
    <2>2. PICK h : h = Resume(f, "sent")
      OBVIOUS
    <2>3. h \in Handler /\ h.op = "resume" /\ VmOf[f] \in Vm
      BY <2>2, Made, Shapes, VmContextAssumption DEF Result
    <2>4. strand' = Posted(strand, VmOf[f], h) /\ nsenders' = nsenders
      BY <1>5, <2>1, <2>2 DEF WakeSender, Post, Posted, addressVars
    <2>5. Announced(Posted(strand, VmOf[f], h), nsenders)
      BY <1>1, <2>3, AnnouncedPost
    <2> QED
      BY <2>4, <2>5
  <1>6. CASE DeliverToClosed(v)
    <2>1. NextHandler(v, "deliver")
      BY <1>6 DEF DeliverToClosed
    <2>2. PICK st \in State : st = [Now EXCEPT !.strand = Pop(v)] /\ Announced(st.strand, st.nsenders)
      BY <2>1, AnnouncedTaken
    <2>3. PICK h : h = Head(strand[v])
      OBVIOUS
    <2>4. h \in Handler /\ h.op = "deliver"
      BY <2>1, <2>3, NextTaken
    <2>5. PICK s : s = [fiber |-> h.fiber, msg |-> h.val]
      OBVIOUS
    <2>6. s \in Sender
      BY <2>4, <2>5, HandlerFacts DEF Sender
    <2>7. Becomes(DestroySender(st, s))
      BY <1>6, <2>2, <2>3, <2>5 DEF DeliverToClosed
    <2> QED
      BY <2>2, <2>6, <2>7, AnnouncedDestroy DEF Becomes
  <1>7. CASE RunRevoke(v)
    <2>1. NextHandler(v, "revoke")
      BY <1>7 DEF RunRevoke
    <2>2. PICK st \in State : st = [Now EXCEPT !.strand = Pop(v)] /\ Announced(st.strand, st.nsenders)
      BY <2>1, AnnouncedTaken
    <2>3. PICK f \in Fiber : f = Head(strand[v]).fiber
      BY <2>1, NextTaken, HandlerFacts
    <2>4. PICK h : h = Resume(f, "interrupted")
      OBVIOUS
    <2>5. h \in Handler /\ h.op = "resume" /\ VmOf[f] \in Vm
      BY <2>4, Made, Shapes, VmContextAssumption DEF Result
    <2>6. ASSUME NEW i, Becomes(PostIn(Drop(st, DroppedByErase(incoming[v], i)), VmOf[f], h))
          PROVE  Announced(strand', nsenders')
      <3>1. PICK bag : bag = DroppedByErase(incoming[v], i)
        OBVIOUS
      <3>2. bag \in [Vm -> Nat] /\ bag \in [Vm -> Int]
        BY <3>1 DEF DroppedByErase, CarriedBy, NoAddress
      <3>3. PICK st1 : st1 = Drop(st, bag)
        OBVIOUS
      <3>4. st1 \in State /\ Announced(st1.strand, st1.nsenders)
        BY <2>2, <3>2, <3>3, AnnouncedDrop, DropFacts
      <3>5. strand' = Posted(st1.strand, VmOf[f], h) /\ nsenders' = st1.nsenders
        BY <2>5, <2>6, <3>1, <3>3, <3>4, PostInFacts DEF Becomes
      <3>6. st1.strand \in [Vm -> Seq(Handler)]
        BY <3>4, StateFacts
      <3> QED
        BY <2>5, <3>4, <3>5, <3>6, AnnouncedPost
    <2>7. CASE Becomes(st)
      BY <2>2, <2>7 DEF Becomes
    <2> QED
      BY <1>7, <2>2, <2>3, <2>4, <2>6, <2>7 DEF RunRevoke
  <1> QED
    BY <1>2, <1>3, <1>4, <1>5, <1>6, <1>7 DEF RunStrand

\* The end of a VM: its addresses and its inbox go, in one order or the other.
LEMMA AnnouncedClose ==
    ASSUME Types, Announced(strand, nsenders), NEW v \in Vm, NEW st, Becomes(st),
           \/ st = Closed(v)
           \/ st = Drop(ClearIncoming(v, Now), tx[v])
           \/ st = ClearIncoming(v, Now)
    PROVE  Announced(strand', nsenders')
  <1>1. PICK now \in State : now = Now /\ Announced(now.strand, now.nsenders)
    BY AnnouncedNow
  <1>2. incoming[v] \in Seq(Sender) /\ tx[v] \in [Vm -> Nat]
    BY DEF Types
  <1>3. PICK bag : bag = tx[v] /\ bag \in [Vm -> Nat] /\ bag \in [Vm -> Int]
    BY <1>2
  <1>4. CASE st = Closed(v)
    <2>1. PICK st1 : st1 = Drop(now, bag)
      OBVIOUS
    <2>2. st1 \in State /\ Announced(st1.strand, st1.nsenders)
      BY <1>1, <1>3, <2>1, AnnouncedDrop, DropFacts
    <2>3. st = ClearIncoming(v, st1)
      BY <1>1, <1>3, <1>4, <2>1 DEF Closed
    <2> QED
      BY <1>2, <2>2, <2>3, AnnouncedClear DEF Becomes
  <1>5. PICK st2 : st2 = ClearIncoming(v, now)
    OBVIOUS
  <1>6. st2 \in State /\ Announced(st2.strand, st2.nsenders)
    BY <1>1, <1>2, <1>5, AnnouncedClear
  <1>7. CASE st = Drop(ClearIncoming(v, Now), tx[v])
    <2>1. st = Drop(st2, bag)
      BY <1>1, <1>3, <1>5, <1>7
    <2> QED
      BY <1>3, <1>6, <2>1, AnnouncedDrop DEF Becomes
  <1>8. CASE st = ClearIncoming(v, Now)
    BY <1>1, <1>5, <1>6, <1>8 DEF Becomes
  <1> QED
    BY <1>4, <1>7, <1>8

\* The calls that end something.
LEMMA AnnouncedEnds ==
    ASSUME Types, Announced(strand, nsenders), NEW f \in Fiber, NEW v \in Vm,
           \/ InboxClose(f) \/ InboxGc(f) \/ End(f) \/ Terminate(f) \/ MainFails(f) \/ Destroy(v)
           \/ DropAddress(f, v)
    PROVE  Announced(strand', nsenders')
  <1>1. VmOf[f] \in Vm
    BY VmContextAssumption
  <1>2. CASE UNCHANGED <<strand, nsenders>>
    BY <1>2
  <1>3. PICK now \in State : now = Now /\ Announced(now.strand, now.nsenders)
    BY AnnouncedNow
  <1>4. CASE InboxClose(f)
    <2>1. PICK u \in Vm : u = VmOf[f] /\ incoming[u] \in Seq(Sender)
      BY <1>1 DEF Types
    <2>2. PICK h : h = Resume(recvFiber[u], "channel_closed")
      OBVIOUS
    <2>3. h \in Handler /\ h.op = "resume"
      <3>1. recvFiber[u] \in Fiber \cup {Nil}
        BY DEF Types
      <3> QED
        BY <2>2, <3>1, Made, Shapes DEF Result
    <2>4. PICK st : st = IF recvFiber[u] = Nil THEN now ELSE PostIn(now, u, h)
      OBVIOUS
    <2>5. st \in State /\ Announced(st.strand, st.nsenders)
      <3>1. PostIn(now, u, h) \in State
        BY <2>3, PostInFacts
      <3>2. PostIn(now, u, h).strand = Posted(now.strand, u, h) /\ PostIn(now, u, h).nsenders = now.nsenders
        BY <2>3, PostInFacts
      <3>3. now.strand \in [Vm -> Seq(Handler)]
        BY StateFacts
      <3>4. Announced(Posted(now.strand, u, h), now.nsenders)
        BY <1>3, <2>3, <3>3, AnnouncedPost
      <3> QED
        BY <1>3, <2>4, <3>1, <3>2, <3>4
    <2>6. Becomes(ClearIncoming(u, st))
      BY <1>3, <1>4, <2>1, <2>2, <2>4 DEF InboxClose, ShutInbox
    <2> QED
      BY <2>1, <2>5, <2>6, AnnouncedClear DEF Becomes
  <1>5. CASE InboxGc(f)
    <2>1. UNCHANGED <<strand, nsenders>> \/ Becomes(ClearIncoming(VmOf[f], Now))
      BY <1>5 DEF InboxGc, ShutInbox
    <2> QED
      BY <1>1, <1>2, <2>1, AnnouncedClose
  <1>6. CASE End(f)
    <2>1. UNCHANGED <<strand, nsenders>> \/ Becomes(ClearIncoming(VmOf[f], Now))
      BY <1>6 DEF End, ShutInbox
    <2> QED
      BY <1>1, <1>2, <2>1, AnnouncedClose
  <1>7. CASE Terminate(f)
    <2>1. Becomes(Closed(VmOf[f]))
      BY <1>7 DEF Terminate, Close, ShutInbox
    <2> QED
      BY <1>1, <2>1, AnnouncedClose
  <1>8. CASE MainFails(f)
    <2>1. Becomes(Closed(VmOf[f])) \/ Becomes(Drop(ClearIncoming(VmOf[f], Now), tx[VmOf[f]]))
      BY <1>8 DEF MainFails, Close, ShutInbox
    <2> QED
      BY <1>1, <2>1, AnnouncedClose
  <1>9. CASE Destroy(v)
    <2>1. UNCHANGED <<strand, nsenders>> \/ Becomes(Closed(v))
      BY <1>9 DEF Destroy, Close, ShutInbox, addressVars
    <2> QED
      BY <1>2, <2>1, AnnouncedClose
  <1>10. CASE DropAddress(f, v)
    <2>1. PICK bag : bag = CarriedBy(v) /\ bag \in [Vm -> Nat]
      <3>1. CarriedBy(v) \in [Vm -> Nat]
        BY DEF CarriedBy
      <3> QED
        BY <3>1
    <2>2. Becomes(Drop(now, bag))
      BY <1>3, <1>10, <2>1 DEF DropAddress
    <2> QED
      BY <1>3, <2>1, <2>2, AnnouncedDrop DEF Becomes
  <1> QED
    BY <1>4, <1>5, <1>6, <1>7, <1>8, <1>9, <1>10

\* A VM whose address somebody holds has a sender.
LEMMA HeldMeansSender ==
    ASSUME Types, Counted, NEW v \in Vm, NEW w \in Vm, CanLock(w)
    PROVE  nsenders[w] \in Nat /\ (tx[v][w] > 0 => nsenders[w] > 0)
  <1>1. tx[v][w] \in Nat /\ Addresses(w) \in Nat /\ tx[v][w] <= Addresses(w)
    BY HeldIsCounted
  <1>2. nsenders[w] = Addresses(w) + forgotten[w] /\ forgotten[w] \in Nat
    BY DEF Counted, NsendersIsExact, Types
  <1> QED
    BY <1>1, <1>2

\* chan_send(): whoever sends holds an address, so that the count is not zero.
LEMMA AnnouncedSend ==
    ASSUME Types, Counted, Announced(strand, nsenders), NEW f \in Fiber, NEW w \in Vm,
           NEW msg \in Msg, Send(f, w, msg)
    PROVE  Announced(strand', nsenders')
  <1>1. PICK v \in Vm : v = VmOf[f]
    BY VmContextAssumption
  <1>2. /\ tx[v][w] > 0 /\ CanLock(w)
        /\ nsenders' = IF msg \in Vm /\ CanLock(msg) THEN [nsenders EXCEPT ![msg] = @ + 1] ELSE nsenders
        /\ strand' = [strand EXCEPT ![w] = Append(@, Deliver(f, msg))]
    BY <1>1 DEF Send, Post
  <1>3. ASSUME NEW u \in Vm, CanLock(u), nsenders'[u] = 0 PROVE Followed(strand'[u])
    <2>1. nsenders[u] \in Nat
      BY <1>1, <1>3, HeldMeansSender
    <2>2. nsenders'[u] = nsenders[u] \/ nsenders'[u] = nsenders[u] + 1
      BY <1>2 DEF Types
    <2>3. nsenders[u] = 0
      BY <1>3, <2>1, <2>2
    <2>4. u # w
      BY <1>1, <1>2, <1>3, <2>3, HeldMeansSender
    <2>5. strand'[u] = strand[u]
      BY <1>2, <2>4 DEF Types
    <2> QED
      BY <1>3, <2>3, <2>5 DEF Announced
  <1> QED
    BY <1>3 DEF Announced

\* spawn_vm(): the new VM has a sender.
LEMMA AnnouncedSpawnVm ==
    ASSUME Types, Counted, Announced(strand, nsenders), NEW f \in Fiber, NEW w \in Vm, SpawnVm(f, w)
    PROVE  Announced(strand, nsenders)'
  <1>1. PICK h : h = ResumeSkipClear(Main[w])
    OBVIOUS
  <1>2. /\ IsPost(strand', strand, w, h) /\ h \in Handler /\ h.op = "resume"
        /\ nsenders'[w] = nsenders[w] + 1 /\ \A x \in Vm : x # w => nsenders'[x] = nsenders[x]
        /\ ~Spawned(w)
    BY <1>1, SpawnVmFacts
  <1>3. UNCHANGED <<running, recvFiber, incoming, after, destroyed>>
    BY SpawnVmFacts
  <1>4. nsenders'[w] # 0
    BY <1>2 DEF Counted
  <1>5. \A x \in Vm : x # w => (CanLock(x)' => CanLock(x)) /\ strand'[x] = strand[x]
    BY <1>2, <1>3, PostedLocks DEF IsPost
  <1>6. ASSUME NEW u \in Vm, CanLock(u)', nsenders'[u] = 0 PROVE Followed(strand'[u])
    <2>1. CanLock(u) /\ nsenders[u] = 0 /\ strand'[u] = strand[u]
      BY <1>2, <1>4, <1>5, <1>6
    <2> QED
      BY <2>1 DEF Announced
  <1> QED
    BY <1>6 DEF Announced

\* Every step keeps it so.
LEMMA AnnouncedNext ==
    ASSUME Inv, Inv', Counted, Announced(strand, nsenders), [Next]_vars
    PROVE  Announced(strand, nsenders)'
  <1>0. Types /\ Types' /\ strand \in [Vm -> Seq(Handler)]
    BY DEF Inv, Types
  <1>1. ASSUME KeepsCount, Announced(strand', nsenders') PROVE Announced(strand, nsenders)'
    <2>1. \A w \in Vm : CanLock(w)' => CanLock(w)
      BY <1>1 DEF KeepsCount, LocksNoMore
    <2> QED
      BY <1>1, <2>1 DEF Announced
  <1>2. ASSUME NEW v \in Vm, RunStrand(v) PROVE Announced(strand, nsenders)'
    <2>1. KeepsCount
      BY <1>0, <1>2, CountRunFiber, CountDeliverToClosed, CountDeliverToQueue, CountDeliverToReceiver,
         CountWakeSender, CountRunNoSenders, CountRunRevoke DEF RunStrand
    <2> QED
      BY <1>0, <1>1, <1>2, <2>1, AnnouncedStrand
  <1>3. ASSUME NEW f \in Fiber, NEW v \in Vm,
               \/ InboxClose(f) \/ InboxGc(f) \/ End(f) \/ Terminate(f) \/ MainFails(f) \/ Destroy(v)
               \/ DropAddress(f, v)
        PROVE  Announced(strand, nsenders)'
    <2>1. KeepsCount
      BY <1>0, <1>3, CountInboxClose, CountInboxGc, CountEnd, CountTerminate, CountMainFails,
         CountDestroy, CountDropAddress
    <2>2. Announced(strand', nsenders')
      BY <1>0, <1>3, AnnouncedEnds
    <2> QED
      BY <1>1, <2>1, <2>2
  <1>4. ASSUME UNCHANGED <<strand, running, incoming, recvFiber, nsenders, forgotten, tx, after,
                           destroyed>>
        PROVE  Announced(strand, nsenders)'
    <2>1. KeepsCount
      BY <1>0, <1>4, CountAnswer
    <2> QED
      BY <1>1, <1>4, <2>1
  <1>5. ASSUME NEW f \in Fiber, NEW w \in Vm, NEW h \in Handler, KeepsCount, h.op # "deliver",
               strand' = Posted(strand, w, h), nsenders' = nsenders
        PROVE  Announced(strand, nsenders)'
    <2>1. Announced(Posted(strand, w, h), nsenders)
      BY <1>0, <1>5, AnnouncedPost
    <2> QED
      BY <1>1, <1>5, <2>1
  <1>6. ASSUME NEW f \in Fiber, ActorCall(f) PROVE Announced(strand, nsenders)'
    <2>1. CASE ImportInbox(f) \/ ReceiveRaises(f) \/ \E w \in Vm : SendRaises(f, w)
      <3>1. UNCHANGED <<strand, running, incoming, recvFiber, nsenders, forgotten, tx, after, destroyed>>
        BY <2>1 DEF ImportInbox, ReceiveRaises, SendRaises, Return, inboxVars, addressVars
      <3> QED
        BY <1>4, <3>1
    <2>2. CASE ReceiveQueued(f)
      <3>1. KeepsCount
        BY <1>0, <2>2, CountReceiveQueued
      <3>2. PICK v \in Vm : v = VmOf[f]
        BY VmContextAssumption
      <3>3. PICK s : s = Head(incoming[v])
        OBVIOUS
      <3>4. s.fiber \in Fiber
        <4>1. incoming[v] \in Seq(Sender) /\ incoming[v] # <<>>
          BY <1>0, <2>2, <3>2 DEF Types, ReceiveQueued
        <4>2. s \in Sender
          BY <3>3, <4>1
        <4> QED
          BY <4>2 DEF Sender
      <3>5. PICK h : h = Resume(s.fiber, "sent")
        OBVIOUS
      <3>6. h \in Handler /\ h.op = "resume" /\ VmOf[s.fiber] \in Vm
        BY <3>4, <3>5, Made, Shapes, VmContextAssumption DEF Result
      <3>7. strand' = Posted(strand, VmOf[s.fiber], h) /\ nsenders' = nsenders
        BY <2>2, <3>2, <3>3, <3>5 DEF ReceiveQueued, Post, Posted
      <3> QED
        BY <1>5, <3>1, <3>6, <3>7
    <2>3. CASE ReceiveWaits(f)
      <3>1. KeepsCount
        BY <1>0, <2>3, CountReceiveWaits
      <3>2. strand' = strand /\ nsenders' = nsenders
        BY <2>3 DEF ReceiveWaits, addressVars
      <3> QED
        BY <1>1, <3>1, <3>2
    <2>4. CASE InboxClose(f) \/ InboxGc(f)
      BY <1>3, <2>4, VmContextAssumption
    <2>5. ASSUME NEW w \in Vm, SpawnVm(f, w) PROVE Announced(strand, nsenders)'
      BY <1>0, <2>5, AnnouncedSpawnVm
    <2>6. ASSUME NEW w \in Vm, DropAddress(f, w) PROVE Announced(strand, nsenders)'
      BY <1>3, <2>6
    <2>7. ASSUME NEW w \in Vm, NEW msg \in Msg, Send(f, w, msg) PROVE Announced(strand, nsenders)'
      <3>1. KeepsCount
        BY <1>0, <2>7, CountSend
      <3>2. Announced(strand', nsenders')
        BY <1>0, <2>7, AnnouncedSend
      <3> QED
        BY <1>1, <3>1, <3>2
    <2> QED
      BY <1>6, <2>1, <2>2, <2>3, <2>4, <2>5, <2>6, <2>7 DEF ActorCall
  <1>7. ASSUME NEW f \in Fiber, End(f) \/ Terminate(f) \/ MainFails(f)
        PROVE  Announced(strand, nsenders)'
    BY <1>3, <1>7, VmContextAssumption
  <1>8. ASSUME NEW v \in Vm, Destroy(v) PROVE Announced(strand, nsenders)'
    BY <1>3, <1>8, VmContextAssumption
  <1>9. ASSUME NEW f \in Fiber, NEW g \in Fiber, Spawn(f, g) PROVE Announced(strand, nsenders)'
    <2>1. KeepsCount
      BY <1>0, <1>9, CountSpawn
    <2>2. PICK h : h = ResumeSkipClear(g)
      OBVIOUS
    <2>3. h \in Handler /\ h.op = "resume" /\ VmOf[g] \in Vm
      BY <2>2, Made, Shapes, VmContextAssumption
    <2>4. strand' = Posted(strand, VmOf[g], h) /\ nsenders' = nsenders
      BY <1>9, <2>2 DEF Spawn, SpawnFiber, Post, Posted, addressVars
    <2> QED
      BY <1>5, <2>1, <2>3, <2>4
  <1>10. ASSUME NEW f \in Fiber, NEW g \in Fiber, Interrupt(f, g) PROVE Announced(strand, nsenders)'
    <2>1. KeepsCount /\ nsenders' = nsenders
      BY <1>0, <1>10, CountInterrupt DEF Interrupt, addressVars
    <2>2. PICK v \in Vm : v = VmOf[g]
      BY VmContextAssumption
    <2>3. PICK h : h = Resume(recvFiber[v], "interrupted")
      OBVIOUS
    <2>4. h \in Handler /\ h.op = "resume"
      <3>1. recvFiber[v] \in Fiber \cup {Nil}
        BY <1>0 DEF Types
      <3> QED
        BY <2>3, <3>1, Made, Shapes DEF Result
    <2>5. PICK k : k = Revoke(g)
      OBVIOUS
    <2>6. k \in Handler /\ k.op = "revoke"
      BY <2>5, Made, Shapes
    <2>7. CASE strand' = strand
      BY <1>1, <2>1, <2>7
    <2>8. CASE strand' = Posted(strand, v, h)
      BY <1>5, <2>1, <2>4, <2>8
    <2>9. ASSUME NEW w \in Vm, strand' = Posted(strand, w, k) PROVE Announced(strand, nsenders)'
      BY <1>5, <2>1, <2>6, <2>9
    <2>10. interrupter[g] # Nil /\ interrupter[g] # Receiving => interrupter[g] \in Vm
      BY <1>0 DEF Types, CoreTypeOK
    <2> QED
      BY <1>10, <2>2, <2>3, <2>5, <2>7, <2>8, <2>9, <2>10
      DEF Interrupt, ReceiveInterrupter, SendInterrupter, Post, Posted
  <1>11. CASE UNCHANGED vars
    BY <1>4, <1>11 DEF vars, coreVars, inboxVars, addressVars
  <1> QED
    BY <1>2, <1>6, <1>7, <1>8, <1>9, <1>10, <1>11 DEF Next

\* A message on its way to an inbox without senders is followed by a notice.
LEMMA AnnouncedAlways == Spec => [](Inv /\ Counted /\ Announced(strand, nsenders))
  <1>1. Init => Announced(strand, nsenders)
    <2>1. SUFFICES ASSUME Init, NEW w \in Vm PROVE Followed(strand[w])
      BY DEF Announced
    <2>2. strand[w] = <<>> \/ strand[w] = <<ResumeSkipClear(Main[Root])>>
      BY <2>1 DEF Init
    <2> QED
      BY <2>2, Shapes DEF Followed
  <1>2. Inv /\ Inv' /\ Counted /\ Announced(strand, nsenders) /\ [Next]_vars =>
           Announced(strand, nsenders)'
    BY AnnouncedNext
  <1> QED
    BY <1>1, <1>2, CountedAlways, PTL DEF Spec

-----------------------------------------------------------------------------
(* no_senders is final.                                                      *)

\* Nobody is left who could send v a message, none waits, and one that is on its
\* way is followed by another notice.
Deserts(v) ==
    /\ Addresses(v) = 0
    /\ incoming[v] = <<>>
    /\ Followed(strand[v])

\* What NoSendersIsFinal says of one receiver and one step.
Final(v, f) ==
    VmOf[f] = v /\ at[f] = "receive" /\ at'[f] = "running" /\ ret'[f] = "no_senders" => Deserts(v)

\* An inbox whose nsenders is zero while somebody receives has no sender left.
LEMMA NobodyLeft ==
    ASSUME Inv, Counted, Announced(strand, nsenders), NEW v \in Vm,
           strand[v] # <<>>, recvFiber[v] # Nil, nsenders[v] = 0
    PROVE  Deserts(v)
  <1>1. Types /\ VmOK(v)
    BY DEF Inv
  <1>2. PICK kind, home, word : Accounts(kind, home, word)
    BY DEF Inv
  <1>3. incoming[v] = <<>> /\ valid[v]
    <2>1. recvFiber[v] \in Fiber
      BY <1>1 DEF Types
    <2>2. PICK r \in Fiber : r = recvFiber[v]
      BY <2>1
    <2>3. kind[r] = "receiver" /\ home[r] = v
      BY <1>2, <2>2 DEF Accounts, Waiting
    <2>4. ReceiverOK(r, kind, home)
      BY <1>2 DEF Accounts, FiberOK
    <2> QED
      BY <2>3, <2>4 DEF ReceiverOK
  <1>4. CanLock(v)
    BY <1>1, <1>3 DEF VmOK, CanLock, Referenced
  <1>5. Addresses(v) \in Nat /\ forgotten[v] \in Nat /\ nsenders[v] = Addresses(v) + forgotten[v]
    BY <1>1, <1>4, AddressesNat DEF Counted, NsendersIsExact, Types
  <1>6. Addresses(v) = 0
    BY <1>5
  <1>7. Followed(strand[v])
    BY <1>4 DEF Announced
  <1> QED
    BY <1>3, <1>6, <1>7 DEF Deserts

\* Only the handler that the last ~actor_address() posted says no_senders.
LEMMA FinalNoSenders ==
    ASSUME Inv, Counted, Announced(strand, nsenders), NEW v \in Vm,
           RunNoSenders(v), NEW w \in Vm, NEW f \in Fiber
    PROVE  Final(w, f)
  <1>1. Types /\ NextHandler(v, "no_senders")
    BY DEF Inv, RunNoSenders
  <1>2. PICK kind, home, word : Accounts(kind, home, word)
    BY DEF Inv
  <1>3. \/ at' = at
        \/ /\ nsenders[v] = 0 /\ recvFiber[v] # Nil
           /\ at' = [at EXCEPT ![recvFiber[v]] = "running"]
    BY DEF RunNoSenders, FiberResume
  <1>4. CASE at' = at
    BY <1>4 DEF Final
  <1>5. CASE /\ nsenders[v] = 0 /\ recvFiber[v] # Nil
             /\ at' = [at EXCEPT ![recvFiber[v]] = "running"]
    <2>1. strand[v] # <<>>
      BY <1>1, NextTaken
    <2>2. Deserts(v)
      BY <1>5, <2>1, NobodyLeft
    <2>3. PICK r \in Fiber : r = recvFiber[v] /\ kind[r] = "receiver" /\ home[r] = v
      BY <1>1, <1>2, <1>5 DEF Types, Accounts, Waiting
    <2>4. VmOf[r] = v
      BY <1>2, <2>3 DEF Accounts, FiberOK, ReceiverOK
    <2>5. f # r => at'[f] = at[f]
      BY <1>1, <1>5, <2>3 DEF Types, CoreTypeOK
    <2> QED
      BY <2>2, <2>4, <2>5 DEF Final
  <1> QED
    BY <1>3, <1>4, <1>5

\* A queued resumption says something else.
LEMMA FinalRunFiber ==
    ASSUME Inv, NEW v \in Vm, RunFiber(v), NEW w \in Vm, NEW f \in Fiber PROVE Final(w, f)
  <1>1. Types
    BY DEF Inv
  <1>2. PICK kind, home, word : Accounts(kind, home, word)
    BY DEF Inv
  <1>3. NextHandler(v, "resume")
    BY DEF RunFiber
  <1>4. PICK h : h = Head(strand[v])
    OBVIOUS
  <1>5. /\ strand[v] \in Seq(Handler) /\ h \in Handler /\ h \in Members(strand[v]) /\ h.op = "resume"
    BY <1>1, <1>3, <1>4, NextTaken
  <1>6. \/ at' = at
        \/ /\ valid[v] /\ h.fiber # Nil /\ at' = [at EXCEPT ![h.fiber] = "running"]
           /\ ret' = [ret EXCEPT ![h.fiber] = h.val]
    BY <1>4 DEF RunFiber, RunResume, FiberResume, coreVars
  <1>7. CASE at' = at
    BY <1>7 DEF Final
  <1>8. CASE /\ valid[v] /\ h.fiber # Nil /\ at' = [at EXCEPT ![h.fiber] = "running"]
             /\ ret' = [ret EXCEPT ![h.fiber] = h.val]
    <2>1. h.fiber \in Fiber
      BY <1>5, <1>8, HandlerFacts
    <2>2. at \in [Fiber -> Suspended \cup Gone \cup {"running"}] /\ ret \in [Fiber -> Result]
      BY <1>1 DEF Types, CoreTypeOK
    <2>3. CASE f # h.fiber
      <3>1. at'[f] = at[f]
        BY <1>8, <2>2, <2>3
      <3> QED
        BY <3>1 DEF Final
    <2>4. CASE f = h.fiber
      <3>1. ret'[f] = h.val
        BY <1>8, <2>2, <2>4
      <3>2. Has(strand[v], "resume", f)
        BY <1>5, <2>4 DEF Has, Members
      <3>3. kind[f] = "resume" /\ h.val = word[f]
        BY <1>2, <1>5, <1>8, <2>4, <3>2 DEF Accounts, OnStrand
      <3>4. word[f] # "no_senders"
        BY <1>2, <3>3 DEF Accounts, FiberOK, WordOK
      <3> QED
        BY <3>1, <3>3, <3>4 DEF Final
    <2> QED
      BY <2>3, <2>4
  <1> QED
    BY <1>6, <1>7, <1>8

\* So does a delivery.
LEMMA FinalDeliver ==
    ASSUME Inv, NEW v \in Vm, DeliverToReceiver(v), NEW w \in Vm, NEW f \in Fiber PROVE Final(w, f)
  <1>1. Types /\ recvFiber[v] \in Fiber
    BY DEF Inv, Types, DeliverToReceiver
  <1>2. PICK r \in Fiber : r = recvFiber[v]
    BY <1>1
  <1>3. at' = [at EXCEPT ![r] = "running"] /\ ret' = [ret EXCEPT ![r] = "message"]
    BY <1>2 DEF DeliverToReceiver, FiberResume
  <1>4. CASE f = r
    <2>1. ret'[f] = "message"
      BY <1>1, <1>3, <1>4 DEF Types, CoreTypeOK
    <2> QED
      BY <2>1 DEF Final
  <1>5. CASE f # r
    <2>1. at'[f] = at[f]
      BY <1>1, <1>3, <1>5 DEF Types, CoreTypeOK
    <2> QED
      BY <2>1 DEF Final
  <1> QED
    BY <1>4, <1>5

\* Every step keeps to it.
LEMMA FinalNext ==
    ASSUME Inv, Counted, Announced(strand, nsenders), [Next]_vars, NEW w \in Vm,
           NEW f \in Fiber
    PROVE  Final(w, f)
  <1>0. Types
    BY DEF Inv
  <1>1. (at'[f] = at[f] \/ at'[f] # "running") => Final(w, f)
    BY DEF Final
  <1>2. Wordless => Final(w, f)
    BY <1>1 DEF Wordless
  <1>3. ASSUME NEW v \in Vm, RunStrand(v) PROVE Final(w, f)
    BY <1>0, <1>2, <1>3, FinalRunFiber, FinalDeliver, FinalNoSenders, WordlessStrand DEF RunStrand
  <1>4. ASSUME NEW v \in Vm, Destroy(v) PROVE Final(w, f)
    BY <1>0, <1>2, <1>4, WordlessRest
  <1>5. ASSUME NEW g \in Fiber, ActorCall(g) PROVE Final(w, f)
    <2>1. CASE \/ ImportInbox(g) \/ ReceiveRaises(g) \/ ReceiveWaits(g) \/ InboxClose(g) \/ InboxGc(g)
      BY <1>0, <1>2, <2>1, WordlessCall, VmContextAssumption
    <2>2. CASE \E u \in Vm : SpawnVm(g, u) \/ SendRaises(g, u) \/ DropAddress(g, u)
      BY <1>0, <1>2, <2>2, WordlessCall
    <2>3. CASE ReceiveQueued(g)
      <3>1. at' = at
        BY <2>3 DEF ReceiveQueued, Return
      <3> QED
        BY <1>1, <3>1
    <2>4. ASSUME NEW u \in Vm, NEW msg \in Msg, Send(g, u, msg) PROVE Final(w, f)
      <3>1. at' = [at EXCEPT ![g] = "send"]
        BY <2>4 DEF Send, Suspend
      <3>2. at'[f] = at[f] \/ at'[f] # "running"
        BY <1>0, <3>1 DEF Types, CoreTypeOK
      <3> QED
        BY <1>1, <3>2
    <2> QED
      BY <1>5, <2>1, <2>2, <2>3, <2>4 DEF ActorCall
  <1>6. ASSUME NEW g \in Fiber, End(g) \/ Terminate(g) \/ MainFails(g) PROVE Final(w, f)
    <2>1. VmOf[g] \in Vm
      BY VmContextAssumption
    <2> QED
      BY <1>0, <1>2, <1>6, <2>1, WordlessCall, WordlessRest
  <1>7. ASSUME NEW g \in Fiber, NEW h \in Fiber, Spawn(g, h) \/ Interrupt(g, h) PROVE Final(w, f)
    <2>1. VmOf[g] \in Vm
      BY VmContextAssumption
    <2> QED
      BY <1>0, <1>2, <1>7, <2>1, WordlessRest
  <1>8. CASE UNCHANGED vars
    <2>1. Wordless
      BY <1>8 DEF vars, coreVars, Wordless
    <2> QED
      BY <1>2, <2>1
  <1> QED
    BY <1>3, <1>4, <1>5, <1>6, <1>7, <1>8 DEF Next

\* When chan_receive() is woken with no_senders, there is no address of the inbox
\* left anywhere, no message waits in its queue, and every message still on its way,
\* which somebody sent on an address that was closed since, has another no_senders
\* behind it: a receiver that goes on receiving gets the message and is told again.
THEOREM NoSendersIsTheEnd == Spec => NoSendersIsFinal
  <1>1. ASSUME Inv, Counted, Announced(strand, nsenders), [Next]_vars
        PROVE  [\A v \in Vm, f \in Fiber :
                   VmOf[f] = v /\ at[f] = "receive" /\ at'[f] = "running" /\ ret'[f] = "no_senders" =>
                      /\ Addresses(v) = 0
                      /\ incoming[v] = <<>>
                      /\ \A i \in DOMAIN strand[v] :
                            strand[v][i].op = "deliver" =>
                               \E j \in DOMAIN strand[v] : j > i /\ strand[v][j] = NoSenders]_vars
    BY <1>1, FinalNext DEF Final, Deserts, Followed
  <1> QED
    BY <1>1, AnnouncedAlways, PTL DEF Spec, NoSendersIsFinal

=============================================================================
