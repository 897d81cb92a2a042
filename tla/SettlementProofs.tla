------------------------- MODULE SettlementProofs -------------------------
(***************************************************************************)
(* Theorems about the settlement proof.                                    *)
(***************************************************************************)
EXTENDS SettlementProof, SequenceTheorems, SumLemmas

AllPoints == {Funding} \cup UNION {Points(t) : t \in Txs}

LEMMA PointsFinite ==
    ASSUME NEW t \in Txs
    PROVE  IsFiniteSet(Points(t)) /\ Points(t) \subseteq AllPoints
  <1>1. Outputs[t] \in Seq([kind : CellKinds, lock : STRING])
    BY TxAssumption
  <1>2. DOMAIN Outputs[t] = 1..Len(Outputs[t]) /\ Len(Outputs[t]) \in Nat
    BY <1>1, LenProperties
  <1>3. IsFiniteSet(DOMAIN Outputs[t])
    BY <1>2, FS_Interval
  <1>4. IsFiniteSet({<<t, n>> : n \in DOMAIN Outputs[t]})
    <2> DEFINE T == {<<t, n>> : n \in DOMAIN Outputs[t]}
               f == [n \in DOMAIN Outputs[t] |-> <<t, n>>]
    <2>1. f \in Surjection(DOMAIN Outputs[t], T)
      BY DEF Surjection
    <2> QED
      BY <1>3, <2>1, FS_Surjection
  <1> QED
    BY <1>4 DEF Points, AllPoints

----------------------------------------------------------------------------
(***************************************************************************)
(* The walk: what it has visited is closed under spending, but for what is *)
(* still in its queue.                                                     *)
(***************************************************************************)
Walks(among) == [queue : SUBSET among, visited : SUBSET among,
                 pending : SUBSET AllPoints]

Closed(s, among) ==
    \A t \in s.visited : \A p \in Points(t) :
        /\ Stuck(p, among) => p \in s.pending
        /\ Cell(p).kind = "commitment"
           => SpendersOf(p, among) \subseteq s.visited \cup s.queue

Walking(s, c, among) ==
    /\ s \in Walks(among) /\ c \in s.queue \cup s.visited
    /\ s.queue \cap s.visited = {} /\ Closed(s, among)

LEMMA VisitWalks ==
    ASSUME NEW among \in SUBSET Txs, NEW c,
           NEW s, Walking(s, c, among), s.queue # {}
    PROVE  /\ Walking(Visit(s, among), c, among)
           /\ Cardinality(Visit(s, among).visited) = Cardinality(s.visited) + 1
  <1> DEFINE t == CHOOSE u \in s.queue : TRUE
             next == UNION {SpendersOf(p, among) :
                        p \in {q \in Points(t) : Cell(q).kind = "commitment"}}
             v == Visit(s, among)
  <1>1. t \in s.queue /\ t \in among /\ t \in Txs /\ t \notin s.visited
    BY DEF Walking, Walks
  <1>2. /\ s.queue \subseteq among /\ s.visited \subseteq among
        /\ s.pending \subseteq AllPoints
    BY DEF Walking, Walks
  <1>3. v = [queue |-> (s.queue \cup next) \ (s.visited \cup {t}),
             visited |-> s.visited \cup {t},
             pending |-> s.pending \cup {p \in Points(t) : Stuck(p, among)}]
    BY DEF Visit
  <1>4. \A p : SpendersOf(p, among) \subseteq among
    BY DEF SpendersOf
  <1>5. next \subseteq among
    BY <1>4
  <1> HIDE DEF t, v
  <1>6. v \in Walks(among)
    <2>1. Points(t) \subseteq AllPoints
      BY <1>1, PointsFinite
    <2> HIDE DEF next
    <2> QED
      BY <1>1, <1>2, <1>3, <1>5, <2>1 DEF Walks
  <1>7. c \in v.queue \cup v.visited /\ v.queue \cap v.visited = {}
    <2> HIDE DEF next
    <2> QED
      BY <1>3 DEF Walking
  <1>8. Closed(v, among)
    <2> SUFFICES ASSUME NEW u \in v.visited, NEW p \in Points(u)
                 PROVE  /\ Stuck(p, among) => p \in v.pending
                        /\ Cell(p).kind = "commitment"
                           => SpendersOf(p, among) \subseteq v.visited \cup v.queue
      BY DEF Closed
    <2>1. /\ v.visited = s.visited \cup {t}
          /\ v.pending = s.pending \cup {q \in Points(t) : Stuck(q, among)}
          /\ v.visited \cup v.queue = s.visited \cup s.queue \cup next
      <3> HIDE DEF next
      <3> QED
        BY <1>1, <1>3
    <2>2. CASE u = t
      <3>1. Cell(p).kind = "commitment" => SpendersOf(p, among) \subseteq next
        BY <2>2
      <3> HIDE DEF next
      <3> QED
        BY <2>1, <2>2, <3>1
    <2>3. CASE u # t
      <3>1. u \in s.visited
        BY <2>1, <2>3
      <3>2. /\ Stuck(p, among) => p \in s.pending
            /\ Cell(p).kind = "commitment"
               => SpendersOf(p, among) \subseteq s.visited \cup s.queue
        BY <3>1 DEF Walking, Closed
      <3> HIDE DEF next
      <3> QED
        BY <2>1, <3>2
    <2> QED
      BY <2>2, <2>3
  <1>9. Cardinality(v.visited) = Cardinality(s.visited) + 1
    <2>1. IsFiniteSet(s.visited)
      BY <1>2, TxAssumption, FS_Subset
    <2>2. v.visited = s.visited \cup {t}
      BY <1>3
    <2> QED
      BY <1>1, <2>1, <2>2, FS_AddElement
  <1> QED
    BY <1>6, <1>7, <1>8, <1>9 DEF Walking, v

Onward(s, among) == IF s.queue = {} THEN s ELSE Visit(s, among)

LEMMA WalkIs ==
    ASSUME NEW among \in SUBSET Txs, NEW c \in among
    PROVE  /\ Walking(Walk(c, among), c, among)
           /\ Walk(c, among).queue = {}
  <1> DEFINE N == Cardinality(among)
             a == [queue |-> {c}, visited |-> {}, pending |-> {}]
             A == {s \in Walks(among) : Walking(s, c, among)}
             step == [n \in 1..N |-> [s \in A |-> Onward(s, among)]]
             Goes(f) == f = [n \in 0..N |->
                          IF n = 0
                          THEN [queue |-> {c}, visited |-> {}, pending |-> {}]
                          ELSE IF f[n - 1].queue = {} THEN f[n - 1]
                          ELSE Visit(f[n - 1], among)]
  <1>1. IsFiniteSet(among) /\ N \in Nat
    BY TxAssumption, FS_Subset, FS_CardinalityType
  <1>2. a \in A
    BY DEF Walking, Walks, Closed
  <1>3. \A s \in A : Onward(s, among) \in A
    BY VisitWalks DEF Onward, Walking
  <1>4. \A n \in 1..N : \A s \in A : step[n][s] = Onward(s, among)
    OBVIOUS
  <1> HIDE DEF step
  <1>5. PICK g \in [0..N -> A] : Iterates(g, N, a, step)
    <2> HIDE DEF A, a, N
    <2> QED
      <3>1. \A n \in 1..N : \A x \in A : step[n][x] \in A
        BY <1>3, <1>4
      <3> QED
        BY <1>1, <1>2, <3>1, IterateExists
  <1>6. Goes(g)
    <2>1. ASSUME NEW n \in 0..N, n # 0
          PROVE  step[n][g[n - 1]] = IF g[n - 1].queue = {} THEN g[n - 1]
                                     ELSE Visit(g[n - 1], among)
      <3>1. n \in 1..N /\ n - 1 \in 0..N
        BY <1>1, <2>1
      <3>2. g[n - 1] \in A
        <4> HIDE DEF A
        <4> QED
          BY <1>5, <3>1
      <3> HIDE DEF A
      <3> QED
        BY <1>4, <3>1, <3>2 DEF Onward
    <2> HIDE DEF N, A
    <2> QED
      BY <1>5, <2>1 DEF Iterates
  <1> DEFINE f == CHOOSE h : Goes(h)
  <1>7. Goes(f)
    <2> HIDE DEF Goes
    <2> QED
      BY <1>6
  <1>8. Walk(c, among) = f[N]
    BY DEF Walk
  <1> HIDE DEF f
  <1>9. f[0] = a /\ \A n \in 1..N : f[n] = Onward(f[n - 1], among)
    <2>1. f[0] = a
      BY <1>1, <1>7
    <2>2. ASSUME NEW n \in 1..N PROVE f[n] = Onward(f[n - 1], among)
      <3>1. n \in 0..N /\ n # 0
        BY <1>1
      <3> HIDE DEF N
      <3> QED
        BY <1>7, <3>1 DEF Onward
    <2> QED
      BY <2>1, <2>2
  <1> HIDE DEF Goes
  <1>10. 0..N \subseteq {n \in 0..N : f[n] \in A
                          /\ (f[n].queue = {} \/ Cardinality(f[n].visited) >= n)}
    <2> DEFINE S == {n \in 0..N : f[n] \in A
                      /\ (f[n].queue = {} \/ Cardinality(f[n].visited) >= n)}
    <2>1. 0 \in S
      <3>1. f[0] \in A
        BY <1>2, <1>9
      <3>2. f[0].visited = {} /\ Cardinality({}) = 0
        BY <1>9, FS_EmptySet
      <3>3. Cardinality(f[0].visited) >= 0 /\ 0 \in 0..N
        BY <1>1, <3>2
      <3> HIDE DEF A, N
      <3> QED
        BY <3>1, <3>3
    <2>2. ASSUME NEW n \in 1..N, n - 1 \in S PROVE n \in S
      <3>1. f[n] = Onward(f[n - 1], among) /\ f[n - 1] \in A /\ n \in 0..N
        BY <1>1, <1>9, <2>2
      <3>2. f[n] \in A
        <4> HIDE DEF A
        <4> QED
          BY <1>3, <3>1
      <3>3. CASE f[n - 1].queue = {}
        BY <3>1, <3>2, <3>3 DEF Onward
      <3>4. CASE f[n - 1].queue # {}
        <4>1. Cardinality(f[n - 1].visited) >= n - 1
          BY <2>2, <3>4
        <4>2. Cardinality(f[n].visited) = Cardinality(f[n - 1].visited) + 1
          BY <3>1, <3>4, VisitWalks DEF Onward
        <4>3. Cardinality(f[n - 1].visited) \in Nat
          <5>1. f[n - 1].visited \subseteq among
            BY <3>1 DEF Walks
          <5> QED
            BY <1>1, <5>1, FS_Subset, FS_CardinalityType
        <4>4. Cardinality(f[n].visited) >= n
          BY <4>1, <4>2, <4>3
        <4> QED
          BY <3>1, <3>2, <4>4
      <3> QED
        BY <3>3, <3>4
    <2> HIDE DEF S
    <2>3. 0..N \subseteq S
      BY <1>1, <2>1, <2>2, UpTo
    <2> QED
      BY <2>3 DEF S
  <1>11. f[N] \in A /\ (f[N].queue = {} \/ Cardinality(f[N].visited) >= N)
    BY <1>1, <1>10
  <1>12. Walking(f[N], c, among)
    BY <1>11
  <1>13. f[N].queue = {}
    <2> SUFFICES ASSUME Cardinality(f[N].visited) >= N PROVE f[N].queue = {}
      BY <1>11
    <2>1. f[N].visited \subseteq among /\ f[N].queue \subseteq among
      BY <1>12 DEF Walking, Walks
    <2>2. Cardinality(f[N].visited) <= N /\ Cardinality(f[N].visited) \in Nat
      BY <1>1, <2>1, FS_Subset, FS_CardinalityType
    <2>3. Cardinality(f[N].visited) = Cardinality(among)
      BY <1>1, <2>2
    <2>4. f[N].visited = among
      BY <1>1, <2>1, <2>3, FS_Subset
    <2> QED
      BY <1>12, <2>1, <2>4 DEF Walking
  <1> QED
    BY <1>8, <1>12, <1>13

----------------------------------------------------------------------------
(***************************************************************************)
(* What an accepted summary says.                                          *)
(***************************************************************************)
Accepted(claim) == claim.ok /\ claim.closing # None

LEMMA SummaryIs ==
    ASSUME NEW among \in SUBSET Txs, Accepted(Summary(among))
    PROVE  /\ Cardinality(among) <= MaxTransactions
           /\ Summary(among).hashes = among
           /\ \E c \in SpendersOf(Funding, among) :
                 /\ Summary(among).confirmed <=> Walk(c, among).pending = {}
                 /\ Walk(c, among).visited = among
  <1> DEFINE C == SpendersOf(Funding, among)
             c == CHOOSE t \in C : TRUE
             w == Walk(c, among)
             all == [ok |-> TRUE, closing |-> c, hashes |-> w.visited,
                     pending |-> w.pending, confirmed |-> w.pending = {}]
  <1>1. Summary(among) =
            IF Cardinality(among) > MaxTransactions THEN Failed
            ELSE IF C = {} THEN IF among = {} THEN NotClosed ELSE Failed
            ELSE IF w.visited # among THEN Failed
            ELSE all
    BY DEF Summary
  <1> HIDE DEF w
  <1>2. ~Accepted(Failed) /\ ~Accepted(NotClosed)
    BY DEF Accepted, Failed, NotClosed
  <1>3. /\ ~(Cardinality(among) > MaxTransactions) /\ C # {}
        /\ w.visited = among /\ Summary(among) = all
    <2> HIDE DEF C, c, all
    <2> QED
      BY <1>1, <1>2
  <1>4. Cardinality(among) <= MaxTransactions
    <2>1. Cardinality(among) \in Nat
      BY TxAssumption, FS_Subset, FS_CardinalityType
    <2> QED
      BY <1>3, <2>1, LimitAssumption
  <1>5. c \in C
    BY <1>3
  <1>6. Summary(among).hashes = among
        /\ (Summary(among).confirmed <=> w.pending = {})
    <2>1. Summary(among).hashes = among
      BY <1>3
    <2>2. all.confirmed = (w.pending = {})
      BY Zenon
    <2>3. Summary(among).confirmed = all.confirmed
      BY <1>3, Zenon
    <2> HIDE DEF all
    <2> QED
      BY <2>1, <2>2, <2>3, Zenon
  <1> HIDE DEF C, c
  <1>7. \E x \in C : /\ Summary(among).confirmed <=> Walk(x, among).pending = {}
                     /\ Walk(x, among).visited = among
    BY <1>3, <1>5, <1>6 DEF w
  <1> QED
    BY <1>4, <1>6, <1>7 DEF C

\* In a confirmed settlement no output of its transactions is stuck.
LEMMA NothingStuck ==
    ASSUME NEW among \in SUBSET Txs, Accepted(Summary(among)),
           Summary(among).confirmed
    PROVE  /\ SpendersOf(Funding, among) # {}
           /\ \A t \in among : \A p \in Points(t) : ~Stuck(p, among)
  <1>1. PICK c \in SpendersOf(Funding, among) :
            Walk(c, among).pending = {} /\ Walk(c, among).visited = among
    BY SummaryIs
  <1>2. c \in among
    BY DEF SpendersOf
  <1>3. Closed(Walk(c, among), among)
    BY <1>2, WalkIs DEF Walking
  <1>4. \A t \in among : \A p \in Points(t) : ~Stuck(p, among)
    BY <1>1, <1>3 DEF Closed
  <1> QED
    BY <1>4

----------------------------------------------------------------------------
(***************************************************************************)
(* The chain: a point is spent once, so descent has one way to go.         *)
(***************************************************************************)
ChainInv ==
    /\ chain \in Seq(Txs) /\ tip \in 0..Len(chain)
    /\ \A t, u \in Committed : \A p \in Inputs[t] \cap Inputs[u] : t = u

LEMMA CommittedTxs == ASSUME ChainInv PROVE Committed \subseteq Txs
  <1>1. \A i \in DOMAIN chain : chain[i] \in Txs
    BY ElementOfSeq, LenProperties DEF ChainInv
  <1> QED
    BY <1>1 DEF Committed, ToSet

After(s) == s \cup UNION {Points(t) : t \in UNION {SpendersOf(p, Committed) :
                p \in {q \in s : Cell(q).kind \in {"funding", "commitment"}}}}

\* What descent stays in, if one generation does.
LEMMA DescentWithin ==
    ASSUME ChainInv, NEW R, Funding \in R,
           \A s \in SUBSET R : After(s) \in SUBSET R
    PROVE  Descent \subseteq R
  <1> DEFINE N == Cardinality(Txs)
             A == SUBSET R
             step == [n \in 1..N |-> [s \in A |-> After(s)]]
             Goes(f) == f = [n \in 0..N |->
                IF n = 0 THEN {Funding}
                ELSE f[n - 1] \cup
                 UNION {Points(t) : t \in UNION {SpendersOf(p, Committed) :
                    p \in {q \in f[n - 1] :
                              Cell(q).kind \in {"funding", "commitment"}}}}]
  <1>1. N \in Nat
    BY TxAssumption, FS_CardinalityType
  <1>2. \A n \in 1..N : \A s \in A : step[n][s] = After(s) /\ step[n][s] \in A
    OBVIOUS
  <1> HIDE DEF step
  <1>3. {Funding} \in A
    OBVIOUS
  <1>4. PICK g \in [0..N -> A] : Iterates(g, N, {Funding}, step)
    <2> HIDE DEF A, N
    <2> QED
      BY <1>1, <1>2, <1>3, IterateExists
  <1>5. Goes(g)
    <2>1. ASSUME NEW n \in 0..N, n # 0 PROVE step[n][g[n - 1]] = After(g[n - 1])
      <3>1. n \in 1..N /\ n - 1 \in 0..N
        BY <1>1, <2>1
      <3> HIDE DEF A
      <3> QED
        BY <1>2, <1>4, <3>1
    <2> HIDE DEF N, A
    <2> QED
      BY <1>4, <2>1 DEF Iterates, After
  <1> DEFINE f == CHOOSE h : Goes(h)
  <1>6. Goes(f)
    <2> HIDE DEF Goes
    <2> QED
      BY <1>5
  <1>7. Descent = f[N]
    BY DEF Descent
  <1> HIDE DEF f
  <1>8. f[0] = {Funding}
    BY <1>1, <1>6
  <1>9. ASSUME NEW n \in 1..N PROVE f[n] = After(f[n - 1])
    <2>1. n \in 0..N /\ n # 0
      BY <1>1
    <2> HIDE DEF N
    <2> QED
      BY <1>6, <2>1 DEF After
  <1> HIDE DEF Goes
  <1> DEFINE S == {n \in 0..N : f[n] \in A}
  <1>10. 0 \in S
    BY <1>1, <1>3, <1>8
  <1>11. ASSUME NEW n \in 1..N, n - 1 \in S PROVE n \in S
    <2>1. n \in 0..N /\ f[n - 1] \in A
      BY <1>1, <1>11
    <2> QED
      BY <1>9, <2>1
  <1>12. 0..N \subseteq S
    <2> HIDE DEF S, N
    <2> QED
      BY <1>1, <1>10, <1>11, UpTo
  <1>13. N \in S
    BY <1>1, <1>12
  <1> QED
    BY <1>7, <1>13

LEMMA ConfirmedRecovers == ASSUME ChainInv PROVE ConfirmedIsRecovered
  <1> SUFFICES ASSUME NEW among \in SUBSET Committed,
                      Accepted(Summary(among)), Summary(among).confirmed
               PROVE  Recovered
    BY DEF ConfirmedIsRecovered, Accepted
  <1>1. among \in SUBSET Txs
    BY CommittedTxs
  <1>2. /\ SpendersOf(Funding, among) # {}
        /\ \A t \in among : \A p \in Points(t) : ~Stuck(p, among)
    BY <1>1, NothingStuck
  <1> DEFINE R == {Funding} \cup UNION {Points(t) : t \in among}
  <1>3. Cell(Funding).kind = "funding"
    BY TxAssumption DEF Cell, Funding
  <1>4. ASSUME NEW p \in R, Cell(p).kind # "wallet"
        PROVE  /\ Cell(p).kind \in {"funding", "commitment"}
               /\ SpendersOf(p, among) # {}
    <2>1. CASE p = Funding
      BY <1>2, <1>3, <2>1
    <2>2. CASE p # Funding
      <3>1. PICK t \in among : p \in Points(t)
        BY <2>2
      <3>2. ~Stuck(p, among)
        BY <1>2, <3>1
      <3> QED
        BY <1>4, <3>2 DEF Stuck
    <2> QED
      BY <2>1, <2>2
  <1>5. ASSUME NEW p \in R, Cell(p).kind # "wallet"
        PROVE  SpendersOf(p, Committed) \subseteq among
    <2>1. PICK u \in among : p \in Inputs[u]
      BY <1>4, <1>5 DEF SpendersOf
    <2>2. \A t \in Committed : p \in Inputs[t] => t = u
      BY <2>1 DEF ChainInv
    <2> QED
      BY <2>1, <2>2 DEF SpendersOf
  <1>6. ASSUME NEW s \in SUBSET R PROVE After(s) \in SUBSET R
    <2>1. ASSUME NEW p \in s, Cell(p).kind \in {"funding", "commitment"},
                 NEW t \in SpendersOf(p, Committed)
          PROVE  Points(t) \subseteq R
      <3>1. p \in R /\ Cell(p).kind # "wallet"
        BY <2>1
      <3>2. t \in among
        BY <1>5, <3>1
      <3> QED
        BY <3>2
    <2> HIDE DEF R
    <2> QED
      BY <2>1 DEF After
  <1>7. Descent \subseteq R
    <2> HIDE DEF R
    <2>1. Funding \in R
      BY DEF R
    <2> QED
      BY <1>6, <2>1, DescentWithin
  <1>8. ASSUME NEW p \in R
        PROVE  \/ Cell(p).kind = "wallet"
               \/ /\ Cell(p).kind \in {"funding", "commitment"}
                  /\ SpendersOf(p, Committed) # {}
    <2>1. SpendersOf(p, among) \subseteq SpendersOf(p, Committed)
      BY DEF SpendersOf
    <2> HIDE DEF R
    <2> QED
      BY <1>4, <2>1
  <1> HIDE DEF R
  <1> QED
    BY <1>7, <1>8 DEF Recovered

----------------------------------------------------------------------------
(***************************************************************************)
(* What the indexer lists, for the first n transactions of a chain c.      *)
(***************************************************************************)
EntryRecords == [tx : Txs, io : {"input", "output"},
                 point : AllPoints \cup UNION {Inputs[t] : t \in Txs}]

LEMMA SetToSeqIs ==
    ASSUME NEW S, IsFiniteSet(S)
    PROVE  /\ SetToSeq(S) \in Seq(S)
           /\ \A x \in S : \E k \in 1..Len(SetToSeq(S)) : SetToSeq(S)[k] = x
  <1> DEFINE n == Cardinality(S)
             f == SetToSeq(S)
  <1>1. n \in Nat /\ ExistsBijection(1..n, S)
    BY FS_CardinalityType
  <1>2. PICK g \in [1..n -> S] : \A a, b \in 1..n : g[a] = g[b] => a = b
    BY <1>1 DEF ExistsBijection, Bijection, Injection, IsInjective
  <1>3. IsInjective(g)
    BY <1>2 DEF IsInjective
  <1>4. f \in [1..n -> S] /\ IsInjective(f)
    <2> HIDE DEF n
    <2>1. \E h \in [1..n -> S] : IsInjective(h)
      BY <1>2, <1>3
    <2>2. f = CHOOSE h \in [1..n -> S] : IsInjective(h)
      BY DEF SetToSeq, n
    <2> HIDE DEF f
    <2> QED
      BY <2>1, <2>2
  <1> HIDE DEF f
  <1>5. f \in Injection(1..n, S)
    BY <1>4 DEF Injection, IsInjective
  <1>6. IsFiniteSet(1..n) /\ Cardinality(1..n) = n
    BY <1>1, FS_Interval
  <1>7. f \in Surjection(1..n, S)
    <2> HIDE DEF n
    <2> QED
      BY <1>5, <1>6, FS_Injection DEF n
  <1>8. f \in Seq(S) /\ Len(f) = n
    BY <1>1, <1>4
  <1>9. \A x \in S : \E k \in 1..n : f[k] = x
    BY <1>7 DEF Surjection
  <1> QED
    BY <1>8, <1>9 DEF f

Recorded(t, io, P) == {[tx |-> t, io |-> io, point |-> p] : p \in P}

LEMMA RecordsFinite ==
    ASSUME NEW P, IsFiniteSet(P), NEW t, NEW io
    PROVE  IsFiniteSet(Recorded(t, io, P))
  <1> DEFINE T == {[tx |-> t, io |-> io, point |-> p] : p \in P}
             f == [p \in P |-> [tx |-> t, io |-> io, point |-> p]]
  <1>1. f \in Surjection(P, T)
    BY DEF Surjection
  <1> QED
    BY <1>1, FS_Surjection DEF Recorded

LEMMA EntriesIs ==
    ASSUME NEW t \in Txs, NEW lock
    PROVE  /\ Entries(t, lock) \in Seq(EntryRecords)
           /\ \A k \in 1..Len(Entries(t, lock)) : Entries(t, lock)[k].tx = t
           /\ \A p \in Inputs[t] : Cell(p).lock = lock =>
                 \E k \in 1..Len(Entries(t, lock)) :
                    Entries(t, lock)[k].io = "input"
  <1> DEFINE P == {q \in Points(t) : Cell(q).lock = lock}
             I == {q \in Inputs[t] : Cell(q).lock = lock}
             X == {[tx |-> t, io |-> "output", point |-> p] : p \in P}
             Y == {[tx |-> t, io |-> "input", point |-> p] : p \in I}
             x == SetToSeq(X)
             y == SetToSeq(Y)
             E == {e \in EntryRecords : e.tx = t}
  <1>1. IsFiniteSet(P) /\ IsFiniteSet(I)
    BY PointsFinite, TxAssumption, FS_Subset
  <1>2. IsFiniteSet(X) /\ IsFiniteSet(Y)
    <2> HIDE DEF P, I
    <2>1. \A io : IsFiniteSet(Recorded(t, io, P))
                  /\ IsFiniteSet(Recorded(t, io, I))
      BY <1>1, RecordsFinite
    <2>2. X = Recorded(t, "output", P) /\ Y = Recorded(t, "input", I)
      BY DEF Recorded
    <2> QED
      BY <2>1, <2>2
  <1>3. P \subseteq AllPoints
    BY PointsFinite
  <1>4. X \subseteq E /\ Y \subseteq E
    <2>1. X \subseteq E
      <3> HIDE DEF P
      <3> QED
        BY <1>3 DEF EntryRecords
    <2>2. I \subseteq UNION {Inputs[u] : u \in Txs}
      OBVIOUS
    <2>3. Y \subseteq E
      <3> HIDE DEF I
      <3> QED
        BY <2>2 DEF EntryRecords
    <2> QED
      BY <2>1, <2>3
  <1>5. Entries(t, lock) = x \o y
    BY DEF Entries
  <1> HIDE DEF X, Y
  <1>6. /\ x \in Seq(X) /\ y \in Seq(Y)
        /\ \A e \in Y : \E k \in 1..Len(y) : y[k] = e
    BY <1>2, SetToSeqIs
  <1> HIDE DEF x, y, E
  <1>7. x \in Seq(E) /\ y \in Seq(E)
    BY <1>4, <1>6, SeqMonotonic
  <1>8. /\ x \o y \in Seq(E) /\ Len(x \o y) = Len(x) + Len(y)
        /\ \A k \in 1..Len(x) + Len(y) :
              (x \o y)[k] = IF k <= Len(x) THEN x[k] ELSE y[k - Len(x)]
    BY <1>7, ConcatProperties
  <1>9. E \subseteq EntryRecords /\ \A e \in E : e.tx = t
    BY DEF E
  <1>10. x \o y \in Seq(EntryRecords)
    BY <1>8, <1>9, SeqMonotonic
  <1>11. \A k \in 1..Len(x \o y) : (x \o y)[k].tx = t
    BY <1>8, <1>9, ElementOfSeq
  <1>12. ASSUME NEW p \in Inputs[t], Cell(p).lock = lock
         PROVE  \E k \in 1..Len(x \o y) : (x \o y)[k].io = "input"
    <2> DEFINE e == [tx |-> t, io |-> "input", point |-> p]
    <2>1. e \in Y
      BY <1>12 DEF Y
    <2>2. PICK k \in 1..Len(y) : y[k] = e
      BY <1>6, <2>1
    <2>3. Len(x) \in Nat /\ Len(y) \in Nat
      BY <1>7, LenProperties
    <2>4. /\ k + Len(x) \in 1..Len(x \o y)
          /\ (x \o y)[k + Len(x)] = y[k]
      BY <1>8, <2>3
    <2>5. (x \o y)[k + Len(x)].io = "input"
      BY <2>2, <2>4
    <2> QED
      BY <2>4, <2>5
  <1> HIDE DEF P, I
  <1> QED
    BY <1>5, <1>10, <1>11, <1>12

Lists(h, c, n, lock) ==
    h = [k \in 0..n |-> IF k = 0 THEN <<>> ELSE h[k - 1] \o Entries(c[k], lock)]
HistoryOf(c, n, lock) == (CHOOSE h : Lists(h, c, n, lock))[n]

LEMMA ListExists ==
    ASSUME NEW c \in Seq(Txs), NEW n \in 0..Len(c), NEW lock
    PROVE  \E h \in [0..n -> Seq(EntryRecords)] : Lists(h, c, n, lock)
  <1> DEFINE A == Seq(EntryRecords)
             step == [k \in 1..n |-> [s \in A |-> s \o Entries(c[k], lock)]]
  <1>1. Len(c) \in Nat /\ n \in Nat
    BY LenProperties
  <1>2. ASSUME NEW k \in 1..n, NEW s \in A
        PROVE  step[k][s] = s \o Entries(c[k], lock) /\ step[k][s] \in A
    <2>1. c[k] \in Txs
      BY <1>1, ElementOfSeq
    <2>2. Entries(c[k], lock) \in A
      BY <2>1, EntriesIs
    <2> QED
      BY <2>2, ConcatProperties
  <1> HIDE DEF step
  <1>3. <<>> \in A
    OBVIOUS
  <1>4. PICK h \in [0..n -> A] : Iterates(h, n, <<>>, step)
    <2>1. \A k \in 1..n : \A s \in A : step[k][s] \in A
      BY <1>2
    <2> HIDE DEF A
    <2> QED
      BY <1>1, <1>3, <2>1, IterateExists
  <1>5. ASSUME NEW k \in 0..n, k # 0
        PROVE  step[k][h[k - 1]] = h[k - 1] \o Entries(c[k], lock)
    <2>1. k \in 1..n /\ k - 1 \in 0..n
      BY <1>1, <1>5
    <2> HIDE DEF A
    <2> QED
      BY <1>2, <1>4, <2>1
  <1>6. Lists(h, c, n, lock)
    <2> HIDE DEF A
    <2> QED
      BY <1>4, <1>5 DEF Iterates, Lists
  <1> QED
    BY <1>4, <1>6

Shares(c, d, n) == \A k \in 1..n : c[k] = d[k]

LEMMA ListsAgree ==
    ASSUME NEW n \in Nat, NEW m \in Nat, n <= m, NEW lock,
           NEW c, NEW d, Shares(c, d, n),
           NEW h, Lists(h, c, n, lock), NEW g, Lists(g, d, m, lock)
    PROVE  \A k \in 0..n : h[k] = g[k]
  <1> DEFINE S == {k \in 0..n : h[k] = g[k]}
  <1>1. 0 \in S
    BY DEF Lists
  <1>2. ASSUME NEW k \in 1..n, k - 1 \in S PROVE k \in S
    <2>1. k \in 0..n /\ k \in 0..m /\ k # 0
      OBVIOUS
    <2>2. h[k] = h[k - 1] \o Entries(c[k], lock)
      BY <2>1 DEF Lists
    <2>3. g[k] = g[k - 1] \o Entries(c[k], lock)
      BY <2>1 DEF Lists, Shares
    <2> QED
      BY <1>2, <2>1, <2>2, <2>3
  <1>3. 0..n \subseteq S
    <2> HIDE DEF S
    <2> QED
      BY <1>1, <1>2, UpTo
  <1> QED
    BY <1>3

Longer(g, d, m, h, c, n, lock) ==
    /\ n \in Nat /\ m \in Nat /\ n <= m /\ Shares(c, d, n)
    /\ Lists(h, c, n, lock) /\ Lists(g, d, m, lock)

LEMMA ListsMeet ==
    ASSUME NEW n, NEW m, NEW c, NEW d, NEW h, NEW g, NEW lock,
           Longer(g, d, m, h, c, n, lock)
    PROVE  h[n] = g[n]
  <1>1. /\ n \in Nat /\ m \in Nat /\ n <= m /\ Shares(c, d, n)
        /\ Lists(h, c, n, lock) /\ Lists(g, d, m, lock)
    BY DEF Longer
  <1>2. \A k \in 0..n : h[k] = g[k]
    BY <1>1, ListsAgree
  <1>3. n \in 0..n
    BY <1>1
  <1> QED
    BY <1>2, <1>3

LEMMA HistoryLists ==
    ASSUME NEW c \in Seq(Txs), NEW n \in 0..Len(c), NEW lock
    PROVE  \E h \in [0..n -> Seq(EntryRecords)] :
              Lists(h, c, n, lock) /\ HistoryOf(c, n, lock) = h[n]
  <1> DEFINE h == CHOOSE g : Lists(g, c, n, lock)
  <1>1. PICK g \in [0..n -> Seq(EntryRecords)] : Lists(g, c, n, lock)
    BY ListExists
  <1>2. Lists(h, c, n, lock)
    BY <1>1
  <1>3. HistoryOf(c, n, lock) = h[n]
    BY DEF HistoryOf
  <1> HIDE DEF h
  <1>4. n \in Nat
    BY LenProperties
  <1>5. \A k \in 0..n : h[k] = g[k]
    <2>1. Shares(c, c, n)
      BY DEF Shares
    <2> QED
      BY <1>1, <1>2, <1>4, <2>1, ListsAgree
  <1>6. h[n] = g[n]
    BY <1>4, <1>5
  <1> QED
    BY <1>1, <1>3, <1>6

Extends(d, m, c, n) ==
    /\ c \in Seq(Txs) /\ d \in Seq(Txs) /\ Shares(c, d, n)
    /\ n \in 0..Len(c) /\ m \in 0..Len(d) /\ (m = n \/ m = n + 1)
Continues(h, g) == \E s \in Seq(EntryRecords) : h = g \o s

LEMMA HistoryNext ==
    ASSUME NEW c, NEW d, NEW n, NEW m, Extends(d, m, c, n), NEW lock
    PROVE  Continues(HistoryOf(d, m, lock), HistoryOf(c, n, lock))
  <1> SUFFICES \E s \in Seq(EntryRecords) :
                  HistoryOf(d, m, lock) = HistoryOf(c, n, lock) \o s
    BY DEF Continues
  <1>0. /\ c \in Seq(Txs) /\ d \in Seq(Txs) /\ Shares(c, d, n)
        /\ n \in 0..Len(c) /\ m \in 0..Len(d) /\ (m = n \/ m = n + 1)
    BY DEF Extends
  <1>1. n \in Nat /\ m \in Nat /\ n <= m /\ Len(d) \in Nat
    BY <1>0, LenProperties
  <1>2. PICK h \in [0..n -> Seq(EntryRecords)] :
            Lists(h, c, n, lock) /\ HistoryOf(c, n, lock) = h[n]
    BY <1>0, HistoryLists
  <1>3. PICK g \in [0..m -> Seq(EntryRecords)] :
            Lists(g, d, m, lock) /\ HistoryOf(d, m, lock) = g[m]
    BY <1>0, HistoryLists
  <1>4. Lists(h, c, n, lock) /\ Lists(g, d, m, lock)
    BY <1>2, <1>3
  <1>5. h[n] = g[n] /\ h[n] \in Seq(EntryRecords)
    <2>1. h[n] \in Seq(EntryRecords)
      BY <1>1, <1>2
    <2>2. Longer(g, d, m, h, c, n, lock)
      BY <1>0, <1>1, <1>4 DEF Longer
    <2>3. h[n] = g[n]
      BY <2>2, ListsMeet
    <2> QED
      BY <2>1, <2>3
  <1>6. CASE m = n
    <2>1. h[n] \o <<>> = h[n]
      BY <1>5, ConcatEmptySeq
    <2>2. HistoryOf(d, m, lock) = HistoryOf(c, n, lock) \o <<>>
      BY <1>2, <1>3, <1>5, <1>6, <2>1
    <2>3. <<>> \in Seq(EntryRecords)
      OBVIOUS
    <2> QED
      BY <2>2, <2>3
  <1>7. CASE m = n + 1
    <2>1. m \in 0..m /\ m # 0 /\ m - 1 = n /\ m \in 1..Len(d)
      BY <1>0, <1>1, <1>7
    <2>2. g[m] = g[n] \o Entries(d[m], lock)
      BY <1>3, <2>1 DEF Lists
    <2>3. Entries(d[m], lock) \in Seq(EntryRecords)
      BY <1>0, <2>1, ElementOfSeq, EntriesIs
    <2> QED
      BY <1>2, <1>3, <1>5, <2>2, <2>3
  <1> QED
    BY <1>0, <1>6, <1>7

\* Every entry is of a listed transaction, and all their inputs are listed.
LEMMA HistoryIs ==
    ASSUME NEW c \in Seq(Txs), NEW n \in 0..Len(c), NEW lock
    PROVE  LET all == HistoryOf(c, n, lock)
           IN  /\ all \in Seq(EntryRecords)
               /\ \A k \in 1..Len(all) : \E i \in 1..n : all[k].tx = c[i]
               /\ \A i \in 1..n : \A p \in Inputs[c[i]] : Cell(p).lock = lock =>
                     \E k \in 1..Len(all) :
                        all[k].io = "input" /\ all[k].tx = c[i]
  <1>1. n \in Nat /\ Len(c) \in Nat
    BY LenProperties
  <1>2. PICK h \in [0..n -> Seq(EntryRecords)] :
            Lists(h, c, n, lock) /\ HistoryOf(c, n, lock) = h[n]
    BY HistoryLists
  <1> DEFINE From(k) == \A j \in 1..Len(h[k]) : \E i \in 1..k : h[k][j].tx = c[i]
             Has(k) == \A i \in 1..k : \A p \in Inputs[c[i]] :
                         Cell(p).lock = lock =>
                            \E j \in 1..Len(h[k]) :
                               h[k][j].io = "input" /\ h[k][j].tx = c[i]
             S == {k \in 0..n : From(k) /\ Has(k)}
  <1>3. 0 \in S
    <2>1. h[0] = <<>>
      BY <1>1, <1>2 DEF Lists
    <2> QED
      BY <1>1, <2>1
  <1>4. ASSUME NEW k \in 1..n, k - 1 \in S PROVE k \in S
    <2>1. k \in 0..n /\ k # 0 /\ k - 1 \in 0..n /\ k \in 1..Len(c)
      BY <1>1
    <2> DEFINE old == h[k - 1]
               new == Entries(c[k], lock)
    <2>2. h[k] = old \o new
      BY <1>2, <2>1 DEF Lists
    <2>3. old \in Seq(EntryRecords)
      BY <1>2, <2>1
    <2>4. /\ new \in Seq(EntryRecords)
          /\ \A j \in 1..Len(new) : new[j].tx = c[k]
          /\ \A p \in Inputs[c[k]] : Cell(p).lock = lock =>
                \E j \in 1..Len(new) : new[j].io = "input"
      <3>1. c[k] \in Txs
        BY <2>1, ElementOfSeq
      <3> QED
        BY <3>1, EntriesIs
    <2>5. From(k - 1) /\ Has(k - 1)
      BY <1>4
    <2>6. /\ Len(h[k]) = Len(old) + Len(new)
          /\ Len(old) \in Nat /\ Len(new) \in Nat
          /\ \A j \in 1..Len(old) : h[k][j] = old[j]
          /\ \A j \in 1..Len(new) : h[k][j + Len(old)] = new[j]
      <3> HIDE DEF old, new
      <3>1. Len(old) \in Nat /\ Len(new) \in Nat
        BY <2>3, <2>4, LenProperties
      <3>2. \A j \in 1..Len(old) + Len(new) :
               h[k][j] = IF j <= Len(old) THEN old[j] ELSE new[j - Len(old)]
        BY <2>2, <2>3, <2>4, ConcatProperties
      <3>3. Len(h[k]) = Len(old) + Len(new)
        BY <2>2, <2>3, <2>4, ConcatProperties
      <3>4. ASSUME NEW j \in 1..Len(old) PROVE h[k][j] = old[j]
        <4>1. j \in 1..Len(old) + Len(new) /\ j <= Len(old)
          BY <3>1
        <4> QED
          BY <3>2, <4>1
      <3>5. ASSUME NEW j \in 1..Len(new) PROVE h[k][j + Len(old)] = new[j]
        <4> DEFINE l == j + Len(old)
        <4>1. /\ l \in 1..Len(old) + Len(new) /\ ~(l <= Len(old))
              /\ l - Len(old) = j
          BY <3>1
        <4> HIDE DEF l
        <4>2. h[k][l] = new[j]
          BY <3>2, <4>1
        <4> QED
          BY <4>2 DEF l
      <3> QED
        BY <3>1, <3>3, <3>4, <3>5
    <2>7. From(k)
      <3> SUFFICES ASSUME NEW j \in 1..Len(h[k])
                   PROVE  \E i \in 1..k : h[k][j].tx = c[i]
        OBVIOUS
      <3>1. CASE j <= Len(old)
        <4>1. PICK i \in 1..(k - 1) : old[j].tx = c[i]
          BY <2>5, <2>6, <3>1
        <4>2. j \in 1..Len(old) /\ i \in 1..k
          BY <2>6, <3>1
        <4>3. h[k][j] = old[j]
          <5> HIDE DEF old
          <5> QED
            BY <2>6, <4>2
        <4> QED
          BY <4>1, <4>2, <4>3
      <3>2. CASE ~(j <= Len(old))
        <4> DEFINE m == j - Len(old)
        <4>1. m \in 1..Len(new) /\ j = m + Len(old)
          <5> HIDE DEF old, new
          <5>1. Len(old) \in Nat /\ Len(new) \in Nat
                /\ j \in 1..(Len(old) + Len(new))
            BY <2>6
          <5> QED
            BY <3>2, <5>1
        <4>2. h[k][j].tx = c[k]
          <5> HIDE DEF old, new, m
          <5> QED
            BY <2>4, <2>6, <4>1
        <4> QED
          BY <4>2
      <3> QED
        BY <3>1, <3>2
    <2>8. Has(k)
      <3> SUFFICES ASSUME NEW i \in 1..k, NEW p \in Inputs[c[i]],
                          Cell(p).lock = lock
                   PROVE  \E j \in 1..Len(h[k]) :
                             h[k][j].io = "input" /\ h[k][j].tx = c[i]
        OBVIOUS
      <3>1. CASE i = k
        <4>1. PICK j \in 1..Len(new) : new[j].io = "input"
          BY <2>4, <3>1
        <4>2. new[j].tx = c[i]
          BY <2>4, <3>1
        <4>3. j + Len(old) \in 1..Len(h[k]) /\ h[k][j + Len(old)] = new[j]
          <5> HIDE DEF old, new
          <5> QED
            BY <2>6
        <4> HIDE DEF old, new
        <4> QED
          BY <4>1, <4>2, <4>3
      <3>2. CASE i # k
        <4>1. i \in 1..(k - 1)
          BY <3>2
        <4>2. PICK j \in 1..Len(old) :
                 old[j].io = "input" /\ old[j].tx = c[i]
          BY <2>5, <4>1
        <4>3. j \in 1..Len(h[k]) /\ h[k][j] = old[j]
          <5> HIDE DEF old, new
          <5> QED
            BY <2>6
        <4> HIDE DEF old, new
        <4> QED
          BY <4>2, <4>3
      <3> QED
        BY <3>1, <3>2
    <2> HIDE DEF From, Has
    <2> QED
      BY <2>1, <2>7, <2>8
  <1>5. 0..n \subseteq S
    <2> HIDE DEF S
    <2> QED
      BY <1>1, <1>3, <1>4, UpTo
  <1>6. From(n) /\ Has(n)
    <2>1. n \in S
      <3> HIDE DEF S
      <3> QED
        BY <1>1, <1>5
    <2> HIDE DEF From, Has
    <2> QED
      BY <2>1
  <1>7. h[n] \in Seq(EntryRecords)
    BY <1>1, <1>2
  <1> QED
    BY <1>2, <1>6, <1>7

----------------------------------------------------------------------------
(***************************************************************************)
(* The scan: the pages before the one at the cursor hold no spender.  The  *)
(* indexer only appends, so what was read stays what it was.               *)
(***************************************************************************)
LEMMA HistoryHere == \A lock : History(lock) = HistoryOf(chain, tip, lock)
  <1> SUFFICES ASSUME NEW lock PROVE History(lock) = HistoryOf(chain, tip, lock)
    OBVIOUS
  <1> QED
    BY DEF History, HistoryOf, Lists

LEMMA HistoryThere == \A lock : History(lock)' = HistoryOf(chain', tip', lock)
  <1> SUFFICES ASSUME NEW lock
               PROVE  History(lock)' = HistoryOf(chain', tip', lock)
    OBVIOUS
  <1> QED
    BY DEF History, HistoryOf, Lists

\* No one of the first n entries spends the point.
Clear(h, n, point) ==
    /\ n <= Len(h)
    /\ \A k \in 1..n : h[k].io = "input" => point \notin Inputs[h[k].tx]

Passed == Clear(History(Cell(scan.point).lock), scan.cursor, scan.point)

Scans == [queue : Seq(AllPoints), visited : SUBSET AllPoints,
          found : SUBSET Txs, point : AllPoints \cup {None},
          cursor : Nat, pages : Nat]

ScanInv ==
    scan # None =>
        /\ scan \in Scans /\ scan.found \subseteq Committed
        /\ scan.point # None => Passed

LEMMA ClearLonger ==
    ASSUME NEW h \in Seq(EntryRecords), NEW s \in Seq(EntryRecords),
           NEW n \in Nat, NEW point, Clear(h, n, point)
    PROVE  Clear(h \o s, n, point)
  <1>1. /\ Len(h \o s) = Len(h) + Len(s)
        /\ \A k \in 1..Len(h) + Len(s) :
              (h \o s)[k] = IF k <= Len(h) THEN h[k] ELSE s[k - Len(h)]
    BY ConcatProperties
  <1>2. Len(h) \in Nat /\ Len(s) \in Nat /\ n <= Len(h)
    BY LenProperties DEF Clear
  <1>3. n <= Len(h \o s)
    BY <1>1, <1>2
  <1>4. ASSUME NEW k \in 1..n PROVE (h \o s)[k] = h[k]
    <2>1. k \in 1..Len(h) + Len(s) /\ k <= Len(h)
      BY <1>2
    <2> QED
      BY <1>1, <2>1
  <1> QED
    BY <1>3, <1>4 DEF Clear

\* A page, by the history it is cut from.
Cut(h, cursor) ==
    SubSeq(h, cursor + 1,
           IF cursor + PageSize < Len(h) THEN cursor + PageSize ELSE Len(h))

LEMMA CutIs ==
    ASSUME NEW h \in Seq(EntryRecords), NEW cursor \in Nat, cursor <= Len(h)
    PROVE  /\ Cut(h, cursor) \in Seq(EntryRecords)
           /\ Len(Cut(h, cursor)) \in Nat
           /\ cursor + Len(Cut(h, cursor)) <= Len(h)
           /\ Len(Cut(h, cursor)) <= PageSize
           /\ Len(Cut(h, cursor)) < PageSize
              => cursor + Len(Cut(h, cursor)) = Len(h)
           /\ \A k \in 1..Len(Cut(h, cursor)) :
                 Cut(h, cursor)[k] = h[cursor + k]
  <1> DEFINE last == IF cursor + PageSize < Len(h) THEN cursor + PageSize
                     ELSE Len(h)
             cut == Cut(h, cursor)
  <1>1. Len(h) \in Nat /\ PageSize \in Nat \ {0}
    BY LenProperties, LimitAssumption
  <1>2. last \in Nat /\ cursor <= last /\ last <= Len(h)
    BY <1>1
  <1>3. last - cursor <= PageSize /\ (last - cursor < PageSize => last = Len(h))
    BY <1>1
  <1> HIDE DEF last
  <1>4. \A i \in (cursor + 1)..last : h[i] \in EntryRecords
    BY <1>1, <1>2, ElementOfSeq
  <1>5. cut = SubSeq(h, cursor + 1, last)
    BY DEF Cut, last
  <1> HIDE DEF cut
  <1>6. /\ cut \in Seq(EntryRecords)
        /\ Len(cut) = IF cursor + 1 <= last THEN last - (cursor + 1) + 1 ELSE 0
        /\ \A i \in 1..(last - (cursor + 1) + 1) :
              cut[i] = h[cursor + 1 + i - 1]
    <2>1. cursor + 1 \in Int /\ last \in Int
      BY <1>2
    <2> QED
      BY <1>4, <1>5, <2>1, SubSeqProperties
  <1>7. Len(cut) = last - cursor
    BY <1>2, <1>6
  <1>8. ASSUME NEW k \in 1..Len(cut) PROVE cut[k] = h[cursor + k]
    <2>1. k \in 1..(last - (cursor + 1) + 1) /\ cursor + 1 + k - 1 = cursor + k
      BY <1>2, <1>7
    <2> QED
      BY <1>6, <2>1
  <1>9. /\ Len(cut) \in Nat /\ cursor + Len(cut) <= Len(h)
        /\ Len(cut) <= PageSize
        /\ Len(cut) < PageSize => cursor + Len(cut) = Len(h)
    BY <1>2, <1>3, <1>7
  <1> QED
    BY <1>6, <1>8, <1>9 DEF cut

LEMMA PageIs ==
    ASSUME ChainInv, ScanInv, scan # None, scan.point # None
    PROVE  LET h == HistoryOf(chain, tip, Cell(scan.point).lock)
           IN  /\ h \in Seq(EntryRecords) /\ scan \in Scans
               /\ Clear(h, scan.cursor, scan.point)
               /\ Page = Cut(h, scan.cursor)
               /\ Hits \subseteq Committed
               /\ \A t \in Hits : scan.point \in Inputs[t]
               /\ Hits = {} =>
                     Clear(h, scan.cursor + Len(Page), scan.point)
  <1> DEFINE h == HistoryOf(chain, tip, Cell(scan.point).lock)
             n == scan.cursor
  <1>1. scan \in Scans /\ n \in Nat
    BY DEF ScanInv, Scans
  <1>2. /\ h \in Seq(EntryRecords)
        /\ \A k \in 1..Len(h) : \E i \in 1..tip : h[k].tx = chain[i]
    BY HistoryIs DEF ChainInv
  <1>3. Clear(h, n, scan.point)
    BY HistoryHere DEF ScanInv, Passed
  <1>4. Page = Cut(h, n)
    BY HistoryHere DEF Page, Cut
  <1> HIDE DEF h, n
  <1>5. n <= Len(h) /\ Len(h) \in Nat
    BY <1>2, <1>3, LenProperties DEF Clear
  <1>6. /\ Page \in Seq(EntryRecords) /\ Len(Page) \in Nat
        /\ n + Len(Page) <= Len(h)
        /\ \A k \in 1..Len(Page) : Page[k] = h[n + k]
    BY <1>1, <1>2, <1>4, <1>5, CutIs
  <1>7. DOMAIN Page = 1..Len(Page)
    BY <1>6, LenProperties
  <1>8. ASSUME NEW t \in Hits PROVE t \in Committed /\ scan.point \in Inputs[t]
    <2>1. PICK k \in 1..Len(Page) :
              t = Page[k].tx /\ scan.point \in Inputs[Page[k].tx]
      BY <1>7 DEF Hits, ToSet
    <2>2. n + k \in 1..Len(h) /\ Page[k] = h[n + k]
      BY <1>1, <1>5, <1>6
    <2>3. PICK i \in 1..tip : h[n + k].tx = chain[i]
      BY <1>2, <2>2
    <2>4. i \in DOMAIN chain
      <3>1. i \in 1..Len(chain)
        BY LenProperties DEF ChainInv
      <3> QED
        BY <3>1, LenProperties DEF ChainInv
    <2> QED
      BY <2>1, <2>2, <2>3, <2>4 DEF Committed, ToSet
  <1>9. ASSUME Hits = {} PROVE Clear(h, n + Len(Page), scan.point)
    <2> SUFFICES ASSUME NEW k \in 1..(n + Len(Page)), h[k].io = "input"
                 PROVE  scan.point \notin Inputs[h[k].tx]
      BY <1>6 DEF Clear
    <2>1. CASE k <= n
      <3>1. k \in 1..n
        BY <1>1, <1>6, <2>1
      <3> QED
        BY <1>3, <3>1 DEF Clear
    <2>2. CASE ~(k <= n)
      <3> DEFINE j == k - n
      <3>1. j \in 1..Len(Page) /\ n + j = k
        BY <1>1, <1>6, <2>2
      <3> HIDE DEF j
      <3>2. Page[j] = h[k] /\ j \in DOMAIN Page
        BY <1>6, <1>7, <3>1
      <3>3. Page[j] \in ToSet(Page)
        BY <3>2 DEF ToSet
      <3> QED
        BY <1>9, <3>2, <3>3 DEF Hits
    <2> QED
      BY <2>1, <2>2
  <1> QED
    BY <1>1, <1>2, <1>3, <1>4, <1>8, <1>9 DEF h, n

----------------------------------------------------------------------------
(***************************************************************************)
(* The invariant.  Whatever the chain and the indexer do, it only grows.   *)
(***************************************************************************)
CacheInv ==
    cache # None /\ cache.result # None =>
        \E S \in SUBSET Committed :
            cache.result = Summary(S) /\ Accepted(Summary(S))

Inv == ChainInv /\ ScanInv /\ CacheInv

LEMMA Initially == Init => Inv
  <1> SUFFICES ASSUME Init PROVE Inv
    OBVIOUS
  <1>1. chain \in Seq(Txs) /\ Len(chain) = 1 /\ tip = 1
    BY TxAssumption DEF Init
  <1>2. \A t \in Committed : t = Root
    <2>1. DOMAIN chain = {1} /\ chain[1] = Root
      BY DEF Init
    <2> QED
      BY <2>1 DEF Committed, ToSet
  <1>3. ChainInv
    <2>1. tip \in 0..Len(chain)
      BY <1>1
    <2> QED
      BY <1>1, <1>2, <2>1 DEF ChainInv
  <1>4. ScanInv /\ CacheInv
    BY DEF Init, ScanInv, CacheInv
  <1> QED
    BY <1>3, <1>4 DEF Inv

\* The chain grows by a transaction, or the indexer follows it.
Grows ==
    /\ Committed \subseteq Committed' /\ Shares(chain, chain', tip)
    /\ tip' = tip \/ tip' = tip + 1

LEMMA GrowthKeeps ==
    ASSUME Inv, ChainInv', Grows, UNCHANGED <<scan, cache>>
    PROVE  ScanInv' /\ CacheInv'
  <1>1. CacheInv'
    <2> SUFFICES ASSUME cache # None, cache.result # None
                 PROVE  \E S \in SUBSET Committed' :
                           cache.result = Summary(S) /\ Accepted(Summary(S))
      BY DEF CacheInv
    <2>1. PICK S \in SUBSET Committed :
              cache.result = Summary(S) /\ Accepted(Summary(S))
      BY DEF Inv, CacheInv
    <2> QED
      BY <2>1 DEF Grows
  <1>2. ScanInv'
    <2>1. CASE scan = None
      BY <2>1 DEF ScanInv
    <2>2. CASE scan # None
      <3>1. scan \in Scans /\ scan.found \subseteq Committed'
        BY <2>2 DEF Inv, ScanInv, Grows
      <3>2. ASSUME scan.point # None PROVE Passed'
        <4>1. PICK lock : lock = Cell(scan.point).lock
          OBVIOUS
        <4>2. PICK h : h = HistoryOf(chain, tip, lock)
          OBVIOUS
        <4>3. Clear(h, scan.cursor, scan.point) /\ h \in Seq(EntryRecords)
          BY <2>2, <3>2, <4>1, <4>2, PageIs DEF Inv
        <4>4. PICK s \in Seq(EntryRecords) :
                  HistoryOf(chain', tip', lock) = h \o s
          <5>1. Extends(chain', tip', chain, tip)
            BY DEF Inv, ChainInv, Grows, Extends
          <5>2. Continues(HistoryOf(chain', tip', lock), h)
            BY <4>2, <5>1, HistoryNext
          <5> QED
            BY <5>2 DEF Continues
        <4>5. Clear(h \o s, scan.cursor, scan.point)
          <5>1. scan.cursor \in Nat
            BY <3>1 DEF Scans
          <5> QED
            BY <4>3, <5>1, ClearLonger
        <4>6. History(lock)' = h \o s
          BY <4>4, HistoryThere
        <4>7. Cell(scan.point).lock' = lock
          BY <4>1
        <4>8. History(Cell(scan.point).lock)' = h \o s
          BY <4>6, <4>7, HistoryThere
        <4> QED
          BY <4>5, <4>8 DEF Passed
      <3> QED
        BY <3>1, <3>2 DEF ScanInv
    <2> QED
      BY <2>1, <2>2
  <1> QED
    BY <1>1, <1>2

LEMMA CommitKeeps ==
    ASSUME Inv, NEW t \in Txs, Commit(t)
    PROVE  Inv'
  <1>1. chain \in Seq(Txs) /\ Len(chain) \in Nat /\ DOMAIN chain = 1..Len(chain)
    BY LenProperties DEF Inv, ChainInv
  <1>2. /\ chain' \in Seq(Txs) /\ Len(chain') = Len(chain) + 1
        /\ \A i \in 1..Len(chain) : chain'[i] = chain[i]
        /\ chain'[Len(chain) + 1] = t
    BY <1>1, AppendProperties DEF Commit
  <1>3. DOMAIN chain' = 1..(Len(chain) + 1)
    BY <1>2, LenProperties
  <1>4. Committed' = Committed \cup {t}
    <2>1. \A u \in Committed' : u \in Committed \cup {t}
      <3> SUFFICES ASSUME NEW i \in 1..(Len(chain) + 1), i # Len(chain) + 1
                   PROVE  chain'[i] \in Committed
        BY <1>2, <1>3 DEF Committed, ToSet
      <3>1. i \in 1..Len(chain)
        BY <1>1
      <3> QED
        BY <1>1, <1>2, <3>1 DEF Committed, ToSet
    <2>2. \A u \in Committed : u \in Committed'
      <3> SUFFICES ASSUME NEW i \in 1..Len(chain)
                   PROVE  chain[i] \in Committed'
        BY <1>1 DEF Committed, ToSet
      <3>1. i \in DOMAIN chain'
        BY <1>1, <1>3
      <3> QED
        BY <1>2, <3>1 DEF Committed, ToSet
    <2>3. t \in Committed'
      <3>1. Len(chain) + 1 \in DOMAIN chain'
        BY <1>1, <1>3
      <3> QED
        BY <1>2, <3>1 DEF Committed, ToSet
    <2> QED
      BY <2>1, <2>2, <2>3
  <1>5. tip \in 0..Len(chain) /\ tip' = tip /\ tip' \in 0..Len(chain')
    <2>1. tip \in 0..Len(chain) /\ tip' = tip
      BY DEF Inv, ChainInv, Commit
    <2> QED
      BY <1>1, <1>2, <2>1
  <1>6. \A u \in Committed : Inputs[t] \cap Inputs[u] = {}
    BY DEF Commit, LiveCell, SpendersOf
  <1>7. ASSUME NEW u \in Committed', NEW v \in Committed',
               NEW p \in Inputs[u] \cap Inputs[v]
        PROVE  u = v
    <2>1. CASE u \in Committed /\ v \in Committed
      BY <2>1 DEF Inv, ChainInv
    <2>2. CASE u = t \/ v = t
      BY <1>4, <1>6, <2>2
    <2> QED
      BY <1>4, <2>1, <2>2
  <1>8. ChainInv'
    BY <1>2, <1>5, <1>7 DEF ChainInv
  <1>9. Grows
    <2>1. Shares(chain, chain', tip)
      <3>1. \A k \in 1..tip : k \in 1..Len(chain)
        BY <1>1, <1>5
      <3> QED
        BY <1>2, <3>1 DEF Shares
    <2> QED
      BY <1>4, <1>5, <2>1 DEF Grows
  <1> QED
    BY <1>8, <1>9, GrowthKeeps DEF Commit, Inv

LEMMA IndexKeeps ==
    ASSUME Inv, Index
    PROVE  Inv'
  <1>1. Len(chain) \in Nat /\ tip \in 0..Len(chain)
    BY LenProperties DEF Inv, ChainInv
  <1>2. tip' \in 0..Len(chain')
    BY <1>1 DEF Index
  <1>3. ChainInv'
    BY <1>2 DEF Inv, ChainInv, Index, Committed
  <1>4. Grows
    BY DEF Grows, Index, Shares, Committed
  <1> QED
    BY <1>3, <1>4, GrowthKeeps DEF Index, Inv

LEMMA AdvanceKeeps ==
    ASSUME Inv, UNCHANGED <<chain, tip, scan, cache>>
    PROVE  Inv'
  <1>1. ChainInv'
    BY DEF Inv, ChainInv, Committed
  <1>2. Grows
    BY DEF Grows, Shares, Committed
  <1> QED
    BY <1>1, <1>2, GrowthKeeps DEF Inv

LEMMA BeginKeeps == ASSUME Inv, Begin PROVE Inv'
  <1>1. ChainInv' /\ CacheInv'
    BY DEF Inv, ChainInv, CacheInv, Begin, Committed
  <1>2. scan' = [queue |-> <<Funding>>, visited |-> {}, found |-> {},
                 point |-> None, cursor |-> 0, pages |-> 0]
    BY DEF Begin
  <1>3. <<Funding>> \in Seq(AllPoints)
    <2>1. Funding \in AllPoints
      BY DEF AllPoints
    <2> QED
      BY <2>1
  <1>4. scan' \in Scans /\ scan'.found = {} /\ scan'.point = None
    BY <1>2, <1>3 DEF Scans
  <1>5. ScanInv'
    BY <1>4 DEF ScanInv
  <1> QED
    BY <1>1, <1>5 DEF Inv

\* A step of the scan that goes on: only the scan changes.
LEMMA ScanKeeps ==
    ASSUME Inv, UNCHANGED <<chain, tip, cache>>,
           scan' \in Scans, scan'.found \subseteq Committed,
           scan'.point # None => Passed'
    PROVE  Inv'
  <1>1. ChainInv' /\ CacheInv'
    BY DEF Inv, ChainInv, CacheInv, Committed
  <1>2. ScanInv'
    BY DEF ScanInv, Committed
  <1> QED
    BY <1>1, <1>2 DEF Inv

LEMMA PopKeeps == ASSUME Inv, Pop PROVE Inv'
  <1> DEFINE p == Last(scan.queue)
             visited == scan.visited \cup {p}
             asked == IF p \in scan.visited \/ LiveCell(p) THEN None ELSE p
  <1>1. /\ scan \in Scans /\ scan.found \subseteq Committed
        /\ scan.queue \in Seq(AllPoints) /\ scan.queue # <<>>
    BY DEF Inv, ScanInv, Pop, Idle, Scans
  <1>2. p \in AllPoints /\ Front(scan.queue) \in Seq(AllPoints)
    <2>1. Len(scan.queue) \in Nat \ {0}
      BY <1>1, EmptySeq
    <2>2. p \in AllPoints
      <3>1. Len(scan.queue) \in 1..Len(scan.queue)
        BY <2>1
      <3> QED
        BY <1>1, <3>1, ElementOfSeq DEF Last
    <2>3. \A i \in 1..(Len(scan.queue) - 1) : scan.queue[i] \in AllPoints
      <3>1. \A i \in 1..(Len(scan.queue) - 1) : i \in 1..Len(scan.queue)
        BY <2>1
      <3> QED
        BY <1>1, <3>1, ElementOfSeq
    <2>4. Front(scan.queue) \in Seq(AllPoints)
      <3>1. 1 \in Int /\ Len(scan.queue) - 1 \in Int
        BY <2>1
      <3> QED
        BY <2>3, <3>1, SubSeqProperties DEF Front
    <2> QED
      BY <2>2, <2>4
  <1>3. scan' = [scan EXCEPT !.queue = Front(@), !.visited = visited,
                             !.point = asked, !.cursor = 0, !.pages = 0]
    BY DEF Pop
  <1> HIDE DEF p
  <1>4. visited \in SUBSET AllPoints /\ asked \in AllPoints \cup {None}
    BY <1>1, <1>2 DEF Scans
  <1> HIDE DEF visited, asked
  <1>5. /\ scan' \in Scans /\ scan'.found \subseteq Committed
        /\ scan'.cursor = 0
    BY <1>1, <1>2, <1>3, <1>4 DEF Scans
  <1>6. Passed'
    <2>1. chain \in Seq(Txs) /\ tip \in 0..Len(chain)
          /\ chain' = chain /\ tip' = tip
      BY DEF Inv, ChainInv, Pop
    <2>2. \A lock : HistoryOf(chain', tip', lock) \in Seq(EntryRecords)
      BY <2>1, HistoryIs
    <2>3. \A h \in Seq(EntryRecords) : \A q : Clear(h, 0, q)
      <3>1. \A h \in Seq(EntryRecords) : 0 <= Len(h)
        BY LenProperties
      <3> QED
        BY <3>1 DEF Clear
    <2>4. PICK lock : lock = (Cell(scan.point).lock)'
      OBVIOUS
    <2>5. (History(Cell(scan.point).lock))' \in Seq(EntryRecords)
      BY <2>2, <2>4, HistoryThere
    <2> QED
      BY <1>5, <2>3, <2>5 DEF Passed
  <1> QED
    BY <1>5, <1>6, ScanKeeps DEF Pop

LEMMA FollowKeeps == ASSUME Inv, Follow PROVE Inv'
  <1>1. scan \in Scans /\ scan.found \subseteq Committed
    BY DEF Inv, ScanInv, Follow, Idle
  <1>2. PICK t \in Hits :
          IF t \in scan.found
          THEN scan' = [scan EXCEPT !.point = None]
          ELSE scan' = [scan EXCEPT
                     !.point = None, !.found = @ \cup {t},
                     !.queue = @ \o SetToSeq({p \in Points(t) :
                                        Cell(p).kind = "commitment"})]
    BY DEF Follow
  <1>3. t \in Committed /\ t \in Txs
    <2>1. t \in Committed
      BY PageIs DEF Inv, Follow, Idle
    <2> QED
      BY <2>1, CommittedTxs DEF Inv
  <1> DEFINE P == {p \in Points(t) : Cell(p).kind = "commitment"}
  <1>4. SetToSeq(P) \in Seq(AllPoints)
    <2>1. IsFiniteSet(P) /\ P \subseteq AllPoints
      BY <1>3, PointsFinite, FS_Subset
    <2> HIDE DEF P
    <2> QED
      BY <2>1, SetToSeqIs, SeqMonotonic
  <1>5. CASE t \in scan.found
    <2>1. /\ scan' \in Scans /\ scan'.found \subseteq Committed
          /\ scan'.point = None
      BY <1>1, <1>2, <1>5 DEF Scans
    <2> QED
      BY <2>1, ScanKeeps DEF Follow
  <1>6. CASE t \notin scan.found
    <2>1. scan' = [scan EXCEPT !.point = None, !.found = @ \cup {t},
                               !.queue = @ \o SetToSeq(P)]
      BY <1>2, <1>6
    <2> HIDE DEF P
    <2>2. scan.queue \o SetToSeq(P) \in Seq(AllPoints)
      BY <1>1, <1>4, ConcatProperties DEF Scans
    <2>3. /\ scan' \in Scans /\ scan'.found \subseteq Committed
          /\ scan'.point = None
      BY <1>1, <1>3, <2>1, <2>2 DEF Scans
    <2> QED
      BY <2>3, ScanKeeps DEF Follow
  <1> QED
    BY <1>5, <1>6

LEMMA GiveUpKeeps == ASSUME Inv, GiveUp PROVE Inv'
  <1>1. scan \in Scans /\ scan.found \subseteq Committed
    BY DEF Inv, ScanInv, GiveUp, Idle
  <1>2. scan' = [scan EXCEPT !.point = None]
    BY DEF GiveUp
  <1>3. /\ scan' \in Scans /\ scan'.found \subseteq Committed
        /\ scan'.point = None
    BY <1>1, <1>2 DEF Scans
  <1> QED
    BY <1>3, ScanKeeps DEF GiveUp

LEMMA TurnPageKeeps == ASSUME Inv, TurnPage PROVE Inv'
  <1>1. /\ scan # None /\ scan.point # None /\ Hits = {}
        /\ ~(Len(Page) < PageSize)
        /\ scan' = [scan EXCEPT !.cursor = @ + PageSize, !.pages = @ + 1]
    BY DEF TurnPage, Idle, Exhausted
  <1>2. scan \in Scans /\ scan.found \subseteq Committed
    BY <1>1 DEF Inv, ScanInv
  <1> DEFINE h == HistoryOf(chain, tip, Cell(scan.point).lock)
  <1>3. /\ h \in Seq(EntryRecords) /\ Clear(h, scan.cursor, scan.point)
        /\ Page = Cut(h, scan.cursor)
        /\ Clear(h, scan.cursor + Len(Page), scan.point)
    BY <1>1, PageIs DEF Inv
  <1> HIDE DEF h
  <1>4. Len(Page) = PageSize
    <2>1. scan.cursor \in Nat /\ scan.cursor <= Len(h)
      BY <1>2, <1>3 DEF Scans, Clear
    <2>2. Len(Page) \in Nat /\ Len(Page) <= PageSize
      BY <1>3, <2>1, CutIs
    <2> QED
      BY <1>1, <2>2, LimitAssumption
  <1>5. /\ scan' \in Scans /\ scan'.found \subseteq Committed
        /\ scan'.point = scan.point /\ scan'.cursor = scan.cursor + PageSize
    <2>1. scan.cursor + PageSize \in Nat /\ scan.pages + 1 \in Nat
      BY <1>2, LimitAssumption DEF Scans
    <2> QED
      BY <1>1, <1>2, <2>1 DEF Scans
  <1>6. Passed'
    <2>1. PICK lock : lock = Cell(scan.point).lock
      OBVIOUS
    <2>2. HistoryOf(chain', tip', lock) = h
      BY <2>1 DEF h, TurnPage
    <2>3. (Cell(scan.point).lock)' = lock
      BY <1>5, <2>1 DEF Cell
    <2>4. (History(Cell(scan.point).lock))' = h
      BY <2>2, <2>3, HistoryThere
    <2> QED
      BY <1>3, <1>4, <1>5, <2>4 DEF Passed
  <1> QED
    BY <1>5, <1>6, ScanKeeps DEF TurnPage

LEMMA FinishKeeps == ASSUME Inv, Finish PROVE Inv'
  <1>1. scan' = None /\ scan.found \subseteq Committed
    BY DEF Inv, ScanInv, Finish, Idle
  <1>2. ChainInv' /\ ScanInv'
    BY <1>1 DEF Inv, ChainInv, ScanInv, Finish, Committed
  <1>3. CacheInv'
    <2> DEFINE result == Summary(scan.found)
    <2>1. cache' = [at |-> now, result |->
                      IF result.ok /\ result.closing # None
                      THEN result ELSE None]
      BY DEF Finish
    <2> HIDE DEF result
    <2> SUFFICES ASSUME cache'.result # None
                 PROVE  \E S \in SUBSET Committed' :
                    cache'.result = Summary(S) /\ Accepted(Summary(S))
      BY DEF CacheInv
    <2>2. Accepted(result) /\ cache'.result = result
      BY <2>1 DEF Accepted
    <2>3. Committed' = Committed
      BY DEF Finish, Committed
    <2> QED
      BY <1>1, <2>2, <2>3 DEF result
  <1> QED
    BY <1>2, <1>3 DEF Inv

LEMMA FailKeeps == ASSUME Inv, Fail PROVE Inv'
  <1>1. scan' = None /\ cache' = [at |-> now, result |-> None]
    BY DEF Fail
  <1>2. ChainInv' /\ ScanInv'
    BY <1>1 DEF Inv, ChainInv, ScanInv, Fail, Committed
  <1>3. CacheInv'
    BY <1>1 DEF CacheInv
  <1> QED
    BY <1>2, <1>3 DEF Inv

LEMMA Steps == Inv /\ [Next]_vars => Inv'
  <1> SUFFICES ASSUME Inv, [Next]_vars PROVE Inv'
    OBVIOUS
  <1>1. CASE Begin
    BY <1>1, BeginKeeps
  <1>2. CASE Pop
    BY <1>2, PopKeeps
  <1>3. CASE Follow
    BY <1>3, FollowKeeps
  <1>4. CASE GiveUp
    BY <1>4, GiveUpKeeps
  <1>5. CASE TurnPage
    BY <1>5, TurnPageKeeps
  <1>6. CASE Finish
    BY <1>6, FinishKeeps
  <1>7. CASE Fail
    BY <1>7, FailKeeps
  <1>8. CASE Restart
    BY <1>8 DEF Restart, Inv, ChainInv, ScanInv, CacheInv, Committed
  <1>9. CASE \E t \in Txs : Commit(t)
    BY <1>9, CommitKeeps
  <1>10. CASE Index
    BY <1>10, IndexKeeps
  <1>11. CASE Advance
    BY <1>11, AdvanceKeeps DEF Advance
  <1>12. CASE UNCHANGED vars
    BY <1>12, AdvanceKeeps DEF vars
  <1> QED
    BY <1>1, <1>2, <1>3, <1>4, <1>5, <1>6, <1>7, <1>8, <1>9, <1>10, <1>11,
       <1>12 DEF Next, Scanning, Outside

THEOREM Invariant == Spec => []Inv
  <1> QED
    BY Initially, Steps, PTL DEF Spec

----------------------------------------------------------------------------
(* Whatever set of committed transactions a claim names, if it is accepted *)
(* as confirmed then all the channel's money is in wallets                 *)
(* (settlement::summarize), for every tree of transactions and all limits. *)
THEOREM ConfirmedIsRecoveredHolds == Spec => []ConfirmedIsRecovered
  <1>1. Inv => ConfirmedIsRecovered
    BY ConfirmedRecovers DEF Inv
  <1> QED
    BY <1>1, Invariant, PTL

(* What an honest connector has cached is accepted by the coordinator, at  *)
(* any later state of the chain (settlement::inspect, settlement::verify). *)
THEOREM HonestClaimAcceptedHolds == Spec => []HonestClaimAccepted
  <1>1. ASSUME Inv PROVE HonestClaimAccepted
    <2> SUFFICES ASSUME cache # None, cache.result # None
                 PROVE  Verified(cache.result)
      BY DEF HonestClaimAccepted
    <2>1. PICK S \in SUBSET Committed :
              cache.result = Summary(S) /\ Accepted(Summary(S))
      BY <1>1 DEF Inv, CacheInv
    <2>2. S \in SUBSET Txs
      BY <1>1, CommittedTxs DEF Inv
    <2>3. /\ Cardinality(S) <= MaxTransactions /\ Summary(S).hashes = S
          /\ SpendersOf(Funding, S) # {}
      BY <2>1, <2>2, SummaryIs
    <2>4. Cardinality(S) > 0
      <3>1. IsFiniteSet(S) /\ S # {}
        BY <2>2, <2>3, TxAssumption, FS_Subset DEF SpendersOf
      <3>2. Cardinality(S) \in Nat /\ Cardinality(S) # 0
        BY <3>1, FS_CardinalityType, FS_EmptySet
      <3> QED
        BY <3>2
    <2>5. ProofSize(Cardinality(S))
      BY <2>3, <2>4 DEF ProofSize
    <2> QED
      BY <2>1, <2>3, <2>5 DEF Verified
  <1> QED
    BY <1>1, Invariant, PTL

(* The scan drops a point as unspent only when the indexer holds no        *)
(* spender of it that the scan has not found: neither a limit nor a page   *)
(* read at another height is taken for an answer                           *)
(* (settlement_scan::spender).                                             *)
THEOREM ScanNeverGuessesHolds == Spec => ScanNeverGuesses
  <1> DEFINE Drops == /\ ~Idle /\ scan' # None /\ scan.point # None
                      /\ scan'.point = None /\ scan'.found = scan.found
             Seen == ToSet(SubSeq(chain, 1, tip))
             Answered == SpendersOf(scan.point, Seen) \subseteq scan.found
  <1>1. ASSUME Inv, Next, Drops PROVE Answered
    <2>1. scan # None /\ scan.point # None
      BY <1>1 DEF Idle
    <2>2. scan \in Scans /\ scan.found \subseteq Committed
      BY <1>1, <2>1 DEF Inv, ScanInv
    <2>3. Seen = {chain[i] : i \in 1..tip} /\ Seen \subseteq Committed
      <3>1. /\ tip \in Nat /\ tip <= Len(chain) /\ chain \in Seq(Txs)
            /\ Len(chain) \in Nat /\ DOMAIN chain = 1..Len(chain)
        BY <1>1, LenProperties DEF Inv, ChainInv
      <3>2. \A i \in 1..tip : i \in 1..Len(chain)
        BY <3>1
      <3>3. \A i \in 1..tip : chain[i] \in Txs
        BY <3>1, <3>2, ElementOfSeq
      <3> DEFINE s == SubSeq(chain, 1, tip)
      <3>4. /\ s \in Seq(Txs) /\ Len(s) = tip
            /\ \A i \in 1..tip : s[i] = chain[i]
        <4>1. /\ s \in Seq(Txs) /\ Len(s) = IF 1 <= tip THEN tip - 1 + 1 ELSE 0
              /\ \A i \in 1..(tip - 1 + 1) : s[i] = chain[1 + i - 1]
          BY <3>1, <3>3, SubSeqProperties
        <4>2. Len(s) = tip
          BY <3>1, <4>1
        <4>3. ASSUME NEW i \in 1..tip PROVE s[i] = chain[i]
          <5>1. i \in 1..(tip - 1 + 1) /\ 1 + i - 1 = i
            BY <3>1
          <5> QED
            BY <4>1, <5>1
        <4> QED
          BY <4>1, <4>2, <4>3
      <3>5. DOMAIN s = 1..tip
        BY <3>4, LenProperties
      <3> HIDE DEF s
      <3>6. ToSet(s) = {chain[i] : i \in 1..tip}
        BY <3>4, <3>5 DEF ToSet
      <3>7. {chain[i] : i \in 1..tip} \subseteq Committed
        BY <3>1, <3>2 DEF Committed, ToSet
      <3> QED
        BY <3>6, <3>7 DEF s
    <2> HIDE DEF Seen
    <2>4. CASE Follow
      <3>1. PICK t \in Hits :
              IF t \in scan.found
              THEN scan' = [scan EXCEPT !.point = None]
              ELSE scan' = [scan EXCEPT
                     !.point = None, !.found = @ \cup {t},
                     !.queue = @ \o SetToSeq({p \in Points(t) :
                                        Cell(p).kind = "commitment"})]
        BY <2>4 DEF Follow
      <3>2. t \in Committed /\ scan.point \in Inputs[t]
        BY <1>1, <2>1, PageIs DEF Inv
      <3>3. t \in scan.found
        <4> SUFFICES ASSUME t \notin scan.found PROVE FALSE
          OBVIOUS
        <4>1. scan'.found = scan.found \cup {t}
          BY <2>2, <3>1 DEF Scans
        <4> QED
          BY <1>1, <4>1
      <3>4. \A u \in SpendersOf(scan.point, Seen) : u = t
        BY <1>1, <2>3, <3>2 DEF SpendersOf, Inv, ChainInv
      <3> QED
        BY <3>3, <3>4
    <2>5. CASE GiveUp
      <3> DEFINE h == HistoryOf(chain, tip, Cell(scan.point).lock)
      <3>1. /\ h \in Seq(EntryRecords) /\ Clear(h, scan.cursor, scan.point)
            /\ Page = Cut(h, scan.cursor)
            /\ Clear(h, scan.cursor + Len(Page), scan.point)
        BY <1>1, <2>1, <2>5, PageIs DEF Inv, GiveUp
      <3>2. \A i \in 1..tip : \A p \in Inputs[chain[i]] :
               Cell(p).lock = Cell(scan.point).lock =>
                  \E k \in 1..Len(h) :
                     h[k].io = "input" /\ h[k].tx = chain[i]
        <4>1. chain \in Seq(Txs) /\ tip \in 0..Len(chain)
          BY <1>1 DEF Inv, ChainInv
        <4>2. PICK lock : lock = Cell(scan.point).lock
          OBVIOUS
        <4>3. \A i \in 1..tip : \A p \in Inputs[chain[i]] :
                 Cell(p).lock = lock =>
                    \E k \in 1..Len(HistoryOf(chain, tip, lock)) :
                       /\ HistoryOf(chain, tip, lock)[k].io = "input"
                       /\ HistoryOf(chain, tip, lock)[k].tx = chain[i]
          BY <4>1, HistoryIs
        <4> QED
          BY <4>2, <4>3
      <3> HIDE DEF h
      <3>3. scan.cursor + Len(Page) = Len(h)
        <4>1. scan.cursor \in Nat /\ scan.cursor <= Len(h)
          BY <2>2, <3>1 DEF Scans, Clear
        <4>2. Len(Page) < PageSize
          BY <2>5 DEF GiveUp, Exhausted
        <4> QED
          BY <3>1, <4>1, <4>2, CutIs
      <3>4. \A i \in 1..tip : scan.point \notin Inputs[chain[i]]
        <4> SUFFICES ASSUME NEW i \in 1..tip, scan.point \in Inputs[chain[i]]
                     PROVE  FALSE
          OBVIOUS
        <4>1. PICK k \in 1..Len(h) : h[k].io = "input" /\ h[k].tx = chain[i]
          BY <3>2
        <4> QED
          BY <3>1, <3>3, <4>1 DEF Clear
      <3> QED
        BY <2>3, <3>4 DEF SpendersOf
    <2>6. ~Begin /\ ~Pop /\ ~Finish /\ ~Fail /\ ~Restart
      BY <1>1, <2>1 DEF Begin, Pop, Finish, Fail, Restart, Idle
    <2>7. ~TurnPage
      BY <1>1, <2>1, <2>2 DEF TurnPage, Scans
    <2>8. CASE Outside
      BY <1>1, <2>8 DEF Outside, Commit, Index, Advance
    <2> QED
      BY <1>1, <2>4, <2>5, <2>6, <2>7, <2>8 DEF Next, Scanning
  <1>2. Inv /\ [Next]_vars => [Drops => Answered]_vars
    BY <1>1
  <1> QED
    BY <1>2, Invariant, PTL DEF Spec, ScanNeverGuesses
=============================================================================
