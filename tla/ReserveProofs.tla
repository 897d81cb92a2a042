--------------------------- MODULE ReserveProofs ---------------------------
(***************************************************************************)
(* What holds of the ledger where it stands alone, without a CKB node: for *)
(* every number of providers and merchants, every amount, and any number   *)
(* of handoffs, builders and channels at once, an open channel is deployed *)
(* and no CKB is locked or lent out that no reservation accounts for.      *)
(***************************************************************************)
EXTENDS LedgerProofs

----------------------------------------------------------------------------
(***************************************************************************)
(* The totals of the positions.                                            *)
(***************************************************************************)
\* What a position adds to a total.
Share(ps, i, field) == IF ps[i].active THEN ps[i][field] ELSE 0

LEMMA BeforeSum ==
    ASSUME NEW ps, NEW field, NEW i,
           NEW T, T = {j \in 1..(i - 1) : ps[j].active}, IsFiniteSet(T)
    PROVE  SumBefore(ps, i, field)
              = SumFunctionOnSet([j \in T |-> ps[j][field]], T)
  <1>1. MapThenSumSet(LAMBDA j : ps[j][field], T)
           = SumFunctionOnSet([j \in T |-> ps[j][field]], T)
    BY IndexSum
  <1> QED
    BY <1>1 DEF SumBefore

LEMMA BeforeFirst ==
    ASSUME NEW ps, NEW field, NEW i \in Nat, i - 1 = 0
    PROVE  SumBefore(ps, i, field) = 0
  <1> DEFINE T == {j \in 1..(i - 1) : ps[j].active}
  <1>1. T = {}
    OBVIOUS
  <1>2. IsFiniteSet(T) /\ T = {j \in 1..(i - 1) : ps[j].active}
    BY <1>1, FS_EmptySet
  <1> HIDE DEF T
  <1> QED
    BY <1>1, <1>2, BeforeSum, SumEmpty

\* The shares of two sequences differ by the steps of d.
Shifts(ps, qs, field, d, n) ==
    /\ ps \in Seq(PositionEntries) /\ qs \in Seq(PositionEntries)
    /\ Len(ps) <= Len(qs) /\ n = Len(ps) + 1
    /\ Naturals(ps, field) /\ Naturals(qs, field)
    /\ \A k \in 1..n : d[k] \in Int /\ (k - 1 = 0 => d[k] = 0)
    /\ \A i \in DOMAIN ps :
          Share(qs, i, field) = Share(ps, i, field) + d[i + 1] - d[i]

\* Then their sums differ by d.
LEMMA BeforeShift ==
    ASSUME NEW ps, NEW qs, NEW field, NEW d, NEW n,
           Shifts(ps, qs, field, d, n), NEW k \in 1..n
    PROVE  SumBefore(qs, k, field) = SumBefore(ps, k, field) + d[k]
  <1> DEFINE p(i) == SumBefore(ps, i, field)
             q(i) == SumBefore(qs, i, field)
             W == {i \in 1..n : q(i) # p(i) + d[i]}
  <1>1. /\ Len(ps) \in Nat /\ DOMAIN ps = 1..Len(ps)
        /\ Len(qs) \in Nat /\ DOMAIN qs = 1..Len(qs)
        /\ ps \in Seq(PositionEntries) /\ qs \in Seq(PositionEntries)
        /\ Len(ps) <= Len(qs) /\ n = Len(ps) + 1
        /\ Naturals(ps, field) /\ Naturals(qs, field)
    BY DomainSeq DEF Shifts
  <1>4. /\ \A x \in 1..n : d[x] \in Int /\ (x - 1 = 0 => d[x] = 0)
        /\ \A i \in DOMAIN ps :
              Share(qs, i, field) = Share(ps, i, field) + d[i + 1] - d[i]
    BY DEF Shifts
  <1>2. CASE W = {}
    BY <1>2
  <1>3. CASE W # {}
    <2>1. W \subseteq Nat
      BY <1>1
    <2>2. PICK i \in W : \A j \in W : i <= j
      BY <1>3, <2>1, LeastNumber
    <2>3. i \in 1..n /\ q(i) # p(i) + d[i]
      BY <2>2
    <2>4. CASE i = 1
      <3>1. i \in Nat /\ i - 1 = 0 /\ d[i] = 0
        BY <1>4, <2>3, <2>4
      <3>2. q(i) = 0 /\ p(i) = 0
        BY <3>1, BeforeFirst
      <3> HIDE DEF p, q
      <3> QED
        BY <2>3, <3>1, <3>2
    <2>5. CASE i # 1
      <3> DEFINE j == i - 1
      <3>1. /\ j \in 1..Len(ps) /\ j + 1 = i /\ j \in 1..n
            /\ j \in DOMAIN ps /\ j \in DOMAIN qs /\ ~(i <= j)
        BY <1>1, <2>3, <2>5
      <3>2. q(j) = p(j) + d[j]
        BY <2>2, <3>1
      <3>3. p(j + 1) = p(j) + Share(ps, j, field)
        BY <1>1, <3>1, BeforeNext DEF Share
      <3>4. q(j + 1) = q(j) + Share(qs, j, field)
        BY <1>1, <3>1, BeforeNext DEF Share
      <3>5. Share(qs, j, field) = Share(ps, j, field) + d[j + 1] - d[j]
        BY <1>4, <3>1
      <3>6. p(j) \in Nat /\ Share(ps, j, field) \in Nat
        BY <1>1, <3>1, SumBeforeNat DEF Share, Naturals
      <3>7. d[j] \in Int /\ d[j + 1] \in Int
        BY <1>4, <2>3, <3>1
      <3> HIDE DEF p, q, j
      <3> QED
        BY <2>3, <3>1, <3>2, <3>3, <3>4, <3>5, <3>6, <3>7
    <2> QED
      BY <2>4, <2>5
  <1> QED
    BY <1>2, <1>3

\* An amount is taken from the first positions as far as they have it.
LEMMA BeforeTaken ==
    ASSUME NEW S, NEW ps \in Seq(S), NEW from, Naturals(ps, from),
           NEW amount \in Nat, NEW i \in DOMAIN ps
    PROVE  Taken(ps, i, from, amount)
              = Least(amount, SumBefore(ps, i + 1, from))
                  - Least(amount, SumBefore(ps, i, from))
  <1>1. SumBefore(ps, i, from) \in Nat /\ ps[i][from] \in Nat
    BY SumBeforeNat DEF Naturals
  <1>2. SumBefore(ps, i + 1, from)
           = SumBefore(ps, i, from) + (IF ps[i].active THEN ps[i][from] ELSE 0)
    BY BeforeNext
  <1> QED
    BY <1>1, <1>2 DEF Taken, Least, Sat

\* A balance that changes by what was taken, changes by the amount in all.
Shifted(sign, x, t) ==
    IF sign = "more" THEN x + t ELSE IF sign = "less" THEN x - t ELSE x

ShiftedAll(ps, qs, from, amount, field, sign) ==
    /\ Len(qs) = Len(ps)
    /\ Naturals(ps, from) /\ Naturals(ps, field) /\ Naturals(qs, field)
    /\ \A i \in DOMAIN ps :
          /\ qs[i].active = ps[i].active
          /\ qs[i][field] = Shifted(sign, ps[i][field],
                                    Taken(ps, i, from, amount))

LEMMA TotalShifted ==
    ASSUME NEW ps \in Seq(PositionEntries), NEW qs \in Seq(PositionEntries),
           NEW from, NEW amount \in Nat, NEW field,
           NEW sign \in {"more", "less", "same"},
           ShiftedAll(ps, qs, from, amount, field, sign)
    PROVE  Total(qs, field) = Shifted(sign, Total(ps, field),
                                      Least(amount, Total(ps, from)))
  <1> DEFINE n == Len(ps)
             t(k) == Least(amount, SumBefore(ps, k, from))
             d == [k \in 1..(n + 1) |-> Shifted(sign, 0, t(k))]
  <1>0. /\ Len(qs) = Len(ps)
        /\ Naturals(ps, from) /\ Naturals(ps, field) /\ Naturals(qs, field)
        /\ \A i \in DOMAIN ps :
              /\ qs[i].active = ps[i].active
              /\ qs[i][field] = Shifted(sign, ps[i][field],
                                        Taken(ps, i, from, amount))
    BY DEF ShiftedAll
  <1>1. n \in Nat /\ DOMAIN ps = 1..n /\ DOMAIN qs = 1..n
    BY <1>0, DomainSeq
  <1>2. \A k \in 1..(n + 1) : t(k) \in Nat
    <2>1. ASSUME NEW k \in 1..(n + 1) PROVE SumBefore(ps, k, from) \in Nat
      <3>1. k \in DOMAIN ps \cup {Len(ps) + 1}
        BY <1>1
      <3> QED
        BY <1>0, <3>1, SumBeforeNat
    <2> QED
      BY <2>1 DEF Least
  <1>3. \A k \in 1..(n + 1) : k - 1 = 0 => t(k) = 0
    <2>1. \A k \in 1..(n + 1) : k - 1 = 0 => SumBefore(ps, k, from) = 0
      BY <1>1, BeforeFirst
    <2> QED
      BY <2>1 DEF Least
  <1>4. \A k \in 1..(n + 1) : d[k] \in Int /\ (k - 1 = 0 => d[k] = 0)
    <2> HIDE DEF t
    <2> QED
      BY <1>2, <1>3 DEF Shifted
  <1>6. ASSUME NEW i \in DOMAIN ps
        PROVE  Share(qs, i, field) = Share(ps, i, field) + d[i + 1] - d[i]
    <2>1. i \in 1..(n + 1) /\ i + 1 \in 1..(n + 1)
      BY <1>1
    <2>2. Taken(ps, i, from, amount) = t(i + 1) - t(i)
      BY <1>0, BeforeTaken
    <2>3. /\ qs[i].active = ps[i].active
          /\ qs[i][field] = Shifted(sign, ps[i][field],
                                    Taken(ps, i, from, amount))
      BY <1>0
    <2>4. ~ps[i].active => Taken(ps, i, from, amount) = 0
      BY DEF Taken
    <2>5. ps[i][field] \in Nat /\ t(i) \in Nat /\ t(i + 1) \in Nat
      BY <1>0, <1>2, <2>1 DEF Naturals
    <2>6. d[i] = Shifted(sign, 0, t(i)) /\ d[i + 1] = Shifted(sign, 0, t(i + 1))
      BY <2>1
    <2> HIDE DEF d, t
    <2> QED
      BY <2>2, <2>3, <2>4, <2>5, <2>6 DEF Share, Shifted
  <1>7. n + 1 \in 1..(n + 1) /\ Len(ps) <= Len(qs)
    BY <1>0, <1>1
  <1>8. SumBefore(qs, n + 1, field) = SumBefore(ps, n + 1, field) + d[n + 1]
    <2>1. Shifts(ps, qs, field, d, n + 1)
      <3> HIDE DEF d
      <3> QED
        BY <1>0, <1>4, <1>6, <1>7 DEF Shifts
    <2> HIDE DEF d, n
    <2> QED
      BY <1>7, <2>1, BeforeShift
  <1>9. d[n + 1] = Shifted(sign, 0, t(n + 1)) /\ t(n + 1) \in Nat
    BY <1>2, <1>7
  <1>10. SumBefore(ps, n + 1, field) \in Nat
    BY <1>0, SumBeforeNat
  <1>11. /\ Total(qs, field) = SumBefore(qs, n + 1, field)
         /\ Total(ps, field) = SumBefore(ps, n + 1, field)
         /\ t(n + 1) = Least(amount, Total(ps, from))
    BY <1>0 DEF Total
  <1> HIDE DEF d, t, n
  <1> QED
    BY <1>8, <1>9, <1>10, <1>11 DEF Shifted

\* Nothing else changes a total: not what is supplied, claimed or closed.
LEMMA TotalSame ==
    ASSUME NEW ps \in Seq(PositionEntries), NEW qs \in Seq(PositionEntries),
           Len(qs) = Len(ps),
           NEW field, Naturals(ps, field), Naturals(qs, field),
           \A i \in DOMAIN ps : Share(qs, i, field) = Share(ps, i, field)
    PROVE  Total(qs, field) = Total(ps, field)
  <1> DEFINE n == Len(ps) + 1
             d == [k \in 1..n |-> 0]
  <1>1. Len(ps) \in Nat /\ DOMAIN ps = 1..Len(ps)
    BY DomainSeq
  <1>2. \A i \in DOMAIN ps : Share(ps, i, field) \in Nat
    BY DEF Share, Naturals
  <1>3. /\ \A k \in 1..n : d[k] = 0
        /\ n \in 1..n
        /\ \A i \in DOMAIN ps : i \in 1..n /\ i + 1 \in 1..n
    BY <1>1
  <1>4. Len(ps) <= Len(qs)
    BY <1>1
  <1>5. Shifts(ps, qs, field, d, n)
    <2> HIDE DEF d
    <2> QED
      BY <1>1, <1>2, <1>3, <1>4 DEF Shifts
  <1>6. Total(qs, field) = SumBefore(qs, n, field)
        /\ Total(ps, field) = SumBefore(ps, n, field)
        /\ SumBefore(ps, n, field) \in Nat
    BY SumBeforeNat DEF Total
  <1>7. d[n] = 0
    BY <1>3
  <1> HIDE DEF d, n
  <1>8. SumBefore(qs, n, field) = SumBefore(ps, n, field) + d[n]
    BY <1>3, <1>5, BeforeShift
  <1> QED
    BY <1>6, <1>7, <1>8

\* A new position brings nothing that is reserved or deployed.
LEMMA TotalAppended ==
    ASSUME NEW ps \in Seq(PositionEntries), NEW x \in PositionEntries,
           NEW field, Naturals(ps, field), x[field] = 0
    PROVE  Total(Append(ps, x), field) = Total(ps, field)
  <1> DEFINE n == Len(ps) + 1
             qs == Append(ps, x)
             d == [k \in 1..n |-> 0]
  <1>1. Len(ps) \in Nat /\ DOMAIN ps = 1..Len(ps)
    BY DomainSeq
  <1>2. /\ qs \in Seq(PositionEntries) /\ DOMAIN qs = DOMAIN ps \cup {n}
        /\ qs[n] = x /\ \A i \in DOMAIN ps : qs[i] = ps[i]
        /\ Len(qs) = n
    BY AppendSeq
  <1>3. Naturals(qs, field)
    BY <1>2 DEF Naturals
  <1>4. /\ \A i \in DOMAIN ps : Share(ps, i, field) \in Nat
        /\ \A i \in DOMAIN ps : Share(qs, i, field) = Share(ps, i, field)
    BY <1>2 DEF Share, Naturals
  <1>5. /\ \A k \in 1..n : d[k] = 0
        /\ n \in 1..n /\ n \in Nat
        /\ \A i \in DOMAIN ps : i \in 1..n /\ i + 1 \in 1..n
        /\ Len(ps) <= n
    BY <1>1
  <1>6. Shifts(ps, qs, field, d, n)
    <2> HIDE DEF d, qs
    <2> QED
      BY <1>1, <1>2, <1>3, <1>4, <1>5 DEF Shifts
  <1>7. /\ Total(qs, field) = SumBefore(qs, n + 1, field)
        /\ Total(ps, field) = SumBefore(ps, n, field)
    BY <1>2 DEF Total
  <1>8. d[n] = 0 /\ n \in DOMAIN qs
    BY <1>2, <1>5
  <1>9. SumBefore(ps, n, field) \in Nat
    BY SumBeforeNat
  <1> HIDE DEF d, n, qs
  <1>10. SumBefore(qs, n, field) = SumBefore(ps, n, field) + d[n]
    BY <1>5, <1>6, BeforeShift
  <1>11. SumBefore(qs, n + 1, field)
            = SumBefore(qs, n, field) + (IF x.active THEN x[field] ELSE 0)
    BY <1>2, <1>3, <1>8, BeforeNext
  <1>12. Total(qs, field) = Total(ps, field)
    BY <1>7, <1>8, <1>9, <1>10, <1>11
  <1> QED
    BY <1>12 DEF qs

LEMMA TotalNat ==
    ASSUME NEW ps \in Seq(PositionEntries), NEW field, Naturals(ps, field)
    PROVE  Total(ps, field) \in Nat
  BY SumBeforeNat DEF Total

----------------------------------------------------------------------------
(***************************************************************************)
(* What an operation moves from one total to another.                      *)
(***************************************************************************)
Balances == {"available", "reserved", "deployed"}
SignOf(from, to, field) ==
    IF field = from THEN "less" ELSE IF field = to THEN "more" ELSE "same"

MovedBy(p, from, to, t) == [p EXCEPT ![from] = @ - t, ![to] = @ + t]

LEMMA MovedOne ==
    ASSUME NEW p \in PositionEntries, NEW from \in Balances, NEW to \in Balances,
           from # to, NEW field \in Balances, NEW t,
           NEW q, q = MovedBy(p, from, to, t)
    PROVE  /\ q[field] = Shifted(SignOf(from, to, field), p[field], t)
           /\ q.active = p.active
  <1>1. DOMAIN p = {"receipt", "supplied", "available", "reserved", "deployed",
                    "earned", "claimed", "point", "active"}
    BY DEF PositionEntries, PositionRecords
  <1>2. from \in DOMAIN p /\ to \in DOMAIN p /\ field \in DOMAIN p
        /\ "active" \notin Balances
    BY <1>1 DEF Balances
  <1>3. q["active"] = p["active"]
    BY <1>1, <1>2 DEF MovedBy
  <1>4. q[field] = IF field = to THEN p[field] + t
                   ELSE IF field = from THEN p[field] - t ELSE p[field]
    BY <1>2 DEF MovedBy
  <1> QED
    BY <1>3, <1>4 DEF Shifted, SignOf

LEMMA MoveTotals ==
    ASSUME NEW ps \in Seq(PositionEntries), NEW amount \in Nat,
           NEW from \in Balances, NEW to \in Balances, from # to,
           NEW field \in Balances,
           NEW qs, qs = Move(ps, from, to, amount), qs \in Seq(PositionEntries)
    PROVE  Total(qs, field) = Shifted(SignOf(from, to, field), Total(ps, field),
                                      Least(amount, Total(ps, from)))
  <1> DEFINE t(i) == Taken(ps, i, from, amount)
             sign == SignOf(from, to, field)
  <1>1. \A i \in DOMAIN ps : ps[i] \in PositionEntries
    BY DomainSeq
  <1>2. DOMAIN qs = DOMAIN ps /\ Len(qs) = Len(ps)
        /\ qs = [i \in DOMAIN ps |-> qs[i]]
        /\ \A i \in DOMAIN ps :
              qs[i] = MovedBy(ps[i], from, to, t(i))
    <2>1. qs = [i \in DOMAIN ps |-> MovedBy(ps[i], from, to, t(i))]
      BY DEF Move, MovedBy
    <2>2. DOMAIN qs = DOMAIN ps
      BY <2>1
    <2>3. Len(qs) = Len(ps)
      BY <2>2
    <2> QED
      BY <2>1, <2>3
  <1>3. \A i \in DOMAIN ps :
           qs[i].active = ps[i].active /\ qs[i][field] = Shifted(sign, ps[i][field], t(i))
    <2> HIDE DEF t
    <2>1. ASSUME NEW i \in DOMAIN ps
          PROVE  qs[i].active = ps[i].active
                 /\ qs[i][field] = Shifted(sign, ps[i][field], t(i))
      <3>1. ps[i] \in PositionEntries
            /\ qs[i] = MovedBy(ps[i], from, to, t(i))
        BY <1>1, <1>2
      <3> QED
        BY <3>1, MovedOne
    <2> QED
      BY <2>1
  <1>4. Naturals(ps, field) /\ Naturals(qs, field) /\ Naturals(ps, from)
    BY BalancesNatural DEF Balances
  <1>5. sign \in {"more", "less", "same"}
    BY DEF SignOf
  <1> HIDE DEF sign
  <1>6. Total(qs, field) = Shifted(sign, Total(ps, field),
                                   Least(amount, Total(ps, from)))
    <2>1. ShiftedAll(ps, qs, from, amount, field, sign)
      BY <1>2, <1>3, <1>4 DEF ShiftedAll
    <2> QED
      BY <1>5, <2>1, TotalShifted
  <1> QED
    BY <1>6 DEF sign

LEMMA LeastIs ==
    ASSUME NEW x \in Nat, NEW y \in Nat
    PROVE  /\ Least(x, y) \in Nat /\ Least(x, y) <= x /\ Least(x, y) <= y
           /\ y >= x => Least(x, y) = x
           /\ y < x => Least(x, y) = y
  BY DEF Least

LEMMA TotalsNat ==
    ASSUME NEW ps \in Seq(PositionEntries)
    PROVE  /\ Total(ps, "available") \in Nat /\ Total(ps, "reserved") \in Nat
           /\ Total(ps, "deployed") \in Nat
  BY BalancesNatural, TotalNat

\* A reservation locks as much as is left.
LEMMA ReserveTotals ==
    ASSUME NEW ps \in Seq(PositionEntries), NEW amount \in Nat \ {0},
           NEW fee \in Nat,
           NEW qs, qs = ReservePositions(ps, amount, fee)
    PROVE  /\ qs \in Seq(PositionEntries)
           /\ \E t \in Nat : /\ t <= amount
                            /\ Total(qs, "reserved") = Total(ps, "reserved") + t
                            /\ Total(qs, "deployed") = Total(ps, "deployed")
  <1> DEFINE moved == Move(ps, "available", "reserved", amount)
             t == Least(amount, Total(ps, "available"))
             share(i) == FeeShare(ps, i, amount, fee)
  <1>1. qs \in Seq(PositionEntries) /\ amount \in Nat
    BY FeesSteady DEF Steady
  <1>2. moved \in Seq(PositionEntries)
    BY <1>1, ReserveSteady DEF Steady
  <1>3. /\ Total(moved, "reserved")
             = Shifted("more", Total(ps, "reserved"), t)
        /\ Total(moved, "deployed")
             = Shifted("same", Total(ps, "deployed"), t)
    BY <1>1, <1>2, MoveTotals DEF Balances, SignOf
  <1>4. DOMAIN moved = DOMAIN ps
    BY DEF Move
  <1>5. qs = [i \in DOMAIN ps |-> [moved[i] EXCEPT !.earned = @ + share(i)]]
    BY DEF ReservePositions
  <1>6. Len(qs) = Len(moved)
    <2>1. DOMAIN qs = DOMAIN moved
      BY <1>4, <1>5
    <2> QED
      BY <2>1
  <1>7. ASSUME NEW i \in DOMAIN moved
        PROVE  /\ qs[i].active = moved[i].active
               /\ qs[i].reserved = moved[i].reserved
               /\ qs[i].deployed = moved[i].deployed
    <2>1. qs[i] = [moved[i] EXCEPT !.earned = @ + share(i)]
      BY <1>4, <1>5
    <2>2. moved[i] \in PositionEntries
      BY <1>2, DomainSeq
    <2> HIDE DEF moved, share
    <2> QED
      BY <2>1, <2>2 DEF PositionEntries, PositionRecords
  <1>8. \A i \in DOMAIN moved :
           /\ Share(qs, i, "reserved") = Share(moved, i, "reserved")
           /\ Share(qs, i, "deployed") = Share(moved, i, "deployed")
    BY <1>7 DEF Share
  <1>9. t \in Nat /\ t <= amount
    BY <1>1, TotalsNat, LeastIs
  <1>10. /\ Naturals(moved, "reserved") /\ Naturals(moved, "deployed")
         /\ Naturals(qs, "reserved") /\ Naturals(qs, "deployed")
    BY <1>1, <1>2, BalancesNatural
  <1> HIDE DEF moved, t
  <1>11. /\ Total(qs, "reserved") = Total(moved, "reserved")
         /\ Total(qs, "deployed") = Total(moved, "deployed")
    BY <1>1, <1>2, <1>6, <1>8, <1>10, TotalSame
  <1> QED
    BY <1>1, <1>3, <1>9, <1>11 DEF Shifted

LEMMA DeployTotals ==
    ASSUME NEW ps \in Seq(PositionEntries), NEW amount \in Nat
    PROVE  LET qs == DeployPositions(ps, amount)
               t == Least(amount, Total(ps, "reserved"))
           IN  /\ qs \in Seq(PositionEntries)
               /\ Total(qs, "reserved") = Total(ps, "reserved") - t
               /\ Total(qs, "deployed") = Total(ps, "deployed") + t
  <1> DEFINE qs == DeployPositions(ps, amount)
             t == Least(amount, Total(ps, "reserved"))
  <1>1. qs = Move(ps, "reserved", "deployed", amount)
    BY DEF DeployPositions
  <1>2. qs \in Seq(PositionEntries)
    BY <1>1, DeploySteady DEF Steady
  <1>3. /\ Total(qs, "reserved")
             = Shifted(SignOf("reserved", "deployed", "reserved"),
                       Total(ps, "reserved"), t)
        /\ Total(qs, "deployed")
             = Shifted(SignOf("reserved", "deployed", "deployed"),
                       Total(ps, "deployed"), t)
    BY <1>1, <1>2, MoveTotals DEF Balances
  <1> HIDE DEF qs, t
  <1>4. /\ qs \in Seq(PositionEntries)
        /\ Total(qs, "reserved") = Total(ps, "reserved") - t
        /\ Total(qs, "deployed") = Total(ps, "deployed") + t
    BY <1>2, <1>3 DEF Shifted, SignOf
  <1> QED
    BY <1>4 DEF qs, t

LEMMA UndeployTotals ==
    ASSUME NEW ps \in Seq(PositionEntries), NEW amount \in Nat
    PROVE  LET qs == UndeployPositions(ps, amount)
               t == Least(amount, Total(ps, "deployed"))
           IN  /\ qs \in Seq(PositionEntries)
               /\ Total(qs, "reserved") = Total(ps, "reserved") + t
               /\ Total(qs, "deployed") = Total(ps, "deployed") - t
  <1> DEFINE qs == UndeployPositions(ps, amount)
             t == Least(amount, Total(ps, "deployed"))
  <1>1. qs = Move(ps, "deployed", "reserved", amount)
    BY DEF UndeployPositions
  <1>2. qs \in Seq(PositionEntries)
    BY <1>1, UndeploySteady DEF Steady
  <1>3. /\ Total(qs, "reserved")
             = Shifted(SignOf("deployed", "reserved", "reserved"),
                       Total(ps, "reserved"), t)
        /\ Total(qs, "deployed")
             = Shifted(SignOf("deployed", "reserved", "deployed"),
                       Total(ps, "deployed"), t)
    BY <1>1, <1>2, MoveTotals DEF Balances
  <1> HIDE DEF qs, t
  <1>4. /\ qs \in Seq(PositionEntries)
        /\ Total(qs, "reserved") = Total(ps, "reserved") + t
        /\ Total(qs, "deployed") = Total(ps, "deployed") - t
    BY <1>2, <1>3 DEF Shifted, SignOf
  <1> QED
    BY <1>4 DEF qs, t

LEMMA ReleaseTotals ==
    ASSUME NEW ps \in Seq(PositionEntries), NEW amount \in Nat
    PROVE  LET qs == ReleasePositions(ps, amount)
               t == Least(amount, Total(ps, "reserved"))
           IN  /\ qs \in Seq(PositionEntries)
               /\ Total(qs, "reserved") = Total(ps, "reserved") - t
               /\ Total(qs, "deployed") = Total(ps, "deployed")
  <1> DEFINE qs == ReleasePositions(ps, amount)
             t == Least(amount, Total(ps, "reserved"))
  <1>1. qs = Move(ps, "reserved", "available", amount)
    BY DEF ReleasePositions
  <1>2. qs \in Seq(PositionEntries)
    BY <1>1, ReleaseSteady DEF Steady
  <1>3. /\ Total(qs, "reserved")
             = Shifted(SignOf("reserved", "available", "reserved"),
                       Total(ps, "reserved"), t)
        /\ Total(qs, "deployed")
             = Shifted(SignOf("reserved", "available", "deployed"),
                       Total(ps, "deployed"), t)
    BY <1>1, <1>2, MoveTotals DEF Balances
  <1> HIDE DEF qs, t
  <1>4. /\ qs \in Seq(PositionEntries)
        /\ Total(qs, "reserved") = Total(ps, "reserved") - t
        /\ Total(qs, "deployed") = Total(ps, "deployed")
    BY <1>2, <1>3 DEF Shifted, SignOf
  <1> QED
    BY <1>4 DEF qs, t

LEMMA SettleTotals ==
    ASSUME NEW ps \in Seq(PositionEntries), NEW amount \in Nat
    PROVE  LET qs == SettlePositions(ps, amount)
               t == Least(amount, Total(ps, "deployed"))
           IN  /\ qs \in Seq(PositionEntries)
               /\ Total(qs, "reserved") = Total(ps, "reserved")
               /\ Total(qs, "deployed") = Total(ps, "deployed") - t
  <1> DEFINE qs == SettlePositions(ps, amount)
             t == Least(amount, Total(ps, "deployed"))
  <1>1. qs = Move(ps, "deployed", "available", amount)
    BY DEF SettlePositions
  <1>2. qs \in Seq(PositionEntries)
    BY <1>1, SettleSteady DEF Steady
  <1>3. /\ Total(qs, "reserved")
             = Shifted(SignOf("deployed", "available", "reserved"),
                       Total(ps, "reserved"), t)
        /\ Total(qs, "deployed")
             = Shifted(SignOf("deployed", "available", "deployed"),
                       Total(ps, "deployed"), t)
    BY <1>1, <1>2, MoveTotals DEF Balances
  <1> HIDE DEF qs, t
  <1>4. /\ qs \in Seq(PositionEntries)
        /\ Total(qs, "reserved") = Total(ps, "reserved")
        /\ Total(qs, "deployed") = Total(ps, "deployed") - t
    BY <1>2, <1>3 DEF Shifted, SignOf
  <1> QED
    BY <1>4 DEF qs, t

----------------------------------------------------------------------------
(***************************************************************************)
(* What the reservations account for: the positions have no more locked    *)
(* than the reservations that lock, and no more locked and lent out than   *)
(* all that are not released.  The second alone is not kept by a release   *)
(* of a reservation that is already deployed.                              *)
(***************************************************************************)
Locked == {"Reserved", "Failed"}
Unreleased == {"Reserved", "Failed", "Deployed"}
Part(x, S) == IF x.status \in S THEN x.amount ELSE 0
Owed(rs, S) == SumFunctionOnSet([i \in DOMAIN rs |-> Part(rs[i], S)], DOMAIN rs)

Backed(ps, rs) ==
    /\ Total(ps, "reserved") <= Owed(rs, Locked)
    /\ Total(ps, "reserved") + Total(ps, "deployed") <= Owed(rs, Unreleased)

LEMMA PartNat ==
    ASSUME NEW x \in ReservationEntries, NEW S PROVE Part(x, S) \in Nat
  BY DEF Part, ReservationEntries

LEMMA OwedNat ==
    ASSUME NEW rs \in Seq(ReservationEntries), NEW S PROVE Owed(rs, S) \in Nat
  <1> DEFINE f == [i \in DOMAIN rs |-> Part(rs[i], S)]
  <1>1. IsFiniteSet(DOMAIN rs) /\ \A i \in DOMAIN rs : f[i] \in Nat
    BY DomainSeq, PartNat
  <1> HIDE DEF f
  <1>2. SumFunctionOnSet(f, DOMAIN rs) \in Nat
    BY <1>1, SumNat
  <1> QED
    BY <1>2 DEF Owed, f

\* One reservation changed.
Marks == {"Reserved", "Deployed", "Released", "Failed"}
Marking(rs, i, status) == [rs EXCEPT ![i].status = status]

LEMMA MarkingIs ==
    ASSUME NEW rs \in Seq(ReservationEntries), NEW i \in DOMAIN rs,
           NEW status \in Marks
    PROVE  /\ Marking(rs, i, status) \in Seq(ReservationEntries)
           /\ DOMAIN Marking(rs, i, status) = DOMAIN rs
           /\ \A j \in DOMAIN rs :
                 /\ Marking(rs, i, status)[j].id = rs[j].id
                 /\ Marking(rs, i, status)[j].amount = rs[j].amount
                 /\ Marking(rs, i, status)[j].status
                       = IF j = i THEN status ELSE rs[j].status
  <1> DEFINE qs == Marking(rs, i, status)
             x == [rs[i] EXCEPT !.status = status]
  <1>1. rs[i] \in ReservationEntries
    BY DomainSeq
  <1>2. x \in ReservationEntries /\ x.id = rs[i].id /\ x.amount = rs[i].amount
        /\ x.status = status
    BY <1>1 DEF ReservationEntries, Marks
  <1>3. qs = [rs EXCEPT ![i] = x]
    BY DEF Marking
  <1> HIDE DEF x
  <1>4. /\ qs \in Seq(ReservationEntries) /\ DOMAIN qs = DOMAIN rs
        /\ \A j \in DOMAIN rs : qs[j] = IF j = i THEN x ELSE rs[j]
    BY <1>2, <1>3, UpdateSeq
  <1> QED
    BY <1>2, <1>4

LEMMA OwedMarking ==
    ASSUME NEW rs \in Seq(ReservationEntries), NEW i \in DOMAIN rs,
           NEW status \in Marks,
           NEW S
    PROVE  Owed(Marking(rs, i, status), S)
              = Owed(rs, S) - Part(rs[i], S)
                  + (IF status \in S THEN rs[i].amount ELSE 0)
  <1> DEFINE qs == Marking(rs, i, status)
             D == DOMAIN rs
             f == [j \in D |-> Part(rs[j], S)]
             g == [j \in D |-> Part(qs[j], S)]
  <1>1. /\ qs \in Seq(ReservationEntries) /\ DOMAIN qs = DOMAIN rs
        /\ \A j \in DOMAIN rs :
              /\ qs[j].id = rs[j].id /\ qs[j].amount = rs[j].amount
              /\ qs[j].status = IF j = i THEN status ELSE rs[j].status
    BY MarkingIs
  <1>2. \A j \in DOMAIN rs : rs[j] \in ReservationEntries
                             /\ qs[j] \in ReservationEntries
    BY <1>1, DomainSeq
  <1>3. IsFiniteSet(D)
    BY DomainSeq
  <1>4. \A j \in D : f[j] \in Int /\ g[j] \in Int
    BY <1>2, PartNat
  <1>5. \A j \in D \ {i} : g[j] = f[j]
    BY <1>1 DEF Part
  <1>6. f[i] = Part(rs[i], S)
        /\ g[i] = IF status \in S THEN rs[i].amount ELSE 0
    BY <1>1 DEF Part
  <1>7. Owed(rs, S) = SumFunctionOnSet(f, D)
        /\ Owed(qs, S) = SumFunctionOnSet(g, D)
    BY <1>1 DEF Owed
  <1>8. ASSUME NEW y, y = i
        PROVE  SumFunctionOnSet(g, D) = SumFunctionOnSet(f, D) - f[y] + g[y]
    <2>1. y \in D /\ \A j \in D \ {y} : g[j] = f[j]
      BY <1>5, <1>8
    <2> HIDE DEF f, g, D
    <2> QED
      BY <1>3, <1>4, <2>1, SumChange
  <1>9. SumFunctionOnSet(g, D) = SumFunctionOnSet(f, D) - f[i] + g[i]
    BY <1>8
  <1> HIDE DEF f, g, D, qs
  <1>10. Owed(qs, S) = Owed(rs, S) - Part(rs[i], S)
                          + (IF status \in S THEN rs[i].amount ELSE 0)
    BY <1>6, <1>7, <1>9
  <1> QED
    BY <1>10 DEF qs

LEMMA OwedAppended ==
    ASSUME NEW rs \in Seq(ReservationEntries), NEW x \in ReservationEntries, NEW S
    PROVE  Owed(Append(rs, x), S) = Owed(rs, S) + Part(x, S)
  <1> DEFINE qs == Append(rs, x)
             n == Len(rs) + 1
             D == DOMAIN rs
             f == [j \in D |-> Part(rs[j], S)]
             g == [j \in DOMAIN qs |-> Part(qs[j], S)]
  <1>1. /\ qs \in Seq(ReservationEntries) /\ DOMAIN qs = D \cup {n}
        /\ qs[n] = x /\ \A j \in D : qs[j] = rs[j]
    BY AppendSeq
  <1>2. IsFiniteSet(D) /\ n \notin D /\ \A j \in D : rs[j] \in ReservationEntries
    BY DomainSeq
  <1>3. /\ \A j \in D \cup {n} : g[j] \in Int
        /\ g[n] = Part(x, S) /\ \A j \in D : g[j] = f[j]
    BY <1>1, <1>2, PartNat
  <1>4. Owed(rs, S) = SumFunctionOnSet(f, D)
        /\ Owed(qs, S) = SumFunctionOnSet(g, D \cup {n})
    BY <1>1 DEF Owed
  <1>5. SumFunctionOnSet(f, D) \in Nat
    BY <1>4, OwedNat
  <1> HIDE DEF f, g, D, n, qs
  <1>6. SumFunctionOnSet(g, D \cup {n}) = g[n] + SumFunctionOnSet(g, D)
    BY <1>2, <1>3, SumAdd
  <1>7. SumFunctionOnSet(g, D) = SumFunctionOnSet(f, D)
    BY <1>2, <1>3, SumSame
  <1>8. Part(x, S) \in Nat
    BY PartNat
  <1>9. Owed(qs, S) = Owed(rs, S) + Part(x, S)
    BY <1>3, <1>4, <1>5, <1>6, <1>7, <1>8
  <1> QED
    BY <1>9 DEF qs

----------------------------------------------------------------------------
(***************************************************************************)
(* Each operation keeps the positions backed.                              *)
(***************************************************************************)
LEMMA BackedMarking ==
    ASSUME NEW ps \in Seq(PositionEntries), NEW rs \in Seq(ReservationEntries),
           Backed(ps, rs), NEW i \in DOMAIN rs,
           NEW status \in Marks,
           rs[i].status \in Locked => status \in Locked,
           rs[i].status \in Unreleased => status \in Unreleased
    PROVE  Backed(ps, Marking(rs, i, status))
  <1> DEFINE qs == Marking(rs, i, status)
             a == rs[i].amount
  <1>1. /\ Owed(qs, Locked) = Owed(rs, Locked) - Part(rs[i], Locked)
                                + (IF status \in Locked THEN a ELSE 0)
        /\ Owed(qs, Unreleased) = Owed(rs, Unreleased) - Part(rs[i], Unreleased)
                                + (IF status \in Unreleased THEN a ELSE 0)
    BY OwedMarking
  <1>2. a \in Nat
    <2>1. rs[i] \in ReservationEntries
      BY DomainSeq
    <2> QED
      BY <2>1 DEF ReservationEntries
  <1>3. Owed(rs, Locked) \in Nat /\ Owed(rs, Unreleased) \in Nat
        /\ Total(ps, "reserved") \in Nat /\ Total(ps, "deployed") \in Nat
    BY OwedNat, TotalsNat
  <1>4. /\ Part(rs[i], Locked) <= (IF status \in Locked THEN a ELSE 0)
        /\ Part(rs[i], Unreleased) <= (IF status \in Unreleased THEN a ELSE 0)
        /\ Part(rs[i], Locked) \in Nat /\ Part(rs[i], Unreleased) \in Nat
    BY <1>2 DEF Part
  <1>5. /\ Total(ps, "reserved") <= Owed(rs, Locked)
        /\ Total(ps, "reserved") + Total(ps, "deployed") <= Owed(rs, Unreleased)
    BY DEF Backed
  <1> HIDE DEF qs, a
  <1>6. Owed(qs, Locked) >= Owed(rs, Locked)
        /\ Owed(qs, Unreleased) >= Owed(rs, Unreleased)
        /\ Owed(qs, Locked) \in Int /\ Owed(qs, Unreleased) \in Int
    <2>1. /\ Owed(qs, Locked) >= Owed(rs, Locked)
          /\ Owed(qs, Locked) \in Int
      BY <1>1, <1>2, <1>3, <1>4
    <2>2. /\ Owed(qs, Unreleased) >= Owed(rs, Unreleased)
          /\ Owed(qs, Unreleased) \in Int
      BY <1>1, <1>2, <1>3, <1>4
    <2> QED
      BY <2>1, <2>2
  <1>7. Backed(ps, qs)
    BY <1>3, <1>5, <1>6 DEF Backed
  <1> QED
    BY <1>7 DEF qs

LEMMA BackedReserve ==
    ASSUME NEW ps \in Seq(PositionEntries), NEW rs \in Seq(ReservationEntries),
           Backed(ps, rs), NEW amount \in Nat \ {0}, NEW fee \in Nat,
           NEW x \in ReservationEntries, x.status = "Reserved", x.amount = amount
    PROVE  Backed(ReservePositions(ps, amount, fee), Append(rs, x))
  <1> DEFINE qs == ReservePositions(ps, amount, fee)
             R == Total(ps, "reserved")
             D == Total(ps, "deployed")
  <1>1. PICK t \in Nat : /\ t <= amount /\ Total(qs, "reserved") = R + t
                         /\ Total(qs, "deployed") = D
    <2>1. qs = ReservePositions(ps, amount, fee)
      OBVIOUS
    <2> HIDE DEF qs
    <2> QED
      BY <2>1, ReserveTotals
  <1>2. Part(x, Locked) = amount /\ Part(x, Unreleased) = amount
    BY DEF Part, Locked, Unreleased
  <1>3. /\ Owed(Append(rs, x), Locked) = Owed(rs, Locked) + amount
        /\ Owed(Append(rs, x), Unreleased) = Owed(rs, Unreleased) + amount
    BY <1>2, OwedAppended
  <1>4. Owed(rs, Locked) \in Nat /\ Owed(rs, Unreleased) \in Nat
        /\ R \in Nat /\ D \in Nat
    BY OwedNat, TotalsNat
  <1>5. R <= Owed(rs, Locked) /\ R + D <= Owed(rs, Unreleased)
    BY DEF Backed
  <1> HIDE DEF qs, R, D
  <1>6. Backed(qs, Append(rs, x))
    BY <1>1, <1>3, <1>4, <1>5 DEF Backed
  <1> QED
    BY <1>6 DEF qs

\* The amounts a reservation accounts for, by its status.
LEMMA PartIs ==
    ASSUME NEW x \in ReservationEntries
    PROVE  /\ x.amount \in Nat
           /\ x.status \in Locked =>
                 Part(x, Locked) = x.amount /\ Part(x, Unreleased) = x.amount
           /\ x.status = "Deployed" =>
                 Part(x, Locked) = 0 /\ Part(x, Unreleased) = x.amount
           /\ x.status = "Released" =>
                 Part(x, Locked) = 0 /\ Part(x, Unreleased) = 0
           /\ x.status \in Locked \cup {"Deployed", "Released"}
  BY DEF Part, Locked, Unreleased, ReservationEntries

LEMMA BackedDeploy ==
    ASSUME NEW ps \in Seq(PositionEntries), NEW rs \in Seq(ReservationEntries),
           Backed(ps, rs), NEW i \in DOMAIN rs, rs[i].status # "Deployed",
           NEW amount, amount = rs[i].amount
    PROVE  Backed(DeployPositions(ps, amount), Marking(rs, i, "Deployed"))
  <1> DEFINE ms == Marking(rs, i, "Deployed")
             qs == DeployPositions(ps, amount)
             R == Total(ps, "reserved")
             D == Total(ps, "deployed")
             t == Least(amount, R)
             L == Owed(rs, Locked)
             U == Owed(rs, Unreleased)
  <1>1. rs[i] \in ReservationEntries
    BY DomainSeq
  <1>2. amount \in Nat
    BY <1>1, PartIs
  <1>3. /\ Owed(ms, Locked) = L - Part(rs[i], Locked)
        /\ Owed(ms, Unreleased) = U - Part(rs[i], Unreleased) + amount
    <2>1. /\ "Deployed" \in Marks /\ "Deployed" \in Unreleased
          /\ "Deployed" \notin Locked
      BY DEF Marks, Locked, Unreleased
    <2>2. L \in Nat /\ Part(rs[i], Locked) \in Nat
      BY <1>1, OwedNat, PartNat
    <2>3. /\ Owed(ms, Locked) = L - Part(rs[i], Locked)
                + (IF "Deployed" \in Locked THEN rs[i].amount ELSE 0)
          /\ Owed(ms, Unreleased) = U - Part(rs[i], Unreleased)
                + (IF "Deployed" \in Unreleased THEN rs[i].amount ELSE 0)
      BY <2>1, OwedMarking
    <2> QED
      BY <2>1, <2>2, <2>3
  <1>4. Total(qs, "reserved") = R - t /\ Total(qs, "deployed") = D + t
    BY <1>2, DeployTotals
  <1>9. Owed(ms, Locked) \in Nat
    <2>1. ms \in Seq(ReservationEntries)
      BY MarkingIs DEF Marks
    <2> QED
      BY <2>1, OwedNat
  <1>5. L \in Nat /\ U \in Nat /\ R \in Nat /\ D \in Nat
    BY OwedNat, TotalsNat
  <1>6. R <= L /\ R + D <= U
    BY DEF Backed
  <1>7. t \in Nat /\ t <= R /\ (R >= amount => t = amount)
        /\ (R < amount => t = R)
    BY <1>2, <1>5, LeastIs
  <1>8. \/ Part(rs[i], Locked) = amount /\ Part(rs[i], Unreleased) = amount
        \/ Part(rs[i], Locked) = 0 /\ Part(rs[i], Unreleased) = 0
    BY <1>1, PartIs
  <1>10. Backed(qs, ms) <=> /\ Total(qs, "reserved") <= Owed(ms, Locked)
                            /\ Total(qs, "reserved") + Total(qs, "deployed")
                                 <= Owed(ms, Unreleased)
    BY DEF Backed
  <1> HIDE DEF qs, ms, R, D, L, U, t
  <1>11. R - t <= Owed(ms, Locked)
    <2>1. CASE Part(rs[i], Locked) = 0
      <3>1. Owed(ms, Locked) = L
        BY <1>3, <1>5, <2>1
      <3> QED
        BY <1>5, <1>6, <1>7, <3>1
    <2>2. CASE Part(rs[i], Locked) = amount
      <3>1. Owed(ms, Locked) = L - amount
        BY <1>3, <2>2
      <3>2. CASE R < amount
        <4>1. R - t = 0
          BY <1>5, <1>7, <3>2
        <4> QED
          BY <1>9, <4>1
      <3>3. CASE R >= amount
        BY <1>2, <1>5, <1>6, <1>7, <3>1, <3>3
      <3> QED
        BY <1>2, <1>5, <3>2, <3>3
    <2> QED
      BY <1>8, <2>1, <2>2
  <1>12. (R - t) + (D + t) <= Owed(ms, Unreleased)
    <2>1. Owed(ms, Unreleased) >= U
      BY <1>2, <1>3, <1>5, <1>8
    <2>2. Owed(ms, Unreleased) \in Int /\ (R - t) + (D + t) = R + D
      BY <1>2, <1>3, <1>5, <1>7, <1>8
    <2> QED
      BY <1>5, <1>6, <2>1, <2>2
  <1>13. Backed(qs, ms)
    BY <1>4, <1>10, <1>11, <1>12
  <1> QED
    BY <1>13 DEF qs, ms

LEMMA OwedMore ==
    ASSUME NEW rs \in Seq(ReservationEntries)
    PROVE  Owed(rs, Locked) <= Owed(rs, Unreleased)
  <1> DEFINE D == DOMAIN rs
             f == [j \in D |-> Part(rs[j], Locked)]
             g == [j \in D |-> Part(rs[j], Unreleased)]
  <1>1. \A j \in D : rs[j] \in ReservationEntries
    BY DomainSeq
  <1>2. \A j \in D : f[j] \in Int /\ g[j] \in Int /\ f[j] <= g[j]
    <2>1. ASSUME NEW j \in D PROVE f[j] \in Int /\ g[j] \in Int /\ f[j] <= g[j]
      <3>1. rs[j] \in ReservationEntries /\ f[j] = Part(rs[j], Locked)
            /\ g[j] = Part(rs[j], Unreleased)
        BY <1>1
      <3>2. Part(rs[j], Locked) <= Part(rs[j], Unreleased)
            /\ Part(rs[j], Locked) \in Nat /\ Part(rs[j], Unreleased) \in Nat
        BY <3>1, PartNat DEF Part, Locked, Unreleased, ReservationEntries
      <3> QED
        BY <3>1, <3>2
    <2> QED
      BY <2>1
  <1>3. IsFiniteSet(D)
    BY DomainSeq
  <1>4. Owed(rs, Locked) = SumFunctionOnSet(f, D)
        /\ Owed(rs, Unreleased) = SumFunctionOnSet(g, D)
    BY DEF Owed
  <1> HIDE DEF f, g, D
  <1> QED
    BY <1>2, <1>3, <1>4, SumLess

\* A channel that failed is reserved for again.
LEMMA BackedUndeploy ==
    ASSUME NEW ps \in Seq(PositionEntries), NEW rs \in Seq(ReservationEntries),
           Backed(ps, rs), NEW i \in DOMAIN rs, rs[i].status = "Deployed",
           NEW amount, amount = rs[i].amount
    PROVE  Backed(UndeployPositions(ps, amount), Marking(rs, i, "Reserved"))
  <1> DEFINE ms == Marking(rs, i, "Reserved")
             qs == UndeployPositions(ps, amount)
             R == Total(ps, "reserved")
             D == Total(ps, "deployed")
             t == Least(amount, D)
             L == Owed(rs, Locked)
             U == Owed(rs, Unreleased)
  <1>1. rs[i] \in ReservationEntries
    BY DomainSeq
  <1>2. amount \in Nat
    BY <1>1, PartIs
  <1>3. /\ "Reserved" \in Marks
        /\ Owed(ms, Locked) = L - Part(rs[i], Locked)
                + (IF "Reserved" \in Locked THEN rs[i].amount ELSE 0)
        /\ Owed(ms, Unreleased) = U - Part(rs[i], Unreleased)
                + (IF "Reserved" \in Unreleased THEN rs[i].amount ELSE 0)
    <2>1. "Reserved" \in Marks
      BY DEF Marks
    <2> QED
      BY <2>1, OwedMarking
  <1>4. Total(qs, "reserved") = R + t /\ Total(qs, "deployed") = D - t
    BY <1>2, UndeployTotals
  <1>5. ms \in Seq(ReservationEntries)
    BY <1>3, MarkingIs
  <1>6. /\ Owed(ms, Locked) \in Nat /\ Owed(ms, Unreleased) \in Nat
        /\ Owed(ms, Locked) <= Owed(ms, Unreleased)
    BY <1>5, OwedNat, OwedMore
  <1>7. L \in Nat /\ U \in Nat /\ R \in Nat /\ D \in Nat
    BY OwedNat, TotalsNat
  <1>8. R <= L /\ R + D <= U
    BY DEF Backed
  <1>9. t \in Nat /\ t <= D /\ (D >= amount => t = amount)
        /\ (D < amount => t = D)
    BY <1>2, <1>7, LeastIs
  <1>10. Part(rs[i], Locked) = 0 /\ Part(rs[i], Unreleased) = amount
    BY <1>1, PartIs DEF Locked
  <1>11. Backed(qs, ms) <=> /\ Total(qs, "reserved") <= Owed(ms, Locked)
                            /\ Total(qs, "reserved") + Total(qs, "deployed")
                                 <= Owed(ms, Unreleased)
    BY DEF Backed
  <1>12. /\ "Reserved" \in Locked
         /\ "Reserved" \in Unreleased
    BY DEF Locked, Unreleased
  <1> HIDE DEF qs, ms, R, D, L, U, t
  <1>13. Owed(ms, Locked) = L + amount /\ Owed(ms, Unreleased) = U
    <2>1. /\ Owed(ms, Locked) = L - Part(rs[i], Locked) + amount
          /\ Owed(ms, Unreleased) = U - Part(rs[i], Unreleased) + amount
      BY <1>2, <1>3, <1>7, <1>10, <1>12
    <2> QED
      BY <1>2, <1>7, <1>10, <2>1
  <1>14. Backed(qs, ms)
    <2>1. t <= amount
      BY <1>2, <1>7, <1>9
    <2>2. Total(qs, "reserved") <= Owed(ms, Locked)
      BY <1>2, <1>4, <1>7, <1>8, <1>9, <1>13, <2>1
    <2>3. Total(qs, "reserved") + Total(qs, "deployed") <= Owed(ms, Unreleased)
      BY <1>4, <1>7, <1>8, <1>9, <1>13
    <2> QED
      BY <1>11, <2>2, <2>3
  <1> QED
    BY <1>14 DEF qs, ms

\* A release that the positions cover.
LEMMA BackedRelease ==
    ASSUME NEW ps \in Seq(PositionEntries), NEW rs \in Seq(ReservationEntries),
           Backed(ps, rs), NEW i \in DOMAIN rs, 
           Covered(ps, "reserved", rs[i].amount),
           NEW amount, amount = rs[i].amount
    PROVE  Backed(ReleasePositions(ps, amount), Marking(rs, i, "Released"))
  <1> DEFINE ms == Marking(rs, i, "Released")
             qs == ReleasePositions(ps, amount)
             R == Total(ps, "reserved")
             D == Total(ps, "deployed")
             t == Least(amount, R)
             L == Owed(rs, Locked)
             U == Owed(rs, Unreleased)
  <1>0. R >= amount
    BY DEF Covered
  <1>1. rs[i] \in ReservationEntries
    BY DomainSeq
  <1>2. amount \in Nat
    BY <1>1, PartIs
  <1>3. /\ "Released" \in Marks
        /\ Owed(ms, Locked) = L - Part(rs[i], Locked)
                + (IF "Released" \in Locked THEN rs[i].amount ELSE 0)
        /\ Owed(ms, Unreleased) = U - Part(rs[i], Unreleased)
                + (IF "Released" \in Unreleased THEN rs[i].amount ELSE 0)
    <2>1. "Released" \in Marks
      BY DEF Marks
    <2> QED
      BY <2>1, OwedMarking
  <1>4. Total(qs, "reserved") = R - t /\ Total(qs, "deployed") = D
    BY <1>2, ReleaseTotals
  <1>5. ms \in Seq(ReservationEntries)
    BY <1>3, MarkingIs
  <1>6. /\ Owed(ms, Locked) \in Nat /\ Owed(ms, Unreleased) \in Nat
        /\ Owed(ms, Locked) <= Owed(ms, Unreleased)
    BY <1>5, OwedNat, OwedMore
  <1>7. L \in Nat /\ U \in Nat /\ R \in Nat /\ D \in Nat
    BY OwedNat, TotalsNat
  <1>8. R <= L /\ R + D <= U
    BY DEF Backed
  <1>9. t \in Nat /\ t <= R /\ (R >= amount => t = amount)
        /\ (R < amount => t = R)
    BY <1>2, <1>7, LeastIs
  <1>10. \/ Part(rs[i], Locked) = amount /\ Part(rs[i], Unreleased) = amount
         \/ Part(rs[i], Locked) = 0 /\ Part(rs[i], Unreleased) = amount
         \/ Part(rs[i], Locked) = 0 /\ Part(rs[i], Unreleased) = 0
    BY <1>1, PartIs DEF Locked
  <1>11. Backed(qs, ms) <=> /\ Total(qs, "reserved") <= Owed(ms, Locked)
                            /\ Total(qs, "reserved") + Total(qs, "deployed")
                                 <= Owed(ms, Unreleased)
    BY DEF Backed
  <1>12. /\ "Released" \notin Locked
         /\ "Released" \notin Unreleased
    BY DEF Locked, Unreleased
  <1> HIDE DEF qs, ms, R, D, L, U, t
  <1>13. /\ Owed(ms, Locked) = L - Part(rs[i], Locked)
         /\ Owed(ms, Unreleased) = U - Part(rs[i], Unreleased)
    BY <1>2, <1>3, <1>7, <1>10, <1>12
  <1>14. Backed(qs, ms)
    BY SMTT(30), <1>0, <1>2, <1>4, <1>6, <1>7, <1>8, <1>9, <1>10, <1>11, <1>13
  <1> QED
    BY <1>14 DEF qs, ms

\* A settlement, covered or not.
LEMMA BackedSettle ==
    ASSUME NEW ps \in Seq(PositionEntries), NEW rs \in Seq(ReservationEntries),
           Backed(ps, rs), NEW i \in DOMAIN rs, rs[i].status = "Deployed",
           NEW amount, amount = rs[i].amount
    PROVE  Backed(SettlePositions(ps, amount), Marking(rs, i, "Released"))
  <1> DEFINE ms == Marking(rs, i, "Released")
             qs == SettlePositions(ps, amount)
             R == Total(ps, "reserved")
             D == Total(ps, "deployed")
             t == Least(amount, D)
             L == Owed(rs, Locked)
             U == Owed(rs, Unreleased)
  <1>1. rs[i] \in ReservationEntries
    BY DomainSeq
  <1>2. amount \in Nat
    BY <1>1, PartIs
  <1>3. /\ "Released" \in Marks
        /\ Owed(ms, Locked) = L - Part(rs[i], Locked)
                + (IF "Released" \in Locked THEN rs[i].amount ELSE 0)
        /\ Owed(ms, Unreleased) = U - Part(rs[i], Unreleased)
                + (IF "Released" \in Unreleased THEN rs[i].amount ELSE 0)
    <2>1. "Released" \in Marks
      BY DEF Marks
    <2> QED
      BY <2>1, OwedMarking
  <1>4. Total(qs, "reserved") = R /\ Total(qs, "deployed") = D - t
    BY <1>2, SettleTotals
  <1>5. ms \in Seq(ReservationEntries)
    BY <1>3, MarkingIs
  <1>6. /\ Owed(ms, Locked) \in Nat /\ Owed(ms, Unreleased) \in Nat
        /\ Owed(ms, Locked) <= Owed(ms, Unreleased)
    BY <1>5, OwedNat, OwedMore
  <1>7. L \in Nat /\ U \in Nat /\ R \in Nat /\ D \in Nat
    BY OwedNat, TotalsNat
  <1>8. R <= L /\ R + D <= U
    BY DEF Backed
  <1>9. t \in Nat /\ t <= D /\ (D >= amount => t = amount)
        /\ (D < amount => t = D)
    BY <1>2, <1>7, LeastIs
  <1>10. Part(rs[i], Locked) = 0 /\ Part(rs[i], Unreleased) = amount
    BY <1>1, PartIs DEF Locked
  <1>11. Backed(qs, ms) <=> /\ Total(qs, "reserved") <= Owed(ms, Locked)
                            /\ Total(qs, "reserved") + Total(qs, "deployed")
                                 <= Owed(ms, Unreleased)
    BY DEF Backed
  <1>12. /\ "Released" \notin Locked
         /\ "Released" \notin Unreleased
    BY DEF Locked, Unreleased
  <1> HIDE DEF qs, ms, R, D, L, U, t
  <1>13. /\ Owed(ms, Locked) = L - Part(rs[i], Locked)
         /\ Owed(ms, Unreleased) = U - Part(rs[i], Unreleased)
    BY <1>2, <1>3, <1>7, <1>10, <1>12
  <1>14. Backed(qs, ms)
    BY SMTT(30), <1>2, <1>4, <1>6, <1>7, <1>8, <1>9, <1>10, <1>11, <1>13
  <1> QED
    BY <1>14 DEF qs, ms

\* A release that falls short takes what there is, and marks nothing.
LEMMA BackedReleaseShort ==
    ASSUME NEW ps \in Seq(PositionEntries), NEW rs \in Seq(ReservationEntries),
           Backed(ps, rs), NEW amount \in Nat
    PROVE  Backed(ReleasePositions(ps, amount), rs)
  <1> DEFINE qs == ReleasePositions(ps, amount)
             R == Total(ps, "reserved")
             D == Total(ps, "deployed")
             t == Least(amount, R)
  <1>1. Total(qs, "reserved") = R - t /\ Total(qs, "deployed") = D
    BY ReleaseTotals
  <1>2. R \in Nat /\ D \in Nat
        /\ Owed(rs, Locked) \in Nat /\ Owed(rs, Unreleased) \in Nat
    BY TotalsNat, OwedNat
  <1>3. R <= Owed(rs, Locked) /\ R + D <= Owed(rs, Unreleased)
    BY DEF Backed
  <1>4. t \in Nat /\ t <= R
    BY <1>2, LeastIs
  <1> HIDE DEF qs, R, D, t
  <1>5. Backed(qs, rs)
    BY <1>1, <1>2, <1>3, <1>4 DEF Backed
  <1> QED
    BY <1>5 DEF qs

\* So does a settlement that falls short.
LEMMA BackedSettleShort ==
    ASSUME NEW ps \in Seq(PositionEntries), NEW rs \in Seq(ReservationEntries),
           Backed(ps, rs), NEW amount \in Nat
    PROVE  Backed(SettlePositions(ps, amount), rs)
  <1> DEFINE qs == SettlePositions(ps, amount)
             R == Total(ps, "reserved")
             D == Total(ps, "deployed")
             t == Least(amount, D)
  <1>1. Total(qs, "reserved") = R /\ Total(qs, "deployed") = D - t
    BY SettleTotals
  <1>2. R \in Nat /\ D \in Nat
        /\ Owed(rs, Locked) \in Nat /\ Owed(rs, Unreleased) \in Nat
    BY TotalsNat, OwedNat
  <1>3. R <= Owed(rs, Locked) /\ R + D <= Owed(rs, Unreleased)
    BY DEF Backed
  <1>4. t \in Nat /\ t <= D
    BY <1>2, LeastIs
  <1> HIDE DEF qs, R, D, t
  <1>5. Backed(qs, rs)
    BY <1>1, <1>2, <1>3, <1>4 DEF Backed
  <1> QED
    BY <1>5 DEF qs

----------------------------------------------------------------------------
(***************************************************************************)
(* The ledger at rest: every request has its reservation at its own place, *)
(* the service knows no vault, and with one entry for each request the     *)
(* positions are backed and the reservations of S are deployed.            *)
(***************************************************************************)
Aligned(l) ==
    /\ DOMAIN l.reservations = DOMAIN l.requests
    /\ \A i \in DOMAIN l.requests :
          /\ l.reservations[i].id = l.requests[i].id
          /\ l.reservations[i].amount = l.requests[i].amount
One(l) ==
    \A i, j \in DOMAIN l.requests :
        i # j => l.requests[i].id # l.requests[j].id
Deployed(l, S) ==
    \A i \in S : i \in DOMAIN l.reservations
                 /\ l.reservations[i].status = "Deployed"
Rest(l, S) ==
    /\ l \in Ledgers /\ Aligned(l) /\ l.live = None
    /\ One(l) => Backed(l.positions, l.reservations) /\ Deployed(l, S)
OpenIn(l) == {i \in DOMAIN l.requests : l.requests[i].status = "ChannelOpen"}
StandsAlone(l) == One(l) => Rest(l, OpenIn(l))

\* The requests are the same, up to what does not count here.
SameTerms(l, m) ==
    /\ DOMAIN m.requests = DOMAIN l.requests
    /\ \A i \in DOMAIN l.requests : /\ m.requests[i].id = l.requests[i].id
                                    /\ m.requests[i].amount = l.requests[i].amount

LEMMA RestLess ==
    ASSUME NEW l, NEW S, Rest(l, S), NEW T, T \subseteq S PROVE Rest(l, T)
  BY DEF Rest, Deployed

LEMMA RestSame ==
    ASSUME NEW l, NEW S, Rest(l, S), NEW m \in Ledgers, SameTerms(l, m),
           m.positions = l.positions, m.reservations = l.reservations,
           m.live = l.live
    PROVE  Rest(m, S)
  <1>1. Aligned(l) => Aligned(m)
    BY DEF Aligned, SameTerms
  <1>2. One(m) => One(l)
    BY DEF One, SameTerms
  <1>3. Deployed(l, S) => Deployed(m, S)
    BY DEF Deployed
  <1> QED
    BY <1>1, <1>2, <1>3 DEF Rest

\* The entry of a request has the same place in both lists.
LEMMA PlaceIs ==
    ASSUME NEW l, NEW S, Rest(l, S), NEW r, Knows(l, r)
    PROVE  /\ Indices(l.reservations, r) = Indices(l.requests, r)
           /\ Indices(l.reservations, r) # {}
           /\ First(l.reservations, r) = First(l.requests, r)
           /\ First(l.requests, r) \in DOMAIN l.requests
           /\ First(l.requests, r) \in DOMAIN l.reservations
           /\ Entry(l, r) = l.requests[First(l.requests, r)]
           /\ Entry(l, r).id = r /\ Entry(l, r).amount \in Nat
           /\ l.reservations[First(l.requests, r)].amount = Entry(l, r).amount
           /\ \A i \in DOMAIN l.requests :
                 One(l) /\ l.requests[i].id = r => First(l.requests, r) = i
  <1>1. l \in Ledgers /\ Aligned(l)
    BY DEF Rest
  <1>2. /\ First(l.requests, r) \in DOMAIN l.requests
        /\ Entry(l, r).id = r /\ Entry(l, r).amount \in Nat
        /\ Entry(l, r) = l.requests[First(l.requests, r)]
    BY <1>1, EntryIs
  <1>3. Indices(l.reservations, r) = Indices(l.requests, r)
    BY <1>1 DEF Aligned, Indices
  <1>4. Indices(l.reservations, r) # {}
    BY <1>3 DEF Knows, Indices
  <1>5. First(l.reservations, r) = First(l.requests, r)
    BY <1>3 DEF First
  <1>6. l.reservations[First(l.requests, r)].amount = Entry(l, r).amount
        /\ First(l.requests, r) \in DOMAIN l.reservations
    BY <1>1, <1>2 DEF Aligned
  <1>7. \A i \in DOMAIN l.requests :
           One(l) /\ l.requests[i].id = r => First(l.requests, r) = i
    BY <1>2 DEF One
  <1> QED
    BY <1>2, <1>3, <1>4, <1>5, <1>6, <1>7

\* New positions, and a reservation marked.
Put(l, ps, rs) == [l EXCEPT !.positions = ps, !.reservations = rs]

LEMMA PutIs ==
    ASSUME NEW l \in Ledgers, NEW ps \in Seq(PositionEntries),
           NEW rs \in Seq(ReservationEntries)
    PROVE  /\ Put(l, ps, rs) \in Ledgers /\ Put(l, ps, rs).positions = ps
           /\ Put(l, ps, rs).reservations = rs /\ Put(l, ps, rs).live = l.live
           /\ Put(l, ps, rs).requests = l.requests
  BY DEF Put, Ledgers

LEMMA RestMarked ==
    ASSUME NEW l, NEW S, Rest(l, S), NEW i \in DOMAIN l.reservations,
           NEW status \in Marks, NEW ps \in Seq(PositionEntries),
           One(l) => Backed(ps, Marking(l.reservations, i, status)),
           NEW T, One(l) => /\ T \subseteq S \cup {i}
                            /\ i \in T => status = "Deployed"
    PROVE  Rest(Put(l, ps, Marking(l.reservations, i, status)), T)
  <1> DEFINE rs == l.reservations
             qs == Marking(rs, i, status)
             m == Put(l, ps, qs)
  <1>1. l \in Ledgers /\ Aligned(l) /\ l.live = None
        /\ (One(l) => Deployed(l, S))
    BY DEF Rest
  <1>2. rs \in Seq(ReservationEntries)
    BY <1>1, LedgerHas
  <1>3. /\ qs \in Seq(ReservationEntries) /\ DOMAIN qs = DOMAIN rs
        /\ \A j \in DOMAIN rs :
              /\ qs[j].id = rs[j].id /\ qs[j].amount = rs[j].amount
              /\ qs[j].status = IF j = i THEN status ELSE rs[j].status
    BY <1>2, MarkingIs
  <1>4. /\ m \in Ledgers /\ m.positions = ps /\ m.reservations = qs
        /\ m.live = None /\ m.requests = l.requests
    BY <1>1, <1>3, PutIs
  <1>5. One(l) => Backed(ps, qs)
    OBVIOUS
  <1>6. i \in DOMAIN rs /\ rs = l.reservations
    OBVIOUS
  <1> HIDE DEF rs, qs, m
  <1>7. Aligned(m)
    BY <1>1, <1>3, <1>4, <1>6 DEF Aligned
  <1>8. One(m) <=> One(l)
    BY <1>4 DEF One
  <1>9. One(l) => Deployed(m, T)
    BY <1>1, <1>3, <1>4, <1>6 DEF Deployed
  <1>10. Rest(m, T)
    BY <1>4, <1>5, <1>7, <1>8, <1>9 DEF Rest
  <1> QED
    BY <1>10 DEF m, qs, rs

\* New positions only.
Placing(l, ps) == [l EXCEPT !.positions = ps]

LEMMA RestPlaced ==
    ASSUME NEW l, NEW S, Rest(l, S), NEW ps \in Seq(PositionEntries),
           One(l) => Backed(ps, l.reservations)
    PROVE  Rest(Placing(l, ps), S)
  <1> DEFINE m == Placing(l, ps)
  <1>1. l \in Ledgers /\ Aligned(l) /\ l.live = None
        /\ (One(l) => Deployed(l, S))
    BY DEF Rest
  <1>2. /\ m \in Ledgers /\ m.positions = ps /\ m.live = l.live
        /\ m.reservations = l.reservations /\ m.requests = l.requests
    BY <1>1 DEF Ledgers, Placing
  <1> HIDE DEF m
  <1>3. Aligned(m) /\ (One(m) <=> One(l)) /\ (One(l) => Deployed(m, S))
    BY <1>1, <1>2 DEF Aligned, One, Deployed
  <1>4. Rest(m, S)
    BY <1>1, <1>2, <1>3 DEF Rest
  <1> QED
    BY <1>4 DEF m

LEMMA SetIsPut ==
    ASSUME NEW l, NEW S, Rest(l, S), NEW r, Knows(l, r), NEW status,
           NEW ps
    PROVE  LET i == First(l.requests, r)
               rs == Marking(l.reservations, i, status)
           IN  /\ SetReservation(l, r, status) = Put(l, l.positions, rs)
               /\ SetReservation(Placing(l, ps), r, status) = Put(l, ps, rs)
  <1> DEFINE i == First(l.requests, r)
             rs == Marking(l.reservations, i, status)
             k == Placing(l, ps)
  <1>1. l \in Ledgers
    BY DEF Rest
  <1>2. Indices(l.reservations, r) # {} /\ First(l.reservations, r) = i
    BY PlaceIs
  <1>3. k.reservations = l.reservations
    BY <1>1 DEF Placing, Ledgers
  <1>4. SetReservation(l, r, status) = [l EXCEPT !.reservations = rs]
    BY <1>1, <1>2 DEF SetReservation, Marking, Ledgers
  <1>5. SetReservation(k, r, status) = [k EXCEPT !.reservations = rs]
    <2> HIDE DEF k, i
    <2>1. SetReservation(k, r, status)
             = [k EXCEPT !.reservations[First(k.reservations, r)].status = status]
      BY <1>2, <1>3 DEF SetReservation
    <2> QED
      BY <1>2, <1>3, <2>1 DEF Marking
  <1>6. [l EXCEPT !.reservations = rs] = Put(l, l.positions, rs)
    BY <1>1 DEF Put, Ledgers
  <1>7. [k EXCEPT !.reservations = rs] = Put(l, ps, rs)
    BY <1>1 DEF Put, Placing, Ledgers
  <1> QED
    BY <1>4, <1>5, <1>6, <1>7

----------------------------------------------------------------------------
(***************************************************************************)
(* What happens to one request leaves the ledger at rest.                  *)
(***************************************************************************)
\* The reservations known to be deployed, once request i has this status.
Then(status, S, i) ==
    IF status = "ChannelOpen" THEN S \cup {i}
    ELSE IF status = "Failed" THEN S \ {i} ELSE S

\* What a reservation's status is, when it is one of S.
LEMMA StatusIn ==
    ASSUME NEW l, NEW S, Rest(l, S), NEW i \in DOMAIN l.reservations
    PROVE  /\ l.reservations \in Seq(ReservationEntries)
           /\ l.positions \in Seq(PositionEntries) /\ l \in Ledgers
           /\ l.reservations[i].status \in Marks
           /\ l.reservations[i].amount \in Nat
           /\ One(l) => Backed(l.positions, l.reservations)
           /\ One(l) /\ i \in S => l.reservations[i].status = "Deployed"
  <1>1. l \in Ledgers /\ (One(l) => Backed(l.positions, l.reservations)
                                    /\ Deployed(l, S))
    BY DEF Rest
  <1>2. l.reservations \in Seq(ReservationEntries)
        /\ l.positions \in Seq(PositionEntries)
    BY <1>1, LedgerHas
  <1>3. l.reservations[i] \in ReservationEntries
    BY <1>2, DomainSeq
  <1>4. l.reservations[i].status \in Marks /\ l.reservations[i].amount \in Nat
    BY <1>3 DEF ReservationEntries, Marks
  <1> QED
    BY <1>1, <1>2, <1>4 DEF Deployed

LEMMA UpdateRest ==
    ASSUME NEW l, NEW S, Rest(l, S), NEW r, Knows(l, r),
           Entry(l, r).status \notin {"Expired", "Released", "Settled"}
    PROVE  Rest(UpdateReservation(l, r),
                Then(Entry(l, r).status, S, First(l.requests, r)))
  <1> DEFINE i == First(l.requests, r)
             e == Entry(l, r)
             was == l.reservations[i].status
             ps == l.positions
             rs == l.reservations
             m == UpdateReservation(l, r)
  <1>1. /\ Indices(rs, r) # {} /\ First(rs, r) = i
        /\ i \in DOMAIN rs /\ rs[i].amount = e.amount /\ e.amount \in Nat
    BY PlaceIs
  <1>2. /\ rs \in Seq(ReservationEntries) /\ ps \in Seq(PositionEntries)
        /\ l \in Ledgers /\ was \in Marks
        /\ One(l) => Backed(ps, rs)
        /\ One(l) /\ i \in S => was = "Deployed"
    BY <1>1, StatusIn
  <1>3. CASE e.status \in InFlight
    <2>1. m = IF was = "Failed" THEN SetReservation(l, r, "Reserved") ELSE l
      BY <1>1, <1>3 DEF UpdateReservation, InFlight
    <2>2. Then(e.status, S, i) = S
      BY <1>3 DEF Then, InFlight
    <2>3. CASE was # "Failed"
      BY <2>1, <2>2, <2>3
    <2>4. CASE was = "Failed"
      <3>1. m = Put(l, ps, Marking(rs, i, "Reserved"))
        BY <2>1, <2>4, SetIsPut
      <3>2. /\ "Reserved" \in Marks /\ "Reserved" \in Locked
            /\ "Reserved" \in Unreleased
        BY DEF Marks, Locked, Unreleased
      <3>3. One(l) => Backed(ps, Marking(rs, i, "Reserved"))
        <4> HIDE DEF ps, rs, i
        <4> QED
          BY <1>1, <1>2, <3>2, BackedMarking
      <3>4. One(l) => /\ S \subseteq S \cup {i}
                      /\ i \in S => "Reserved" = "Deployed"
        BY <1>2, <2>4
      <3> HIDE DEF ps, i, m
      <3>5. Rest(m, S)
        BY <1>1, <1>2, <3>1, <3>2, <3>3, <3>4, RestMarked
      <3> QED
        BY <2>2, <3>5 DEF m, i
    <2> QED
      BY <2>3, <2>4
  <1>4. CASE e.status = "ChannelOpen"
    <2>1. m = SetReservation(
                 IF was = "Deployed" THEN l
                 ELSE Placing(l, DeployPositions(ps, e.amount)), r, "Deployed")
      BY <1>1, <1>4 DEF UpdateReservation, Placing, InFlight
    <2>2. Then(e.status, S, i) = S \cup {i}
      BY <1>4 DEF Then
    <2>3. "Deployed" \in Marks /\ "Deployed" \in Unreleased
          /\ "Deployed" \notin Locked
      BY DEF Marks, Locked, Unreleased
    <2>4. CASE was = "Deployed"
      <3>1. m = Put(l, ps, Marking(rs, i, "Deployed"))
        BY <2>1, <2>4, SetIsPut
      <3>2. One(l) => Backed(ps, Marking(rs, i, "Deployed"))
        <4> HIDE DEF ps, rs, i
        <4> QED
          BY <1>1, <1>2, <2>3, <2>4, BackedMarking DEF rs, i
      <3>3. One(l) => /\ S \cup {i} \subseteq S \cup {i}
                      /\ i \in S \cup {i} => "Deployed" = "Deployed"
        OBVIOUS
      <3> HIDE DEF ps, i, m
      <3>4. Rest(m, S \cup {i})
        BY <1>1, <1>2, <2>3, <3>1, <3>2, <3>3, RestMarked
      <3> QED
        BY <2>2, <3>4 DEF m, i
    <2>5. CASE was # "Deployed"
      <3> DEFINE qs == DeployPositions(ps, e.amount)
      <3>1. m = Put(l, qs, Marking(rs, i, "Deployed"))
        BY <2>1, <2>5, SetIsPut
      <3>2. One(l) => Backed(qs, Marking(rs, i, "Deployed"))
        <4>1. rs[i].status # "Deployed"
          BY <2>5
        <4> HIDE DEF ps, rs, i, e
        <4> QED
          BY <1>1, <1>2, <4>1, BackedDeploy
      <3>3. qs \in Seq(PositionEntries)
        BY <1>1, <1>2, DeployTotals
      <3> DEFINE T == S \cup {i}
      <3>4. One(l) => /\ T \subseteq S \cup {i}
                      /\ i \in T => "Deployed" = "Deployed"
        OBVIOUS
      <3>5. i \in DOMAIN l.reservations /\ "Deployed" \in Marks
        BY <1>1, <2>3
      <3>6. Rest(Put(l, qs, Marking(l.reservations, i, "Deployed")), T)
        <4> DEFINE d == "Deployed"
        <4>1. One(l) => Backed(qs, Marking(l.reservations, i, d))
          BY <3>2
        <4>2. One(l) => /\ T \subseteq S \cup {i}
                        /\ i \in T => d = "Deployed"
          BY <3>4
        <4>3. d \in Marks
          BY <3>5
        <4> HIDE DEF ps, i, m, qs, T, rs, e, was, d
        <4>4. Rest(Put(l, qs, Marking(l.reservations, i, d)), T)
          BY <3>3, <3>5, <4>1, <4>2, <4>3, RestMarked, ZenonT(30)
        <4> QED
          BY <4>4 DEF d
      <3> HIDE DEF ps, i, m, qs, T
      <3>7. Rest(m, T)
        BY <3>1, <3>6
      <3> QED
        BY <2>2, <3>7 DEF m, i, T
    <2> QED
      BY <2>4, <2>5
  <1>5. CASE e.status = "Failed"
    <2>1. m = IF was = "Deployed"
              THEN SetReservation(Placing(l, UndeployPositions(ps, e.amount)),
                                  r, "Reserved")
              ELSE IF was = "Released" THEN SetReservation(l, r, "Failed")
              ELSE l
      BY <1>1, <1>5 DEF UpdateReservation, Placing, InFlight
    <2>2. Then(e.status, S, i) = S \ {i} /\ S \ {i} \subseteq S \cup {i}
          /\ S \ {i} \subseteq S
      BY <1>5 DEF Then
    <2>3. /\ "Failed" \in Marks /\ "Failed" \in Unreleased /\ "Failed" \in Locked
          /\ "Reserved" \in Marks
      BY DEF Marks, Locked, Unreleased
    <2>4. CASE was = "Deployed"
      <3> DEFINE qs == UndeployPositions(ps, e.amount)
      <3>1. m = Put(l, qs, Marking(rs, i, "Reserved"))
        BY <2>1, <2>4, SetIsPut
      <3>2. One(l) => Backed(qs, Marking(rs, i, "Reserved"))
        <4>1. rs[i].status = "Deployed"
          BY <2>4
        <4> HIDE DEF ps, rs, i, e
        <4> QED
          BY <1>1, <1>2, <4>1, BackedUndeploy
      <3>3. qs \in Seq(PositionEntries)
        BY <1>1, <1>2, UndeployTotals
      <3>4. One(l) => /\ S \ {i} \subseteq S \cup {i}
                      /\ i \in S \ {i} => "Reserved" = "Deployed"
        OBVIOUS
      <3> HIDE DEF ps, i, m, qs
      <3>5. Rest(m, S \ {i})
        BY <1>1, <2>3, <3>1, <3>2, <3>3, <3>4, RestMarked
      <3> QED
        BY <2>2, <3>5 DEF m, i
    <2>5. CASE was = "Released"
      <3>1. m = Put(l, ps, Marking(rs, i, "Failed"))
        BY <2>1, <2>5, SetIsPut
      <3>2. One(l) => Backed(ps, Marking(rs, i, "Failed"))
        <4> HIDE DEF ps, rs, i
        <4> QED
          BY <1>1, <1>2, <2>3, BackedMarking
      <3>3. One(l) => /\ S \ {i} \subseteq S \cup {i}
                      /\ i \in S \ {i} => "Failed" = "Deployed"
        OBVIOUS
      <3> HIDE DEF ps, i, m
      <3>4. Rest(m, S \ {i})
        BY <1>1, <1>2, <2>3, <3>1, <3>2, <3>3, RestMarked
      <3> QED
        BY <2>2, <3>4 DEF m, i
    <2>6. CASE was \notin {"Deployed", "Released"}
      BY <2>1, <2>2, <2>6, RestLess
    <2> QED
      BY <2>4, <2>5, <2>6
  <1>6. CASE e.status \notin InFlight \cup {"ChannelOpen", "Failed"}
    <2>1. m = l
      BY <1>1, <1>6 DEF UpdateReservation
    <2>2. Then(e.status, S, i) = S
      BY <1>6 DEF Then
    <2> QED
      BY <2>1, <2>2
  <1> QED
    BY <1>3, <1>4, <1>5, <1>6

----------------------------------------------------------------------------
(***************************************************************************)
(* Jobs and funding intents are kept aside.                                *)
(***************************************************************************)
Aside(l, m) ==
    /\ m.positions = l.positions /\ m.reservations = l.reservations
    /\ m.requests = l.requests /\ m.live = l.live

LEMMA AsideTwice ==
    ASSUME NEW l, NEW m, NEW n, Aside(l, m), Aside(m, n) PROVE Aside(l, n)
  BY DEF Aside

LEMMA AsideRest ==
    ASSUME NEW l, NEW S, Rest(l, S), NEW m \in Ledgers, Aside(l, m)
    PROVE  Rest(m, S)
  BY RestSame DEF Aside, SameTerms

LEMMA JobsAside ==
    ASSUME NEW l \in Ledgers, NEW r, NEW status, NEW error
    PROVE  /\ Aside(l, SetJob(l, r, status, error))
           /\ Aside(l, SetJobStatus(l, r, status))
           /\ Aside(l, EnsureJob(l, r))
           /\ Aside(l, MarkJob(l, r, status, error))
  <1>1. Aside(l, l)
    BY DEF Aside
  <1>2. ASSUME NEW js PROVE Aside(l, [l EXCEPT !.jobs = js])
    BY DEF Aside, Ledgers
  <1>3. Aside(l, SetJob(l, r, status, error))
    BY <1>1, <1>2 DEF SetJob
  <1>4. Aside(l, SetJobStatus(l, r, status))
    BY <1>1, <1>2 DEF SetJobStatus
  <1>5. Aside(l, EnsureJob(l, r))
    BY <1>1, <1>2 DEF EnsureJob
  <1>6. Aside(l, MarkJob(l, r, status, error))
    BY <1>1, <1>2 DEF MarkJob
  <1> QED
    BY <1>3, <1>4, <1>5, <1>6

LEMMA FundingsAside ==
    ASSUME NEW l \in Ledgers, NEW fs PROVE Aside(l, [l EXCEPT !.funding = fs])
  BY DEF Aside, Ledgers

LEMMA FundingAside ==
    ASSUME NEW l \in Ledgers, NEW r, NEW e
    PROVE  Aside(l, ActiveIntent(l, e)) /\ Aside(l, FundingAfter(l, r))
  <1>1. Aside(l, l)
    BY DEF Aside
  <1>2. Aside(l, ActiveIntent(l, e))
    BY <1>1, FundingsAside DEF ActiveIntent
  <1>3. Aside(l, FundingAfter(l, r))
    BY <1>1, FundingsAside DEF FundingAfter
  <1> QED
    BY <1>2, <1>3

----------------------------------------------------------------------------
(***************************************************************************)
(* What the watcher does to one request.                                   *)
(***************************************************************************)
\* The deployed CKB of a channel that is closed goes back to the providers.
LEMMA SettleMarkRest ==
    ASSUME NEW l, NEW S, Rest(l, S), NEW r, Knows(l, r),
           NEW amount, amount = Entry(l, r).amount,
           One(l) => First(l.requests, r) \in S
    PROVE  Rest(SetReservation(Placing(l, SettlePositions(l.positions, amount)),
                               r, "Released"),
                S \ {First(l.requests, r)})
  <1> DEFINE i == First(l.requests, r)
             ps == l.positions
             rs == l.reservations
             qs == SettlePositions(ps, amount)
             T == S \ {i}
             m == Put(l, qs, Marking(rs, i, "Released"))
  <1>1. i \in DOMAIN rs /\ rs[i].amount = amount /\ amount \in Nat
    BY PlaceIs
  <1>2. /\ rs \in Seq(ReservationEntries) /\ ps \in Seq(PositionEntries)
        /\ l \in Ledgers
        /\ One(l) => Backed(ps, rs)
        /\ One(l) => rs[i].status = "Deployed"
    BY <1>1, StatusIn
  <1>3. SetReservation(Placing(l, qs), r, "Released") = m
    BY SetIsPut
  <1>4. One(l) => Backed(qs, Marking(rs, i, "Released"))
    <2> HIDE DEF i, ps, rs
    <2> QED
      BY <1>1, <1>2, BackedSettle
  <1>5. qs \in Seq(PositionEntries)
    BY <1>1, <1>2, SettleTotals
  <1>6. "Released" \in Marks
    BY DEF Marks
  <1>7. One(l) => T \subseteq S \cup {i} /\ (i \in T => "Released" = "Deployed")
    OBVIOUS
  <1>8. Rest(m, T)
    <2> HIDE DEF ps, i, qs, T
    <2> QED
      BY <1>1, <1>4, <1>5, <1>6, <1>7, RestMarked
  <1> HIDE DEF m
  <1> QED
    BY <1>3, <1>8

LEMMA SettledRest ==
    ASSUME NEW l, NEW S, Rest(l, S), NEW r, Knows(l, r),
           NEW e \in RequestEntries, e.id = r, e.amount = Entry(l, r).amount,
           One(l) => First(l.requests, r) \in S
    PROVE  Rest(Settled(l, e), S \ {First(l.requests, r)})
  <1> DEFINE T == S \ {First(l.requests, r)}
             m == SetReservation(Placing(l, SettlePositions(l.positions, e.amount)),
                                 r, "Released")
  <1>1. Rest(m, T)
    BY SettleMarkRest
  <1>2. Settled(l, e) = SetJob(m, r, "ChannelSettled", "none")
    BY DEF Settled, Placing
  <1> HIDE DEF m, T
  <1>3. l \in Ledgers /\ m \in Ledgers
    BY <1>1 DEF Rest
  <1>4. Settled(l, e) \in Ledgers
    BY <1>3, SettledMoves DEF Moves, Follows
  <1>5. Rest(Settled(l, e), T)
    BY <1>1, <1>2, <1>3, <1>4, JobsAside, AsideRest
  <1> QED
    BY <1>5 DEF T

LEMMA OpenedRest ==
    ASSUME NEW l, NEW S, Rest(l, S), NEW r, Knows(l, r),
           NEW e \in RequestEntries, e.id = r,
           Entry(l, r).status = "ChannelOpen"
    PROVE  Rest(Opened(l, e), S \cup {First(l.requests, r)})
  <1> DEFINE T == S \cup {First(l.requests, r)}
             m == UpdateReservation(l, r)
             n == SetJob(m, r, "ChannelActive", "none")
  <1>1. /\ Then(Entry(l, r).status, S, First(l.requests, r)) = T
        /\ Entry(l, r).status \notin {"Expired", "Released", "Settled"}
    BY DEF Then
  <1>2. Rest(m, T)
    <2>1. Rest(m, Then(Entry(l, r).status, S, First(l.requests, r)))
      BY <1>1, UpdateRest
    <2> HIDE DEF m, T
    <2> QED
      BY <1>1, <2>1
  <1>3. l \in Ledgers /\ m \in Ledgers /\ r \in Requests
    BY <1>2, EntryIs DEF Rest
  <1> HIDE DEF T, m
  <1>4. Aside(m, n) /\ n \in Ledgers
    <2>1. "ChannelActive" \in JobStatuses /\ "none" \in JobErrors
      BY DEF JobStatuses, JobErrors
    <2> QED
      BY <1>3, <2>1, JobsAside, SetJobFollows DEF Follows
  <1> HIDE DEF n
  <1>5. Aside(n, ActiveIntent(n, e)) /\ Opened(l, e) = ActiveIntent(n, e)
    BY <1>4, FundingAside DEF Opened, n, m
  <1>6. Opened(l, e) \in Ledgers
    BY <1>3, OpenedMoves DEF Moves, Follows
  <1>7. Rest(n, T)
    BY <1>2, <1>4, AsideRest
  <1>8. Rest(Opened(l, e), T)
    BY <1>5, <1>6, <1>7, AsideRest
  <1> QED
    BY <1>8 DEF T

LEMMA FailedRest ==
    ASSUME NEW l, NEW S, Rest(l, S), NEW r, Knows(l, r),
           NEW e \in RequestEntries, e.id = r, NEW error \in JobErrors,
           Entry(l, r).status = "Failed"
    PROVE  Rest(Failed(l, e, error), S \ {First(l.requests, r)})
  <1> DEFINE T == S \ {First(l.requests, r)}
             m == UpdateReservation(l, r)
             n == SetJob(m, r, "RetryableFailed", error)
             k == Failed(l, e, error)
  <1>1. /\ Then(Entry(l, r).status, S, First(l.requests, r)) = T
        /\ Entry(l, r).status \notin {"Expired", "Released", "Settled"}
    BY DEF Then
  <1>2. Rest(m, T)
    <2>1. Rest(m, Then(Entry(l, r).status, S, First(l.requests, r)))
      BY <1>1, UpdateRest
    <2> HIDE DEF m, T
    <2> QED
      BY <1>1, <2>1
  <1>3. l \in Ledgers /\ m \in Ledgers /\ r \in Requests
    BY <1>2, EntryIs DEF Rest
  <1> HIDE DEF T, m
  <1>4. Aside(m, n) /\ n \in Ledgers
    <2>1. "RetryableFailed" \in JobStatuses
      BY DEF JobStatuses
    <2> QED
      BY <1>3, <2>1, JobsAside, SetJobFollows DEF Follows
  <1> HIDE DEF n
  <1>5. k = n \/ k = [n EXCEPT !.funding[r].status = "Failed"]
    BY DEF Failed, n, m
  <1>6. k \in Ledgers
    BY <1>3, FailedMoves DEF Moves, Follows
  <1> HIDE DEF k
  <1>7. Rest(n, T)
    BY <1>2, <1>4, AsideRest
  <1>8. Aside(n, n)
    BY DEF Aside
  <1>9. Aside(n, k)
    <2>1. CASE k = n
      BY <1>8, <2>1
    <2>2. CASE k = [n EXCEPT !.funding[r].status = "Failed"]
      BY <1>4, <2>2, FundingsAside
    <2> QED
      BY <1>5, <2>1, <2>2
  <1>10. Rest(k, T)
    BY <1>6, <1>7, <1>9, AsideRest
  <1> QED
    BY <1>10 DEF T, k

----------------------------------------------------------------------------
(***************************************************************************)
(* A request that changes.                                                 *)
(***************************************************************************)
\* Two entries of one request stay two.
LEMMA OneBefore ==
    ASSUME NEW l, NEW m, KeptRequests(l, m), One(m) PROVE One(l)
  BY DEF KeptRequests, One

\* One entry of the ledger is x now.
SetBy(l, m, S, r, i, x) ==
    /\ Rest(m, S) /\ Knows(m, r)
    /\ First(m.requests, r) = i /\ Entry(m, r) = x
    /\ m.positions = l.positions
    /\ \A j \in OpenIn(m) : j \in OpenIn(l) \/ j = i
    /\ i \in OpenIn(m) => x.status = "ChannelOpen"

LEMMA SetEntryIs ==
    ASSUME NEW l, NEW S, Rest(l, S), NEW r, Knows(l, r),
           NEW x \in RequestEntries, x.id = r, x.amount = Entry(l, r).amount
    PROVE  SetBy(l, SetRequest(l, r, x), S, r, First(l.requests, r), x)
  <1> DEFINE i == First(l.requests, r)
             m == SetRequest(l, r, x)
             es == l.requests
             xs == [es EXCEPT ![i] = x]
  <1>1. l \in Ledgers
    BY DEF Rest
  <1>2. /\ i \in DOMAIN es /\ Entry(l, r) = es[i] /\ es[i].id = r
        /\ es[i].amount = x.amount
    BY PlaceIs
  <1>3. es \in Seq(RequestEntries)
    BY <1>1, LedgerHas
  <1>4. /\ xs \in Seq(RequestEntries) /\ DOMAIN xs = DOMAIN es
        /\ \A j \in DOMAIN es : xs[j] = IF j = i THEN x ELSE es[j]
    <2> HIDE DEF i, es
    <2> QED
      BY <1>2, <1>3, UpdateSeq
  <1>5. m = [l EXCEPT !.requests = xs]
    BY <1>1 DEF SetRequest, Ledgers
  <1> HIDE DEF xs
  <1>6. /\ m \in Ledgers /\ m.requests = xs /\ m.positions = l.positions
        /\ m.reservations = l.reservations /\ m.live = l.live
    BY <1>1, <1>4, <1>5 DEF Ledgers
  <1>7. SameTerms(l, m)
    BY <1>2, <1>4, <1>6 DEF SameTerms
  <1>8. Indices(xs, r) = Indices(es, r)
    BY <1>2, <1>4 DEF Indices
  <1>9. First(xs, r) = i
    BY <1>8 DEF First
  <1>10. xs[i] = x
    BY <1>2, <1>4
  <1> HIDE DEF m, i
  <1>11. Entry(m, r) = x /\ First(m.requests, r) = i
    BY <1>6, <1>9, <1>10 DEF Entry
  <1>12. Knows(m, r)
    BY <1>2, <1>4, <1>6, <1>10 DEF Knows
  <1>13. Rest(m, S)
    BY <1>6, <1>7, RestSame
  <1>14. /\ \A j \in OpenIn(m) : j \in OpenIn(l) \/ j = i
         /\ i \in OpenIn(m) => x.status = "ChannelOpen"
    BY <1>4, <1>6, <1>10 DEF OpenIn
  <1> QED
    BY <1>6, <1>11, <1>12, <1>13, <1>14 DEF m, i, SetBy

\* An entry that is only set, and is not open unless it was.
LEMMA SetStands ==
    ASSUME NEW l, One(l), StandsAlone(l), NEW r, Knows(l, r),
           NEW x \in RequestEntries, x.id = r, x.amount = Entry(l, r).amount,
           x.status = "ChannelOpen" => Entry(l, r).status = "ChannelOpen",
           NEW m \in Ledgers, Aside(SetRequest(l, r, x), m)
    PROVE  StandsAlone(m)
  <1> DEFINE i == First(l.requests, r)
             a == SetRequest(l, r, x)
             S == OpenIn(l)
  <1>1. Rest(l, S)
    BY DEF StandsAlone
  <1>2. /\ Rest(a, S)
        /\ \A j \in OpenIn(a) : j \in S \/ j = i
        /\ i \in OpenIn(a) => x.status = "ChannelOpen"
    <2>1. SetBy(l, a, S, r, i, x)
      BY <1>1, SetEntryIs
    <2> HIDE DEF a, S, i
    <2> QED
      BY <2>1 DEF SetBy, S
  <1>3. Entry(l, r).status = "ChannelOpen" => i \in S
    BY <1>1, PlaceIs DEF OpenIn
  <1> HIDE DEF a, S, i
  <1>4. OpenIn(m) \subseteq S
    BY <1>2, <1>3 DEF Aside, OpenIn, a
  <1>5. Rest(m, S)
    BY <1>2, AsideRest DEF a
  <1> QED
    BY <1>4, <1>5, RestLess DEF StandsAlone

\* An entry that is set, and whose reservation follows it.
LEMMA UpdateStands ==
    ASSUME NEW l, One(l), StandsAlone(l), NEW r, Knows(l, r),
           NEW x \in RequestEntries, x.id = r, x.amount = Entry(l, r).amount,
           x.status \notin {"Expired", "Released", "Settled"},
           NEW m \in Ledgers, Aside(SetRequest(l, r, x), m),
           NEW n \in Ledgers, Aside(UpdateReservation(m, r), n)
    PROVE  StandsAlone(n)
  <1> DEFINE i == First(l.requests, r)
             a == SetRequest(l, r, x)
             S == OpenIn(l)
             T == Then(x.status, S, i)
             b == UpdateReservation(m, r)
  <1>1. Rest(l, S)
    BY DEF StandsAlone
  <1>2. /\ Rest(a, S) /\ Knows(a, r) /\ First(a.requests, r) = i
        /\ Entry(a, r) = x
        /\ \A j \in OpenIn(a) : j \in S \/ j = i
        /\ i \in OpenIn(a) => x.status = "ChannelOpen"
    <2>1. SetBy(l, a, S, r, i, x)
      BY <1>1, SetEntryIs
    <2> HIDE DEF a, S, i
    <2> QED
      BY <2>1 DEF SetBy, S
  <1> HIDE DEF a, S, i
  <1>3. /\ Rest(m, S) /\ Knows(m, r) /\ First(m.requests, r) = i
        /\ Entry(m, r) = x /\ m.requests = a.requests
    BY <1>2, AsideRest DEF a, Aside, Knows, Entry
  <1>4. Rest(b, T)
    BY <1>3, UpdateRest
  <1>5. OpenIn(a) \subseteq T
    BY <1>2 DEF Then
  <1>6. Moves(m, b)
    BY <1>3, UpdateMoves
  <1> HIDE DEF T, b
  <1>7. n.requests = a.requests /\ Aside(b, n)
    BY <1>3, <1>6 DEF Moves, Aside, b
  <1>8. OpenIn(n) = OpenIn(a)
    BY <1>7 DEF OpenIn
  <1>9. Rest(n, T)
    BY <1>4, <1>7, AsideRest
  <1> QED
    BY <1>5, <1>8, <1>9, RestLess DEF StandsAlone

----------------------------------------------------------------------------
(***************************************************************************)
(* The handlers, where every request has one entry.                        *)
(***************************************************************************)
Alone == One(ledger) /\ StandsAlone(ledger) /\ ledger \in Ledgers

LEMMA AsideSame == ASSUME NEW l PROVE Aside(l, l)
  BY DEF Aside

LEMMA AsideStands ==
    ASSUME NEW l, One(l), StandsAlone(l), NEW m \in Ledgers, Aside(l, m)
    PROVE  StandsAlone(m)
  <1>1. Rest(m, OpenIn(l))
    BY AsideRest DEF StandsAlone
  <1>2. OpenIn(m) = OpenIn(l)
    BY DEF OpenIn, Aside
  <1> QED
    BY <1>1, <1>2 DEF StandsAlone

LEMMA AttachStands ==
    ASSUME Alone, NEW r, AttachFiberPeer(r)
    PROVE  StandsAlone(ledger')
  <1> DEFINE e == Entry(ledger, r)
             x == [e EXCEPT !.peer = TRUE]
  <1>1. Knows(ledger, r)
    BY KnownKnows DEF AttachFiberPeer
  <1>2. e \in RequestEntries /\ e.id = r
    BY <1>1, EntryIs DEF Alone
  <1>3. ledger' = SetRequest(ledger, r, x)
    BY DEF AttachFiberPeer, Save
  <1>4. ledger' \in Ledgers
    BY AttachKept DEF Alone, Kept, Follows
  <1> HIDE DEF e
  <1>5. x \in RequestEntries /\ x.id = r /\ x.amount = e.amount
        /\ x.status = e.status
    BY <1>2 DEF RequestEntries
  <1> HIDE DEF x
  <1> QED
    BY <1>1, <1>3, <1>4, <1>5, SetStands, AsideSame DEF Alone, e

LEMMA RetryStands ==
    ASSUME Alone, NEW r \in Requests, RetryJob(r)
    PROVE  StandsAlone(ledger')
  <1>1. ledger' = MarkJob(ledger, r, "Queued", "none")
    BY DEF RetryJob, Save
  <1>2. ledger' \in Ledgers
    BY RetryKept DEF Alone, Kept, Follows
  <1>3. Aside(ledger, ledger')
    BY <1>1, JobsAside DEF Alone
  <1> QED
    BY <1>2, <1>3, AsideStands DEF Alone

LEMMA ReadStands ==
    ASSUME Alone, NEW x, Knows(ledger, x.id), HandoffRead(x)
    PROVE  StandsAlone(ledger')
  <1> DEFINE r == x.id
             l == IF x.executor /\ x.stage = "read" THEN EnsureJob(ledger, r)
                  ELSE ledger
  <1>1. \/ ledger' = l \/ ledger' = ledger
        \/ \E status, error : ledger' = MarkJob(l, r, status, error)
    BY DEF HandoffRead, Save, SaveIfChanged
  <1>2. ledger' \in Ledgers
    BY ReadKept DEF Alone, Kept, Follows
  <1>3. r \in Requests
    BY EntryIs DEF Alone
  <1>4. Aside(ledger, l) /\ l \in Ledgers
    BY <1>3, JobsAside, AsideSame, EnsureJobFollows DEF Alone, Follows
  <1> HIDE DEF l, r
  <1>5. Aside(ledger, ledger')
    BY <1>1, <1>4, JobsAside, AsideSame, AsideTwice
  <1> QED
    BY <1>2, <1>5, AsideStands DEF Alone

LEMMA PrepareStands ==
    ASSUME Alone, NEW x, Knows(ledger, x.id), HandoffPrepare(x)
    PROVE  StandsAlone(ledger')
  <1> DEFINE r == x.id
             e == Entry(ledger, r)
             y == [e EXCEPT !.status = "FundingRequired", !.temporary = None]
             a == SetRequest(ledger, r, y)
             l == Prepared(ledger, r)
  <1>1. ledger' = l \/ ledger' = MarkJob(l, r, "AwaitingVaultFunding", "other")
    BY DEF HandoffPrepare, Save
  <1>2. ledger' \in Ledgers
    BY PrepareKept DEF Alone, Kept, Follows
  <1>3. e \in RequestEntries /\ e.id = r
    BY EntryIs DEF Alone
  <1>4. l = [a EXCEPT !.funding[r] =
                FundingIntent("BuilderRequired", None, None)]
    BY DEF Prepared
  <1>5. l \in Ledgers
    BY PreparedFollows DEF Alone, Follows
  <1> HIDE DEF e, l, r
  <1>6. /\ y \in RequestEntries /\ y.id = r /\ y.amount = e.amount
        /\ y.status = "FundingRequired"
    BY <1>3 DEF RequestEntries
  <1> HIDE DEF y
  <1>7. a \in Ledgers
    <2>1. Replaces(Entry(ledger, r), y)
      BY <1>3, <1>6 DEF Replaces, Shown, e
    <2> QED
      BY <2>1, SetRequestFollows DEF Alone, Follows, r
  <1>8. Aside(a, l)
    <2> HIDE DEF a
    <2> QED
      BY <1>4, <1>7, FundingsAside
  <1>9. Aside(a, ledger')
    BY <1>1, <1>5, <1>8, JobsAside, AsideTwice
  <1>10. Knows(ledger, r)
    BY DEF r
  <1> QED
    BY <1>2, <1>6, <1>9, <1>10, SetStands DEF Alone, e

\* Fiber's answer or refusal.
LEMMA AnswerStands ==
    ASSUME Alone, NEW x, Knows(ledger, x.id), NEW y \in RequestEntries,
           y.id = x.id, y.amount = Entry(ledger, x.id).amount,
           y.status \notin {"Expired", "Released", "Settled"},
           NEW status, NEW error, AfterAnswer(x, y, status, error),
           Replaces(Entry(ledger, x.id), y), ledger' \in Ledgers
    PROVE  StandsAlone(ledger')
  <1> DEFINE r == x.id
             a == SetRequest(ledger, r, y)
             b == FundingAfter(a, r)
             c == UpdateReservation(b, r)
  <1>1. ledger' = c \/ ledger' = MarkJob(c, r, status, error)
    BY DEF AfterAnswer, Save
  <1>2. r \in Requests
    BY EntryIs DEF Alone
  <1>3. Follows(ledger, a) /\ a \in Ledgers
    BY SetRequestFollows DEF Alone, Follows
  <1> HIDE DEF a, r
  <1>4. Follows(a, b) /\ b \in Ledgers
    BY <1>2, <1>3, FundingAfterFollows DEF Follows
  <1>5. Aside(a, b)
    BY <1>3, FundingAside
  <1>6. Knows(b, r)
    BY <1>3, <1>4, StillKnows DEF r
  <1> HIDE DEF b
  <1>7. c \in Ledgers
    BY <1>4, <1>6, UpdateMoves DEF Moves, Follows
  <1>8. Aside(c, ledger')
    <2> HIDE DEF c
    <2> QED
      BY <1>1, <1>7, JobsAside, AsideSame
  <1>9. Knows(ledger, r) /\ y.id = r /\ y.amount = Entry(ledger, r).amount
    BY DEF r
  <1> QED
    BY <1>4, <1>5, <1>8, <1>9, UpdateStands DEF Alone, a

LEMMA AnsweredStands ==
    ASSUME Alone, NEW x, Knows(ledger, x.id), NEW ref,
           x.channel \in Nat \cup {None}, HandoffAnswer(x, ref)
    PROVE  StandsAlone(ledger')
  <1> DEFINE e == Entry(ledger, x.id)
             y == Answered(x, ref)
             temporary == IF ref = "channel" THEN None ELSE x.channel
             channel == IF ref = "temporary" THEN None ELSE x.channel
             status == IF config.vaultMode
                       THEN IF FundingBuilt(x.id) THEN "FundingSubmitted"
                            ELSE "FundingRequired"
                       ELSE IF ref = "temporary" THEN "PendingFiberChannel"
                            ELSE "ChannelOpen"
  <1>1. e \in RequestEntries /\ e.id = x.id
    BY EntryIs DEF Alone
  <1>2. AfterAnswer(x, y, JobAfter(x.id, y.status), "none")
    BY DEF HandoffAnswer
  <1>3. y = [e EXCEPT !.temporary = temporary, !.channel = channel,
                      !.status = status]
    BY DEF Answered
  <1>4. temporary \in Nat \cup {None} /\ channel \in Nat \cup {None}
    OBVIOUS
  <1>5. /\ status \in {"FundingSubmitted", "FundingRequired",
                       "PendingFiberChannel", "ChannelOpen"}
        /\ config.vaultMode => status # "ChannelOpen"
    OBVIOUS
  <1>6. ledger' \in Ledgers
    BY AnsweredKept DEF Alone, Kept, Follows
  <1> HIDE DEF e, y, temporary, channel, status
  <1>7. y \in RequestEntries /\ y.id = e.id /\ y.status = status
        /\ y.amount = e.amount
    BY <1>1, <1>3, <1>4, <1>5 DEF RequestEntries
  <1>8. Replaces(e, y) /\ y.status \notin {"Expired", "Released", "Settled"}
    BY <1>5, <1>7 DEF Replaces, Shown
  <1> QED
    BY <1>1, <1>2, <1>6, <1>7, <1>8, AnswerStands DEF e

LEMMA ErrorStands ==
    ASSUME Alone, NEW x, Knows(ledger, x.id), NEW error, HandoffError(x, error)
    PROVE  StandsAlone(ledger')
  <1> DEFINE e == Entry(ledger, x.id)
             y == [e EXCEPT !.status = "Failed"]
  <1>1. e \in RequestEntries /\ e.id = x.id
    BY EntryIs DEF Alone
  <1>2. AfterAnswer(x, y, "RetryableFailed", error)
    BY DEF HandoffError
  <1>3. ledger' \in Ledgers
    BY ErrorKept DEF Alone, Kept, Follows
  <1> HIDE DEF e
  <1>4. y \in RequestEntries /\ y.id = e.id /\ y.status = "Failed"
        /\ y.amount = e.amount
    BY <1>1 DEF RequestEntries
  <1> HIDE DEF y
  <1>5. Replaces(e, y) /\ y.status \notin {"Expired", "Released", "Settled"}
    BY <1>4 DEF Replaces, Shown
  <1> QED
    BY <1>1, <1>2, <1>3, <1>4, <1>5, AnswerStands DEF e

LEMMA SubmittedStands ==
    ASSUME Alone, NEW x, Knows(ledger, x.id), NEW h \in Hashes,
           NEW point \in Hashes \cup {None}, MarkFundingSubmitted(x, h, point)
    PROVE  StandsAlone(ledger')
  <1> DEFINE r == x.id
             e == Entry(ledger, r)
             y == [e EXCEPT !.status = "FundingSubmitted", !.temporary = None]
             a == SetRequest(ledger, r, y)
             f == FundingIntent("FundingSubmitted", h, point)
             b == [a EXCEPT !.funding[r] = f]
  <1>1. ledger' = UpdateReservation(b, r)
    BY DEF MarkFundingSubmitted, Save
  <1>2. e \in RequestEntries /\ e.id = r
    BY EntryIs DEF Alone
  <1>3. ledger' \in Ledgers
    BY SubmittedKept DEF Alone, Kept, Follows
  <1> HIDE DEF e
  <1>4. /\ y \in RequestEntries /\ y.id = r /\ y.status = "FundingSubmitted"
        /\ y.amount = e.amount
    BY <1>2 DEF RequestEntries
  <1> HIDE DEF y
  <1>5. Follows(ledger, a) /\ a \in Ledgers
    <2>1. Replaces(Entry(ledger, r), y)
      BY <1>2, <1>4 DEF Replaces, Shown, e
    <2> QED
      BY <2>1, SetRequestFollows DEF Alone, Follows
  <1>6. f \in FundingEntries
    BY DEF FundingIntent, FundingEntries, FundingStatuses
  <1> HIDE DEF f
  <1>7. b \in Ledgers /\ Aside(a, b)
    <2> HIDE DEF a, r
    <2> QED
      BY <1>5, <1>6, FundingIsFollows, FundingsAside DEF Follows
  <1> HIDE DEF b
  <1>8. y.status \notin {"Expired", "Released", "Settled"}
        /\ y.amount = Entry(ledger, r).amount
    BY <1>4 DEF e
  <1> QED
    BY <1>1, <1>3, <1>4, <1>7, <1>8, UpdateStands, AsideSame DEF Alone, a

LEMMA BuiltStands ==
    ASSUME Alone, NEW b, Knows(ledger, b.id), BuilderMark(b)
    PROVE  StandsAlone(ledger')
  <1> DEFINE r == b.id
             e == Entry(ledger, r)
             y == [e EXCEPT !.status = "FundingSubmitted"]
             a == SetRequest(ledger, r, y)
             h == <<"fund", r>>
             f == FundingIntent("FundingSubmitted", h, h)
  <1>1. ledger' = a \/ ledger' = [a EXCEPT !.funding[r] = f]
    BY DEF BuilderMark, Save
  <1>2. e \in RequestEntries /\ e.id = r
    BY EntryIs DEF Alone
  <1>3. ledger' \in Ledgers
    BY BuiltKept DEF Alone, Kept, Follows
  <1> HIDE DEF e
  <1>4. /\ y \in RequestEntries /\ y.id = r /\ y.status = "FundingSubmitted"
        /\ y.amount = e.amount
    BY <1>2 DEF RequestEntries
  <1> HIDE DEF y
  <1>5. a \in Ledgers
    <2>1. Replaces(Entry(ledger, r), y)
      BY <1>2, <1>4 DEF Replaces, Shown, e
    <2> QED
      BY <2>1, SetRequestFollows DEF Alone, Follows
  <1>6. Aside(a, ledger')
    <2> HIDE DEF a, r, f
    <2> QED
      BY <1>1, <1>5, AsideSame, FundingsAside
  <1>7. y.amount = Entry(ledger, r).amount
    BY <1>4 DEF e
  <1> QED
    BY <1>3, <1>4, <1>6, <1>7, SetStands DEF Alone

\* What a released request had locked goes back.
LEMMA ReleaseMarkRest ==
    ASSUME NEW l, NEW S, Rest(l, S), NEW r, Knows(l, r),
           NEW amount, amount = Entry(l, r).amount, First(l.requests, r) \notin S,
           Covered(l.positions, "reserved", amount)
    PROVE  Rest(SetReservation(Placing(l, ReleasePositions(l.positions, amount)),
                               r, "Released"), S)
  <1> DEFINE i == First(l.requests, r)
             ps == l.positions
             rs == l.reservations
             qs == ReleasePositions(ps, amount)
             m == Put(l, qs, Marking(rs, i, "Released"))
  <1>1. i \in DOMAIN rs /\ rs[i].amount = amount /\ amount \in Nat
    BY PlaceIs
  <1>2. /\ rs \in Seq(ReservationEntries) /\ ps \in Seq(PositionEntries)
        /\ One(l) => Backed(ps, rs)
    BY <1>1, StatusIn
  <1>3. SetReservation(Placing(l, qs), r, "Released") = m
    BY SetIsPut
  <1>4. One(l) => Backed(qs, Marking(rs, i, "Released"))
    <2> HIDE DEF i, ps, rs
    <2> QED
      BY <1>1, <1>2, BackedRelease DEF ps
  <1>5. qs \in Seq(PositionEntries)
    BY <1>1, <1>2, ReleaseTotals
  <1>6. "Released" \in Marks
    BY DEF Marks
  <1>7. One(l) => S \subseteq S \cup {i} /\ (i \in S => "Released" = "Deployed")
    OBVIOUS
  <1>8. Rest(m, S)
    <2> HIDE DEF ps, i, qs
    <2> QED
      BY <1>1, <1>4, <1>5, <1>6, <1>7, RestMarked
  <1> HIDE DEF m
  <1> QED
    BY <1>3, <1>8

\* It goes back as far as the positions have it.
LEMMA TakenRest ==
    ASSUME NEW l, NEW S, Rest(l, S), NEW amount \in Nat
    PROVE  /\ Rest(Placing(l, ReleasePositions(l.positions, amount)), S)
           /\ Rest(Placing(l, SettlePositions(l.positions, amount)), S)
  <1> DEFINE ps == ReleasePositions(l.positions, amount)
             qs == SettlePositions(l.positions, amount)
  <1>1. /\ l.reservations \in Seq(ReservationEntries)
        /\ l.positions \in Seq(PositionEntries)
        /\ One(l) => Backed(l.positions, l.reservations)
    BY LedgerHas DEF Rest
  <1>2. ps \in Seq(PositionEntries) /\ qs \in Seq(PositionEntries)
    BY <1>1, ReleaseTotals, SettleTotals
  <1>3. One(l) => Backed(ps, l.reservations)
    BY <1>1, BackedReleaseShort
  <1>4. One(l) => Backed(qs, l.reservations)
    BY <1>1, BackedSettleShort
  <1> HIDE DEF ps, qs
  <1>5. Rest(Placing(l, ps), S) /\ Rest(Placing(l, qs), S)
    BY <1>2, <1>3, <1>4, RestPlaced
  <1> QED
    BY <1>5 DEF ps, qs

LEMMA ReleaseStands ==
    ASSUME Alone, NEW r, ReleaseLiquidity(r)
    PROVE  StandsAlone(ledger')
  <1> DEFINE e == Entry(ledger, r)
             i == First(ledger.requests, r)
             x == [e EXCEPT !.status = "Released"]
             a == SetRequest(ledger, r, x)
             T == OpenIn(ledger) \ {i}
             b == Placing(a, ReleasePositions(a.positions, e.amount))
             c == SetReservation(b, r, "Released")
  <1>1. Knows(ledger, r)
    BY KnownKnows DEF ReleaseLiquidity
  <1>2. e \in RequestEntries /\ e.id = r /\ e.amount \in Nat
    BY <1>1, EntryIs DEF Alone
  <1>3. IF Covered(ledger.positions, "reserved", e.amount)
        THEN ledger' = SetJobStatus(c, r, "Released") ELSE ledger' = b
    BY DEF ReleaseLiquidity, Placing, Save
  <1>4. ledger' \in Ledgers
    BY ReleaseKept DEF Alone, Kept, Follows
  <1>5. /\ x \in RequestEntries /\ x.id = r /\ x.amount = e.amount
        /\ x.status # "ChannelOpen"
    BY <1>2 DEF RequestEntries
  <1> HIDE DEF x
  <1>6. SetBy(ledger, a, OpenIn(ledger), r, i, x)
    BY <1>1, <1>5, SetEntryIs DEF Alone, StandsAlone
  <1>7. Entry(a, r).amount = e.amount
    BY <1>5, <1>6 DEF SetBy
  <1> HIDE DEF a, i, e
  <1>8. /\ Rest(a, T) /\ Knows(a, r) /\ First(a.requests, r) \notin T
        /\ OpenIn(a) \subseteq T /\ a.positions = ledger.positions
    BY <1>5, <1>6, RestLess DEF SetBy
  <1> HIDE DEF T
  <1>9. Rest(b, T) /\ b.requests = a.requests
    BY <1>2, <1>8, TakenRest DEF Placing, Rest, Ledgers
  <1>10. CASE Covered(ledger.positions, "reserved", e.amount)
    <2>1. Rest(c, T)
      BY <1>7, <1>8, <1>10, ReleaseMarkRest
    <2>2. c.requests = a.requests
      BY <1>9, SetReservationFollows DEF Rest
    <2>3. ledger' = SetJobStatus(c, r, "Released")
      BY <1>3, <1>10
    <2> HIDE DEF c
    <2>4. Rest(ledger', T) /\ ledger'.requests = a.requests
      <3>1. c \in Ledgers
        BY <2>1 DEF Rest
      <3>2. Aside(c, ledger')
        BY <2>3, <3>1, JobsAside
      <3> QED
        BY <1>4, <2>1, <2>2, <3>2, AsideRest DEF Aside
    <2>5. OpenIn(ledger') \subseteq T
      BY <1>8, <2>4 DEF OpenIn
    <2> QED
      BY <2>4, <2>5, RestLess DEF StandsAlone
  <1>11. CASE ~Covered(ledger.positions, "reserved", e.amount)
    <2>1. ledger' = b
      BY <1>3, <1>11
    <2> HIDE DEF b
    <2>2. OpenIn(ledger') \subseteq T
      BY <1>8, <1>9, <2>1 DEF OpenIn
    <2> QED
      BY <1>9, <2>1, <2>2, RestLess DEF StandsAlone
  <1> QED
    BY <1>10, <1>11

LEMMA SettleStands ==
    ASSUME Alone, fiber \in Seq(FiberEntries), NEW r,
           NEW named \in DOMAIN fiber \cup {None}, SettleLiquidity(r, named)
    PROVE  StandsAlone(ledger')
  <1> DEFINE e == Entry(ledger, r)
             i == First(ledger.requests, r)
             x == [e EXCEPT !.status = "Settled",
                            !.channel = IF named = None THEN @ ELSE named]
             a == SetRequest(ledger, r, x)
             S == OpenIn(ledger)
             T == S \ {i}
             b == Placing(a, SettlePositions(a.positions, e.amount))
             c == SetReservation(b, r, "Released")
  <1>1. Knows(ledger, r) /\ e.status = "ChannelOpen"
    BY KnownKnows DEF SettleLiquidity
  <1>2. e \in RequestEntries /\ e.id = r /\ e.amount \in Nat
    BY <1>1, EntryIs DEF Alone
  <1>3. ledger' = SetJobStatus(c, r, "ChannelSettled") \/ ledger' = b
    BY DEF SettleLiquidity, Placing, Save
  <1>4. ledger' \in Ledgers
    BY SettleKept DEF Alone, Kept, Follows
  <1>5. /\ x \in RequestEntries /\ x.id = r /\ x.amount = e.amount
        /\ x.status # "ChannelOpen"
    <2>1. named \in Nat \cup {None}
      BY DomainSeq
    <2> QED
      BY <1>2, <2>1 DEF RequestEntries
  <1> HIDE DEF x
  <1>6. SetBy(ledger, a, OpenIn(ledger), r, i, x)
    BY <1>1, <1>5, SetEntryIs DEF Alone, StandsAlone
  <1>7. Entry(a, r).amount = e.amount
    BY <1>5, <1>6 DEF SetBy
  <1>8. i \in S
    BY <1>1, PlaceIs DEF Alone, StandsAlone, OpenIn
  <1> HIDE DEF a, i, e
  <1>9. /\ Rest(a, S) /\ Rest(a, T) /\ Knows(a, r)
        /\ First(a.requests, r) = i /\ OpenIn(a) \subseteq T
    BY <1>5, <1>6, RestLess DEF SetBy
  <1>10. Rest(c, T)
    <2>1. Rest(c, S \ {First(a.requests, r)})
      <3> HIDE DEF S
      <3> QED
        BY <1>7, <1>8, <1>9, SettleMarkRest
    <2> QED
      BY <1>9, <2>1
  <1> HIDE DEF S, T
  <1>11. Rest(b, T) /\ b.requests = a.requests
    BY <1>2, <1>9, TakenRest DEF Placing, Rest, Ledgers
  <1>12. c.requests = a.requests
    BY <1>11, SetReservationFollows DEF Rest
  <1> HIDE DEF b, c
  <1>13. Rest(ledger', T) /\ ledger'.requests = a.requests
    <2>1. CASE ledger' = b
      BY <1>11, <2>1
    <2>2. CASE ledger' = SetJobStatus(c, r, "ChannelSettled")
      <3>1. c \in Ledgers
        BY <1>10 DEF Rest
      <3>2. Aside(c, ledger')
        BY <2>2, <3>1, JobsAside
      <3> QED
        BY <1>4, <1>10, <1>12, <3>2, AsideRest DEF Aside
    <2> QED
      BY <1>3, <2>1, <2>2
  <1>14. OpenIn(ledger') \subseteq T
    BY <1>9, <1>13 DEF OpenIn
  <1> QED
    BY <1>13, <1>14, RestLess DEF StandsAlone

----------------------------------------------------------------------------
(***************************************************************************)
(* A new request, and the positions of the providers.                      *)
(***************************************************************************)
LEMMA EnteredRest ==
    ASSUME NEW l, NEW S, Rest(l, S), NEW e \in RequestEntries,
           e.amount \in Nat \ {0}, e.status = "Requested", NEW fee \in Nat
    PROVE  /\ Rest(WithRequest(l, e, fee), S)
           /\ OpenIn(WithRequest(l, e, fee)) \subseteq OpenIn(l)
  <1> DEFINE m == WithRequest(l, e, fee)
             x == NewReservation(e.id, e.amount)
             ps == ReservePositions(l.positions, e.amount, fee)
             rs == Append(l.reservations, x)
             es == Append(l.requests, e)
             n == Len(l.requests) + 1
  <1>1. l \in Ledgers /\ Aligned(l) /\ l.live = None
        /\ (One(l) => Backed(l.positions, l.reservations) /\ Deployed(l, S))
    BY DEF Rest
  <1>2. /\ l.positions \in Seq(PositionEntries)
        /\ l.reservations \in Seq(ReservationEntries)
        /\ l.requests \in Seq(RequestEntries)
    BY <1>1, LedgerHas
  <1>3. /\ x \in ReservationEntries /\ x.status = "Reserved"
        /\ x.id = e.id /\ x.amount = e.amount
    BY DEF NewReservation, ReservationEntries, RequestEntries
  <1>4. /\ m.positions = ps /\ m.reservations = rs /\ m.requests = es
        /\ m.live = l.live
    BY <1>1 DEF WithRequest, Ledgers
  <1>5. m \in Ledgers /\ KeptRequests(l, m)
    BY <1>1, WithRequestFollows DEF Follows
  <1>6. One(l) => Backed(ps, rs)
    <2> HIDE DEF x
    <2> QED
      BY <1>1, <1>2, <1>3, BackedReserve
  <1>7. /\ DOMAIN es = DOMAIN l.requests \cup {n} /\ es[n] = e
        /\ \A i \in DOMAIN l.requests : es[i] = l.requests[i]
    BY <1>2, AppendSeq
  <1>8. Len(l.reservations) = Len(l.requests)
    BY <1>1, <1>2, DomainSeq DEF Aligned
  <1>9. /\ DOMAIN rs = DOMAIN l.reservations \cup {n} /\ rs[n] = x
        /\ \A i \in DOMAIN l.reservations : rs[i] = l.reservations[i]
    <2> HIDE DEF x
    <2> QED
      BY <1>2, <1>3, <1>8, AppendSeq
  <1>10. One(m) => One(l)
    BY <1>5, OneBefore
  <1> HIDE DEF m, x, ps, rs, es, n
  <1>11. Aligned(m)
    BY <1>1, <1>3, <1>4, <1>7, <1>9 DEF Aligned
  <1>12. One(l) => Deployed(m, S)
    BY <1>1, <1>4, <1>9 DEF Deployed
  <1>13. Rest(m, S)
    BY <1>1, <1>4, <1>5, <1>6, <1>10, <1>11, <1>12 DEF Rest
  <1>14. OpenIn(m) \subseteq OpenIn(l)
    BY <1>4, <1>7 DEF OpenIn
  <1> QED
    BY <1>13, <1>14 DEF m

\* Without a vault's figures a request is only entered when it is covered.
LEMMA CreatedStands ==
    ASSUME Alone, NEW r \in Requests, NEW a \in Amounts, NEW fee \in Fees,
           NEW peer \in BOOLEAN, CreateLiquidityRequest(r, a, fee, peer)
    PROVE  StandsAlone(ledger')
  <1> DEFINE e == NewRequest(r, a, None, None, peer)
             m == WithRequest(ledger, e, fee)
  <1>1. Rest(ledger, OpenIn(ledger))
    BY DEF Alone, StandsAlone
  <1>2. Covered(ledger.positions, "available", a)
    BY <1>1 DEF CreateLiquidityRequest, AvailableLiquidity, Covered, Rest
  <1>3. ledger' = m
    BY <1>2 DEF CreateLiquidityRequest, Save
  <1>4. a \in Nat /\ a \in Nat \ {0} /\ fee \in Nat
    BY ChainAssumption
  <1>5. e \in RequestEntries /\ e.amount = a /\ e.status = "Requested"
    BY <1>4, NewRequestIs
  <1> HIDE DEF e
  <1>6. Rest(m, OpenIn(ledger)) /\ OpenIn(m) \subseteq OpenIn(ledger)
    BY <1>1, <1>4, <1>5, EnteredRest
  <1> HIDE DEF m
  <1> QED
    BY <1>3, <1>6, RestLess DEF StandsAlone

LEMMA SettledRequestStands ==
    ASSUME Alone, NEW held, Held(held, ledger), NEW peer \in BOOLEAN,
           NEW cell, SettleRequestIntent(held, peer, cell),
           ledger' \in Ledgers
    PROVE  StandsAlone(ledger')
  <1> DEFINE r == held.id
             h == <<"request", r>>
             intent == ledger.intents[r]
             a == intent.amount
             e == NewRequest(r, a, h, cell, peer)
             m == WithRequest(ledger, e, intent.fee)
  <1>1. Rest(ledger, OpenIn(ledger)) /\ ledger \in Ledgers
    BY DEF Alone, StandsAlone
  <1>2. r \in Requests /\ intent # None
    BY DEF Held, SettleRequestIntent
  <1>3. intent \in RequestIntents
    BY <1>1, <1>2, LedgerHas DEF Intents
  <1>4. a \in Nat /\ a \in Nat \ {0} /\ intent.fee \in Nat
    BY <1>3, ChainAssumption DEF RequestIntents
  <1>5. h \in Hashes \cup {None} /\ cell \in Hashes \cup {None}
    <2>1. h \in Hashes /\ cell \in {h, None}
      BY <1>2 DEF Hashes, SettleRequestIntent
    <2> HIDE DEF h
    <2> QED
      BY <2>1
  <1>6. ledger' = [m EXCEPT !.intents[r].settled = TRUE]
    BY DEF SettleRequestIntent, Save
  <1> HIDE DEF h, r, a
  <1>7. e \in RequestEntries /\ e.amount = a /\ e.status = "Requested"
    BY <1>2, <1>4, <1>5 DEF NewRequest, RequestEntries
  <1> HIDE DEF e
  <1>8. e.amount \in Nat \ {0} /\ intent.fee \in Nat
    BY <1>4, <1>7
  <1> HIDE DEF intent
  <1>9. Rest(m, OpenIn(ledger)) /\ OpenIn(m) \subseteq OpenIn(ledger)
    BY <1>1, <1>7, <1>8, EnteredRest
  <1> HIDE DEF m
  <1>10. Aside(m, ledger')
    BY <1>6, <1>9 DEF Aside, Rest, Ledgers
  <1>11. Rest(ledger', OpenIn(ledger)) /\ OpenIn(ledger') \subseteq OpenIn(ledger)
    BY <1>9, <1>10, AsideRest DEF Aside, OpenIn
  <1> QED
    BY <1>11, RestLess DEF StandsAlone

\* The providers' handlers leave what is reserved and deployed.
LEMMA TotalsStand ==
    ASSUME Alone, ledger' \in Ledgers, ledger'.requests = ledger.requests,
           ledger'.reservations = ledger.reservations,
           ledger'.live = ledger.live,
           Total(ledger'.positions, "reserved")
              = Total(ledger.positions, "reserved"),
           Total(ledger'.positions, "deployed")
              = Total(ledger.positions, "deployed")
    PROVE  StandsAlone(ledger')
  <1>1. Rest(ledger, OpenIn(ledger))
    BY DEF Alone, StandsAlone
  <1>2. OpenIn(ledger') = OpenIn(ledger)
    BY DEF OpenIn
  <1>3. Aligned(ledger') /\ (One(ledger') <=> One(ledger))
    BY <1>1 DEF Rest, Aligned, One
  <1>4. /\ Backed(ledger.positions, ledger.reservations)
              <=> Backed(ledger'.positions, ledger'.reservations)
        /\ Deployed(ledger, OpenIn(ledger)) <=> Deployed(ledger', OpenIn(ledger))
    BY DEF Backed, Deployed
  <1>5. Rest(ledger', OpenIn(ledger))
    BY <1>1, <1>3, <1>4 DEF Rest
  <1> QED
    BY <1>2, <1>5 DEF StandsAlone

LEMMA DepositStands ==
    ASSUME Alone, NEW p \in Positions, CreateDeposit(p), ledger' \in Ledgers
    PROVE  StandsAlone(ledger')
  <1> DEFINE intent == ledger.supplies[p]
             a == intent.amount
             h == <<"supply", p>>
             x == NewPosition(p, a, h)
             ps == ledger.positions
  <1>1. ledger \in Ledgers /\ ps \in Seq(PositionEntries)
    BY LedgerHas DEF Alone
  <1>2. intent # None
    BY DEF CreateDeposit
  <1>3. intent \in SupplyIntents
    BY <1>1, <1>2, LedgerHas DEF Supplies
  <1>4. a \in Nat /\ h \in Hashes \cup {None}
    BY <1>3, ChainAssumption DEF SupplyIntents, Hashes
  <1>5. /\ ledger'.positions = Append(ps, x)
        /\ ledger'.requests = ledger.requests
        /\ ledger'.reservations = ledger.reservations
        /\ ledger'.live = ledger.live
    BY <1>1 DEF CreateDeposit, Save, Ledgers
  <1>6. x["reserved"] = 0 /\ x["deployed"] = 0
    BY DEF NewPosition
  <1> HIDE DEF a, h
  <1>7. x \in PositionEntries
    BY <1>4, NewOne
  <1> HIDE DEF x
  <1>8. /\ Total(Append(ps, x), "reserved") = Total(ps, "reserved")
        /\ Total(Append(ps, x), "deployed") = Total(ps, "deployed")
    BY <1>1, <1>6, <1>7, BalancesNatural, TotalAppended
  <1> QED
    BY <1>5, <1>8, TotalsStand

\* One position is another now, with the same share.
LEMMA TotalOne ==
    ASSUME NEW ps \in Seq(PositionEntries), NEW i \in DOMAIN ps, NEW y,
           [ps EXCEPT ![i] = y] \in Seq(PositionEntries), NEW field,
           Naturals(ps, field), Naturals([ps EXCEPT ![i] = y], field),
           (IF y.active THEN y[field] ELSE 0) = Share(ps, i, field)
    PROVE  Total([ps EXCEPT ![i] = y], field) = Total(ps, field)
  <1> DEFINE qs == [ps EXCEPT ![i] = y]
  <1>1. DOMAIN qs = DOMAIN ps /\ qs[i] = y
        /\ \A j \in DOMAIN ps : j # i => qs[j] = ps[j]
    OBVIOUS
  <1>2. qs \in Seq(PositionEntries) /\ Naturals(qs, field)
    OBVIOUS
  <1> HIDE DEF qs
  <1>3. Len(qs) = Len(ps)
    BY <1>1, <1>2, DomainSeq
  <1>4. \A j \in DOMAIN ps : Share(qs, j, field) = Share(ps, j, field)
    BY <1>1 DEF Share
  <1>5. Total(qs, field) = Total(ps, field)
    BY <1>2, <1>3, <1>4, TotalSame
  <1> QED
    BY <1>5 DEF qs

LEMMA NothingLeft ==
    ASSUME NEW s \in Nat, NEW v \in Nat, NEW r \in Nat, NEW d \in Nat,
           v + r + d = s, NEW a \in Nat, v >= a, s - a = 0
    PROVE  r = 0 /\ d = 0
  OBVIOUS

LEMMA WithdrawalStands ==
    ASSUME Alone, Placed(ledger), NEW held, Held(held, ledger), NEW h, NEW point,
           SettleWithdrawal(held, h, point), ledger' \in Ledgers
    PROVE  StandsAlone(ledger')
  <1> DEFINE w == held.id
             intent == ledger.withdrawals[w]
             i == intent.position
             a == intent.amount
             ps == ledger.positions
             y == Withdrawn(ps[i], a, point)
             qs == [ps EXCEPT ![i] = y]
  <1>1. ledger \in Ledgers /\ ps \in Seq(PositionEntries)
    BY LedgerHas DEF Alone
  <1>2. w \in Withdrawals /\ intent # None /\ ps[i].available >= a
    BY DEF Held, SettleWithdrawal
  <1>3. i \in DOMAIN ps
    BY <1>2 DEF Placed
  <1>4. a \in Nat
    <2>1. intent \in PayoutIntents(Amounts)
      BY <1>1, <1>2, LedgerHas DEF WithdrawalIntents
    <2> QED
      BY <2>1, ChainAssumption DEF PayoutIntents
  <1>5. /\ ledger'.positions = qs
        /\ ledger'.requests = ledger.requests
        /\ ledger'.reservations = ledger.reservations
        /\ ledger'.live = ledger.live
    BY <1>1 DEF SettleWithdrawal, Save, Ledgers
  <1>6. qs \in Seq(PositionEntries)
    BY <1>5, LedgerHas
  <1>7. ps[i] \in PositionEntries
    BY <1>1, <1>3, DomainSeq
  <1>8. /\ y["reserved"] = ps[i]["reserved"] /\ y["deployed"] = ps[i]["deployed"]
        /\ y.active <=> ps[i].active /\ ps[i].supplied - a # 0
        /\ y.active \in BOOLEAN
    BY <1>7 DEF Withdrawn, PositionEntries, PositionRecords
  <1>9. /\ ps[i].supplied \in Nat /\ ps[i].available \in Nat
        /\ ps[i].reserved \in Nat /\ ps[i].deployed \in Nat
        /\ ps[i].available + ps[i].reserved + ps[i].deployed = ps[i].supplied
    BY <1>7, PositionHas
  <1> HIDE DEF y, a, i, intent, ps
  <1>10. ps[i].supplied - a = 0 => ps[i].reserved = 0 /\ ps[i].deployed = 0
    BY <1>2, <1>4, <1>9, NothingLeft
  <1>11. /\ (IF y.active THEN y["reserved"] ELSE 0) = Share(ps, i, "reserved")
         /\ (IF y.active THEN y["deployed"] ELSE 0) = Share(ps, i, "deployed")
    BY <1>8, <1>10 DEF Share
  <1>12. /\ Total(qs, "reserved") = Total(ps, "reserved")
         /\ Total(qs, "deployed") = Total(ps, "deployed")
    BY <1>1, <1>3, <1>6, <1>11, TotalOne, BalancesNatural
  <1> HIDE DEF qs
  <1> QED
    BY <1>5, <1>12, TotalsStand DEF ps

LEMMA ClaimStands ==
    ASSUME Alone, Placed(ledger), NEW held, Held(held, ledger), NEW h, NEW point,
           SettleFeeClaim(held, h, point), ledger' \in Ledgers
    PROVE  StandsAlone(ledger')
  <1> DEFINE c == held.id
             intent == ledger.claims[c]
             i == intent.position
             ps == ledger.positions
             next == IF point # None THEN point ELSE ps[i].point
             y == [ps[i] EXCEPT !.claimed = @ + intent.amount, !.point = next]
             qs == [ps EXCEPT ![i] = y]
  <1>1. ledger \in Ledgers /\ ps \in Seq(PositionEntries)
    BY LedgerHas DEF Alone
  <1>2. c \in Claims /\ intent # None
    BY DEF Held, SettleFeeClaim
  <1>3. i \in DOMAIN ps
    BY <1>2 DEF Placed
  <1>4. ps[i] \in PositionEntries
    BY <1>1, <1>3, DomainSeq
  <1>5. /\ ledger'.positions = qs
        /\ ledger'.requests = ledger.requests
        /\ ledger'.reservations = ledger.reservations
        /\ ledger'.live = ledger.live
    BY <1>1, <1>3 DEF SettleFeeClaim, Save, Ledgers
  <1>6. qs \in Seq(PositionEntries)
    BY <1>5, LedgerHas
  <1>7. /\ y["reserved"] = ps[i]["reserved"] /\ y["deployed"] = ps[i]["deployed"]
        /\ y.active = ps[i].active
    BY <1>4 DEF PositionEntries, PositionRecords
  <1> HIDE DEF y, i, intent, ps
  <1>8. /\ (IF y.active THEN y["reserved"] ELSE 0) = Share(ps, i, "reserved")
        /\ (IF y.active THEN y["deployed"] ELSE 0) = Share(ps, i, "deployed")
    BY <1>7 DEF Share
  <1>9. /\ Total(qs, "reserved") = Total(ps, "reserved")
        /\ Total(qs, "deployed") = Total(ps, "deployed")
    BY <1>1, <1>3, <1>6, <1>8, TotalOne, BalancesNatural
  <1> HIDE DEF qs
  <1> QED
    BY <1>5, <1>9, TotalsStand DEF ps

\* An intent that is only recorded.
LEMMA IntentsStand ==
    ASSUME Alone, ledger' \in Ledgers,
           \/ \E p, a : CreateSupplyIntent(p, a)
           \/ \E w, i, a : CreateWithdrawalIntent(w, i, a)
           \/ \E c, i, a : CreateFeeClaim(c, i, a)
           \/ \E r, a, f : CreateRequestIntent(r, a, f)
    PROVE  StandsAlone(ledger')
  <1>1. Aside(ledger, ledger')
    BY DEF CreateSupplyIntent, CreateWithdrawalIntent, CreateFeeClaim,
           CreateRequestIntent, Save, Aside, Alone, Ledgers
  <1> QED
    BY <1>1, AsideStands DEF Alone

----------------------------------------------------------------------------
(***************************************************************************)
(* The watcher's passes.                                                   *)
(***************************************************************************)
LEMMA WatchedAmount ==
    ASSUME NEW l, NEW e \in RequestEntries, NEW late
    PROVE  Watched(l, e, late).amount = e.amount
  <1>1. ASSUME NEW states, NEW status
        PROVE  WithChannel(l, e, states, status).amount = e.amount
    <2> DEFINE n == Least1(Matching(l, e, states))
               funding == IF fiber[n].tx # None THEN fiber[n].tx ELSE e.funding
    <2>1. WithChannel(l, e, states, status)
             = [e EXCEPT !.status = status, !.channel = n, !.funding = funding]
      BY DEF WithChannel, RequestEntries
    <2> HIDE DEF n, funding
    <2> QED
      BY <2>1 DEF RequestEntries
  <1>2. ASSUME NEW x, x.amount = e.amount, NEW v
        PROVE  /\ [x EXCEPT !.channel = v].amount = e.amount
               /\ [x EXCEPT !.status = v].amount = e.amount
    BY <1>2
  <1> DEFINE seen == IF Refreshed(l, e, late)
                     THEN [WithChannel(l, e, Usable, e.status)
                             EXCEPT !.channel = e.channel]
                     ELSE e
  <1>3. seen.amount = e.amount
    BY <1>1, <1>2
  <1>4. \/ Watched(l, e, late) = WithChannel(l, e, {"closed"}, "Settled")
        \/ Watched(l, e, late) = WithChannel(l, e, Usable, "ChannelOpen")
        \/ Watched(l, e, late) = [seen EXCEPT !.status = "Failed"]
        \/ Watched(l, e, late) = seen
    BY DEF Watched
  <1> HIDE DEF seen
  <1>5. [seen EXCEPT !.status = "Failed"].amount = e.amount
    BY <1>2, <1>3
  <1> QED
    BY <1>1, <1>3, <1>4, <1>5

\* What the watcher found decides what a request becomes.
LEMMA FateIs ==
    ASSUME NEW l \in Ledgers, fiber \in Seq(FiberEntries), NEW late,
           NEW i \in DOMAIN l.requests
    PROVE  LET e == Changed(l, late).requests[i]
               fate == Fate(l, l.requests[i], late)
           IN  /\ e \in RequestEntries /\ e.id = l.requests[i].id
               /\ e.amount = l.requests[i].amount
               /\ fate = "opened" => e.status = "ChannelOpen"
               /\ fate = "failed" => e.status = "Failed"
               /\ fate = "settled" => /\ e.status = "Settled"
                                      /\ l.requests[i].status = "ChannelOpen"
               /\ e.status = "ChannelOpen" =>
                     fate = "opened" \/ l.requests[i].status = "ChannelOpen"
  <1> DEFINE x == l.requests[i]
             e == Watched(l, x, late)
             fate == Fate(l, x, late)
             closed == WithChannel(l, x, {"closed"}, "Settled")
             opened == WithChannel(l, x, Usable, "ChannelOpen")
             fresh == [WithChannel(l, x, Usable, x.status)
                         EXCEPT !.channel = x.channel]
             seen == IF Refreshed(l, x, late) THEN fresh ELSE x
             failed == [seen EXCEPT !.status = "Failed"]
  <1>1. x \in RequestEntries
    BY LedgerHas, DomainSeq
  <1>2. Changed(l, late).requests[i] = e
    BY DEF Changed, Ledgers
  <1>3. e \in RequestEntries /\ e.id = x.id
    BY <1>1, WatchedIs DEF Replaces
  <1>4. e.amount = x.amount
    BY <1>1, WatchedAmount
  <1>5. e = CASE fate = "settled" -> closed
              [] fate = "opened" -> opened
              [] fate = "failed" -> failed
              [] OTHER -> seen
    BY DEF Watched
  <1>6. closed.status = "Settled" /\ opened.status = "ChannelOpen"
        /\ WithChannel(l, x, Usable, x.status).status = x.status
    BY <1>1 DEF WithChannel, RequestEntries
  <1>7. fresh.status = x.status
    <2> DEFINE y == WithChannel(l, x, Usable, x.status)
    <2>1. y.status = x.status
      BY <1>6
    <2> HIDE DEF y, x
    <2>2. [y EXCEPT !.channel = x.channel].status = x.status
      BY <2>1
    <2> QED
      BY <2>2 DEF y
  <1> HIDE DEF fresh
  <1>8. seen.status = x.status
    BY <1>7
  <1>9. fate = "failed" => e.status = "Failed"
    <2>1. "status" \in DOMAIN seen
      <3>1. "status" \in DOMAIN x
        BY <1>1 DEF RequestEntries
      <3>2. "status" \in DOMAIN fresh
        BY <3>1 DEF fresh, WithChannel
      <3> HIDE DEF x
      <3> QED
        BY <3>1, <3>2
    <2> HIDE DEF seen
    <2>2. failed.status = "Failed"
      BY <2>1
    <2> HIDE DEF failed, fate, closed, opened, e
    <2> QED
      BY <1>5, <2>2
  <1>10. fate = "settled" => x.status = "ChannelOpen"
    BY DEF Fate
  <1> HIDE DEF seen, failed, closed, opened, fate, e
  <1>11. /\ fate = "opened" => e.status = "ChannelOpen"
         /\ fate = "settled" => e.status = "Settled"
         /\ e.status = "ChannelOpen" =>
               fate = "opened" \/ x.status = "ChannelOpen"
    BY <1>5, <1>6, <1>8, <1>9
  <1> QED
    BY <1>2, <1>3, <1>4, <1>9, <1>10, <1>11 DEF fate

\* The requests of T that an effect of this kind concerns, and the deployed
\* reservations once it took place for them.
Of(l, late, kind, T) == {i \in T : kind \in Effects(l, late, i)}
After(kind, S, X) ==
    IF kind = "opened" THEN S \cup X ELSE IF kind = "refreshed" THEN S ELSE S \ X
Kind(kind) ==
    kind = "opened" \/ kind = "refreshed" \/ kind = "settled" \/ kind = "failed"

LEMMA EffectRest ==
    ASSUME NEW l \in Ledgers, fiber \in Seq(FiberEntries), NEW late, NEW kind,
           Kind(kind), NEW S, NEW m, Rest(m, S), One(m),
           m.requests = Changed(l, late).requests, NEW i \in DOMAIN l.requests,
           kind \in Effects(l, late, i),
           kind = "settled" => i \in S
    PROVE  /\ EffectOf(l, late, kind, m, i).requests = m.requests
           /\ Rest(EffectOf(l, late, kind, m, i), After(kind, S, {i}))
  <1> DEFINE e == Changed(l, late).requests[i]
             r == e.id
             error == IF l.requests[i].status = "FundingRequired"
                      THEN "timeout" ELSE "other"
             fate == Fate(l, l.requests[i], late)
             n == EffectOf(l, late, kind, m, i)
  <1>1. /\ e \in RequestEntries
        /\ fate = "opened" => e.status = "ChannelOpen"
        /\ fate = "failed" => e.status = "Failed"
    BY FateIs
  <1>2. i \in DOMAIN m.requests /\ m.requests[i] = e /\ m.requests[i].id = r
    BY ChangedFollows
  <1>3. kind = "refreshed" \/ kind = fate
    BY DEF Effects
  <1>4. n = CASE kind = "opened" -> Opened(m, e)
              [] kind = "refreshed" -> ActiveIntent(m, e)
              [] kind = "settled" -> Settled(m, e)
              [] OTHER -> Failed(m, e, error)
    BY DEF EffectOf
  <1>5. error \in JobErrors
    BY DEF JobErrors
  <1> HIDE DEF fate, error, e
  <1>6. Knows(m, r)
    BY <1>2 DEF Knows
  <1>7. First(m.requests, r) = i /\ Entry(m, r) = e
    BY <1>2, <1>6, PlaceIs
  <1>8. m \in Ledgers
    BY DEF Rest
  <1> HIDE DEF n
  <1>9. CASE kind = "opened"
    <2>1. n = Opened(m, e) /\ e.status = "ChannelOpen"
      BY <1>1, <1>3, <1>4, <1>9
    <2>2. Rest(n, S \cup {i})
      BY <1>1, <1>6, <1>7, <2>1, OpenedRest
    <2>3. n.requests = m.requests
      BY <1>1, <1>6, <1>8, <2>1, OpenedMoves DEF Moves
    <2> QED
      BY <1>9, <2>2, <2>3 DEF After, n
  <1>10. CASE kind = "refreshed"
    <2>1. n = ActiveIntent(m, e)
      BY <1>4, <1>10
    <2>2. e.funding \in Hashes \cup {None}
      BY <1>1 DEF RequestEntries
    <2>3. Aside(m, n)
      BY <1>8, <2>1, FundingAside
    <2>4. n \in Ledgers
      BY <1>8, <2>1, <2>2, ActiveIntentFollows DEF Follows
    <2>5. Rest(n, S) /\ n.requests = m.requests
      BY <2>3, <2>4, AsideRest DEF Aside
    <2> QED
      BY <1>10, <2>5 DEF After, n
  <1>11. CASE kind = "settled"
    <2>1. n = Settled(m, e)
      BY <1>4, <1>11
    <2>2. Rest(n, S \ {i})
      BY <1>1, <1>6, <1>7, <1>11, <2>1, SettledRest
    <2>3. n.requests = m.requests
      BY <1>1, <1>8, <2>1, SettledMoves DEF Moves
    <2> QED
      BY <1>11, <2>2, <2>3 DEF After, n
  <1>12. CASE kind = "failed"
    <2>1. n = Failed(m, e, error) /\ e.status = "Failed"
      BY <1>1, <1>3, <1>4, <1>12
    <2>2. Rest(n, S \ {i})
      BY <1>1, <1>5, <1>6, <1>7, <2>1, FailedRest
    <2>3. n.requests = m.requests
      BY <1>1, <1>5, <1>6, <1>8, <2>1, FailedMoves DEF Moves
    <2> QED
      BY <1>12, <2>2, <2>3 DEF After, n
  <1> QED
    BY <1>9, <1>10, <1>11, <1>12 DEF Kind

\* A pass does it for every request it concerns.
LEMMA PassRest ==
    ASSUME NEW l \in Ledgers, fiber \in Seq(FiberEntries), NEW late, NEW kind,
           Kind(kind), NEW S, NEW m, Rest(m, S), One(m),
           m.requests = Changed(l, late).requests, Follows(Changed(l, late), m),
           kind = "settled" => Of(l, late, kind, DOMAIN l.requests) \subseteq S
    PROVE  /\ PassOf(l, late, kind, m).requests = m.requests
           /\ Follows(Changed(l, late), PassOf(l, late, kind, m))
           /\ Rest(PassOf(l, late, kind, m),
                   After(kind, S, Of(l, late, kind, DOMAIN l.requests)))
  <1> DEFINE D == DOMAIN l.requests
             good(k, T) == /\ k.requests = m.requests
                           /\ Rest(k, After(kind, S, Of(l, late, kind, T)))
  <1>1. PICK g : PassBy(l, late, kind, m, g)
    BY PassSteps
  <1>2. IsFiniteSet(D)
    BY LedgerHas, DomainSeq
  <1> DEFINE same == [T \in SUBSET D |-> T]
             pick == [T \in SUBSET D |-> Max(T)]
             L == {T \in SUBSET D : good(g[T], T)}
  <1>3. \A T \in SUBSET D : T # {} => pick[T] \in T
    BY <1>1 DEF PassBy
  <1>4. good(g[{}], {})
    <2>1. After(kind, S, Of(l, late, kind, {})) = S
      BY DEF After, Of
    <2> QED
      BY <1>1, <2>1 DEF PassBy
  <1>5. ASSUME NEW T \in SUBSET D, T # {}, good(g[T \ {Max(T)}], T \ {Max(T)})
        PROVE  good(g[T], T)
    <2> DEFINE i == Max(T)
               U == T \ {i}
               k == g[U]
               R == After(kind, S, Of(l, late, kind, U))
    <2>1. i \in T /\ i \in D /\ g[T] = EffectOf(l, late, kind, k, i)
      BY <1>1, <1>5 DEF PassBy
    <2>2. k.requests = m.requests /\ Rest(k, R)
      BY <1>5
    <2>3. One(k)
      BY <2>2 DEF One
    <2>4. T = U \cup {i} /\ i \notin U
      BY <2>1
    <2> HIDE DEF i, U, k
    <2>5. CASE kind \in Effects(l, late, i)
      <3>1. Of(l, late, kind, T) = Of(l, late, kind, U) \cup {i}
        BY <2>4, <2>5 DEF Of
      <3>2. After(kind, S, Of(l, late, kind, T)) = After(kind, R, {i})
        BY <3>1 DEF After
      <3>3. kind = "settled" => i \in R
        BY <2>1, <2>4, <2>5 DEF After, Of
      <3> HIDE DEF R, D
      <3>4. i \in DOMAIN l.requests
        BY <2>1 DEF D
      <3>5. /\ EffectOf(l, late, kind, k, i).requests = k.requests
            /\ Rest(EffectOf(l, late, kind, k, i), After(kind, R, {i}))
        BY <2>2, <2>3, <2>5, <3>3, <3>4, EffectRest
      <3> QED
        BY <2>1, <2>2, <3>2, <3>5
    <2>6. CASE kind \notin Effects(l, late, i)
      <3>1. Of(l, late, kind, T) = Of(l, late, kind, U)
        BY <2>4, <2>6 DEF Of
      <3>2. EffectOf(l, late, kind, k, i) = k
        BY <2>6 DEF EffectOf
      <3> QED
        BY <2>1, <2>2, <3>1, <3>2
    <2> QED
      BY <2>5, <2>6
  <1> HIDE DEF good
  <1>6. same[{}] \in L
    BY <1>4
  <1>7. \A T \in SUBSET D : T # {} /\ same[T \ {pick[T]}] \in L => same[T] \in L
    BY <1>5
  <1> HIDE DEF L, pick
  <1>8. \A T \in SUBSET D : same[T] \in L
    <2> HIDE DEF same, D
    <2> QED
      BY <1>2, <1>3, <1>6, <1>7, FoldWithin
  <1>9. good(g[D], D)
    BY <1>8 DEF L
  <1>10. PassOf(l, late, kind, m) = g[D] /\ Follows(Changed(l, late), g[D])
    BY <1>1 DEF PassBy
  <1> QED
    BY <1>9, <1>10 DEF good

LEMMA WatchRest ==
    ASSUME NEW l \in Ledgers, One(l), StandsAlone(l),
           fiber \in Seq(FiberEntries), NEW late
    PROVE  StandsAlone(AfterWatch(l, late))
  <1> DEFINE c == Changed(l, late)
             D == DOMAIN l.requests
             S == OpenIn(l)
             O == Of(l, late, "opened", D)
             Z == Of(l, late, "settled", D)
             F == Of(l, late, "failed", D)
             a == PassOf(l, late, "opened", c)
             b == PassOf(l, late, "refreshed", a)
             d == PassOf(l, late, "settled", b)
             e == PassOf(l, late, "failed", d)
  <1>1. Rest(l, S)
    BY DEF StandsAlone
  <1>2. /\ Follows(l, c) /\ DOMAIN c.requests = D /\ c \in Ledgers
    BY ChangedFollows DEF Follows
  <1>3. \A i \in D :
           /\ c.requests[i].id = l.requests[i].id
           /\ c.requests[i].amount = l.requests[i].amount
           /\ i \in O <=> "opened" \in Effects(l, late, i)
           /\ i \in Z => c.requests[i].status # "ChannelOpen" /\ i \in S
           /\ i \in F => c.requests[i].status # "ChannelOpen"
           /\ c.requests[i].status = "ChannelOpen" => i \in O \/ i \in S
    <2> TAKE i \in D
    <2> DEFINE x == c.requests[i]
               fate == Fate(l, l.requests[i], late)
    <2>1. /\ x.id = l.requests[i].id /\ x.amount = l.requests[i].amount
          /\ fate = "failed" => x.status = "Failed"
          /\ fate = "settled" => /\ x.status = "Settled"
                                 /\ l.requests[i].status = "ChannelOpen"
          /\ x.status = "ChannelOpen" =>
                fate = "opened" \/ l.requests[i].status = "ChannelOpen"
      BY FateIs
    <2>2. /\ "settled" \in Effects(l, late, i) => fate = "settled"
          /\ "failed" \in Effects(l, late, i) => fate = "failed"
          /\ fate = "opened" => "opened" \in Effects(l, late, i)
      BY DEF Effects
    <2> HIDE DEF x, fate
    <2>3. i \in S <=> l.requests[i].status = "ChannelOpen"
      BY DEF OpenIn
    <2>4. i \in Z => x.status # "ChannelOpen" /\ i \in S
      BY <2>1, <2>2, <2>3 DEF Of
    <2>5. i \in F => x.status # "ChannelOpen"
      BY <2>1, <2>2 DEF Of
    <2>6. x.status = "ChannelOpen" => i \in O \/ i \in S
      BY <2>1, <2>2, <2>3 DEF Of
    <2>7. i \in O <=> "opened" \in Effects(l, late, i)
      BY DEF Of
    <2> QED
      BY <2>1, <2>4, <2>5, <2>6, <2>7 DEF x
  <1>4. SameTerms(l, c)
    BY <1>2, <1>3 DEF SameTerms
  <1>5. /\ c.positions = l.positions /\ c.reservations = l.reservations
        /\ c.live = l.live
    BY DEF Changed, Ledgers
  <1> HIDE DEF c, S
  <1>6. Rest(c, S) /\ One(c) /\ Follows(c, c)
    BY <1>1, <1>2, <1>4, <1>5, RestSame, FollowsSame DEF One, SameTerms
  <1>7. /\ Kind("opened") /\ Kind("refreshed") /\ Kind("settled")
        /\ Kind("failed")
    BY DEF Kind
  <1>8. a.requests = c.requests /\ Follows(c, a) /\ Rest(a, S \cup O)
    <2>1. /\ a.requests = c.requests /\ Follows(c, a)
          /\ Rest(a, After("opened", S, O))
      BY <1>6, <1>7, PassRest DEF c
    <2> QED
      BY <2>1 DEF After
  <1> HIDE DEF a
  <1>9. One(a)
    BY <1>6, <1>8 DEF One
  <1>10. b.requests = c.requests /\ Follows(c, b) /\ Rest(b, S \cup O)
    <2>1. /\ b.requests = a.requests /\ Follows(c, b)
          /\ Rest(b, After("refreshed", S \cup O, Of(l, late, "refreshed", D)))
      BY <1>7, <1>8, <1>9, PassRest DEF c
    <2> QED
      BY <1>8, <2>1 DEF After
  <1> HIDE DEF b
  <1>11. One(b)
    BY <1>6, <1>10 DEF One
  <1>12. Z \subseteq S \cup O
    BY <1>3 DEF Of
  <1>13. d.requests = c.requests /\ Follows(c, d) /\ Rest(d, (S \cup O) \ Z)
    <2>1. /\ d.requests = b.requests /\ Follows(c, d)
          /\ Rest(d, After("settled", S \cup O, Z))
      BY <1>7, <1>10, <1>11, <1>12, PassRest DEF c
    <2> QED
      BY <1>10, <2>1 DEF After
  <1> HIDE DEF d
  <1>14. One(d)
    BY <1>6, <1>13 DEF One
  <1>15. e.requests = c.requests /\ Rest(e, ((S \cup O) \ Z) \ F)
    <2>1. /\ e.requests = d.requests
          /\ Rest(e, After("failed", (S \cup O) \ Z, F))
      BY <1>7, <1>13, <1>14, PassRest DEF c
    <2> QED
      BY <1>13, <2>1 DEF After
  <1> HIDE DEF e
  <1>16. OpenIn(e) \subseteq ((S \cup O) \ Z) \ F
    BY <1>2, <1>3, <1>15 DEF OpenIn
  <1>17. StandsAlone(e)
    BY <1>15, <1>16, RestLess DEF StandsAlone
  <1> QED
    BY <1>17, WatchIs DEF a, b, d, e, c

LEMMA WatchStands ==
    ASSUME Alone, fiber \in Seq(FiberEntries), NEW late, SyncFiberChannels(late)
    PROVE  StandsAlone(ledger')
  <1>1. ledger' = AfterWatch(ledger, late)
    BY DEF SyncFiberChannels, SaveIfChanged
  <1> QED
    BY <1>1, WatchRest DEF Alone

----------------------------------------------------------------------------
(***************************************************************************)
(* The expiry.                                                             *)
(***************************************************************************)
LEMMA MarkedIs ==
    ASSUME ledger \in Ledgers, NEW due
    PROVE  /\ SameTerms(ledger, Marked(due))
           /\ Marked(due).positions = ledger.positions
           /\ Marked(due).reservations = ledger.reservations
           /\ Marked(due).live = ledger.live
           /\ OpenIn(Marked(due)) \subseteq OpenIn(ledger)
  <1> DEFINE es == ledger.requests
             m == Marked(due)
  <1>1. \A i \in DOMAIN es : es[i] \in RequestEntries
    BY LedgerHas, DomainSeq
  <1>2. \A e \in RequestEntries :
           LET x == [e EXCEPT !.status = "Released"]
           IN  x.id = e.id /\ x.amount = e.amount /\ x.status = "Released"
    BY DEF RequestEntries
  <1>3. /\ m.positions = ledger.positions /\ m.reservations = ledger.reservations
        /\ m.live = ledger.live
        /\ m.requests = [i \in DOMAIN es |->
                            IF i \in due THEN [es[i] EXCEPT !.status = "Released"]
                            ELSE es[i]]
    BY DEF Marked, Ledgers
  <1> HIDE DEF m, es
  <1>4. /\ DOMAIN m.requests = DOMAIN es
        /\ \A i \in DOMAIN es :
              /\ m.requests[i].id = es[i].id /\ m.requests[i].amount = es[i].amount
              /\ m.requests[i].status = "ChannelOpen" => es[i].status = "ChannelOpen"
    BY <1>1, <1>2, <1>3
  <1> QED
    BY <1>3, <1>4 DEF SameTerms, OpenIn, m, es

LEMMA ReleaseOfRest ==
    ASSUME Alone, NEW expired, NEW acc, acc \in Releases,
           Rest(acc.l, OpenIn(ledger)),
           acc.l.requests = Marked(Due(expired)).requests,
           NEW i \in DOMAIN ledger.requests
    PROVE  LET n == ReleaseOf(Due(expired), acc, i).l
           IN  Rest(n, OpenIn(ledger)) /\ n.requests = acc.l.requests
  <1> DEFINE due == Due(expired)
             e == ledger.requests[i]
             r == e.id
             l == acc.l
             S == OpenIn(ledger)
             b == Placing(l, ReleasePositions(l.positions, e.amount))
             c == SetReservation(b, r, "Released")
             n == ReleaseOf(due, acc, i).l
  <1>1. \/ n = l \/ n = b
        \/ i \in due /\ Covered(l.positions, "reserved", e.amount) /\ n = c
    BY DEF ReleaseOf, Placing
  <1>2. /\ One(ledger) /\ i \in DOMAIN l.requests /\ l.requests[i].id = r
        /\ l.requests[i].amount = e.amount /\ One(l)
    BY MarkedIs DEF Alone, SameTerms, One
  <1>3. e.amount \in Nat
    <2>1. e \in RequestEntries
      BY LedgerHas, DomainSeq DEF Alone
    <2> HIDE DEF e
    <2> QED
      BY <2>1 DEF RequestEntries
  <1>4. i \in due => i \notin S
    BY DEF Due, OpenIn
  <1> HIDE DEF e, l, S, n, due
  <1>5. Knows(l, r)
    BY <1>2 DEF Knows
  <1>6. Rest(l, S)
    BY DEF l, S
  <1>7. First(l.requests, r) = i /\ Entry(l, r).amount = e.amount
    BY <1>2, <1>5, <1>6, PlaceIs
  <1>8. Rest(b, S) /\ b.requests = l.requests
    BY <1>3, <1>6, TakenRest DEF Placing, Rest, Ledgers
  <1>9. i \in due /\ Covered(l.positions, "reserved", e.amount) => Rest(c, S)
    BY <1>4, <1>5, <1>6, <1>7, ReleaseMarkRest
  <1>10. c.requests = l.requests
    BY <1>8, SetReservationFollows DEF Rest
  <1> HIDE DEF b, c
  <1>11. Rest(n, S) /\ n.requests = l.requests
    BY <1>1, <1>6, <1>8, <1>9, <1>10
  <1> QED
    BY <1>11 DEF n, S, l, due

LEMMA ExpiredStands ==
    ASSUME Alone, NEW expired, ReleaseExpired(expired)
    PROVE  StandsAlone(ledger')
  <1> DEFINE due == Due(expired)
             D == DOMAIN ledger.requests
             S == OpenIn(ledger)
             m == Marked(due)
             good(acc) == Rest(acc.l, S) /\ acc.l.requests = m.requests
  <1>1. ledger' = ReleaseEnd(due).l
    BY ExpiredIs
  <1>2. PICK g : ReleaseBy(due, g)
    BY ReleaseSteps DEF Alone
  <1>3. IsFiniteSet(D)
    BY LedgerHas, DomainSeq DEF Alone
  <1> DEFINE same == [T \in SUBSET D |-> T]
             pick == [T \in SUBSET D |-> Max(T)]
             L == {T \in SUBSET D : good(g[T])}
  <1>4. \A T \in SUBSET D : T # {} => pick[T] \in T
    BY <1>2 DEF ReleaseBy
  <1>5. good(g[{}])
    <2>1. g[{}].l = m
      BY <1>2 DEF ReleaseBy
    <2>2. Rest(ledger, S)
      BY DEF Alone, StandsAlone
    <2>3. m \in Ledgers
      BY MarkedFollows DEF Alone, Follows
    <2> HIDE DEF m, S
    <2>4. Rest(m, S)
      BY <2>2, <2>3, MarkedIs, RestSame DEF m, Alone
    <2> QED
      BY <2>1, <2>4
  <1>6. ASSUME NEW T \in SUBSET D, T # {}, good(g[T \ {Max(T)}])
        PROVE  good(g[T])
    <2> DEFINE i == Max(T)
               acc == g[T \ {i}]
    <2>1. i \in D /\ g[T] = ReleaseOf(due, acc, i) /\ acc \in Releases
      BY <1>2, <1>6 DEF ReleaseBy
    <2>2. Rest(acc.l, S) /\ acc.l.requests = m.requests
      BY <1>6
    <2> HIDE DEF i, acc
    <2>3. /\ Rest(ReleaseOf(due, acc, i).l, S)
          /\ ReleaseOf(due, acc, i).l.requests = acc.l.requests
      BY <2>1, <2>2, ReleaseOfRest
    <2> QED
      BY <2>1, <2>2, <2>3
  <1> HIDE DEF good
  <1>7. same[{}] \in L
    BY <1>5
  <1>8. \A T \in SUBSET D : T # {} /\ same[T \ {pick[T]}] \in L => same[T] \in L
    BY <1>6
  <1> HIDE DEF L, pick
  <1>9. \A T \in SUBSET D : same[T] \in L
    <2> HIDE DEF same, D
    <2> QED
      BY <1>3, <1>4, <1>7, <1>8, FoldWithin
  <1>10. good(g[D])
    BY <1>9 DEF L
  <1>11. Rest(ledger', S) /\ ledger'.requests = m.requests
    BY <1>1, <1>2, <1>10 DEF ReleaseBy, good
  <1>12. OpenIn(ledger') \subseteq S
    BY <1>11, MarkedIs DEF OpenIn, Alone
  <1> QED
    BY <1>11, <1>12, RestLess DEF StandsAlone

----------------------------------------------------------------------------
(***************************************************************************)
(* Without a node, the ledger stands alone in memory and in the file.      *)
(***************************************************************************)
BothStand == StandsAlone(ledger) /\ StandsAlone(disk)
Standing == ~config.rpc => BothStand

LEMMA StandsOn ==
    ASSUME BothStand, ledger \in Ledgers, Kept \/ Grown,
           Alone => StandsAlone(ledger')
    PROVE  BothStand'
  <1>1. KeptRequests(ledger, ledger') /\ (disk' = ledger' \/ disk' = disk)
    BY DEF Kept, Follows, Grown, Advances
  <1>2. CASE One(ledger')
    BY <1>1, <1>2, OneBefore DEF BothStand, Alone
  <1>3. CASE ~One(ledger')
    BY <1>1, <1>3 DEF BothStand, StandsAlone
  <1> QED
    BY <1>2, <1>3

LEMMA StandsSame ==
    ASSUME BothStand, UNCHANGED <<ledger, disk>> PROVE BothStand'
  BY DEF BothStand

LEMMA EnterStands ==
    ASSUME ServiceInv, BothStand, EnterRequest, ledger' \in Ledgers
    PROVE  BothStand'
  <1>1. /\ ledger \in Ledgers /\ CallsInv /\ Placed(ledger) /\ config \in Configs
        /\ MerchantNext
    BY DEF ServiceInv, LedgersInv, Sound, EnterRequest
  <1>2. ASSUME NEW r \in bound.merchants, NEW a \in bound.moved, NEW f \in Fees,
               CreateRequestIntent(r, a, f)
        PROVE  BothStand'
    <2>1. r \in Requests /\ a \in Amounts
      BY <1>1, BoundIs
    <2>2. Grown
      BY <1>1, <1>2, <2>1, IntentGrown
    <2>3. Alone => StandsAlone(ledger')
      BY <1>2, IntentsStand
    <2> QED
      BY <1>1, <2>2, <2>3, StandsOn
  <1>3. ASSUME NEW r \in bound.merchants, NEW a \in bound.moved, NEW f \in Fees,
               NEW peer \in BOOLEAN, CreateLiquidityRequest(r, a, f, peer)
        PROVE  BothStand'
    <2>1. r \in Requests /\ a \in Amounts
      BY <1>1, BoundIs
    <2>2. Kept
      BY <1>1, <1>3, <2>1, EnteredKept
    <2>3. Alone => StandsAlone(ledger')
      BY <1>3, <2>1, CreatedStands
    <2> QED
      BY <1>1, <2>2, <2>3, StandsOn
  <1>4. ASSUME NEW r \in Requests, ReadRequestIntent(r) PROVE BothStand'
    BY <1>4, StandsSame DEF ReadRequestIntent
  <1>5. ASSUME NEW held \in contexts, NEW peer \in BOOLEAN, NEW cell,
               SettleRequestIntent(held, peer, cell)
        PROVE  BothStand'
    <2>1. Held(held, ledger)
      BY <1>1, HeldIs DEF CallsInv
    <2>2. Grown
      BY <1>1, <1>5, <2>1, SettledRequestGrown
    <2>3. Alone => StandsAlone(ledger')
      BY <1>5, <2>1, SettledRequestStands
    <2> QED
      BY <1>1, <2>2, <2>3, StandsOn
  <1> QED
    BY <1>1, <1>2, <1>3, <1>4, <1>5 DEF MerchantNext

LEMMA HandoffStands ==
    ASSUME ServiceInv, BothStand, HandoffNext
    PROVE  BothStand'
  <1>1. ledger \in Ledgers
    BY DEF ServiceInv, LedgersInv, Sound
  <1>2. ASSUME NEW x \in handoffs
        PROVE  Knows(ledger, x.id) /\ x.channel \in Nat \cup {None}
    BY DEF ServiceInv, CallsInv
  <1>3. ASSUME NEW r \in Requests, AttachFiberPeer(r) PROVE BothStand'
    <2>1. Kept
      BY <1>1, <1>3, AttachKept
    <2> QED
      BY <1>1, <1>3, <2>1, AttachStands, StandsOn
  <1>4. ASSUME NEW r \in Requests, RetryJob(r) PROVE BothStand'
    <2>1. Kept
      BY <1>1, <1>4, RetryKept
    <2> QED
      BY <1>1, <1>4, <2>1, RetryStands, StandsOn
  <1>5. ASSUME NEW x \in handoffs, HandoffRead(x) PROVE BothStand'
    <2>1. Kept
      BY <1>1, <1>2, <1>5, ReadKept
    <2> QED
      BY <1>1, <1>2, <1>5, <2>1, ReadStands, StandsOn
  <1>6. ASSUME NEW x \in handoffs, HandoffPrepare(x) PROVE BothStand'
    <2>1. Kept
      BY <1>1, <1>2, <1>6, PrepareKept
    <2> QED
      BY <1>1, <1>2, <1>6, <2>1, PrepareStands, StandsOn
  <1>7. ASSUME NEW x \in handoffs, NEW ref, HandoffAnswer(x, ref)
        PROVE  BothStand'
    <2>1. Kept
      BY <1>1, <1>2, <1>7, AnsweredKept
    <2> QED
      BY <1>1, <1>2, <1>7, <2>1, AnsweredStands, StandsOn
  <1>8. ASSUME NEW x \in handoffs, NEW error, HandoffError(x, error)
        PROVE  BothStand'
    <2>1. Kept
      BY <1>1, <1>2, <1>8, ErrorKept
    <2> QED
      BY <1>1, <1>2, <1>8, <2>1, ErrorStands, StandsOn
  <1>9. ASSUME NEW x \in handoffs, NEW h \in Hashes,
               NEW point \in FundPoints \cup {None},
               MarkFundingSubmitted(x, h, point)
        PROVE  BothStand'
    <2>1. Kept
      BY <1>1, <1>2, <1>9, PointsAreHashes, SubmittedKept
    <2> QED
      BY <1>1, <1>2, <1>9, <2>1, PointsAreHashes, SubmittedStands, StandsOn
  <1>10. ASSUME UNCHANGED <<ledger, disk>> PROVE BothStand'
    BY <1>10, StandsSame
  <1> QED
    BY <1>3, <1>4, <1>5, <1>6, <1>7, <1>8, <1>9, <1>10
       DEF HandoffNext, RetryFailedJob, DeployLiquidity, RetryExternalFunding,
           SubmitExternalFunding, FiberOpen

LEMMA BuilderStands ==
    ASSUME ServiceInv, BothStand, BuilderNext
    PROVE  BothStand'
  <1>1. ledger \in Ledgers
    BY DEF ServiceInv, LedgersInv, Sound
  <1>2. ASSUME NEW b \in building, BuilderMark(b) PROVE BothStand'
    <2>1. Knows(ledger, b.id)
      BY DEF ServiceInv, BuilderInv
    <2>2. Kept
      BY <1>1, <1>2, <2>1, BuiltKept
    <2> QED
      BY <1>1, <1>2, <2>1, <2>2, BuiltStands, StandsOn
  <1>3. ASSUME UNCHANGED <<ledger, disk>> PROVE BothStand'
    BY <1>3, StandsSame
  <1> QED
    BY <1>2, <1>3 DEF BuilderNext, BuilderMatch, BuilderFail

LEMMA ProviderStands ==
    ASSUME ServiceInv, BothStand, ProviderNext, ledger' \in Ledgers
    PROVE  BothStand'
  <1>1. /\ ledger \in Ledgers /\ CallsInv /\ Placed(ledger) /\ config \in Configs
        /\ MinedFor(ledger)
    BY DEF ServiceInv, LedgersInv, Sound, MinedInv
  <1>2. ASSUME NEW p \in bound.providers, NEW a \in bound.supplied,
               CreateSupplyIntent(p, a)
        PROVE  BothStand'
    <2>1. p \in Positions /\ a \in Amounts
      BY <1>1, BoundIs
    <2>2. Grown
      BY <1>1, <1>2, <2>1, SupplyGrown
    <2>3. Alone => StandsAlone(ledger')
      BY <1>2, IntentsStand
    <2> QED
      BY <1>1, <2>2, <2>3, StandsOn
  <1>3. ASSUME NEW p \in Positions, CreateDeposit(p) PROVE BothStand'
    <2>1. Grown
      BY <1>1, <1>3, DepositGrown
    <2> QED
      BY <1>1, <1>3, <2>1, DepositStands, StandsOn
  <1>4. ASSUME NEW w \in Withdrawals, NEW i \in DOMAIN ledger.positions,
               NEW a \in bound.moved, CreateWithdrawalIntent(w, i, a)
        PROVE  BothStand'
    <2>1. a \in Amounts
      BY <1>1, BoundIs
    <2>2. Grown
      BY <1>1, <1>4, <2>1, WithdrawalGrown
    <2>3. Alone => StandsAlone(ledger')
      BY <1>4, IntentsStand
    <2> QED
      BY <1>1, <2>2, <2>3, StandsOn
  <1>5. ASSUME NEW c \in Claims, NEW i \in DOMAIN ledger.positions,
               NEW a \in Fees, CreateFeeClaim(c, i, a)
        PROVE  BothStand'
    <2>1. Grown
      BY <1>1, <1>5, ClaimGrown
    <2>2. Alone => StandsAlone(ledger')
      BY <1>5, IntentsStand
    <2> QED
      BY <1>1, <2>1, <2>2, StandsOn
  <1>6. ASSUME UNCHANGED <<ledger, disk>> PROVE BothStand'
    BY <1>6, StandsSame
  <1>7. ASSUME NEW held \in contexts PROVE Held(held, ledger)
    BY <1>1, HeldIs DEF CallsInv
  <1>8. ASSUME NEW held \in contexts, NEW w \in Withdrawals,
               NEW point \in Hashes \cup {None},
               SettleWithdrawal(held, <<"withdraw", w>>, point)
        PROVE  BothStand'
    <2>1. Grown
      BY <1>1, <1>7, <1>8, SettledWithdrawalGrown
    <2>2. Alone => StandsAlone(ledger')
      BY <1>1, <1>7, <1>8, WithdrawalStands
    <2> QED
      BY <1>1, <2>1, <2>2, StandsOn
  <1>9. ASSUME NEW held \in contexts, NEW c \in Claims,
               NEW point \in Hashes \cup {None},
               SettleFeeClaim(held, <<"claim", c>>, point)
        PROVE  BothStand'
    <2>1. Grown
      BY <1>1, <1>7, <1>9, SettledClaimGrown
    <2>2. Alone => StandsAlone(ledger')
      BY <1>1, <1>7, <1>9, ClaimStands
    <2> QED
      BY <1>1, <2>1, <2>2, StandsOn
  <1> QED
    BY <1>2, <1>3, <1>4, <1>5, <1>6, <1>8, <1>9
       DEF ProviderNext, ReadWithdrawal, ReadFeeClaim

LEMMA RepairStands ==
    ASSUME ServiceInv, BothStand, ~config.rpc, RepairNext
    PROVE  BothStand'
  <1>1. ledger \in Ledgers /\ fiber \in Seq(FiberEntries)
    BY DEF ServiceInv, LedgersInv, BuilderInv, Sound
  <1>2. ASSUME NEW r \in Requests, ReleaseLiquidity(r) PROVE BothStand'
    <2>1. Kept
      BY <1>1, <1>2, ReleaseKept
    <2> QED
      BY <1>1, <1>2, <2>1, ReleaseStands, StandsOn
  <1>3. ASSUME NEW r \in Requests, NEW named \in DOMAIN fiber \cup {None},
               SettleLiquidity(r, named)
        PROVE  BothStand'
    <2>1. Kept
      BY <1>1, <1>3, SettleKept
    <2> QED
      BY <1>1, <1>3, <2>1, SettleStands, StandsOn
  <1>4. ASSUME NEW late, SyncFiberChannels(late) PROVE BothStand'
    <2>1. Kept
      BY <1>1, <1>4, WatchKept
    <2> QED
      BY <1>1, <1>4, <2>1, WatchStands, StandsOn
  <1>5. ASSUME NEW late, ReleaseExpired(late) PROVE BothStand'
    <2>1. Kept
      BY <1>1, <1>5, ExpiredKept
    <2> QED
      BY <1>1, <1>5, <2>1, ExpiredStands, StandsOn
  <1> QED
    BY <1>2, <1>3, <1>4, <1>5 DEF RepairNext, SyncRequests

\* The chain is not followed, so only the ledger's own steps count.
LEMMA StandingNext ==
    ASSUME ServiceInv, Standing, [Next]_vars
    PROVE  Standing'
  <1>1. ledger' \in Ledgers
    BY ServiceNext DEF Served, ServiceInv, LedgersInv, Sound
  <1>2. config' = config
    BY DEF Next, Restart, Crash, ledgerVars, vars
  <1>3. SUFFICES ASSUME ~config.rpc PROVE BothStand'
    BY <1>2 DEF Standing
  <1>4. BothStand
    BY <1>3 DEF Standing
  <1>5. CASE EnterRequest
    BY <1>1, <1>4, <1>5, EnterStands
  <1>6. CASE HandoffNext
    BY <1>4, <1>6, HandoffStands
  <1>7. CASE BuilderNext
    BY <1>4, <1>7, BuilderStands
  <1>8. CASE RepairNext
    BY <1>3, <1>4, <1>8, RepairStands
  <1>9. CASE ProviderNext
    BY <1>1, <1>4, <1>9, ProviderStands
  <1>10. CASE Restart
    <2>1. ledger' = disk /\ disk' = disk
      BY <1>10 DEF Restart, Crash
    <2> QED
      BY <1>4, <2>1 DEF BothStand
  <1>11. CASE UNCHANGED <<ledger, disk>>
    BY <1>4, <1>11, StandsSame
  <1> QED
    BY <1>3, <1>5, <1>6, <1>7, <1>8, <1>9, <1>10, <1>11
       DEF Next, FiberNext, SyncVault, SyncReceipts, ledgerVars, vars

LEMMA StandingInit == Init => Standing
  <1> SUFFICES ASSUME Init PROVE BothStand
    BY DEF Standing
  <1>1. /\ disk = ledger /\ ledger.requests = <<>> /\ ledger.live = None
        /\ ledger.positions = <<>> /\ ledger.reservations = <<>>
    BY DEF Init, LedgerInit
  <1>2. ledger \in Ledgers
    BY ServiceInit DEF ServiceInv, LedgersInv, Sound
  <1>3. Backed(<<>>, <<>>)
    <2>1. ASSUME NEW S PROVE Owed(<<>>, S) = 0
      <3> DEFINE f == [i \in DOMAIN <<>> |-> Part(<<>>[i], S)]
      <3>1. SumFunctionOnSet(f, {}) = 0
        BY SumEmpty
      <3>2. DOMAIN <<>> = {}
        OBVIOUS
      <3> QED
        BY <3>1, <3>2 DEF Owed
    <2>2. ASSUME NEW field PROVE Total(<<>>, field) = 0
      <3>1. Len(<<>>) + 1 \in Nat /\ (Len(<<>>) + 1) - 1 = 0
        OBVIOUS
      <3> QED
        BY <3>1, BeforeFirst DEF Total
    <2> QED
      BY <2>1, <2>2 DEF Backed
  <1>4. Aligned(ledger) /\ OpenIn(ledger) = {}
    BY <1>1 DEF Aligned, OpenIn
  <1>5. StandsAlone(ledger)
    BY <1>1, <1>2, <1>3, <1>4 DEF StandsAlone, Rest, Deployed
  <1> QED
    BY <1>1, <1>5 DEF BothStand

LEMMA SpecStanding == Spec => [](ServiceInv /\ Standing)
  <1>1. Init => ServiceInv /\ Standing
    BY ServiceInit, StandingInit
  <1>2. ServiceInv /\ Standing /\ [Next]_vars => ServiceInv' /\ Standing'
    BY ServiceNext, StandingNext DEF Served
  <1> QED
    BY <1>1, <1>2, PTL DEF Spec

----------------------------------------------------------------------------
(***************************************************************************)
(* The properties.                                                         *)
(***************************************************************************)
LEMMA AmountSum ==
    ASSUME NEW S, IsFiniteSet(S), NEW rs
    PROVE  MapThenSumSet(LAMBDA i : rs[i].amount, S)
              = SumFunctionOnSet([i \in S |-> rs[i].amount], S)
  <1> DEFINE part(i) == rs[i].amount
             f == [i \in S |-> part(i)]
             P(g) == g = [T \in SUBSET S |->
                             IF T = {} THEN 0
                             ELSE part(Chosen(T)) + g[T \ {Chosen(T)}]]
  <1>1. MapThenSumSet(LAMBDA i : rs[i].amount, S) = (CHOOSE g : P(g))[S]
    BY DEF MapThenSumSet, MapThenFoldSet, Chosen
  <1> HIDE DEF part
  <1>2. \A T \in SUBSET S : T # {} => f[Chosen(T)] = part(Chosen(T))
    BY ChosenIn
  <1>3. \A g : Sums(f, g, S) <=> P(g)
    BY <1>2 DEF Sums
  <1> HIDE DEF f, P
  <1>4. PICK h : Sums(f, h, S)
    BY SumsExist
  <1>5. Sums(f, CHOOSE x : P(x), S)
    BY <1>3, <1>4
  <1>6. SumFunctionOnSet(f, S) = (CHOOSE g : P(g))[S]
    BY <1>5, SumIs
  <1> QED
    BY <1>1, <1>6 DEF f, part

\* What is outstanding is what the unreleased reservations owe.
LEMMA OutstandingIs ==
    ASSUME ledger \in Ledgers
    PROVE  Outstanding = Owed(ledger.reservations, Unreleased)
  <1> DEFINE rs == ledger.reservations
             D == DOMAIN rs
             T == {i \in D : rs[i].status # "Released"}
             f == [i \in D |-> Part(rs[i], Unreleased)]
             g == [i \in T |-> rs[i].amount]
  <1>1. IsFiniteSet(D) /\ \A i \in D : rs[i] \in ReservationEntries
    BY LedgerHas, DomainSeq
  <1>2. IsFiniteSet(T) /\ T \in SUBSET D
    BY <1>1, FS_Subset
  <1>3. \A x \in ReservationEntries :
           /\ x.amount \in Int
           /\ x.status # "Released" <=> x.status \in Unreleased
    BY DEF ReservationEntries, Unreleased
  <1>4. \A i \in T : f[i] = g[i] /\ f[i] \in Int
    BY <1>1, <1>3 DEF Part
  <1>5. \A i \in D \ T : f[i] = 0
    BY <1>1, <1>3 DEF Part
  <1>6. Outstanding = SumFunctionOnSet(g, T)
    BY <1>2, AmountSum DEF Outstanding
  <1>7. Owed(rs, Unreleased) = SumFunctionOnSet(f, D)
    BY DEF Owed
  <1> HIDE DEF D, T, f, g
  <1>8. SumFunctionOnSet(f, D) = SumFunctionOnSet(f, T)
    BY <1>1, <1>2, <1>4, <1>5, SumRest
  <1>9. SumFunctionOnSet(f, T) = SumFunctionOnSet(g, T)
    BY <1>2, <1>4, SumSame
  <1> QED
    BY <1>6, <1>7, <1>8, <1>9

(***************************************************************************)
(* Where the ledger stands alone, no CKB of a provider is locked or lent   *)
(* out without a reservation that accounts for it.  More is needed to keep *)
(* it: what is locked alone is within the reservations that lock, so that  *)
(* a release takes nothing that an open channel still uses, and the        *)
(* reservation of an open channel is deployed, so that a settlement gives  *)
(* back no more than was lent.                                             *)
(***************************************************************************)
THEOREM ReservesBackedHolds == Spec => []ReservesBacked
  <1>1. ASSUME ServiceInv, Standing PROVE ReservesBacked
    <2> SUFFICES ASSUME ~config.rpc, OneEntryEach
                 PROVE  Total(ledger.positions, "reserved")
                          + Total(ledger.positions, "deployed") <= Outstanding
      BY DEF ReservesBacked
    <2>1. ledger \in Ledgers
      BY <1>1 DEF ServiceInv, LedgersInv, Sound
    <2>2. Rest(ledger, OpenIn(ledger)) /\ One(ledger)
      BY <1>1 DEF Standing, BothStand, StandsAlone, OneEntryEach, OneEach, One
    <2>3. Backed(ledger.positions, ledger.reservations)
      BY <2>2 DEF Rest
    <2> QED
      BY <2>1, <2>3, OutstandingIs DEF Backed
  <1> QED
    BY <1>1, SpecStanding, PTL

(***************************************************************************)
(* Where the ledger stands alone, with one entry for each request, the     *)
(* reservation of an open channel is deployed, in memory and in the file   *)
(* that a restart reads, whatever retries, late answers, repairs and       *)
(* passes of the watcher came before: every handler that opens a channel   *)
(* marks its reservation, and none marks it otherwise while the channel    *)
(* stays open.                                                             *)
(***************************************************************************)
THEOREM OpenIsDeployedHolds == Spec => []OpenIsDeployed
  <1>1. ASSUME ServiceInv, Standing PROVE OpenIsDeployed
    <2> SUFFICES ASSUME ~config.rpc, NEW l \in {ledger, disk}, OneEach(l),
                        NEW i \in DOMAIN l.requests,
                        l.requests[i].status = "ChannelOpen"
                 PROVE  l.reservations[First(l.reservations,
                                             l.requests[i].id)].status = "Deployed"
      BY DEF OpenIsDeployed
    <2> DEFINE r == l.requests[i].id
    <2>1. Rest(l, OpenIn(l)) /\ One(l)
      BY <1>1 DEF Standing, BothStand, StandsAlone, OneEach, One
    <2>2. Knows(l, r)
      BY DEF Knows
    <2>3. First(l.reservations, r) = i
      BY <2>1, <2>2, PlaceIs
    <2>4. l.reservations[i].status = "Deployed"
      BY <2>1 DEF Rest, Deployed, OpenIn
    <2> QED
      BY <2>3, <2>4
  <1> QED
    BY <1>1, SpecStanding, PTL

=============================================================================
