---------------------------- MODULE LedgerProofs ----------------------------
(***************************************************************************)
(* What holds of the service's ledger for every number of providers and    *)
(* merchants, every setting, every amount, and any number of calls,        *)
(* handoffs, builders and channels at once.                                *)
(*                                                                         *)
(* Most handlers only follow: they move balances between the positions and *)
(* change the statuses of requests, but keep every intent, every position  *)
(* and every request.  That is shown once per operator and composed.       *)
(***************************************************************************)
EXTENDS VaultExecutor, VaultProofs, SequenceTheorems

\* A position, and one whose balances add up and whose fees suffice.
PositionRecords ==
    [receipt : Positions, supplied : Nat, available : Nat, reserved : Nat,
     deployed : Nat, earned : Nat, claimed : Nat, point : Hashes \cup {None},
     active : BOOLEAN]
PositionEntries ==
    {p \in PositionRecords :
        /\ p.available + p.reserved + p.deployed = p.supplied
        /\ ~p.active => p.supplied = 0
        /\ p.claimed <= p.earned}
RequestEntries ==
    [id : Requests, amount : Nat, hash : Hashes \cup {None},
     cell : Hashes \cup {None}, peer : BOOLEAN,
     status : {"Requested", "FundingRequired", "FundingSubmitted",
               "PendingFiberChannel", "ChannelOpen", "Failed", "Expired",
               "Released", "Settled"},
     temporary : Nat \cup {None}, channel : Nat \cup {None},
     funding : Hashes \cup {None}]
ReservationEntries ==
    [id : Requests, amount : Nat,
     status : {"Reserved", "Deployed", "Released", "Failed"}]
JobStatuses ==
    {"Queued", "Preparing", "AwaitingVaultFunding",
     "AwaitingFundingConfirmation", "ChannelActive", "ChannelSettled",
     "RetryableFailed", "TerminalFailed", "Released"}
JobErrors == {"none", "timeout", "other"}
JobEntries == [status : JobStatuses, attempts : Nat, error : JobErrors]
FundingStatuses ==
    {"BuilderRequired", "FundingSubmitted", "ChannelActive", "Failed"}
FundingEntries ==
    [status : FundingStatuses, tx : Hashes \cup {None},
     point : Hashes \cup {None}]
Totals == [reserved : Nat, deployed : Nat, available : Nat]

Supplies == [Positions -> SupplyIntents \cup {None}]
WithdrawalIntents == [Withdrawals -> PayoutIntents(Amounts) \cup {None}]
ClaimIntents == [Claims -> PayoutIntents(Fees) \cup {None}]
Intents == [Requests -> RequestIntents \cup {None}]
Jobs == [Requests -> JobEntries \cup {None}]
Fundings == [Requests -> FundingEntries \cup {None}]

Ledgers ==
    [supplies     : Supplies,
     positions    : Seq(PositionEntries),
     withdrawals  : WithdrawalIntents,
     claims       : ClaimIntents,
     intents      : Intents,
     requests     : Seq(RequestEntries),
     reservations : Seq(ReservationEntries),
     jobs         : Jobs,
     funding      : Fundings,
     live         : Totals \cup {None}]

----------------------------------------------------------------------------
(***************************************************************************)
(* Sequences.                                                              *)
(***************************************************************************)
LEMMA MapSeq ==
    ASSUME NEW S, NEW s \in Seq(S), NEW T,
           NEW f, f = [i \in DOMAIN s |-> f[i]], \A i \in DOMAIN s : f[i] \in T
    PROVE  f \in Seq(T) /\ DOMAIN f = DOMAIN s /\ Len(f) = Len(s)
  OBVIOUS

LEMMA AppendSeq ==
    ASSUME NEW S, NEW s \in Seq(S), NEW x \in S
    PROVE  /\ Append(s, x) \in Seq(S)
           /\ DOMAIN Append(s, x) = DOMAIN s \cup {Len(s) + 1}
           /\ Append(s, x)[Len(s) + 1] = x
           /\ \A i \in DOMAIN s : Append(s, x)[i] = s[i]
  OBVIOUS

LEMMA DomainSeq ==
    ASSUME NEW S, NEW s \in Seq(S)
    PROVE  /\ Len(s) \in Nat /\ DOMAIN s = 1..Len(s) /\ DOMAIN s \subseteq Nat
           /\ IsFiniteSet(DOMAIN s)
           /\ \A i \in DOMAIN s : s[i] \in S
  <1>1. Len(s) \in Nat /\ DOMAIN s = 1..Len(s) /\ \A i \in DOMAIN s : s[i] \in S
    OBVIOUS
  <1>2. IsFiniteSet(1..Len(s))
    BY <1>1, FS_Interval
  <1> QED
    BY <1>1, <1>2

LEMMA UpdateSeq ==
    ASSUME NEW S, NEW s \in Seq(S), NEW i, NEW x, i \in DOMAIN s => x \in S
    PROVE  /\ [s EXCEPT ![i] = x] \in Seq(S)
           /\ DOMAIN [s EXCEPT ![i] = x] = DOMAIN s
           /\ \A j \in DOMAIN s :
                 [s EXCEPT ![i] = x][j] = IF j = i THEN x ELSE s[j]
  <1> DEFINE t == [s EXCEPT ![i] = x]
  <1>1. DOMAIN t = DOMAIN s
    OBVIOUS
  <1>2. \A j \in DOMAIN s : t[j] = IF j = i THEN x ELSE s[j]
    OBVIOUS
  <1>3. \A j \in DOMAIN s : t[j] \in S
    BY <1>2, DomainSeq
  <1>4. t = [j \in DOMAIN s |-> t[j]]
    OBVIOUS
  <1> HIDE DEF t
  <1>5. t \in Seq(S)
    BY <1>3, <1>4, MapSeq
  <1> QED
    BY <1>1, <1>2, <1>5 DEF t

\* The first entry of an id.
LEMMA FirstIs ==
    ASSUME NEW S, NEW s \in Seq(S), NEW id, Indices(s, id) # {}
    PROVE  First(s, id) \in DOMAIN s /\ s[First(s, id)].id = id
  <1>1. Indices(s, id) \subseteq Nat
    BY DomainSeq DEF Indices
  <1>2. \E i \in Indices(s, id) : \A j \in Indices(s, id) : i <= j
    BY <1>1, LeastNumber
  <1>3. First(s, id) \in Indices(s, id)
    BY <1>2 DEF First
  <1> QED
    BY <1>3 DEF Indices
----------------------------------------------------------------------------
(***************************************************************************)
(* What is taken from a position is part of what it has.                   *)
(***************************************************************************)
\* The positions' entries in one of their balances.
Naturals(ps, field) == \A i \in DOMAIN ps : ps[i][field] \in Nat

LEMMA BalancesNatural ==
    ASSUME NEW ps \in Seq(PositionEntries)
    PROVE  /\ Naturals(ps, "supplied") /\ Naturals(ps, "available")
           /\ Naturals(ps, "reserved") /\ Naturals(ps, "deployed")
  <1>1. \A i \in DOMAIN ps : ps[i] \in PositionEntries
    BY DomainSeq
  <1>2. \A p \in PositionEntries :
            /\ p["supplied"] \in Nat /\ p["available"] \in Nat
            /\ p["reserved"] \in Nat /\ p["deployed"] \in Nat
    BY DEF PositionEntries, PositionRecords
  <1> QED
    BY <1>1, <1>2 DEF Naturals

LEMMA IndexSum ==
    ASSUME NEW S, IsFiniteSet(S), NEW ps, NEW field
    PROVE  MapThenSumSet(LAMBDA j : ps[j][field], S)
              = SumFunctionOnSet([j \in S |-> ps[j][field]], S)
  <1> DEFINE f == [j \in S |-> ps[j][field]]
             P(g) == g = [T \in SUBSET S |->
                             IF T = {} THEN 0
                             ELSE ps[Chosen(T)][field] + g[T \ {Chosen(T)}]]
  <1>1. MapThenSumSet(LAMBDA j : ps[j][field], S) = (CHOOSE g : P(g))[S]
    BY DEF MapThenSumSet, MapThenFoldSet, Chosen
  <1>2. \A T \in SUBSET S : T # {} => f[Chosen(T)] = ps[Chosen(T)][field]
    BY ChosenIn
  <1>3. \A g : Sums(f, g, S) <=> P(g)
    BY <1>2 DEF Sums
  <1> HIDE DEF f, P
  <1>4. PICK h : Sums(f, h, S)
    BY SumsExist
  <1>5. Sums(f, CHOOSE x : P(x), S)
    BY <1>3, <1>4
  <1> QED
    BY <1>1, <1>5, SumIs DEF f

LEMMA SumBeforeNat ==
    ASSUME NEW S, NEW ps \in Seq(S), NEW field, Naturals(ps, field),
           NEW i \in DOMAIN ps \cup {Len(ps) + 1}
    PROVE  SumBefore(ps, i, field) \in Nat
  <1> DEFINE T == {j \in 1..(i - 1) : ps[j].active}
             f == [j \in T |-> ps[j][field]]
  <1>1. Len(ps) \in Nat /\ DOMAIN ps = 1..Len(ps)
    BY DomainSeq
  <1>2. i \in 1..(Len(ps) + 1)
    BY <1>1
  <1>3. 1..(i - 1) \subseteq DOMAIN ps /\ IsFiniteSet(1..(i - 1))
    <2>1. i - 1 \in Int
      BY <1>1, <1>2
    <2>2. IsFiniteSet(1..(i - 1))
      BY <2>1, FS_Interval
    <2> QED
      BY <1>1, <1>2, <2>2
  <1>4. IsFiniteSet(T) /\ \A j \in T : f[j] \in Nat
    BY <1>3, FS_Subset DEF Naturals
  <1>5. SumBefore(ps, i, field) = SumFunctionOnSet(f, T)
    BY <1>4, IndexSum DEF SumBefore
  <1> HIDE DEF T, f
  <1> QED
    BY <1>4, <1>5, SumNat

LEMMA TakenWithin ==
    ASSUME NEW S, NEW ps \in Seq(S), NEW field, Naturals(ps, field),
           NEW i \in DOMAIN ps, NEW amount \in Nat
    PROVE  Taken(ps, i, field, amount) \in Nat
           /\ Taken(ps, i, field, amount) <= ps[i][field]
  <1>1. SumBefore(ps, i, field) \in Nat
    BY SumBeforeNat
  <1>2. ps[i][field] \in Nat
    BY DEF Naturals
  <1>3. Sat(amount, SumBefore(ps, i, field)) \in Nat
    BY <1>1 DEF Sat
  <1> QED
    BY <1>2, <1>3 DEF Taken, Least
----------------------------------------------------------------------------
(***************************************************************************)
(* Steps that keep every position: its receipt, and the cell it points to  *)
(* unless the chain shows a newer one of the same receipt (without a node  *)
(* the ledger believes whatever it is told).                               *)
(***************************************************************************)
\* The transaction makes a cell of this receipt.
MadeFor(h, p) ==
    \/ h = <<"supply", p>>
    \/ \E w \in Withdrawals : h = <<"withdraw", w>> /\ WithdrawnFrom[w] = p
    \/ \E c \in Claims : h = <<"claim", c>> /\ ReceiptOf[c] = p
Owned(position) ==
    config.rpc /\ position.point # None =>
        MadeFor(position.point, position.receipt)

Steady(ps, qs) ==
    /\ qs \in Seq(PositionEntries) /\ DOMAIN ps \subseteq DOMAIN qs
    /\ \A i \in DOMAIN ps : qs[i].receipt = ps[i].receipt
    /\ \A i \in DOMAIN qs : \/ i \in DOMAIN ps /\ qs[i].point = ps[i].point
                            \/ Owned(qs[i])

LEMMA SteadySame ==
    ASSUME NEW ps \in Seq(PositionEntries) PROVE Steady(ps, ps)
  BY DEF Steady

LEMMA SteadyTwice ==
    ASSUME NEW ps, NEW qs, NEW rs, Steady(ps, qs), Steady(qs, rs)
    PROVE  Steady(ps, rs)
  <1>1. /\ rs \in Seq(PositionEntries) /\ DOMAIN ps \subseteq DOMAIN rs
        /\ \A i \in DOMAIN ps : rs[i].receipt = ps[i].receipt
    BY DEF Steady
  <1>2. ASSUME NEW i \in DOMAIN rs
        PROVE  (i \in DOMAIN ps /\ rs[i].point = ps[i].point) \/ Owned(rs[i])
    <2>1. CASE Owned(rs[i])
      BY <2>1
    <2>2. CASE i \in DOMAIN qs /\ rs[i].point = qs[i].point
      <3>1. rs[i].receipt = qs[i].receipt
        BY <2>2 DEF Steady
      <3>2. (i \in DOMAIN ps /\ qs[i].point = ps[i].point) \/ Owned(qs[i])
        BY <2>2 DEF Steady
      <3> QED
        BY <2>2, <3>1, <3>2 DEF Owned
    <2> QED
      BY <2>1, <2>2 DEF Steady
  <1> QED
    BY <1>1, <1>2 DEF Steady

\* One position changed, and keeps its receipt and its point.
LEMMA SteadyMap ==
    ASSUME NEW ps \in Seq(PositionEntries),
           NEW qs, qs = [i \in DOMAIN ps |-> qs[i]],
           \A i \in DOMAIN ps :
              /\ qs[i] \in PositionEntries
              /\ qs[i].receipt = ps[i].receipt /\ qs[i].point = ps[i].point
    PROVE  Steady(ps, qs)
  BY MapSeq DEF Steady

\* An amount moves from one balance of a position to another.
LEMMA ReserveOne ==
    ASSUME NEW p \in PositionEntries, NEW t \in Nat, t <= p.available,
           NEW q, q = [p EXCEPT !["available"] = @ - t, !["reserved"] = @ + t]
    PROVE  q \in PositionEntries /\ q.receipt = p.receipt /\ q.point = p.point
  BY DEF PositionEntries, PositionRecords

LEMMA DeployOne ==
    ASSUME NEW p \in PositionEntries, NEW t \in Nat, t <= p.reserved,
           NEW q, q = [p EXCEPT !["reserved"] = @ - t, !["deployed"] = @ + t]
    PROVE  q \in PositionEntries /\ q.receipt = p.receipt /\ q.point = p.point
  BY DEF PositionEntries, PositionRecords

LEMMA UndeployOne ==
    ASSUME NEW p \in PositionEntries, NEW t \in Nat, t <= p.deployed,
           NEW q, q = [p EXCEPT !["deployed"] = @ - t, !["reserved"] = @ + t]
    PROVE  q \in PositionEntries /\ q.receipt = p.receipt /\ q.point = p.point
  BY DEF PositionEntries, PositionRecords

LEMMA ReleaseOne ==
    ASSUME NEW p \in PositionEntries, NEW t \in Nat, t <= p.reserved,
           NEW q, q = [p EXCEPT !["reserved"] = @ - t, !["available"] = @ + t]
    PROVE  q \in PositionEntries /\ q.receipt = p.receipt /\ q.point = p.point
  BY DEF PositionEntries, PositionRecords

LEMMA SettleOne ==
    ASSUME NEW p \in PositionEntries, NEW t \in Nat, t <= p.deployed,
           NEW q, q = [p EXCEPT !["deployed"] = @ - t, !["available"] = @ + t]
    PROVE  q \in PositionEntries /\ q.receipt = p.receipt /\ q.point = p.point
  BY DEF PositionEntries, PositionRecords

LEMMA ReserveSteady ==
    ASSUME NEW ps \in Seq(PositionEntries), NEW amount \in Nat
    PROVE  Steady(ps, Move(ps, "available", "reserved", amount))
  <1> DEFINE taken(i) == Taken(ps, i, "available", amount)
             qs == Move(ps, "available", "reserved", amount)
  <1>1. ASSUME NEW i \in DOMAIN ps
        PROVE  /\ qs[i] \in PositionEntries
               /\ qs[i].receipt = ps[i].receipt /\ qs[i].point = ps[i].point
    <2>1. ps[i] \in PositionEntries
      BY DomainSeq
    <2>2. taken(i) \in Nat /\ taken(i) <= ps[i]["available"]
      BY BalancesNatural, TakenWithin
    <2>3. taken(i) <= ps[i].available
      BY <2>2
    <2>4. qs[i] = [ps[i] EXCEPT !["available"] = @ - taken(i),
                                !["reserved"] = @ + taken(i)]
      BY DEF Move
    <2> HIDE DEF taken, qs
    <2> QED
      BY ZenonT(30), <2>1, <2>2, <2>3, <2>4, ReserveOne
  <1>2. qs = [i \in DOMAIN ps |-> qs[i]]
    BY DEF Move
  <1> HIDE DEF qs
  <1> QED
    BY <1>1, <1>2, SteadyMap DEF qs

LEMMA DeploySteady ==
    ASSUME NEW ps \in Seq(PositionEntries), NEW amount \in Nat
    PROVE  Steady(ps, Move(ps, "reserved", "deployed", amount))
  <1> DEFINE taken(i) == Taken(ps, i, "reserved", amount)
             qs == Move(ps, "reserved", "deployed", amount)
  <1>1. ASSUME NEW i \in DOMAIN ps
        PROVE  /\ qs[i] \in PositionEntries
               /\ qs[i].receipt = ps[i].receipt /\ qs[i].point = ps[i].point
    <2>1. ps[i] \in PositionEntries
      BY DomainSeq
    <2>2. taken(i) \in Nat /\ taken(i) <= ps[i]["reserved"]
      BY BalancesNatural, TakenWithin
    <2>3. taken(i) <= ps[i].reserved
      BY <2>2
    <2>4. qs[i] = [ps[i] EXCEPT !["reserved"] = @ - taken(i),
                                !["deployed"] = @ + taken(i)]
      BY DEF Move
    <2> HIDE DEF taken, qs
    <2> QED
      BY ZenonT(30), <2>1, <2>2, <2>3, <2>4, DeployOne
  <1>2. qs = [i \in DOMAIN ps |-> qs[i]]
    BY DEF Move
  <1> HIDE DEF qs
  <1> QED
    BY <1>1, <1>2, SteadyMap DEF qs

LEMMA UndeploySteady ==
    ASSUME NEW ps \in Seq(PositionEntries), NEW amount \in Nat
    PROVE  Steady(ps, Move(ps, "deployed", "reserved", amount))
  <1> DEFINE taken(i) == Taken(ps, i, "deployed", amount)
             qs == Move(ps, "deployed", "reserved", amount)
  <1>1. ASSUME NEW i \in DOMAIN ps
        PROVE  /\ qs[i] \in PositionEntries
               /\ qs[i].receipt = ps[i].receipt /\ qs[i].point = ps[i].point
    <2>1. ps[i] \in PositionEntries
      BY DomainSeq
    <2>2. taken(i) \in Nat /\ taken(i) <= ps[i]["deployed"]
      BY BalancesNatural, TakenWithin
    <2>3. taken(i) <= ps[i].deployed
      BY <2>2
    <2>4. qs[i] = [ps[i] EXCEPT !["deployed"] = @ - taken(i),
                                !["reserved"] = @ + taken(i)]
      BY DEF Move
    <2> HIDE DEF taken, qs
    <2> QED
      BY ZenonT(30), <2>1, <2>2, <2>3, <2>4, UndeployOne
  <1>2. qs = [i \in DOMAIN ps |-> qs[i]]
    BY DEF Move
  <1> HIDE DEF qs
  <1> QED
    BY <1>1, <1>2, SteadyMap DEF qs

LEMMA ReleaseSteady ==
    ASSUME NEW ps \in Seq(PositionEntries), NEW amount \in Nat
    PROVE  Steady(ps, Move(ps, "reserved", "available", amount))
  <1> DEFINE taken(i) == Taken(ps, i, "reserved", amount)
             qs == Move(ps, "reserved", "available", amount)
  <1>1. ASSUME NEW i \in DOMAIN ps
        PROVE  /\ qs[i] \in PositionEntries
               /\ qs[i].receipt = ps[i].receipt /\ qs[i].point = ps[i].point
    <2>1. ps[i] \in PositionEntries
      BY DomainSeq
    <2>2. taken(i) \in Nat /\ taken(i) <= ps[i]["reserved"]
      BY BalancesNatural, TakenWithin
    <2>3. taken(i) <= ps[i].reserved
      BY <2>2
    <2>4. qs[i] = [ps[i] EXCEPT !["reserved"] = @ - taken(i),
                                !["available"] = @ + taken(i)]
      BY DEF Move
    <2> HIDE DEF taken, qs
    <2> QED
      BY ZenonT(30), <2>1, <2>2, <2>3, <2>4, ReleaseOne
  <1>2. qs = [i \in DOMAIN ps |-> qs[i]]
    BY DEF Move
  <1> HIDE DEF qs
  <1> QED
    BY <1>1, <1>2, SteadyMap DEF qs

LEMMA SettleSteady ==
    ASSUME NEW ps \in Seq(PositionEntries), NEW amount \in Nat
    PROVE  Steady(ps, Move(ps, "deployed", "available", amount))
  <1> DEFINE taken(i) == Taken(ps, i, "deployed", amount)
             qs == Move(ps, "deployed", "available", amount)
  <1>1. ASSUME NEW i \in DOMAIN ps
        PROVE  /\ qs[i] \in PositionEntries
               /\ qs[i].receipt = ps[i].receipt /\ qs[i].point = ps[i].point
    <2>1. ps[i] \in PositionEntries
      BY DomainSeq
    <2>2. taken(i) \in Nat /\ taken(i) <= ps[i]["deployed"]
      BY BalancesNatural, TakenWithin
    <2>3. taken(i) <= ps[i].deployed
      BY <2>2
    <2>4. qs[i] = [ps[i] EXCEPT !["deployed"] = @ - taken(i),
                                !["available"] = @ + taken(i)]
      BY DEF Move
    <2> HIDE DEF taken, qs
    <2> QED
      BY ZenonT(30), <2>1, <2>2, <2>3, <2>4, SettleOne
  <1>2. qs = [i \in DOMAIN ps |-> qs[i]]
    BY DEF Move
  <1> HIDE DEF qs
  <1> QED
    BY <1>1, <1>2, SteadyMap DEF qs
----------------------------------------------------------------------------
(***************************************************************************)
(* The shares of a fee: rounded down for every position, the rest to the   *)
(* last.  Together they are no more than the fee, so none is negative.     *)
(***************************************************************************)
LEMMA BeforeNext ==
    ASSUME NEW S, NEW ps \in Seq(S), NEW field, Naturals(ps, field),
           NEW i \in DOMAIN ps
    PROVE  SumBefore(ps, i + 1, field)
              = SumBefore(ps, i, field)
                  + (IF ps[i].active THEN ps[i][field] ELSE 0)
  <1> DEFINE T(k) == {j \in 1..(k - 1) : ps[j].active}
             f(k) == [j \in T(k) |-> ps[j][field]]
             F == [j \in 1..Len(ps) |-> ps[j][field]]
  <1>1. Len(ps) \in Nat /\ DOMAIN ps = 1..Len(ps) /\ i \in 1..Len(ps)
    BY DomainSeq
  <1>2. ASSUME NEW k \in 1..(Len(ps) + 1)
        PROVE  /\ IsFiniteSet(T(k)) /\ T(k) \subseteq 1..Len(ps)
               /\ SumBefore(ps, k, field) = SumFunctionOnSet(F, T(k))
    <2>1. k - 1 \in Int /\ 1..(k - 1) \subseteq 1..Len(ps)
      BY <1>1
    <2>2. IsFiniteSet(1..(k - 1))
      BY <2>1, FS_Interval
    <2>3. IsFiniteSet(T(k)) /\ T(k) \subseteq 1..Len(ps)
      BY <2>1, <2>2, FS_Subset
    <2>4. SumBefore(ps, k, field) = SumFunctionOnSet(f(k), T(k))
      BY <2>3, IndexSum DEF SumBefore
    <2>5. \A j \in T(k) : f(k)[j] = F[j]
      BY <2>3
    <2> HIDE DEF T, f, F
    <2>6. SumFunctionOnSet(f(k), T(k)) = SumFunctionOnSet(F, T(k))
      BY <2>3, <2>5, SumSame
    <2> QED
      BY <2>3, <2>4, <2>6
  <1>3. i \in 1..(Len(ps) + 1) /\ i + 1 \in 1..(Len(ps) + 1)
    BY <1>1
  <1>4. i \notin T(i) /\ T(i + 1) = IF ps[i].active THEN T(i) \cup {i} ELSE T(i)
    BY <1>1
  <1>5. \A j \in 1..Len(ps) : F[j] \in Int
    BY <1>1 DEF Naturals
  <1>6. F[i] = ps[i][field]
    BY <1>1
  <1>7. SumBefore(ps, i, field) \in Int
    <2>1. SumBefore(ps, i, field) \in Nat
      BY SumBeforeNat
    <2> QED
      BY <2>1
  <1>8. /\ IsFiniteSet(T(i)) /\ T(i) \subseteq 1..Len(ps)
        /\ SumBefore(ps, i, field) = SumFunctionOnSet(F, T(i))
        /\ SumBefore(ps, i + 1, field) = SumFunctionOnSet(F, T(i + 1))
    BY <1>2, <1>3
  <1> HIDE DEF T, f, F
  <1>9. CASE ps[i].active
    <2>1. \A j \in T(i) \cup {i} : F[j] \in Int
      BY <1>1, <1>5, <1>8
    <2>2. SumFunctionOnSet(F, T(i) \cup {i}) = F[i] + SumFunctionOnSet(F, T(i))
      BY <1>4, <1>8, <2>1, SumAdd
    <2>3. ps[i][field] \in Int
      BY DEF Naturals
    <2>4. T(i + 1) = T(i) \cup {i}
      BY <1>4, <1>9
    <2>5. SumBefore(ps, i + 1, field) = ps[i][field] + SumBefore(ps, i, field)
      BY <1>6, <1>8, <2>2, <2>4
    <2> QED
      BY <1>7, <1>9, <2>3, <2>5
  <1>10. CASE ~ps[i].active
    BY <1>4, <1>7, <1>8, <1>10
  <1> QED
    BY <1>9, <1>10

LEMMA PartsSum ==
    ASSUME NEW S, IsFiniteSet(S), NEW ps, NEW amount, NEW fee
    PROVE  MapThenSumSet(LAMBDA j : FeePart(ps, j, amount, fee), S)
              = SumFunctionOnSet([j \in S |-> FeePart(ps, j, amount, fee)], S)
  <1> DEFINE part(j) == FeePart(ps, j, amount, fee)
             f == [j \in S |-> part(j)]
             P(g) == g = [T \in SUBSET S |->
                             IF T = {} THEN 0
                             ELSE part(Chosen(T)) + g[T \ {Chosen(T)}]]
  <1>1. MapThenSumSet(LAMBDA j : FeePart(ps, j, amount, fee), S)
           = (CHOOSE g : P(g))[S]
    BY DEF MapThenSumSet, MapThenFoldSet, Chosen
  <1> HIDE DEF part
  <1>2. \A T \in SUBSET S : T # {} => f[Chosen(T)] = part(Chosen(T))
    BY ChosenIn
  <1>3. \A g : Sums(f, g, S) <=> P(g)
    BY <1>2 DEF Sums
  <1> HIDE DEF f, P
  <1>4. PICK h : Sums(f, h, S)
    BY SumsExist
  <1>5. Sums(f, CHOOSE x : P(x), S)
    BY <1>3, <1>4
  <1>6. SumFunctionOnSet(f, S) = (CHOOSE g : P(g))[S]
    BY <1>5, SumIs
  <1> QED
    BY <1>1, <1>6 DEF f, part

LEMMA DivPart ==
    ASSUME NEW a \in Nat \ {0}, NEW x \in Nat
    PROVE  x \div a \in Nat /\ a * (x \div a) <= x
  OBVIOUS

LEMMA TimesLess ==
    ASSUME NEW f \in Nat, NEW s \in Int, NEW t \in Int, s <= t
    PROVE  f * s <= f * t
  OBVIOUS

LEMMA TimesCancel ==
    ASSUME NEW a \in Nat \ {0}, NEW x \in Int, NEW y \in Int, a * x <= a * y
    PROVE  x <= y
  OBVIOUS
\* The parts of the first positions are in proportion to what was taken there.
LEMMA PartsBounded ==
    ASSUME NEW ps \in Seq(PositionEntries), NEW amount \in Nat \ {0},
           NEW fee \in Nat, NEW k \in 1..(Len(ps) + 1)
    PROVE  LET parts == MapThenSumSet(LAMBDA j : FeePart(ps, j, amount, fee),
                                      1..(k - 1))
           IN  parts \in Nat
               /\ amount * parts <= fee * SumBefore(ps, k, "available")
  <1> DEFINE f == [j \in 1..Len(ps) |-> FeePart(ps, j, amount, fee)]
             parts(i) == SumFunctionOnSet(f, 1..(i - 1))
             sum(i) == SumBefore(ps, i, "available")
             taken(j) == Taken(ps, j, "available", amount)
  <1>1. Len(ps) \in Nat /\ DOMAIN ps = 1..Len(ps)
    BY DomainSeq
  <1>2. Naturals(ps, "available")
    BY BalancesNatural
  <1>3. ASSUME NEW j \in 1..Len(ps)
        PROVE  /\ f[j] \in Nat /\ amount * f[j] <= fee * taken(j)
               /\ taken(j) \in Nat /\ taken(j) <= ps[j]["available"]
               /\ ~ps[j].active => taken(j) = 0
    <2>1. j \in DOMAIN ps /\ amount \in Nat
      BY <1>1
    <2>2. taken(j) \in Nat /\ taken(j) <= ps[j]["available"]
      BY <1>2, <2>1, TakenWithin
    <2>3. ~ps[j].active => taken(j) = 0
      BY DEF Taken
    <2>4. fee * taken(j) \in Nat
      BY <2>2
    <2>5. f[j] = (fee * taken(j)) \div amount
      BY DEF FeePart
    <2> HIDE DEF taken, f
    <2> QED
      BY <2>2, <2>3, <2>4, <2>5, DivPart
  <1>4. ASSUME NEW i \in 1..(Len(ps) + 1)
        PROVE  /\ IsFiniteSet(1..(i - 1)) /\ 1..(i - 1) \subseteq 1..Len(ps)
               /\ parts(i) \in Nat /\ sum(i) \in Nat
    <2>1. i - 1 \in Int /\ 1..(i - 1) \subseteq 1..Len(ps)
      BY <1>1
    <2>2. IsFiniteSet(1..(i - 1))
      BY <2>1, FS_Interval
    <2>3. \A j \in 1..(i - 1) : f[j] \in Nat
      BY <1>3, <2>1
    <2>4. i \in DOMAIN ps \cup {Len(ps) + 1}
      BY <1>1
    <2>5. sum(i) \in Nat
      BY <1>2, <2>4, SumBeforeNat
    <2> HIDE DEF f, sum
    <2> QED
      BY <2>1, <2>2, <2>3, <2>5, SumNat
  <1> DEFINE W == {i \in 1..(Len(ps) + 1) : ~ (amount * parts(i) <= fee * sum(i))}
  <1>5. W = {}
    <2> SUFFICES ASSUME W # {} PROVE FALSE
      OBVIOUS
    <2>1. W \subseteq Nat
      BY <1>1
    <2>2. PICK i \in W : \A j \in W : i <= j
      <3> HIDE DEF W
      <3> QED
        BY <2>1, LeastNumber
    <2>3. i \in 1..(Len(ps) + 1) /\ ~ (amount * parts(i) <= fee * sum(i))
      BY <2>2
    <2>4. CASE i = 1
      <3>1. 1..(i - 1) = {}
        BY <2>4
      <3>2. parts(i) = 0
        BY <3>1, SumEmpty
      <3>3. sum(i) \in Nat
        BY <1>4, <2>3
      <3>4. amount * 0 <= fee * sum(i)
        BY <3>3
      <3> HIDE DEF parts, sum
      <3> QED
        BY <2>3, <3>2, <3>4
    <2>5. CASE i # 1
      <3> DEFINE j == i - 1
      <3>1. j \in 1..Len(ps) /\ j \in 1..(Len(ps) + 1) /\ j + 1 = i /\ ~ (i <= j)
        BY <1>1, <2>3, <2>5
      <3>2. amount * parts(j) <= fee * sum(j)
        BY <2>2, <3>1
      <3>3. sum(i) = sum(j) + (IF ps[j].active THEN ps[j]["available"] ELSE 0)
        <4>1. j \in DOMAIN ps
          BY <1>1, <3>1
        <4>2. sum(j + 1) = sum(j) + (IF ps[j].active THEN ps[j]["available"] ELSE 0)
          BY <1>2, <4>1, BeforeNext
        <4> QED
          BY <3>1, <4>2
      <3>4. parts(i) = f[j] + parts(j)
        <4>1. 1..(i - 1) = 1..(j - 1) \cup {j} /\ j \notin 1..(j - 1)
          BY <3>1
        <4>2. IsFiniteSet(1..(j - 1)) /\ \A x \in 1..(j - 1) \cup {j} : f[x] \in Int
          <5>1. IsFiniteSet(1..(j - 1)) /\ 1..(j - 1) \subseteq 1..Len(ps)
            BY <1>4, <3>1
          <5>2. \A x \in 1..Len(ps) : f[x] \in Int
            BY <1>3
          <5> HIDE DEF f
          <5> QED
            BY <3>1, <5>1, <5>2
        <4> HIDE DEF f, j
        <4> QED
          BY <4>1, <4>2, SumAdd
      <3>5. sum(i) >= sum(j) + taken(j)
        <4>1. sum(j) \in Nat /\ sum(i) \in Nat
          BY <1>4, <2>3, <3>1
        <4>2. ps[j]["available"] \in Nat
          BY <1>1, <1>2, <3>1 DEF Naturals
        <4>3. /\ taken(j) \in Nat /\ taken(j) <= ps[j]["available"]
              /\ ~ps[j].active => taken(j) = 0
          BY <1>3, <3>1
        <4> HIDE DEF sum, taken, j
        <4> QED
          BY SMTT(30), <3>3, <4>1, <4>2, <4>3
      <3>6. /\ parts(j) \in Nat /\ sum(j) \in Nat /\ sum(i) \in Nat
            /\ f[j] \in Nat /\ taken(j) \in Nat /\ amount * f[j] <= fee * taken(j)
        BY <1>3, <1>4, <2>3, <3>1
      <3> HIDE DEF parts, sum, f, taken, j
      <3>7. fee * (sum(j) + taken(j)) <= fee * sum(i)
        BY <3>5, <3>6, TimesLess
      <3>8. /\ amount * (f[j] + parts(j)) = amount * f[j] + amount * parts(j)
            /\ fee * (sum(j) + taken(j)) = fee * sum(j) + fee * taken(j)
        BY SMTT(30), <3>6
      <3>9. /\ amount * f[j] \in Int /\ amount * parts(j) \in Int
            /\ fee * sum(j) \in Int /\ fee * taken(j) \in Int
            /\ fee * sum(i) \in Int
        BY SMTT(30), <3>6
      <3>10. amount * f[j] <= fee * taken(j)
        BY <3>6
      <3>11. amount * parts(i) = amount * f[j] + amount * parts(j)
        BY <3>4, <3>8
      <3>12. fee * sum(j) + fee * taken(j) <= fee * sum(i)
        BY <3>7, <3>8
      <3>13. amount * parts(i) <= fee * sum(i)
        <4> DEFINE a == amount * f[j]
                   b == amount * parts(j)
                   c == fee * sum(j)
                   d == fee * taken(j)
                   e == fee * sum(i)
        <4>1. /\ a \in Int /\ b \in Int /\ c \in Int /\ d \in Int /\ e \in Int
              /\ a <= d /\ b <= c /\ c + d <= e
          BY <3>2, <3>9, <3>10, <3>12
        <4> HIDE DEF a, b, c, d, e
        <4>2. a + b <= e
          BY <4>1
        <4> QED
          BY <3>11, <4>2 DEF a, b, e
      <3> QED
        BY <2>3, <3>13
    <2> QED
      BY <2>4, <2>5
  <1>6. MapThenSumSet(LAMBDA j : FeePart(ps, j, amount, fee), 1..(k - 1))
           = parts(k)
    <2> DEFINE g == [j \in 1..(k - 1) |-> FeePart(ps, j, amount, fee)]
    <2>1. IsFiniteSet(1..(k - 1)) /\ 1..(k - 1) \subseteq 1..Len(ps)
      BY <1>4
    <2>2. MapThenSumSet(LAMBDA j : FeePart(ps, j, amount, fee), 1..(k - 1))
             = SumFunctionOnSet(g, 1..(k - 1))
      BY ZenonT(30), <2>1, PartsSum
    <2>3. \A j \in 1..(k - 1) : g[j] = f[j]
      BY <2>1
    <2> HIDE DEF f, g
    <2> QED
      BY <2>1, <2>2, <2>3, SumSame
  <1>7. amount * parts(k) <= fee * sum(k) /\ parts(k) \in Nat
    BY <1>4, <1>5
  <1> HIDE DEF parts, sum, f, W
  <1> QED
    BY <1>6, <1>7 DEF sum

LEMMA FeeShareNat ==
    ASSUME NEW ps \in Seq(PositionEntries), NEW amount \in Nat \ {0},
           NEW fee \in Nat, NEW i \in DOMAIN ps
    PROVE  FeeShare(ps, i, amount, fee) \in Nat
  <1> DEFINE taken == Taken(ps, i, "available", amount)
             before == MapThenSumSet(LAMBDA j : FeePart(ps, j, amount, fee),
                                     1..(i - 1))
             sum == SumBefore(ps, i, "available")
             part == FeePart(ps, i, amount, fee)
  <1>1. i \in 1..(Len(ps) + 1) /\ i \in DOMAIN ps \cup {Len(ps) + 1}
        /\ amount \in Nat
    BY DomainSeq
  <1>2. Naturals(ps, "available")
    BY BalancesNatural
  <1>3. before \in Nat /\ amount * before <= fee * sum
    BY <1>1, PartsBounded
  <1>4. sum \in Nat
    BY <1>1, <1>2, SumBeforeNat
  <1>5. taken \in Nat
    BY <1>1, <1>2, TakenWithin
  <1>6. part \in Nat
    <2>1. part = (fee * taken) \div amount
      BY DEF FeePart
    <2> HIDE DEF taken, part
    <2>2. fee * taken \in Nat
      BY <1>5
    <2> QED
      BY <2>1, <2>2, DivPart
  <1>7. FeeShare(ps, i, amount, fee)
           = IF taken > 0 /\ taken + sum = amount THEN fee - before ELSE part
    BY DEF FeeShare
  <1> HIDE DEF taken, before, sum, part
  <1>8. ASSUME taken + sum = amount PROVE before <= fee
    <2>1. sum <= amount
      BY <1>4, <1>5, <1>8
    <2>2. fee * sum <= fee * amount
      BY <1>4, <2>1, TimesLess
    <2>3. amount * before <= amount * fee
      BY <1>3, <1>4, <2>2
    <2> QED
      BY <1>3, <2>3, TimesCancel
  <1> QED
    BY <1>3, <1>6, <1>7, <1>8
----------------------------------------------------------------------------
(***************************************************************************)
(* Every change of the positions is steady.                                *)
(***************************************************************************)
LEMMA EarnedOne ==
    ASSUME NEW p \in PositionEntries, NEW e \in Nat,
           NEW q, q = [p EXCEPT !.earned = @ + e]
    PROVE  q \in PositionEntries /\ q.receipt = p.receipt /\ q.point = p.point
  BY DEF PositionEntries, PositionRecords

LEMMA FeesSteady ==
    ASSUME NEW ps \in Seq(PositionEntries), NEW amount \in Nat \ {0},
           NEW fee \in Nat
    PROVE  Steady(ps, ReservePositions(ps, amount, fee))
  <1> DEFINE moved == Move(ps, "available", "reserved", amount)
             share(i) == FeeShare(ps, i, amount, fee)
             qs == ReservePositions(ps, amount, fee)
  <1>1. amount \in Nat
    OBVIOUS
  <1>2. Steady(ps, moved) /\ DOMAIN moved = DOMAIN ps
    BY <1>1, ReserveSteady DEF Move
  <1>3. \A i \in DOMAIN ps : share(i) \in Nat
    BY FeeShareNat
  <1>4. qs = [i \in DOMAIN moved |-> [moved[i] EXCEPT !.earned = @ + share(i)]]
    BY <1>2 DEF ReservePositions
  <1> HIDE DEF moved, share, qs
  <1>5. moved \in Seq(PositionEntries)
    BY <1>2 DEF Steady
  <1>6. ASSUME NEW i \in DOMAIN moved
        PROVE  /\ qs[i] \in PositionEntries
               /\ qs[i].receipt = moved[i].receipt /\ qs[i].point = moved[i].point
    <2>1. moved[i] \in PositionEntries /\ share(i) \in Nat
      BY <1>2, <1>3, <1>5, DomainSeq
    <2>2. qs[i] = [moved[i] EXCEPT !.earned = @ + share(i)]
      BY <1>4
    <2> QED
      BY <2>1, <2>2, EarnedOne
  <1>7. qs = [i \in DOMAIN moved |-> qs[i]]
    BY <1>4
  <1>8. Steady(moved, qs)
    BY <1>5, <1>6, <1>7, SteadyMap
  <1> QED
    BY <1>2, <1>8, SteadyTwice DEF qs

\* The nine fields of a changed position.
Position(receiptId, s, a, r, d, e, c, point, active) ==
    [receipt |-> receiptId, supplied |-> s, available |-> a, reserved |-> r,
     deployed |-> d, earned |-> e, claimed |-> c, point |-> point,
     active |-> active]

LEMMA PositionIs ==
    ASSUME NEW p \in Positions, NEW s \in Nat, NEW a \in Nat, NEW r \in Nat,
           NEW d \in Nat, NEW e \in Nat, NEW c \in Nat,
           NEW point \in Hashes \cup {None}, NEW active \in BOOLEAN,
           a + r + d = s, ~active => s = 0, c <= e
    PROVE  Position(p, s, a, r, d, e, c, point, active) \in PositionEntries
  BY DEF Position, PositionEntries, PositionRecords

\* What is known of one.
LEMMA PositionHas ==
    ASSUME NEW p \in PositionEntries
    PROVE  /\ p \in PositionRecords
           /\ p.receipt \in Positions /\ p.supplied \in Nat
           /\ p.available \in Nat /\ p.reserved \in Nat /\ p.deployed \in Nat
           /\ p.earned \in Nat /\ p.claimed \in Nat
           /\ p.point \in Hashes \cup {None} /\ p.active \in BOOLEAN
           /\ p.available + p.reserved + p.deployed = p.supplied
           /\ ~p.active => p.supplied = 0
           /\ p.claimed <= p.earned
  BY DEF PositionEntries, PositionRecords

LEMMA SpreadOne ==
    ASSUME NEW p \in PositionEntries, NEW d \in Nat, NEW r \in Nat, NEW a,
           a = p.supplied - d - r, d <= p.supplied, r <= p.supplied - d
    PROVE  LET q == Position(p.receipt, p.supplied, a, r, d, p.earned,
                             p.claimed, p.point, p.active)
           IN  q \in PositionEntries /\ q.receipt = p.receipt /\ q.point = p.point
  <1> DEFINE x == Position(p.receipt, p.supplied, a, r, d, p.earned, p.claimed,
                           p.point, p.active)
  <1>1. a \in Nat /\ a + r + d = p.supplied
    BY PositionHas
  <1>2. /\ p.receipt \in Positions /\ p.supplied \in Nat /\ p.earned \in Nat
        /\ p.claimed \in Nat /\ p.point \in Hashes \cup {None}
        /\ p.active \in BOOLEAN
        /\ ~p.active => p.supplied = 0
        /\ p.claimed <= p.earned
    BY PositionHas
  <1>3. x \in PositionEntries
    BY <1>1, <1>2, PositionIs
  <1>4. x.receipt = p.receipt /\ x.point = p.point
    BY DEF Position
  <1> QED
    BY <1>3, <1>4

\* What the vault's deployed total leaves of a position.
FreeOf(ps, live, j) ==
    ps[j].supplied - Least(ps[j].supplied,
                           Sat(live.deployed, SumBefore(ps, j, "supplied")))

LEMMA FreeSum ==
    ASSUME NEW S, IsFiniteSet(S), NEW ps, NEW live
    PROVE  MapThenSumSet(LAMBDA j : FreeOf(ps, live, j), S)
              = SumFunctionOnSet([j \in S |-> FreeOf(ps, live, j)], S)
  <1> DEFINE part(j) == FreeOf(ps, live, j)
             f == [j \in S |-> part(j)]
             P(g) == g = [T \in SUBSET S |->
                             IF T = {} THEN 0
                             ELSE part(Chosen(T)) + g[T \ {Chosen(T)}]]
  <1>1. MapThenSumSet(LAMBDA j : FreeOf(ps, live, j), S)
           = (CHOOSE g : P(g))[S]
    BY DEF MapThenSumSet, MapThenFoldSet, Chosen
  <1> HIDE DEF part
  <1>2. \A T \in SUBSET S : T # {} => f[Chosen(T)] = part(Chosen(T))
    BY ChosenIn
  <1>3. \A g : Sums(f, g, S) <=> P(g)
    BY <1>2 DEF Sums
  <1> HIDE DEF f, P
  <1>4. PICK h : Sums(f, h, S)
    BY SumsExist
  <1>5. Sums(f, CHOOSE x : P(x), S)
    BY <1>3, <1>4
  <1>6. SumFunctionOnSet(f, S) = (CHOOSE g : P(g))[S]
    BY <1>5, SumIs
  <1> QED
    BY <1>1, <1>6 DEF f, part

LEMMA SpreadSteady ==
    ASSUME NEW ps \in Seq(PositionEntries), NEW live \in Totals
    PROVE  Steady(ps, Spread(ps, live))
  <1> DEFINE d(i) == Least(ps[i].supplied,
                           Sat(live.deployed, SumBefore(ps, i, "supplied")))
             free(i) == FreeOf(ps, live, i)
             before(i) == MapThenSumSet(LAMBDA j : FreeOf(ps, live, j),
                                        {j \in 1..(i - 1) : ps[j].active})
             r(i) == Least(free(i), Sat(live.reserved, before(i)))
             qs == Spread(ps, live)
  <1>1. live.deployed \in Nat /\ live.reserved \in Nat
    BY DEF Totals
  <1>2. Naturals(ps, "supplied")
    BY BalancesNatural
  <1>3. Len(ps) \in Nat /\ DOMAIN ps = 1..Len(ps)
        /\ \A i \in DOMAIN ps : ps[i] \in PositionEntries
    BY DomainSeq
  <1>4. ASSUME NEW i \in DOMAIN ps
        PROVE  /\ d(i) \in Nat /\ d(i) <= ps[i].supplied
               /\ free(i) = ps[i].supplied - d(i) /\ free(i) \in Nat
    <2>1. SumBefore(ps, i, "supplied") \in Nat
      BY <1>2, SumBeforeNat
    <2>2. ps[i].supplied \in Nat
      BY <1>3 DEF PositionEntries, PositionRecords
    <2>3. free(i) = ps[i].supplied - d(i)
      BY DEF FreeOf
    <2>4. d(i) \in Nat /\ d(i) <= ps[i].supplied
      BY <1>1, <2>1, <2>2 DEF Least, Sat
    <2> HIDE DEF d, free
    <2> QED
      BY <2>2, <2>3, <2>4
  <1>5. ASSUME NEW i \in DOMAIN ps PROVE before(i) \in Nat
    <2> DEFINE T == {j \in 1..(i - 1) : ps[j].active}
    <2>1. i - 1 \in Int /\ 1..(i - 1) \subseteq DOMAIN ps
      BY <1>3
    <2>2. IsFiniteSet(1..(i - 1))
      BY <2>1, FS_Interval
    <2>3. IsFiniteSet(T) /\ T \subseteq DOMAIN ps
      BY <2>1, <2>2, FS_Subset
    <2>4. \A j \in T : FreeOf(ps, live, j) \in Nat
      BY <1>4, <2>3
    <2>5. IsFiniteSet(T)
      BY <2>3
    <2> DEFINE f == [j \in T |-> FreeOf(ps, live, j)]
    <2>6. MapThenSumSet(LAMBDA j : FreeOf(ps, live, j), T)
             = SumFunctionOnSet(f, T)
      BY <2>5, FreeSum
    <2>7. \A j \in T : f[j] \in Nat
      BY <2>4
    <2> HIDE DEF f
    <2>8. SumFunctionOnSet(f, T) \in Nat
      BY <2>5, <2>7, SumNat
    <2> QED
      BY <2>6, <2>8
  <1>6. ASSUME NEW i \in DOMAIN ps
        PROVE  r(i) \in Nat /\ r(i) <= free(i)
    <2>1. free(i) \in Nat /\ before(i) \in Nat
      BY <1>4, <1>5
    <2> HIDE DEF free, before
    <2> QED
      BY <1>1, <2>1 DEF Least, Sat
  <1>7. qs = [i \in DOMAIN ps |->
                IF ps[i].active
                THEN [ps[i] EXCEPT !.deployed = d(i), !.reserved = r(i),
                                   !.available = free(i) - r(i)]
                ELSE ps[i]]
    BY DEF Spread, FreeOf
  <1> HIDE DEF d, free, before, r, qs
  <1>8. ASSUME NEW i \in DOMAIN ps
        PROVE  /\ qs[i] \in PositionEntries
               /\ qs[i].receipt = ps[i].receipt /\ qs[i].point = ps[i].point
    <2>1. CASE ~ps[i].active
      BY <1>3, <1>7, <2>1
    <2>2. CASE ps[i].active
      <3> DEFINE a == ps[i].supplied - d(i) - r(i)
      <3> DEFINE p == ps[i]
                 q == Position(p.receipt, p.supplied, a, r(i), d(i), p.earned,
                               p.claimed, p.point, p.active)
      <3>1. qs[i] = [p EXCEPT !.deployed = d(i), !.reserved = r(i),
                              !.available = a]
        BY <1>4, <1>7, <2>2
      <3>2. p \in PositionEntries /\ d(i) \in Nat /\ r(i) \in Nat
        BY <1>3, <1>4, <1>6
      <3>3. a = p.supplied - d(i) - r(i)
        OBVIOUS
      <3>4. d(i) <= p.supplied /\ r(i) <= p.supplied - d(i)
        BY <1>4, <1>6
      <3> HIDE DEF a, p
      <3>5. p \in PositionRecords
        BY <3>2, PositionHas
      <3>6. qs[i] = q
        BY <3>1, <3>5 DEF Position, PositionRecords
      <3>7. q \in PositionEntries /\ q.receipt = p.receipt /\ q.point = p.point
        BY <3>2, <3>3, <3>4, SpreadOne
      <3> QED
        BY <3>6, <3>7 DEF p
    <2> QED
      BY <2>1, <2>2
  <1>9. qs = [i \in DOMAIN ps |-> qs[i]]
    BY <1>7
  <1> QED
    BY <1>8, <1>9, SteadyMap DEF qs

LEMMA WithdrawnOne ==
    ASSUME NEW p \in PositionEntries, NEW a \in Nat, a <= p.available,
           NEW point \in Hashes \cup {None}
    PROVE  /\ Withdrawn(p, a, point) \in PositionEntries
           /\ Withdrawn(p, a, point).receipt = p.receipt
           /\ Withdrawn(p, a, point).point \in {p.point, point, None}
  <1> DEFINE left == p.supplied - a
             rest == p.available - a
             active == p.active /\ left # 0
             next == IF left = 0 THEN None
                     ELSE IF point # None THEN point ELSE p.point
             q == Withdrawn(p, a, point)
  <1>1. p \in PositionRecords
    BY PositionHas
  <1>2. q = [p EXCEPT !.supplied = left, !.available = rest,
                      !.active = active, !.point = next]
    BY <1>1 DEF Withdrawn, PositionRecords
  <1>3. left \in Nat /\ rest \in Nat /\ rest + p.reserved + p.deployed = left
        /\ next \in Hashes \cup {None} /\ active \in BOOLEAN
        /\ (~active => left = 0) /\ next \in {p.point, point, None}
    BY PositionHas
  <1> HIDE DEF left, rest, active, next, q
  <1>4. q = Position(p.receipt, left, rest, p.reserved, p.deployed, p.earned,
                     p.claimed, next, active)
    BY <1>1, <1>2 DEF Position, PositionRecords
  <1>5. /\ p.receipt \in Positions /\ p.supplied \in Nat /\ p.available \in Nat
        /\ p.reserved \in Nat /\ p.deployed \in Nat /\ p.earned \in Nat
        /\ p.claimed \in Nat /\ p.point \in Hashes \cup {None}
        /\ p.active \in BOOLEAN
        /\ ~p.active => p.supplied = 0
        /\ p.claimed <= p.earned
    BY PositionHas
  <1> DEFINE x == Position(p.receipt, left, rest, p.reserved, p.deployed,
                           p.earned, p.claimed, next, active)
  <1>6. x \in PositionEntries
    BY <1>3, <1>5, PositionIs
  <1>7. x.receipt = p.receipt /\ x.point = next
    BY DEF Position
  <1> QED
    BY <1>3, <1>4, <1>6, <1>7 DEF q

ClaimedFees(p, a, point) == [p EXCEPT !.claimed = @ + a, !.point = point]
LEMMA ClaimedOne ==
    ASSUME NEW p \in PositionEntries, NEW a \in Nat, Claimable(p, a),
           NEW point \in Hashes \cup {None}
    PROVE  /\ ClaimedFees(p, a, point) \in PositionEntries
           /\ ClaimedFees(p, a, point).receipt = p.receipt
           /\ ClaimedFees(p, a, point).point = point
  <1> DEFINE c == p.claimed + a
             q == ClaimedFees(p, a, point)
  <1>0. q = [p EXCEPT !.claimed = @ + a, !.point = point]
    BY DEF ClaimedFees
  <1> HIDE DEF q
  <1>1. p \in PositionRecords
    BY PositionHas
  <1>2. q = Position(p.receipt, p.supplied, p.available, p.reserved, p.deployed,
                     p.earned, c, point, p.active)
    BY <1>0, <1>1 DEF Position, PositionRecords
  <1>3. c \in Nat /\ c <= p.earned
    BY PositionHas DEF Claimable, Sat
  <1>4. /\ p.receipt \in Positions /\ p.supplied \in Nat /\ p.available \in Nat
        /\ p.reserved \in Nat /\ p.deployed \in Nat /\ p.earned \in Nat
        /\ p.claimed \in Nat /\ p.point \in Hashes \cup {None}
        /\ p.active \in BOOLEAN
        /\ ~p.active => p.supplied = 0
        /\ p.claimed <= p.earned
        /\ p.available + p.reserved + p.deployed = p.supplied
    BY PositionHas
  <1> DEFINE x == Position(p.receipt, p.supplied, p.available, p.reserved,
                           p.deployed, p.earned, c, point, p.active)
  <1> HIDE DEF c
  <1>5. x \in PositionEntries
    BY <1>3, <1>4, PositionIs
  <1>6. x.receipt = p.receipt /\ x.point = point
    BY DEF Position
  <1> QED
    BY <1>2, <1>5, <1>6 DEF q

LEMMA NewOne ==
    ASSUME NEW p \in Positions, NEW a \in Nat, NEW point \in Hashes \cup {None}
    PROVE  /\ NewPosition(p, a, point) \in PositionEntries
           /\ NewPosition(p, a, point).receipt = p
           /\ NewPosition(p, a, point).point = point
  BY DEF NewPosition, PositionEntries, PositionRecords

LEMMA RecoveredOne ==
    ASSUME NEW q \in PositionEntries, NEW p, NEW c, LpCell(p, c)
    PROVE  /\ Recovered(q, c) \in PositionEntries
           /\ Recovered(q, c).receipt = q.receipt
           /\ Recovered(q, c).point = c.point
  <1> DEFINE e == IF q.earned > c.data.claimed THEN q.earned ELSE c.data.claimed
             d == c.data
             x == Recovered(q, c)
  <1>1. c \in ReceiptCells /\ q \in PositionRecords
    BY PositionHas DEF LpCell
  <1>2. /\ c.point \in Hashes /\ d.supplied \in Nat
        /\ d.available \in Nat /\ d.claimed \in Nat
    BY <1>1 DEF ReceiptCells
  <1>3. d.reserved = 0 /\ d.deployed = 0 /\ d.available = d.supplied
    BY DEF LpCell
  <1>4. x = [q EXCEPT !.point = c.point, !.active = TRUE,
                      !.supplied = d.supplied, !.available = d.available,
                      !.reserved = d.reserved, !.deployed = d.deployed,
                      !.claimed = d.claimed, !.earned = e]
    BY <1>1 DEF Recovered, PositionRecords
  <1>5. e \in Nat /\ d.claimed <= e
    BY <1>2, PositionHas
  <1> HIDE DEF e, d, x
  <1>6. x = Position(q.receipt, d.supplied, d.available, d.reserved, d.deployed,
                     e, d.claimed, c.point, TRUE)
    BY <1>1, <1>4 DEF Position, PositionRecords
  <1>7. d.available + d.reserved + d.deployed = d.supplied
    BY <1>2, <1>3
  <1>8. q.receipt \in Positions
    BY PositionHas
  <1>9. c.point \in Hashes \cup {None} /\ d.reserved \in Nat /\ d.deployed \in Nat
    BY <1>2, <1>3
  <1> DEFINE y == Position(q.receipt, d.supplied, d.available, d.reserved,
                           d.deployed, e, d.claimed, c.point, TRUE)
  <1>10. y \in PositionEntries
    BY <1>2, <1>5, <1>7, <1>8, <1>9, PositionIs
  <1>11. y.receipt = q.receipt /\ y.point = c.point
    BY DEF Position
  <1> QED
    BY <1>6, <1>10, <1>11 DEF x
----------------------------------------------------------------------------
(***************************************************************************)
(* What follows a ledger: intents are kept as they are, positions steadily,*)
(* requests under their ids, and a request newly shown with an open        *)
(* channel, which the vault funds, has one whose funding is signed.        *)
(***************************************************************************)
SignedStates == {"usable", "closed", "lost"}
Shown(e) ==
    config.vaultMode /\ e.status = "ChannelOpen" =>
        e.channel \in DOMAIN fiber /\ fiber[e.channel].state \in SignedStates

SameIntents(l, m) ==
    /\ m.supplies = l.supplies /\ m.withdrawals = l.withdrawals
    /\ m.claims = l.claims /\ m.intents = l.intents
KeptRequests(l, m) ==
    /\ DOMAIN l.requests \subseteq DOMAIN m.requests
    /\ \A i \in DOMAIN l.requests : m.requests[i].id = l.requests[i].id
    /\ \A i \in DOMAIN m.requests :
          \/ /\ i \in DOMAIN l.requests
             /\ m.requests[i].status = l.requests[i].status
             /\ m.requests[i].channel = l.requests[i].channel
          \/ Shown(m.requests[i])
Follows(l, m) ==
    /\ m \in Ledgers /\ SameIntents(l, m)
    /\ Steady(l.positions, m.positions) /\ KeptRequests(l, m)

\* Some request of the ledger has this id.
Knows(l, r) == \E i \in DOMAIN l.requests : l.requests[i].id = r

LEMMA LedgerHas ==
    ASSUME NEW l \in Ledgers
    PROVE  /\ l.supplies \in Supplies /\ l.positions \in Seq(PositionEntries)
           /\ l.withdrawals \in WithdrawalIntents /\ l.claims \in ClaimIntents
           /\ l.intents \in Intents /\ l.requests \in Seq(RequestEntries)
           /\ l.reservations \in Seq(ReservationEntries)
           /\ l.jobs \in Jobs /\ l.funding \in Fundings
           /\ l.live \in Totals \cup {None}
  BY DEF Ledgers

LEMMA FollowsSame == ASSUME NEW l \in Ledgers PROVE Follows(l, l)
  <1>1. Steady(l.positions, l.positions)
    BY LedgerHas, SteadySame
  <1> QED
    BY <1>1 DEF Follows, SameIntents, KeptRequests

LEMMA FollowsTwice ==
    ASSUME NEW l, NEW m, NEW n, Follows(l, m), Follows(m, n)
    PROVE  Follows(l, n)
  <1>1. n \in Ledgers /\ SameIntents(l, n)
    BY DEF Follows, SameIntents
  <1>2. Steady(l.positions, n.positions)
    BY SteadyTwice DEF Follows
  <1>3. /\ DOMAIN l.requests \subseteq DOMAIN n.requests
        /\ \A i \in DOMAIN l.requests : n.requests[i].id = l.requests[i].id
    BY DEF Follows, KeptRequests
  <1>4. ASSUME NEW i \in DOMAIN n.requests
        PROVE  \/ /\ i \in DOMAIN l.requests
                  /\ n.requests[i].status = l.requests[i].status
                  /\ n.requests[i].channel = l.requests[i].channel
               \/ Shown(n.requests[i])
    <2>1. CASE Shown(n.requests[i])
      BY <2>1
    <2>2. CASE /\ i \in DOMAIN m.requests
               /\ n.requests[i].status = m.requests[i].status
               /\ n.requests[i].channel = m.requests[i].channel
      <3>1. \/ /\ i \in DOMAIN l.requests
               /\ m.requests[i].status = l.requests[i].status
               /\ m.requests[i].channel = l.requests[i].channel
            \/ Shown(m.requests[i])
        BY <2>2 DEF Follows, KeptRequests
      <3> QED
        BY <2>2, <3>1 DEF Shown
    <2> QED
      BY <2>1, <2>2 DEF Follows, KeptRequests
  <1> QED
    BY <1>1, <1>2, <1>3, <1>4 DEF Follows, KeptRequests

LEMMA StillKnows ==
    ASSUME NEW l, NEW m, Follows(l, m), NEW r, Knows(l, r)
    PROVE  Knows(m, r)
  BY DEF Follows, KeptRequests, Knows

\* The first entry of a known id.
LEMMA EntryIs ==
    ASSUME NEW l \in Ledgers, NEW r, Knows(l, r)
    PROVE  /\ First(l.requests, r) \in DOMAIN l.requests
           /\ Entry(l, r) \in RequestEntries /\ Entry(l, r).id = r
           /\ Entry(l, r).amount \in Nat /\ r \in Requests
           /\ Entry(l, r) = l.requests[First(l.requests, r)]
  <1>1. l.requests \in Seq(RequestEntries)
    BY LedgerHas
  <1>2. Indices(l.requests, r) # {}
    BY DEF Knows, Indices
  <1>3. /\ First(l.requests, r) \in DOMAIN l.requests
        /\ l.requests[First(l.requests, r)].id = r
    BY <1>1, <1>2, FirstIs
  <1>4. l.requests[First(l.requests, r)] \in RequestEntries
    BY <1>1, <1>3, DomainSeq
  <1>5. \A e \in RequestEntries : e.id \in Requests /\ e.amount \in Nat
    BY DEF RequestEntries
  <1> QED
    BY <1>3, <1>4, <1>5 DEF Entry
----------------------------------------------------------------------------
(***************************************************************************)
(* One field of the ledger changes.                                        *)
(***************************************************************************)
LEMMA PositionsFollow ==
    ASSUME NEW l \in Ledgers, NEW ps, Steady(l.positions, ps),
           NEW m, m = [l EXCEPT !.positions = ps]
    PROVE  Follows(l, m) /\ m.requests = l.requests
  <1>1. ps \in Seq(PositionEntries)
    BY DEF Steady
  <1>2. m \in Ledgers
    BY <1>1 DEF Ledgers
  <1>3. /\ SameIntents(l, m) /\ m.positions = ps /\ m.requests = l.requests
    BY DEF SameIntents, Ledgers
  <1> QED
    BY <1>2, <1>3 DEF Follows, KeptRequests

LEMMA ReservationsFollow ==
    ASSUME NEW l \in Ledgers, NEW rs \in Seq(ReservationEntries),
           NEW m, m = [l EXCEPT !.reservations = rs]
    PROVE  Follows(l, m) /\ m.requests = l.requests
  <1>1. m \in Ledgers
    BY DEF Ledgers
  <1>2. /\ SameIntents(l, m) /\ m.positions = l.positions
        /\ m.requests = l.requests
    BY DEF SameIntents, Ledgers
  <1>3. Steady(l.positions, l.positions)
    BY LedgerHas, SteadySame
  <1> QED
    BY <1>1, <1>2, <1>3 DEF Follows, KeptRequests

LEMMA JobsFollow ==
    ASSUME NEW l \in Ledgers, NEW js \in Jobs,
           NEW m, m = [l EXCEPT !.jobs = js]
    PROVE  Follows(l, m) /\ m.requests = l.requests
  <1>1. m \in Ledgers
    BY DEF Ledgers
  <1>2. /\ SameIntents(l, m) /\ m.positions = l.positions
        /\ m.requests = l.requests
    BY DEF SameIntents, Ledgers
  <1>3. Steady(l.positions, l.positions)
    BY LedgerHas, SteadySame
  <1> QED
    BY <1>1, <1>2, <1>3 DEF Follows, KeptRequests

LEMMA FundingFollow ==
    ASSUME NEW l \in Ledgers, NEW fs \in Fundings,
           NEW m, m = [l EXCEPT !.funding = fs]
    PROVE  Follows(l, m) /\ m.requests = l.requests
  <1>1. m \in Ledgers
    BY DEF Ledgers
  <1>2. /\ SameIntents(l, m) /\ m.positions = l.positions
        /\ m.requests = l.requests
    BY DEF SameIntents, Ledgers
  <1>3. Steady(l.positions, l.positions)
    BY LedgerHas, SteadySame
  <1> QED
    BY <1>1, <1>2, <1>3 DEF Follows, KeptRequests

LEMMA LiveFollow ==
    ASSUME NEW l \in Ledgers, NEW v \in Totals,
           NEW m, m = [l EXCEPT !.live = v]
    PROVE  Follows(l, m) /\ m.requests = l.requests
  <1>1. m \in Ledgers
    BY DEF Ledgers
  <1>2. /\ SameIntents(l, m) /\ m.positions = l.positions
        /\ m.requests = l.requests
    BY DEF SameIntents, Ledgers
  <1>3. Steady(l.positions, l.positions)
    BY LedgerHas, SteadySame
  <1> QED
    BY <1>1, <1>2, <1>3 DEF Follows, KeptRequests

\* An entry replaces another of its id.
Replaces(e, x) ==
    /\ x \in RequestEntries /\ x.id = e.id
    /\ (x.status = e.status /\ x.channel = e.channel) \/ Shown(x)

LEMMA RequestsFollow ==
    ASSUME NEW l \in Ledgers, NEW rs \in Seq(RequestEntries),
           DOMAIN l.requests \subseteq DOMAIN rs,
           \A i \in DOMAIN l.requests : Replaces(l.requests[i], rs[i]),
           \A i \in DOMAIN rs \ DOMAIN l.requests : Shown(rs[i]),
           NEW m, m = [l EXCEPT !.requests = rs]
    PROVE  Follows(l, m) /\ m.requests = rs
  <1>1. m \in Ledgers
    BY DEF Ledgers
  <1>2. SameIntents(l, m) /\ m.positions = l.positions /\ m.requests = rs
    BY DEF SameIntents, Ledgers
  <1>3. Steady(l.positions, l.positions)
    BY LedgerHas, SteadySame
  <1>4. KeptRequests(l, m)
    BY <1>2 DEF KeptRequests, Replaces
  <1> QED
    BY <1>1, <1>2, <1>3, <1>4 DEF Follows

LEMMA ReplaceFollows ==
    ASSUME NEW l \in Ledgers, NEW i \in DOMAIN l.requests, NEW x,
           Replaces(l.requests[i], x),
           NEW m, m = [l EXCEPT !.requests[i] = x]
    PROVE  Follows(l, m)
  <1> DEFINE rs == [l.requests EXCEPT ![i] = x]
  <1>1. l.requests \in Seq(RequestEntries) /\ x \in RequestEntries
    BY LedgerHas DEF Replaces
  <1>2. /\ rs \in Seq(RequestEntries) /\ DOMAIN rs = DOMAIN l.requests
        /\ \A j \in DOMAIN l.requests :
              rs[j] = IF j = i THEN x ELSE l.requests[j]
    BY <1>1, UpdateSeq
  <1>3. \A j \in DOMAIN l.requests : l.requests[j] \in RequestEntries
    BY <1>1, DomainSeq
  <1>4. m = [l EXCEPT !.requests = rs]
    BY DEF Ledgers
  <1> HIDE DEF rs
  <1>5. \A j \in DOMAIN l.requests : Replaces(l.requests[j], rs[j])
    BY <1>2, <1>3 DEF Replaces
  <1> QED
    BY <1>2, <1>4, <1>5, RequestsFollow

LEMMA SetRequestFollows ==
    ASSUME NEW l \in Ledgers, NEW r, Knows(l, r), NEW x, Replaces(Entry(l, r), x)
    PROVE  Follows(l, SetRequest(l, r, x))
  <1>1. First(l.requests, r) \in DOMAIN l.requests
        /\ Entry(l, r) = l.requests[First(l.requests, r)]
    BY EntryIs
  <1> QED
    BY <1>1, ReplaceFollows DEF SetRequest
----------------------------------------------------------------------------
(***************************************************************************)
(* The operators the handlers are composed of.                             *)
(***************************************************************************)
LEMMA SetReservationFollows ==
    ASSUME NEW l \in Ledgers, NEW r,
           NEW status \in {"Reserved", "Deployed", "Released", "Failed"}
    PROVE  /\ Follows(l, SetReservation(l, r, status))
           /\ SetReservation(l, r, status).requests = l.requests
  <1>1. CASE Indices(l.reservations, r) = {}
    BY <1>1, FollowsSame DEF SetReservation
  <1>2. CASE Indices(l.reservations, r) # {}
    <2> DEFINE i == First(l.reservations, r)
               x == [l.reservations[i] EXCEPT !.status = status]
               rs == [l.reservations EXCEPT ![i] = x]
               m == SetReservation(l, r, status)
    <2>1. l.reservations \in Seq(ReservationEntries)
      BY LedgerHas
    <2>2. i \in DOMAIN l.reservations
      BY <1>2, <2>1, FirstIs
    <2>3. l.reservations[i] \in ReservationEntries
      BY <2>1, <2>2, DomainSeq
    <2>4. x \in ReservationEntries
      BY <2>3 DEF ReservationEntries
    <2>5. m = [l EXCEPT !.reservations = rs]
      BY <1>2 DEF SetReservation, Ledgers
    <2> HIDE DEF i, x, m
    <2>6. rs \in Seq(ReservationEntries)
      BY <2>1, <2>4, UpdateSeq
    <2> HIDE DEF rs
    <2> QED
      BY <2>5, <2>6, ReservationsFollow DEF m
  <1> QED
    BY <1>1, <1>2

LEMMA JobFollows ==
    ASSUME NEW l \in Ledgers, NEW r, NEW j \in JobEntries,
           NEW m, m = [l EXCEPT !.jobs[r] = j]
    PROVE  Follows(l, m) /\ m.requests = l.requests
  <1> DEFINE js == [l.jobs EXCEPT ![r] = j]
  <1>1. l.jobs \in Jobs
    BY LedgerHas
  <1>2. js \in Jobs
    BY <1>1 DEF Jobs
  <1>3. m = [l EXCEPT !.jobs = js]
    BY DEF Ledgers
  <1> HIDE DEF js
  <1> QED
    BY <1>2, <1>3, JobsFollow

LEMMA FundingIsFollows ==
    ASSUME NEW l \in Ledgers, NEW r, NEW f \in FundingEntries,
           NEW m, m = [l EXCEPT !.funding[r] = f]
    PROVE  Follows(l, m) /\ m.requests = l.requests
  <1> DEFINE fs == [l.funding EXCEPT ![r] = f]
  <1>1. l.funding \in Fundings
    BY LedgerHas
  <1>2. fs \in Fundings
    BY <1>1 DEF Fundings
  <1>3. m = [l EXCEPT !.funding = fs]
    BY DEF Ledgers
  <1> HIDE DEF fs
  <1> QED
    BY <1>2, <1>3, FundingFollow

LEMMA JobIs ==
    ASSUME NEW l \in Ledgers, NEW r \in Requests, l.jobs[r] # None
    PROVE  l.jobs[r] \in JobEntries
  BY LedgerHas DEF Jobs

LEMMA FundingIs ==
    ASSUME NEW l \in Ledgers, NEW r \in Requests, l.funding[r] # None
    PROVE  l.funding[r] \in FundingEntries
  BY LedgerHas DEF Fundings

LEMMA SetJobFollows ==
    ASSUME NEW l \in Ledgers, NEW r \in Requests, NEW status \in JobStatuses,
           NEW error \in JobErrors
    PROVE  /\ Follows(l, SetJob(l, r, status, error))
           /\ SetJob(l, r, status, error).requests = l.requests
  <1>1. CASE l.jobs[r] = None
    BY <1>1, FollowsSame DEF SetJob
  <1>2. CASE l.jobs[r] # None
    <2> DEFINE j == [l.jobs[r] EXCEPT !.status = status, !.error = error]
               m == SetJob(l, r, status, error)
    <2>1. j \in JobEntries
      BY <1>2, JobIs DEF JobEntries
    <2>2. m = [l EXCEPT !.jobs[r] = j]
      BY <1>2, LedgerHas DEF SetJob, Ledgers, Jobs
    <2> HIDE DEF j, m
    <2> QED
      BY <2>1, <2>2, JobFollows DEF m
  <1> QED
    BY <1>1, <1>2

LEMMA SetJobStatusFollows ==
    ASSUME NEW l \in Ledgers, NEW r \in Requests, NEW status \in JobStatuses
    PROVE  /\ Follows(l, SetJobStatus(l, r, status))
           /\ SetJobStatus(l, r, status).requests = l.requests
  <1>1. CASE l.jobs[r] = None
    BY <1>1, FollowsSame DEF SetJobStatus
  <1>2. CASE l.jobs[r] # None
    <2> DEFINE j == [l.jobs[r] EXCEPT !.status = status]
               m == SetJobStatus(l, r, status)
    <2>1. j \in JobEntries
      BY <1>2, JobIs DEF JobEntries
    <2>2. m = [l EXCEPT !.jobs[r] = j]
      BY <1>2, LedgerHas DEF SetJobStatus, Ledgers, Jobs
    <2> HIDE DEF j, m
    <2> QED
      BY <2>1, <2>2, JobFollows DEF m
  <1> QED
    BY <1>1, <1>2

LEMMA EnsureJobFollows ==
    ASSUME NEW l \in Ledgers, NEW r
    PROVE  /\ Follows(l, EnsureJob(l, r))
           /\ EnsureJob(l, r).requests = l.requests
  <1>1. CASE l.jobs[r] # None
    BY <1>1, FollowsSame DEF EnsureJob
  <1>2. CASE l.jobs[r] = None
    <2> DEFINE j == [status |-> "Queued", attempts |-> 0, error |-> "none"]
               m == EnsureJob(l, r)
    <2>1. j \in JobEntries
      BY DEF JobEntries, JobStatuses, JobErrors
    <2>2. m = [l EXCEPT !.jobs[r] = j]
      BY <1>2 DEF EnsureJob
    <2> HIDE DEF j, m
    <2> QED
      BY <2>1, <2>2, JobFollows DEF m
  <1> QED
    BY <1>1, <1>2

LEMMA MarkJobFollows ==
    ASSUME NEW l \in Ledgers, NEW r \in Requests, NEW status \in JobStatuses,
           NEW error \in JobErrors
    PROVE  /\ Follows(l, MarkJob(l, r, status, error))
           /\ MarkJob(l, r, status, error).requests = l.requests
  <1>1. CASE l.jobs[r] = None
    BY <1>1, FollowsSame DEF MarkJob
  <1>2. CASE l.jobs[r] # None
    <2> DEFINE was == l.jobs[r]
               tried == IF status = "Preparing" THEN 1 ELSE 0
               next == IF status = "RetryableFailed" /\ was.attempts >= MaxRetries
                       THEN "TerminalFailed" ELSE status
               j == [attempts |-> was.attempts + tried, error |-> error,
                     status |-> next]
               m == MarkJob(l, r, status, error)
    <2>1. was \in JobEntries
      BY <1>2, JobIs
    <2>2. next \in JobStatuses /\ was.attempts + tried \in Nat
      <3>1. "TerminalFailed" \in JobStatuses
        BY DEF JobStatuses
      <3>2. was.attempts + tried \in Nat
        BY <2>1 DEF JobEntries
      <3> QED
        BY <3>1, <3>2
    <2>3. r \in DOMAIN l.jobs /\ l \in Ledgers
      BY LedgerHas DEF Jobs
    <2>4. m = [l EXCEPT !.jobs[r] =
                  [attempts |-> @.attempts + tried, error |-> error,
                   status |-> IF /\ status = "RetryableFailed"
                                 /\ @.attempts >= MaxRetries
                              THEN "TerminalFailed" ELSE status]]
      BY <1>2 DEF MarkJob
    <2>5. m = [l EXCEPT !.jobs[r] = j]
      BY <2>3, <2>4 DEF Ledgers
    <2>6. j \in JobEntries
      BY <2>2 DEF JobEntries
    <2> HIDE DEF j, m
    <2> QED
      BY <2>5, <2>6, JobFollows DEF m
  <1> QED
    BY <1>1, <1>2

LEMMA ActiveIntentFollows ==
    ASSUME NEW l \in Ledgers, NEW e, e.funding \in Hashes \cup {None}
    PROVE  /\ Follows(l, ActiveIntent(l, e))
           /\ ActiveIntent(l, e).requests = l.requests
  <1>1. CASE l.funding[e.id] = None
    BY <1>1, FollowsSame DEF ActiveIntent
  <1>2. CASE l.funding[e.id] # None
    <2> DEFINE f == FundingIntent("ChannelActive", e.funding, e.funding)
               r == e.id
               m == ActiveIntent(l, e)
    <2>1. f \in FundingEntries
      BY DEF FundingIntent, FundingEntries, FundingStatuses
    <2>2. m = [l EXCEPT !.funding[r] = f]
      BY <1>2 DEF ActiveIntent
    <2> HIDE DEF f, m, r
    <2> QED
      BY <2>1, <2>2, FundingIsFollows DEF m
  <1> QED
    BY <1>1, <1>2

\* The status of a funding intent changes.
LEMMA FundingStatusFollows ==
    ASSUME NEW l \in Ledgers, NEW r \in Requests, l.funding[r] # None,
           NEW status \in FundingStatuses,
           NEW m, m = [l EXCEPT !.funding[r].status = status]
    PROVE  Follows(l, m) /\ m.requests = l.requests
  <1> DEFINE f == [l.funding[r] EXCEPT !.status = status]
  <1>1. f \in FundingEntries
    BY FundingIs DEF FundingEntries
  <1>2. m = [l EXCEPT !.funding[r] = f]
    BY LedgerHas DEF Ledgers, Fundings
  <1> HIDE DEF f
  <1> QED
    BY <1>1, <1>2, FundingIsFollows

LEMMA FundingAfterFollows ==
    ASSUME NEW l \in Ledgers, NEW r \in Requests
    PROVE  /\ Follows(l, FundingAfter(l, r))
           /\ FundingAfter(l, r).requests = l.requests
  <1> DEFINE status == CASE Entry(l, r).status = "Failed" -> "Failed"
                         [] Entry(l, r).status = "FundingSubmitted"
                               -> "FundingSubmitted"
                         [] OTHER -> "BuilderRequired"
             m == FundingAfter(l, r)
  <1>1. CASE ~config.vaultMode \/ l.funding[r] = None
    BY <1>1, FollowsSame DEF FundingAfter
  <1>2. CASE ~ (~config.vaultMode \/ l.funding[r] = None)
    <2>1. status \in FundingStatuses
      BY DEF FundingStatuses
    <2>2. m = [l EXCEPT !.funding[r].status = status]
      BY <1>2 DEF FundingAfter
    <2> HIDE DEF status, m
    <2>3. l.funding[r] # None
      BY <1>2
    <2> QED
      BY <2>1, <2>2, <2>3, FundingStatusFollows DEF m
  <1> QED
    BY <1>1, <1>2
----------------------------------------------------------------------------
(***************************************************************************)
(* Positions, reservations, jobs and funding change; the requests do not.  *)
(***************************************************************************)
Moves(l, m) == Follows(l, m) /\ m.requests = l.requests

LEMMA MovesSame == ASSUME NEW l \in Ledgers PROVE Moves(l, l)
  BY FollowsSame DEF Moves

LEMMA MovesTwice ==
    ASSUME NEW l, NEW m, NEW n, Moves(l, m), Moves(m, n)
    PROVE  Moves(l, n)
  BY FollowsTwice DEF Moves

LEMMA MovesIn ==
    ASSUME NEW l, NEW m, Moves(l, m)
    PROVE  m \in Ledgers /\ \A r : Knows(l, r) => Knows(m, r)
  BY DEF Moves, Follows, Knows

LEMMA ReserveMoves ==
    ASSUME NEW l \in Ledgers, NEW amount \in Nat \ {0}, NEW fee \in Nat
    PROVE  Moves(l, [l EXCEPT !.positions = ReservePositions(@, amount, fee)])
  <1>1. Steady(l.positions, ReservePositions(l.positions, amount, fee))
    BY LedgerHas, FeesSteady
  <1> DEFINE m == [l EXCEPT !.positions = ReservePositions(@, amount, fee)]
             ps == ReservePositions(l.positions, amount, fee)
  <1>2. m = [l EXCEPT !.positions = ps]
    BY DEF Ledgers
  <1> HIDE DEF m, ps
  <1> QED
    BY <1>1, <1>2, PositionsFollow DEF m, ps, Moves

LEMMA DeployMoves ==
    ASSUME NEW l \in Ledgers, NEW amount \in Nat
    PROVE  Moves(l, [l EXCEPT !.positions = DeployPositions(@, amount)])
  <1> DEFINE m == [l EXCEPT !.positions = DeployPositions(@, amount)]
             ps == DeployPositions(l.positions, amount)
  <1>1. Steady(l.positions, ps)
    BY LedgerHas, DeploySteady DEF DeployPositions
  <1>2. m = [l EXCEPT !.positions = ps]
    BY DEF Ledgers
  <1> HIDE DEF m, ps
  <1> QED
    BY <1>1, <1>2, PositionsFollow DEF m, Moves

LEMMA UndeployMoves ==
    ASSUME NEW l \in Ledgers, NEW amount \in Nat
    PROVE  Moves(l, [l EXCEPT !.positions = UndeployPositions(@, amount)])
  <1> DEFINE m == [l EXCEPT !.positions = UndeployPositions(@, amount)]
             ps == UndeployPositions(l.positions, amount)
  <1>1. Steady(l.positions, ps)
    BY LedgerHas, UndeploySteady DEF UndeployPositions
  <1>2. m = [l EXCEPT !.positions = ps]
    BY DEF Ledgers
  <1> HIDE DEF m, ps
  <1> QED
    BY <1>1, <1>2, PositionsFollow DEF m, Moves

LEMMA ReleaseMoves ==
    ASSUME NEW l \in Ledgers, NEW amount \in Nat
    PROVE  Moves(l, [l EXCEPT !.positions = ReleasePositions(@, amount)])
  <1> DEFINE m == [l EXCEPT !.positions = ReleasePositions(@, amount)]
             ps == ReleasePositions(l.positions, amount)
  <1>1. Steady(l.positions, ps)
    BY LedgerHas, ReleaseSteady DEF ReleasePositions
  <1>2. m = [l EXCEPT !.positions = ps]
    BY DEF Ledgers
  <1> HIDE DEF m, ps
  <1> QED
    BY <1>1, <1>2, PositionsFollow DEF m, Moves

LEMMA SettleMoves ==
    ASSUME NEW l \in Ledgers, NEW amount \in Nat
    PROVE  Moves(l, [l EXCEPT !.positions = SettlePositions(@, amount)])
  <1> DEFINE m == [l EXCEPT !.positions = SettlePositions(@, amount)]
             ps == SettlePositions(l.positions, amount)
  <1>1. Steady(l.positions, ps)
    BY LedgerHas, SettleSteady DEF SettlePositions
  <1>2. m = [l EXCEPT !.positions = ps]
    BY DEF Ledgers
  <1> HIDE DEF m, ps
  <1> QED
    BY <1>1, <1>2, PositionsFollow DEF m, Moves

LEMMA UpdateMoves ==
    ASSUME NEW l \in Ledgers, NEW r, Knows(l, r)
    PROVE  Moves(l, UpdateReservation(l, r))
  <1> DEFINE entry == Entry(l, r)
             was == l.reservations[First(l.reservations, r)].status
             deployed == [l EXCEPT !.positions = DeployPositions(@, entry.amount)]
             undeployed == [l EXCEPT !.positions =
                               UndeployPositions(@, entry.amount)]
             m == UpdateReservation(l, r)
  <1>1. entry.amount \in Nat
    BY EntryIs
  <1>2. Moves(l, deployed) /\ Moves(l, undeployed)
    BY <1>1, DeployMoves, UndeployMoves
  <1>3. ASSUME NEW k, Moves(l, k),
               NEW status \in {"Reserved", "Deployed", "Released", "Failed"}
        PROVE  Moves(l, SetReservation(k, r, status))
    <2>1. Moves(k, SetReservation(k, r, status))
      BY <1>3, MovesIn, SetReservationFollows DEF Moves
    <2> QED
      BY <1>3, <2>1, MovesTwice
  <1>4. Moves(l, l)
    BY MovesSame
  <1>5. \/ m = l
        \/ m = SetReservation(l, r, "Reserved")
        \/ m = SetReservation(l, r, "Deployed")
        \/ m = SetReservation(deployed, r, "Deployed")
        \/ m = SetReservation(undeployed, r, "Reserved")
        \/ m = SetReservation(l, r, "Failed")
        \/ m = SetReservation(l, r, "Released")
    <2>1. CASE Indices(l.reservations, r) = {}
      BY <2>1 DEF UpdateReservation
    <2>2. CASE Indices(l.reservations, r) # {}
      <3>1. m = CASE entry.status \in InFlight ->
                       IF was = "Failed" THEN SetReservation(l, r, "Reserved")
                       ELSE l
                  [] entry.status = "ChannelOpen" ->
                       SetReservation(IF was = "Deployed" THEN l ELSE deployed,
                                      r, "Deployed")
                  [] entry.status = "Failed" ->
                       IF was = "Deployed"
                       THEN SetReservation(undeployed, r, "Reserved")
                       ELSE IF was = "Released"
                            THEN SetReservation(l, r, "Failed") ELSE l
                  [] entry.status \in {"Expired", "Released", "Settled"} ->
                       SetReservation(l, r, "Released")
                  [] OTHER -> l
        BY <2>2 DEF UpdateReservation
      <3> HIDE DEF entry, was, deployed, undeployed, m
      <3>2. CASE entry.status \in InFlight
        BY <3>1, <3>2 DEF InFlight
      <3>3. CASE entry.status = "ChannelOpen"
        BY <3>1, <3>3 DEF InFlight
      <3>4. CASE entry.status = "Failed"
        BY <3>1, <3>4 DEF InFlight
      <3>5. CASE entry.status \in {"Expired", "Released", "Settled"}
        BY <3>1, <3>5 DEF InFlight
      <3> QED
        BY <3>1, <3>2, <3>3, <3>4, <3>5
    <2> QED
      BY <2>1, <2>2
  <1> HIDE DEF entry, was, deployed, undeployed, m
  <1> QED
    BY <1>2, <1>3, <1>4, <1>5 DEF m
\* What a watched request does to the rest of the ledger.
LEMMA OpenedMoves ==
    ASSUME NEW l \in Ledgers, NEW e \in RequestEntries, Knows(l, e.id)
    PROVE  Moves(l, Opened(l, e))
  <1> DEFINE a == UpdateReservation(l, e.id)
             b == SetJob(a, e.id, "ChannelActive", "none")
  <1>1. e.id \in Requests /\ e.funding \in Hashes \cup {None}
    BY DEF RequestEntries
  <1>2. Moves(l, a)
    BY UpdateMoves
  <1>3. a \in Ledgers
    BY <1>2, MovesIn
  <1> HIDE DEF a
  <1>4. Moves(a, b)
    BY <1>1, <1>3, SetJobFollows DEF Moves, JobStatuses, JobErrors
  <1>5. b \in Ledgers
    BY <1>4, MovesIn
  <1> HIDE DEF b
  <1>6. Moves(b, ActiveIntent(b, e))
    BY <1>1, <1>5, ActiveIntentFollows DEF Moves
  <1> QED
    BY <1>2, <1>4, <1>6, MovesTwice DEF Opened, a, b

LEMMA SettledMoves ==
    ASSUME NEW l \in Ledgers, NEW e \in RequestEntries
    PROVE  Moves(l, Settled(l, e))
  <1> DEFINE a == [l EXCEPT !.positions = SettlePositions(@, e.amount)]
             b == SetReservation(a, e.id, "Released")
             c == SetJob(b, e.id, "ChannelSettled", "none")
  <1>1. e.id \in Requests /\ e.amount \in Nat
    BY DEF RequestEntries
  <1>2. Moves(l, a)
    BY <1>1, SettleMoves
  <1>3. a \in Ledgers
    BY <1>2, MovesIn
  <1> HIDE DEF a
  <1>4. Moves(a, b)
    BY <1>3, SetReservationFollows DEF Moves
  <1>5. b \in Ledgers
    BY <1>4, MovesIn
  <1> HIDE DEF b
  <1>6. Moves(b, c)
    BY <1>1, <1>5, SetJobFollows DEF Moves, JobStatuses, JobErrors
  <1> QED
    BY <1>2, <1>4, <1>6, MovesTwice DEF Settled, a, b

LEMMA FailedMoves ==
    ASSUME NEW l \in Ledgers, NEW e \in RequestEntries, Knows(l, e.id),
           NEW error \in JobErrors
    PROVE  Moves(l, Failed(l, e, error))
  <1> DEFINE a == UpdateReservation(l, e.id)
             b == SetJob(a, e.id, "RetryableFailed", error)
             c == [b EXCEPT !.funding[e.id].status = "Failed"]
             m == Failed(l, e, error)
  <1>1. e.id \in Requests
    BY DEF RequestEntries
  <1>2. Moves(l, a)
    BY UpdateMoves
  <1>3. a \in Ledgers
    BY <1>2, MovesIn
  <1> HIDE DEF a
  <1>4. Moves(a, b)
    BY <1>1, <1>3, SetJobFollows DEF Moves, JobStatuses
  <1>5. b \in Ledgers
    BY <1>4, MovesIn
  <1>6. Moves(l, b)
    BY <1>2, <1>4, MovesTwice
  <1>7. m = IF b.funding[e.id] = None THEN b ELSE c
    BY DEF Failed, a
  <1> HIDE DEF b, m
  <1>8. ASSUME b.funding[e.id] # None PROVE Moves(b, c)
    <2> DEFINE r == e.id
    <2>1. c = [b EXCEPT !.funding[r].status = "Failed"]
      OBVIOUS
    <2> HIDE DEF c
    <2>2. r \in Requests /\ b.funding[r] # None
      BY <1>1, <1>8
    <2>3. "Failed" \in FundingStatuses
      BY DEF FundingStatuses
    <2> HIDE DEF r
    <2> QED
      BY <1>5, <2>1, <2>2, <2>3, FundingStatusFollows DEF Moves
  <1> HIDE DEF c
  <1>9. CASE b.funding[e.id] = None
    BY <1>6, <1>7, <1>9 DEF m
  <1>10. CASE b.funding[e.id] # None
    BY <1>6, <1>7, <1>8, <1>10, MovesTwice DEF m
  <1> QED
    BY <1>9, <1>10
----------------------------------------------------------------------------
(***************************************************************************)
(* Entries are added: a request, a reservation, a position.                *)
(***************************************************************************)
LEMMA NewRequestIs ==
    ASSUME NEW r \in Requests, NEW amount \in Nat,
           NEW hash \in Hashes \cup {None}, NEW cell \in Hashes \cup {None},
           NEW peer \in BOOLEAN
    PROVE  /\ NewRequest(r, amount, hash, cell, peer) \in RequestEntries
           /\ NewRequest(r, amount, hash, cell, peer).id = r
           /\ NewRequest(r, amount, hash, cell, peer).amount = amount
           /\ NewRequest(r, amount, hash, cell, peer).status = "Requested"
  BY DEF NewRequest, RequestEntries

LEMMA AppendRequestFollows ==
    ASSUME NEW l \in Ledgers, NEW x \in RequestEntries, Shown(x),
           NEW m, m = [l EXCEPT !.requests = Append(@, x)]
    PROVE  Follows(l, m)
  <1> DEFINE rs == Append(l.requests, x)
  <1>1. l.requests \in Seq(RequestEntries)
    BY LedgerHas
  <1>2. /\ rs \in Seq(RequestEntries)
        /\ DOMAIN rs = DOMAIN l.requests \cup {Len(l.requests) + 1}
        /\ rs[Len(l.requests) + 1] = x
        /\ \A i \in DOMAIN l.requests : rs[i] = l.requests[i]
    BY <1>1, AppendSeq
  <1>3. \A i \in DOMAIN l.requests : l.requests[i] \in RequestEntries
    BY <1>1, DomainSeq
  <1>4. m = [l EXCEPT !.requests = rs]
    BY DEF Ledgers
  <1> HIDE DEF rs
  <1>5. \A i \in DOMAIN l.requests : Replaces(l.requests[i], rs[i])
    BY <1>2, <1>3 DEF Replaces
  <1>6. \A i \in DOMAIN rs \ DOMAIN l.requests : Shown(rs[i])
    BY <1>2
  <1>7. DOMAIN l.requests \subseteq DOMAIN rs
    BY <1>2
  <1> QED
    BY <1>2, <1>4, <1>5, <1>6, <1>7, RequestsFollow

LEMMA AppendReservationFollows ==
    ASSUME NEW l \in Ledgers, NEW x \in ReservationEntries,
           NEW m, m = [l EXCEPT !.reservations = Append(@, x)]
    PROVE  Follows(l, m)
  <1> DEFINE rs == Append(l.reservations, x)
  <1>1. l.reservations \in Seq(ReservationEntries)
    BY LedgerHas
  <1>2. rs \in Seq(ReservationEntries)
    BY <1>1, AppendSeq
  <1>3. m = [l EXCEPT !.reservations = rs]
    BY DEF Ledgers
  <1> HIDE DEF rs
  <1> QED
    BY <1>2, <1>3, ReservationsFollow

LEMMA WithRequestFollows ==
    ASSUME NEW l \in Ledgers, NEW e \in RequestEntries, e.amount \in Nat \ {0},
           e.status = "Requested", NEW fee \in Nat
    PROVE  Follows(l, WithRequest(l, e, fee))
  <1> DEFINE a == [l EXCEPT !.positions = ReservePositions(@, e.amount, fee)]
             x == NewReservation(e.id, e.amount)
             b == [a EXCEPT !.reservations = Append(@, x)]
             c == [b EXCEPT !.requests = Append(@, e)]
             m == WithRequest(l, e, fee)
  <1>1. Moves(l, a)
    BY ReserveMoves
  <1>2. a \in Ledgers
    BY <1>1, MovesIn
  <1>3. x \in ReservationEntries
    BY DEF NewReservation, ReservationEntries, RequestEntries
  <1>4. m = c
    BY DEF WithRequest, Ledgers
  <1> HIDE DEF a, x, m
  <1>5. Follows(a, b)
    BY <1>2, <1>3, AppendReservationFollows
  <1>6. b \in Ledgers
    BY <1>5 DEF Follows
  <1> HIDE DEF b
  <1>7. Follows(b, c)
    <2>1. Shown(e)
      BY DEF Shown
    <2> QED
      BY <1>6, <2>1, AppendRequestFollows
  <1> HIDE DEF c
  <1> QED
    BY <1>1, <1>4, <1>5, <1>7, FollowsTwice DEF Moves, m

LEMMA AppendPositionSteady ==
    ASSUME NEW ps \in Seq(PositionEntries), NEW x \in PositionEntries, Owned(x)
    PROVE  Steady(ps, Append(ps, x))
  <1> DEFINE qs == Append(ps, x)
  <1>1. /\ qs \in Seq(PositionEntries)
        /\ DOMAIN qs = DOMAIN ps \cup {Len(ps) + 1}
        /\ qs[Len(ps) + 1] = x
        /\ \A i \in DOMAIN ps : qs[i] = ps[i]
    BY AppendSeq
  <1> HIDE DEF qs
  <1> QED
    BY <1>1 DEF Steady, qs

LEMMA ReplacePositionSteady ==
    ASSUME NEW ps \in Seq(PositionEntries), NEW i \in DOMAIN ps,
           NEW x \in PositionEntries, x.receipt = ps[i].receipt,
           x.point = ps[i].point \/ Owned(x)
    PROVE  Steady(ps, [ps EXCEPT ![i] = x])
  <1> DEFINE qs == [ps EXCEPT ![i] = x]
  <1>1. /\ qs \in Seq(PositionEntries) /\ DOMAIN qs = DOMAIN ps
        /\ \A j \in DOMAIN ps : qs[j] = IF j = i THEN x ELSE ps[j]
    BY UpdateSeq
  <1> HIDE DEF qs
  <1> QED
    BY <1>1 DEF Steady, qs
----------------------------------------------------------------------------
(***************************************************************************)
(* Cells found on the chain.                                               *)
(***************************************************************************)
\* A live receipt points to a transaction made for its position.
ReceiptsMade ==
    \A p \in Positions : receipt[p] # None => MadeFor(receipt[p].point, p)

LEMMA UpsertReceiptFollows ==
    ASSUME NEW l \in Ledgers, NEW p \in Positions, LpCell(p, receipt[p]),
           MadeFor(receipt[p].point, p)
    PROVE  Follows(l, UpsertReceipt(p, l))
  <1> DEFINE c == receipt[p]
             ps == l.positions
             same == {i \in DOMAIN ps : ps[i].receipt = p \/ ps[i].point = c.point}
             i == CHOOSE j \in same : \A k \in same : j <= k
             new == Recovered(NewPosition(p, 0, None), c)
             x == Recovered(ps[i], c)
             m == UpsertReceipt(p, l)
  <1>1. ps \in Seq(PositionEntries)
    BY LedgerHas
  <1>2. \/ same = {} /\ m = [l EXCEPT !.positions = Append(@, new)]
        \/ m = l
        \/ same # {} /\ m = [l EXCEPT !.positions[i] = Recovered(@, c)]
    BY DEF UpsertReceipt
  <1>3. CASE same = {} /\ m = [l EXCEPT !.positions = Append(@, new)]
    <2> DEFINE qs == Append(ps, new)
    <2>1. m = [l EXCEPT !.positions = qs]
      BY <1>3 DEF Ledgers
    <2>2. /\ NewPosition(p, 0, None) \in PositionEntries
          /\ NewPosition(p, 0, None).receipt = p
      BY NewOne
    <2>3. new \in PositionEntries /\ new.receipt = p /\ new.point = c.point
      BY <2>2, RecoveredOne
    <2>4. Owned(new)
      BY <2>3 DEF Owned
    <2> HIDE DEF new, m, ps
    <2>5. Steady(ps, qs)
      BY <1>1, <2>3, <2>4, AppendPositionSteady
    <2> HIDE DEF qs
    <2> QED
      BY <2>1, <2>5, PositionsFollow DEF ps, m
  <1>4. CASE same # {} /\ m = [l EXCEPT !.positions[i] = Recovered(@, c)]
    <2> DEFINE qs == [ps EXCEPT ![i] = x]
    <2>1. i \in same
      <3>1. same \subseteq Nat
        BY <1>1, DomainSeq
      <3> HIDE DEF same
      <3>2. \E j \in same : \A k \in same : j <= k
        BY <1>4, <3>1, LeastNumber
      <3> QED
        BY <3>2
    <2>2. i \in DOMAIN ps /\ ps[i] \in PositionEntries
      BY <1>1, <2>1, DomainSeq
    <2>3. ps[i].receipt = p \/ ps[i].point = c.point
      BY <2>1
    <2>4. m = [l EXCEPT !.positions = qs]
      BY <1>4, <2>2 DEF Ledgers
    <2> HIDE DEF i
    <2>5. x \in PositionEntries /\ x.receipt = ps[i].receipt /\ x.point = c.point
      BY <2>2, RecoveredOne
    <2>6. x.point = ps[i].point \/ Owned(x)
      BY <2>3, <2>5 DEF Owned
    <2> HIDE DEF x, m, ps
    <2>7. Steady(ps, qs)
      BY <1>1, <2>2, <2>5, <2>6, ReplacePositionSteady
    <2> HIDE DEF qs
    <2> QED
      BY <2>4, <2>7, PositionsFollow DEF ps, m
  <1> QED
    BY <1>2, <1>3, <1>4, FollowsSame

LEMMA UpsertRequestFollows ==
    ASSUME NEW l \in Ledgers, NEW r \in Requests, RequestCell(r, request[r])
    PROVE  Follows(l, UpsertRequest(r, l))
  <1> DEFINE c == request[r]
             es == l.requests
             found == StatusFromChain(c.data.status)
             same == {i \in DOMAIN es : es[i].id = r \/ es[i].cell = c.point}
             i == Least1(same)
             stored == es[i]
             status == IF same = {} THEN found
                       ELSE MergedStatus(stored.status, found)
             new == [NewRequest(r, c.data.amount, c.point, c.point, FALSE)
                       EXCEPT !.status = found]
             x == [stored EXCEPT !.hash = c.point, !.cell = c.point,
                                 !.status = status]
             appended == [l EXCEPT !.requests = Append(@, new)]
             replaced == [l EXCEPT !.requests[i] = x]
             set == IF same = {} THEN appended ELSE replaced
             entry == [NewReservation(r, c.data.amount)
                         EXCEPT !.status = ReservationStatus(status)]
             m == UpsertRequest(r, l)
  <1>1. /\ es \in Seq(RequestEntries)
        /\ \A j \in DOMAIN es : es[j] \in RequestEntries
    BY LedgerHas, DomainSeq
  <1>2. c.point \in Hashes /\ c.data.amount \in Nat
    BY DEF RequestCell, RequestCells
  <1>3. found \in {"PendingFiberChannel", "Requested"}
    BY DEF StatusFromChain
  <1>4. m = IF Indices(l.reservations, r) = {}
            THEN [set EXCEPT !.reservations = Append(@, entry)]
            ELSE SetReservation(set, r, ReservationStatus(status))
    BY DEF UpsertRequest
  <1>5. \A s : ReservationStatus(s) \in {"Deployed", "Released", "Reserved"}
    BY DEF ReservationStatus
  <1>6. same = {} => Follows(l, appended)
    <2>1. NewRequest(r, c.data.amount, c.point, c.point, FALSE) \in RequestEntries
      BY <1>2, NewRequestIs
    <2>2. new \in RequestEntries /\ new.status = found
      BY <1>3, <2>1 DEF RequestEntries
    <2>3. Shown(new)
      BY <1>3, <2>2 DEF Shown
    <2> HIDE DEF new
    <2> QED
      BY <2>2, <2>3, AppendRequestFollows
  <1>7. same # {} => Follows(l, replaced)
    <2> SUFFICES ASSUME same # {} PROVE Follows(l, replaced)
      OBVIOUS
    <2>1. i \in same
      <3>1. same \subseteq Nat
        BY <1>1, DomainSeq
      <3> HIDE DEF same
      <3>2. \E j \in same : \A k \in same : j <= k
        BY <3>1, LeastNumber
      <3> QED
        BY <3>2 DEF Least1
    <2>2. i \in DOMAIN es /\ stored \in RequestEntries
      BY <1>1, <2>1
    <2>3. status = stored.status \/ status = "PendingFiberChannel"
      BY <1>3 DEF MergedStatus
    <2> HIDE DEF i, status, found, c, stored
    <2>4. stored.status \in {"Requested", "FundingRequired", "FundingSubmitted",
               "PendingFiberChannel", "ChannelOpen", "Failed", "Expired",
               "Released", "Settled"}
      BY <2>2 DEF RequestEntries
    <2>5. x \in RequestEntries
      BY <1>2, <2>2, <2>3, <2>4 DEF RequestEntries, c
    <2>6. x.id = stored.id /\ x.status = status /\ x.channel = stored.channel
      BY <2>2 DEF RequestEntries
    <2>7. Replaces(stored, x)
      BY <2>3, <2>5, <2>6 DEF Replaces, Shown
    <2> HIDE DEF x
    <2> QED
      BY <2>2, <2>7, ReplaceFollows DEF stored
  <1>8. Follows(l, set)
    <2> HIDE DEF appended, replaced, same
    <2> QED
      BY <1>6, <1>7
  <1>9. set \in Ledgers
    BY <1>8 DEF Follows
  <1>10. entry \in ReservationEntries
    <2>1. ReservationStatus(status) \in {"Deployed", "Released", "Reserved"}
      BY <1>5
    <2> HIDE DEF status
    <2> QED
      BY <1>2, <2>1 DEF NewReservation, ReservationEntries
  <1>11. ReservationStatus(status) \in {"Reserved", "Deployed", "Released", "Failed"}
    BY <1>5
  <1> HIDE DEF entry, set, status
  <1>12. Follows(set, [set EXCEPT !.reservations = Append(@, entry)])
    BY <1>9, <1>10, AppendReservationFollows
  <1>13. Follows(set, SetReservation(set, r, ReservationStatus(status)))
    BY <1>9, <1>11, SetReservationFollows
  <1>14. Follows(set, m)
    BY <1>4, <1>12, <1>13
  <1> HIDE DEF m
  <1> QED
    BY <1>8, <1>14, FollowsTwice DEF m
LEMMA ReceiptsFollow ==
    ASSUME NEW l \in Ledgers, NEW S \in SUBSET Positions, IsFiniteSet(S),
           \A p \in S : LpCell(p, receipt[p]) /\ MadeFor(receipt[p].point, p)
    PROVE  Follows(l, FoldSet(UpsertReceipt, l, S))
  <1> DEFINE L == {m \in Ledgers : Follows(l, m)}
             step == [p \in S |-> [m \in L |-> UpsertReceipt(p, m)]]
             pick == [T \in SUBSET S |-> Chosen(T)]
             P(g) == g = [T \in SUBSET S |->
                             IF T = {} THEN l
                             ELSE UpsertReceipt(Chosen(T), g[T \ {Chosen(T)}])]
             end == CHOOSE g : P(g)
  <1>1. FoldSet(UpsertReceipt, l, S) = end[S]
    BY DEF FoldSet, MapThenFoldSet, Chosen
  <1>2. \A T \in SUBSET S : T # {} => Chosen(T) \in T
    BY ChosenIn
  <1>3. \A T \in SUBSET S : T # {} => pick[T] \in T
    BY <1>2
  <1>4. l \in L
    BY FollowsSame
  <1>5. \A p \in S : \A m \in L : UpsertReceipt(p, m) \in L
    <2> TAKE p \in S
    <2> TAKE m \in L
    <2>1. Follows(m, UpsertReceipt(p, m))
      BY UpsertReceiptFollows
    <2> QED
      BY <2>1, FollowsTwice DEF Follows
  <1> HIDE DEF L
  <1>6. \A p \in S : \A m \in L : step[p][m] \in L
    BY <1>5
  <1>7. \E g : Folds(l, step, pick, g, S)
    <2> HIDE DEF step, pick
    <2> QED
      BY <1>3, FoldsExist
  <1>8. PICK h : Folds(l, step, pick, h, S)
    BY <1>7
  <1>9. \A T \in SUBSET S : h[T] \in L
    <2> HIDE DEF step, pick
    <2> QED
      BY <1>3, <1>4, <1>6, <1>8, FoldsIn
  <1>10. P(h)
    <2>1. ASSUME NEW T \in SUBSET S, T # {}
          PROVE  step[pick[T]][h[T \ {pick[T]}]]
                    = UpsertReceipt(Chosen(T), h[T \ {Chosen(T)}])
      <3>1. Chosen(T) \in S /\ T \ {Chosen(T)} \in SUBSET S
        BY <1>2, <2>1
      <3>2. h[T \ {Chosen(T)}] \in L
        BY <1>9, <3>1
      <3> QED
        BY <3>1, <3>2
    <2> HIDE DEF step, pick
    <2> QED
      BY <1>8, <2>1 DEF Folds
  <1>11. P(end)
    BY <1>10
  <1> HIDE DEF end, step
  <1>12. end[{}] = l
    BY <1>11
  <1>13. ASSUME NEW T \in SUBSET S, T # {}, end[T \ {pick[T]}] \in L
         PROVE  end[T] \in L
    <2>1. end[T] = UpsertReceipt(Chosen(T), end[T \ {Chosen(T)}])
      BY <1>11, <1>13
    <2>2. Chosen(T) \in S
      BY <1>2, <1>13
    <2> QED
      BY <1>5, <1>13, <2>1, <2>2
  <1>14. end[S] \in L
    <2> HIDE DEF pick, P
    <2>1. \A T \in SUBSET S : end[T] \in L
      BY <1>3, <1>4, <1>12, <1>13, FoldWithin
    <2> QED
      BY <2>1
  <1> QED
    BY <1>1, <1>14 DEF L

LEMMA FoundFollow ==
    ASSUME NEW l \in Ledgers, NEW S \in SUBSET Requests, IsFiniteSet(S),
           \A r \in S : RequestCell(r, request[r])
    PROVE  Follows(l, FoldSet(UpsertRequest, l, S))
  <1> DEFINE L == {m \in Ledgers : Follows(l, m)}
             step == [r \in S |-> [m \in L |-> UpsertRequest(r, m)]]
             pick == [T \in SUBSET S |-> Chosen(T)]
             P(g) == g = [T \in SUBSET S |->
                             IF T = {} THEN l
                             ELSE UpsertRequest(Chosen(T), g[T \ {Chosen(T)}])]
             end == CHOOSE g : P(g)
  <1>1. FoldSet(UpsertRequest, l, S) = end[S]
    BY DEF FoldSet, MapThenFoldSet, Chosen
  <1>2. \A T \in SUBSET S : T # {} => Chosen(T) \in T
    BY ChosenIn
  <1>3. \A T \in SUBSET S : T # {} => pick[T] \in T
    BY <1>2
  <1>4. l \in L
    BY FollowsSame
  <1>5. \A r \in S : \A m \in L : UpsertRequest(r, m) \in L
    <2> TAKE r \in S
    <2> TAKE m \in L
    <2>1. Follows(m, UpsertRequest(r, m))
      BY UpsertRequestFollows
    <2> QED
      BY <2>1, FollowsTwice DEF Follows
  <1> HIDE DEF L
  <1>6. \A r \in S : \A m \in L : step[r][m] \in L
    BY <1>5
  <1>7. \E g : Folds(l, step, pick, g, S)
    <2> HIDE DEF step, pick
    <2> QED
      BY <1>3, FoldsExist
  <1>8. PICK h : Folds(l, step, pick, h, S)
    BY <1>7
  <1>9. \A T \in SUBSET S : h[T] \in L
    <2> HIDE DEF step, pick
    <2> QED
      BY <1>3, <1>4, <1>6, <1>8, FoldsIn
  <1>10. P(h)
    <2>1. ASSUME NEW T \in SUBSET S, T # {}
          PROVE  step[pick[T]][h[T \ {pick[T]}]]
                    = UpsertRequest(Chosen(T), h[T \ {Chosen(T)}])
      <3>1. Chosen(T) \in S /\ T \ {Chosen(T)} \in SUBSET S
        BY <1>2, <2>1
      <3>2. h[T \ {Chosen(T)}] \in L
        BY <1>9, <3>1
      <3> QED
        BY <3>1, <3>2
    <2> HIDE DEF step, pick
    <2> QED
      BY <1>8, <2>1 DEF Folds
  <1>11. P(end)
    BY <1>10
  <1> HIDE DEF end, step
  <1>12. end[{}] = l
    BY <1>11
  <1>13. ASSUME NEW T \in SUBSET S, T # {}, end[T \ {pick[T]}] \in L
         PROVE  end[T] \in L
    <2>1. end[T] = UpsertRequest(Chosen(T), end[T \ {Chosen(T)}])
      BY <1>11, <1>13
    <2>2. Chosen(T) \in S
      BY <1>2, <1>13
    <2> QED
      BY <1>5, <1>13, <2>1, <2>2
  <1>14. end[S] \in L
    <2> HIDE DEF pick, P
    <2>1. \A T \in SUBSET S : end[T] \in L
      BY <1>3, <1>4, <1>12, <1>13, FoldWithin
    <2> QED
      BY <2>1
  <1> QED
    BY <1>1, <1>14 DEF L
----------------------------------------------------------------------------
(***************************************************************************)
(* The watcher: all requests change, then what follows from it.            *)
(***************************************************************************)
FiberEntries ==
    [amount : Nat, tx : Hashes \cup {None},
     state : {"negotiating", "usable", "failed", "lost", "closed"}]

LEMMA ChannelIs ==
    ASSUME NEW l, NEW e \in RequestEntries, fiber \in Seq(FiberEntries),
           NEW states, Matching(l, e, states) # {},
           NEW status \in {"ChannelOpen", "Settled"}
    PROVE  LET x == WithChannel(l, e, states, status)
           IN  /\ x \in RequestEntries /\ x.id = e.id /\ x.status = status
               /\ x.channel \in DOMAIN fiber /\ fiber[x.channel].state \in states
  <1> DEFINE n == Least1(Matching(l, e, states))
             tx == fiber[n].tx
             funding == IF tx # None THEN tx ELSE e.funding
             x == WithChannel(l, e, states, status)
  <1>1. DOMAIN fiber \subseteq Nat /\ \A k \in DOMAIN fiber : fiber[k] \in FiberEntries
    BY DomainSeq
  <1>2. n \in Matching(l, e, states)
    <2>1. Matching(l, e, states) \subseteq Nat
      BY <1>1 DEF Matching
    <2>2. \E k \in Matching(l, e, states) :
             \A j \in Matching(l, e, states) : k <= j
      BY <2>1, LeastNumber
    <2> QED
      BY <2>2 DEF Least1
  <1>3. n \in DOMAIN fiber /\ fiber[n].state \in states /\ n \in Nat
    BY <1>1, <1>2 DEF Matching
  <1>4. tx \in Hashes \cup {None}
    BY <1>1, <1>3 DEF FiberEntries
  <1>5. funding \in Hashes \cup {None}
    BY <1>4 DEF RequestEntries
  <1>6. x = [e EXCEPT !.status = status, !.channel = n, !.funding = funding]
    BY DEF WithChannel, RequestEntries
  <1> HIDE DEF n, tx, funding, x
  <1>7. x \in RequestEntries /\ x.id = e.id /\ x.status = status /\ x.channel = n
    BY <1>3, <1>5, <1>6 DEF RequestEntries
  <1> QED
    BY <1>3, <1>7 DEF x

LEMMA WatchedIs ==
    ASSUME NEW l, NEW e \in RequestEntries, fiber \in Seq(FiberEntries), NEW late
    PROVE  Replaces(e, Watched(l, e, late))
  <1> DEFINE fate == Fate(l, e, late)
             closed == WithChannel(l, e, {"closed"}, "Settled")
             opened == WithChannel(l, e, Usable, "ChannelOpen")
             fresh == [WithChannel(l, e, Usable, e.status)
                         EXCEPT !.channel = e.channel]
             seen == IF Refreshed(l, e, late) THEN fresh ELSE e
             failed == [seen EXCEPT !.status = "Failed"]
             x == Watched(l, e, late)
  <1>1. x = CASE fate = "settled" -> closed
              [] fate = "opened" -> opened
              [] fate = "failed" -> failed
              [] OTHER -> seen
    BY DEF Watched
  <1>2. fate = "settled" => Matching(l, e, {"closed"}) # {}
    BY DEF Fate
  <1>3. fate = "opened" => Matching(l, e, Usable) # {}
    BY DEF Fate
  <1>4. Refreshed(l, e, late) => e.status = "ChannelOpen"
                                 /\ Matching(l, e, Usable) # {}
    BY DEF Refreshed
  <1>5. seen \in RequestEntries /\ seen.id = e.id /\ seen.status = e.status
        /\ seen.channel = e.channel
    <2>1. CASE ~Refreshed(l, e, late)
      BY <2>1
    <2>2. CASE Refreshed(l, e, late)
      <3> DEFINE y == WithChannel(l, e, Usable, e.status)
      <3>1. e.status \in {"ChannelOpen", "Settled"}
        BY <1>4, <2>2
      <3>2. y \in RequestEntries /\ y.id = e.id /\ y.status = e.status
        BY <1>4, <2>2, <3>1, ChannelIs
      <3> HIDE DEF y
      <3>3. LET z == [y EXCEPT !.channel = e.channel]
            IN  z \in RequestEntries /\ z.id = y.id /\ z.status = y.status
                /\ z.channel = e.channel
        BY <3>2 DEF RequestEntries
      <3>4. seen = [y EXCEPT !.channel = e.channel]
        BY <2>2 DEF y
      <3> QED
        BY <3>2, <3>3, <3>4
    <2> QED
      BY <2>1, <2>2
  <1> HIDE DEF seen
  <1>6. CASE fate = "settled"
    <2>1. closed \in RequestEntries /\ closed.id = e.id /\ closed.status = "Settled"
      BY <1>2, <1>6, ChannelIs
    <2>2. x = closed
      BY <1>1, <1>6
    <2> HIDE DEF closed, x, fate
    <2> QED
      BY <2>1, <2>2 DEF Replaces, Shown, x
  <1>7. CASE fate = "opened"
    <2>1. /\ opened \in RequestEntries /\ opened.id = e.id
          /\ opened.channel \in DOMAIN fiber /\ fiber[opened.channel].state \in Usable
      BY <1>3, <1>7, ChannelIs
    <2>2. x = opened
      BY <1>1, <1>7
    <2> HIDE DEF opened, x, fate
    <2>3. Shown(opened)
      BY <2>1 DEF Shown, Usable, SignedStates
    <2> QED
      BY <2>1, <2>2, <2>3 DEF Replaces, x
  <1>8. CASE fate = "failed"
    <2>1. failed \in RequestEntries /\ failed.id = e.id /\ failed.status = "Failed"
      BY <1>5 DEF RequestEntries
    <2>2. x = failed
      BY <1>1, <1>8
    <2> HIDE DEF failed, x, fate
    <2> QED
      BY <2>1, <2>2 DEF Replaces, Shown, x
  <1>9. CASE fate \notin {"settled", "opened", "failed"}
    <2>1. x = seen
      BY <1>1, <1>9
    <2> HIDE DEF x, fate
    <2> QED
      BY <1>5, <2>1 DEF Replaces, x
  <1> QED
    BY <1>6, <1>7, <1>8, <1>9

\* The parts of AfterWatch.
Changed(l, late) ==
    [l EXCEPT !.requests =
        [i \in DOMAIN l.requests |-> Watched(l, l.requests[i], late)]]
Effects(l, late, i) ==
    {Fate(l, l.requests[i], late)}
        \cup IF Refreshed(l, l.requests[i], late) THEN {"refreshed"} ELSE {}
EffectOf(l, late, kind, m, i) ==
    LET e == Changed(l, late).requests[i]
        error == IF l.requests[i].status = "FundingRequired"
                 THEN "timeout" ELSE "other"
    IN  IF kind \notin Effects(l, late, i) THEN m
        ELSE CASE kind = "opened" -> Opened(m, e)
               [] kind = "refreshed" -> ActiveIntent(m, e)
               [] kind = "settled" -> Settled(m, e)
               [] OTHER -> Failed(m, e, error)
PassOf(l, late, kind, m) ==
    FoldLeftDomain(LAMBDA k, i : EffectOf(l, late, kind, k, i), m, l.requests)

LEMMA WatchIs ==
    ASSUME NEW l, NEW late
    PROVE  AfterWatch(l, late)
              = PassOf(l, late, "failed",
                   PassOf(l, late, "settled",
                      PassOf(l, late, "refreshed",
                         PassOf(l, late, "opened", Changed(l, late)))))
  BY DEF AfterWatch, PassOf, EffectOf, Effects, Changed

LEMMA ChangedFollows ==
    ASSUME NEW l \in Ledgers, fiber \in Seq(FiberEntries), NEW late
    PROVE  /\ Follows(l, Changed(l, late))
           /\ DOMAIN Changed(l, late).requests = DOMAIN l.requests
  <1> DEFINE es == l.requests
             rs == [i \in DOMAIN es |-> Watched(l, es[i], late)]
             m == Changed(l, late)
  <1>1. es \in Seq(RequestEntries) /\ \A i \in DOMAIN es : es[i] \in RequestEntries
    BY LedgerHas, DomainSeq
  <1>2. \A i \in DOMAIN es : Replaces(es[i], rs[i])
    BY <1>1, WatchedIs
  <1>3. rs = [i \in DOMAIN es |-> rs[i]] /\ DOMAIN rs = DOMAIN es
    OBVIOUS
  <1>4. m = [l EXCEPT !.requests = rs]
    BY DEF Changed
  <1> HIDE DEF rs, m
  <1>5. \A i \in DOMAIN es : rs[i] \in RequestEntries
    BY <1>2 DEF Replaces
  <1>6. rs \in Seq(RequestEntries)
    BY <1>1, <1>3, <1>5, MapSeq
  <1>7. Follows(l, m) /\ m.requests = rs
    BY <1>2, <1>3, <1>4, <1>6, RequestsFollow
  <1> QED
    BY <1>3, <1>7 DEF m
LEMMA EffectFollows ==
    ASSUME NEW l \in Ledgers, fiber \in Seq(FiberEntries), NEW late, NEW kind,
           NEW m, Follows(Changed(l, late), m), NEW i \in DOMAIN l.requests
    PROVE  Follows(Changed(l, late), EffectOf(l, late, kind, m, i))
  <1> DEFINE c == Changed(l, late)
             e == c.requests[i]
             error == IF l.requests[i].status = "FundingRequired"
                      THEN "timeout" ELSE "other"
             x == EffectOf(l, late, kind, m, i)
  <1>1. c \in Ledgers /\ i \in DOMAIN c.requests
    BY ChangedFollows DEF Follows
  <1>2. e \in RequestEntries
    BY <1>1, LedgerHas, DomainSeq
  <1>3. m \in Ledgers
    BY DEF Follows
  <1>4. Knows(c, e.id)
    BY <1>1 DEF Knows
  <1>5. Knows(m, e.id)
    BY <1>4, StillKnows
  <1>6. error \in JobErrors
    BY DEF JobErrors
  <1>7. \/ x = m \/ x = Opened(m, e) \/ x = ActiveIntent(m, e)
        \/ x = Settled(m, e) \/ x = Failed(m, e, error)
    <2>1. x = IF kind \notin Effects(l, late, i) THEN m
              ELSE CASE kind = "opened" -> Opened(m, e)
                     [] kind = "refreshed" -> ActiveIntent(m, e)
                     [] kind = "settled" -> Settled(m, e)
                     [] OTHER -> Failed(m, e, error)
      BY DEF EffectOf
    <2> HIDE DEF x, e, error
    <2> QED
      BY <2>1
  <1> HIDE DEF x, e, error, c
  <1>8. Follows(m, m)
    BY <1>3, FollowsSame
  <1>9. Follows(m, Opened(m, e))
    BY <1>2, <1>3, <1>5, OpenedMoves DEF Moves
  <1>10. Follows(m, ActiveIntent(m, e))
    <2>1. e.funding \in Hashes \cup {None}
      BY <1>2 DEF RequestEntries
    <2> QED
      BY <1>3, <2>1, ActiveIntentFollows
  <1>11. Follows(m, Settled(m, e))
    BY <1>2, <1>3, SettledMoves DEF Moves
  <1>12. Follows(m, Failed(m, e, error))
    BY <1>2, <1>3, <1>5, <1>6, FailedMoves DEF Moves
  <1>13. Follows(m, x)
    BY <1>7, <1>8, <1>9, <1>10, <1>11, <1>12
  <1> QED
    BY <1>13, FollowsTwice DEF c, x

\* A pass, step by step: g is the ledger after the requests of each set.
PassBy(l, late, kind, m, g) ==
    /\ g[{}] = m /\ PassOf(l, late, kind, m) = g[DOMAIN l.requests]
    /\ \A T \in SUBSET DOMAIN l.requests :
          /\ Follows(Changed(l, late), g[T])
          /\ T # {} => /\ Max(T) \in T
                       /\ g[T] = EffectOf(l, late, kind, g[T \ {Max(T)}], Max(T))

LEMMA PassSteps ==
    ASSUME NEW l \in Ledgers, fiber \in Seq(FiberEntries), NEW late, NEW kind,
           NEW m, Follows(Changed(l, late), m)
    PROVE  \E g : PassBy(l, late, kind, m, g)
  <1> DEFINE c == Changed(l, late)
             ids == [i \in DOMAIN l.requests |-> i]
             D == DOMAIN ids
             L == {k \in Ledgers : Follows(c, k)}
             step == [i \in D |-> [k \in L |-> EffectOf(l, late, kind, k, i)]]
             pick == [T \in SUBSET D |-> Max(T)]
             P(g) == g = [T \in SUBSET D |->
                             IF T = {} THEN m
                             ELSE EffectOf(l, late, kind, g[T \ {Max(T)}],
                                           ids[Max(T)])]
             end == CHOOSE g : P(g)
  <1>1. PassOf(l, late, kind, m) = end[D]
    BY DEF PassOf, FoldLeftDomain, FoldLeft, MapThenFoldSet
  <1>2. /\ D = DOMAIN l.requests /\ Len(l.requests) \in Nat
        /\ D = 1..Len(l.requests) /\ IsFiniteSet(D)
        /\ \A i \in D : ids[i] = i
    <2>1. l.requests \in Seq(RequestEntries)
      BY LedgerHas
    <2>2. /\ Len(l.requests) \in Nat /\ DOMAIN l.requests = 1..Len(l.requests)
          /\ IsFiniteSet(DOMAIN l.requests)
      BY <2>1, DomainSeq
    <2> QED
      BY <2>2
  <1> HIDE DEF D, ids
  <1>3. \A T \in SUBSET D : T # {} => Max(T) \in T
    BY <1>2, MaxIn
  <1>4. \A T \in SUBSET D : T # {} => pick[T] \in T
    BY <1>3
  <1>5. m \in L
    BY DEF Follows
  <1>6. \A i \in D : \A k \in L : EffectOf(l, late, kind, k, i) \in L
    <2> TAKE i \in D
    <2> TAKE k \in L
    <2>1. Follows(c, EffectOf(l, late, kind, k, i))
      BY <1>2, EffectFollows
    <2> QED
      BY <2>1 DEF Follows
  <1> HIDE DEF L, c
  <1>7. \A i \in D : \A k \in L : step[i][k] \in L
    BY <1>6
  <1>8. \E g : Folds(m, step, pick, g, D)
    <2> HIDE DEF step, pick
    <2> QED
      BY <1>2, <1>4, FoldsExist
  <1>9. PICK h : Folds(m, step, pick, h, D)
    BY <1>8
  <1>10. \A T \in SUBSET D : h[T] \in L
    <2> HIDE DEF step, pick
    <2> QED
      BY <1>2, <1>4, <1>5, <1>7, <1>9, FoldsIn
  <1>11. P(h)
    <2>1. ASSUME NEW T \in SUBSET D, T # {}
          PROVE  step[pick[T]][h[T \ {pick[T]}]]
                    = EffectOf(l, late, kind, h[T \ {Max(T)}], ids[Max(T)])
      <3>1. Max(T) \in D /\ T \ {Max(T)} \in SUBSET D
        BY <1>3, <2>1
      <3>2. h[T \ {Max(T)}] \in L /\ ids[Max(T)] = Max(T)
        BY <1>2, <1>10, <3>1
      <3> QED
        BY <3>1, <3>2
    <2> HIDE DEF step, pick
    <2> QED
      BY <1>9, <2>1 DEF Folds
  <1>12. P(end)
    BY <1>11
  <1> HIDE DEF end, step
  <1>13. end[{}] = m
    BY <1>12
  <1>14. ASSUME NEW T \in SUBSET D, T # {}, end[T \ {pick[T]}] \in L
         PROVE  end[T] \in L
    <2>1. end[T] = EffectOf(l, late, kind, end[T \ {Max(T)}], ids[Max(T)])
      BY <1>12, <1>14
    <2>2. Max(T) \in D /\ ids[Max(T)] = Max(T)
      BY <1>2, <1>3, <1>14
    <2> QED
      BY <1>6, <1>14, <2>1, <2>2
  <1>15. \A T \in SUBSET D : end[T] \in L
    <2> HIDE DEF pick, P
    <2> QED
      BY ZenonT(30), <1>2, <1>4, <1>5, <1>13, <1>14, FoldWithin
  <1>16. \A T \in SUBSET D : T # {} =>
            end[T] = EffectOf(l, late, kind, end[T \ {Max(T)}], Max(T))
    <2>1. ASSUME NEW T \in SUBSET D, T # {}
          PROVE  end[T] = EffectOf(l, late, kind, end[T \ {Max(T)}], Max(T))
      <3>1. Max(T) \in D /\ ids[Max(T)] = Max(T)
        BY <1>2, <1>3, <2>1
      <3>2. end[T] = EffectOf(l, late, kind, end[T \ {Max(T)}], ids[Max(T)])
        BY <1>12, <2>1
      <3> QED
        BY <3>1, <3>2
    <2> QED
      BY <2>1
  <1>17. \A T \in SUBSET D : Follows(Changed(l, late), end[T])
    BY <1>15 DEF L, c
  <1>18. PassOf(l, late, kind, m) = end[D]
    BY <1>1
  <1> HIDE DEF P
  <1>19. PassBy(l, late, kind, m, end)
    BY <1>2, <1>3, <1>13, <1>16, <1>17, <1>18 DEF PassBy
  <1> QED
    BY <1>19

LEMMA PassFollows ==
    ASSUME NEW l \in Ledgers, fiber \in Seq(FiberEntries), NEW late, NEW kind,
           NEW m, Follows(Changed(l, late), m)
    PROVE  Follows(Changed(l, late), PassOf(l, late, kind, m))
  <1>1. PICK g : PassBy(l, late, kind, m, g)
    BY PassSteps
  <1> QED
    BY <1>1 DEF PassBy

LEMMA WatchFollows ==
    ASSUME NEW l \in Ledgers, fiber \in Seq(FiberEntries), NEW late
    PROVE  Follows(l, AfterWatch(l, late))
  <1> DEFINE c == Changed(l, late)
             a == PassOf(l, late, "opened", c)
             b == PassOf(l, late, "refreshed", a)
             d == PassOf(l, late, "settled", b)
             e == PassOf(l, late, "failed", d)
  <1>1. Follows(l, c)
    BY ChangedFollows
  <1>2. Follows(c, c)
    BY <1>1, FollowsSame DEF Follows
  <1>3. Follows(c, a)
    BY <1>2, PassFollows
  <1> HIDE DEF a
  <1>4. Follows(c, b)
    BY <1>3, PassFollows
  <1> HIDE DEF b
  <1>5. Follows(c, d)
    BY <1>4, PassFollows
  <1> HIDE DEF d
  <1>6. Follows(c, e)
    BY <1>5, PassFollows
  <1>7. Follows(l, e)
    BY <1>1, <1>6, FollowsTwice
  <1> QED
    BY <1>7, WatchIs DEF a, b, d
----------------------------------------------------------------------------
(***************************************************************************)
(* The worker's expiry: all due requests are marked, then released in turn *)
(* until the positions fall short.                                         *)
(***************************************************************************)
Due(expired) ==
    {i \in DOMAIN ledger.requests :
        /\ ledger.requests[i].id \in expired
        /\ ledger.requests[i].status \in {"Requested", "FundingRequired", "Failed"}}
Marked(due) ==
    [ledger EXCEPT !.requests =
        [i \in DOMAIN ledger.requests |->
            IF i \in due
            THEN [ledger.requests[i] EXCEPT !.status = "Released"]
            ELSE ledger.requests[i]]]
ReleaseOf(due, acc, i) ==
    LET entry == ledger.requests[i]
        moved == [acc.l EXCEPT !.positions = ReleasePositions(@, entry.amount)]
    IN  IF i \notin due \/ ~acc.ok THEN acc
        ELSE IF Covered(acc.l.positions, "reserved", entry.amount)
        THEN [ok |-> TRUE, l |-> SetReservation(moved, entry.id, "Released")]
        ELSE [ok |-> FALSE, l |-> moved]
ReleaseEnd(due) ==
    FoldLeftDomain(LAMBDA acc, i : ReleaseOf(due, acc, i),
                   [ok |-> TRUE, l |-> Marked(due)], ledger.requests)

LEMMA ExpiredIs ==
    ASSUME NEW expired, ReleaseExpired(expired)
    PROVE  /\ \/ ledger' = ReleaseEnd(Due(expired)).l
                 /\ disk' = ReleaseEnd(Due(expired)).l
              \/ ledger' = ReleaseEnd(Due(expired)).l /\ UNCHANGED disk
           /\ UNCHANGED <<contexts, handoffs, building, fiber>>
  BY DEF ReleaseExpired, ReleaseEnd, ReleaseOf, Marked, Due, Save

LEMMA MarkedFollows ==
    ASSUME ledger \in Ledgers, NEW due
    PROVE  Follows(ledger, Marked(due))
  <1> DEFINE es == ledger.requests
             rs == [i \in DOMAIN es |->
                      IF i \in due THEN [es[i] EXCEPT !.status = "Released"]
                      ELSE es[i]]
             m == Marked(due)
  <1>1. es \in Seq(RequestEntries) /\ \A i \in DOMAIN es : es[i] \in RequestEntries
    BY LedgerHas, DomainSeq
  <1>2. \A e \in RequestEntries :
           LET x == [e EXCEPT !.status = "Released"]
           IN  x \in RequestEntries /\ x.id = e.id /\ x.status = "Released"
    BY DEF RequestEntries
  <1>3. \A i \in DOMAIN es : Replaces(es[i], rs[i])
    BY <1>1, <1>2 DEF Replaces, Shown
  <1>4. rs = [i \in DOMAIN es |-> rs[i]] /\ DOMAIN rs = DOMAIN es
    OBVIOUS
  <1>5. m = [ledger EXCEPT !.requests = rs]
    BY DEF Marked
  <1> HIDE DEF rs, m
  <1>6. \A i \in DOMAIN es : rs[i] \in RequestEntries
    BY <1>3 DEF Replaces
  <1>7. rs \in Seq(RequestEntries)
    BY <1>1, <1>4, <1>6, MapSeq
  <1>8. Follows(ledger, m) /\ m.requests = rs
    BY <1>3, <1>4, <1>5, <1>7, RequestsFollow
  <1> QED
    BY <1>8 DEF m

Releases == [ok : BOOLEAN, l : {m \in Ledgers : Follows(ledger, m)}]

LEMMA ReleaseOfFollows ==
    ASSUME ledger \in Ledgers, NEW due, NEW acc \in Releases,
           NEW i \in DOMAIN ledger.requests
    PROVE  ReleaseOf(due, acc, i) \in Releases
  <1> DEFINE e == ledger.requests[i]
             l == acc.l
             moved == [l EXCEPT !.positions = ReleasePositions(@, e.amount)]
             freed == SetReservation(moved, e.id, "Released")
  <1>1. l \in Ledgers /\ Follows(ledger, l)
    BY DEF Releases
  <1>2. e \in RequestEntries
    BY LedgerHas, DomainSeq
  <1>3. e.amount \in Nat
    BY <1>2 DEF RequestEntries
  <1>4. ReleaseOf(due, acc, i)
           \in {acc, [ok |-> TRUE, l |-> freed], [ok |-> FALSE, l |-> moved]}
    BY DEF ReleaseOf
  <1> HIDE DEF e, l
  <1>5. Moves(l, moved)
    BY <1>1, <1>3, ReleaseMoves
  <1>6. moved \in Ledgers /\ Follows(ledger, moved)
    BY <1>1, <1>5, MovesIn, FollowsTwice DEF Moves
  <1> HIDE DEF moved
  <1>7. Follows(moved, freed)
    BY <1>6, SetReservationFollows
  <1>8. freed \in Ledgers /\ Follows(ledger, freed)
    BY <1>6, <1>7, FollowsTwice DEF Follows
  <1> HIDE DEF freed
  <1>9. /\ [ok |-> TRUE, l |-> freed] \in Releases
        /\ [ok |-> FALSE, l |-> moved] \in Releases
    BY <1>6, <1>8 DEF Releases
  <1> QED
    BY <1>4, <1>9

\* The expiry, step by step.
ReleaseBy(due, g) ==
    /\ g[{}] = [ok |-> TRUE, l |-> Marked(due)]
    /\ ReleaseEnd(due) = g[DOMAIN ledger.requests]
    /\ \A T \in SUBSET DOMAIN ledger.requests :
          /\ g[T] \in Releases
          /\ T # {} => /\ Max(T) \in T
                       /\ g[T] = ReleaseOf(due, g[T \ {Max(T)}], Max(T))

LEMMA ReleaseSteps ==
    ASSUME ledger \in Ledgers, NEW due
    PROVE  \E g : ReleaseBy(due, g)
  <1> DEFINE m == [ok |-> TRUE, l |-> Marked(due)]
             ids == [i \in DOMAIN ledger.requests |-> i]
             D == DOMAIN ids
             step == [i \in D |-> [k \in Releases |-> ReleaseOf(due, k, i)]]
             pick == [T \in SUBSET D |-> Max(T)]
             P(g) == g = [T \in SUBSET D |->
                             IF T = {} THEN m
                             ELSE ReleaseOf(due, g[T \ {Max(T)}], ids[Max(T)])]
             end == CHOOSE g : P(g)
  <1>1. ReleaseEnd(due) = end[D]
    BY DEF ReleaseEnd, FoldLeftDomain, FoldLeft, MapThenFoldSet
  <1>2. /\ D = DOMAIN ledger.requests /\ Len(ledger.requests) \in Nat
        /\ D = 1..Len(ledger.requests) /\ IsFiniteSet(D)
        /\ \A i \in D : ids[i] = i
    <2>1. ledger.requests \in Seq(RequestEntries)
      BY LedgerHas
    <2>2. /\ Len(ledger.requests) \in Nat
          /\ DOMAIN ledger.requests = 1..Len(ledger.requests)
          /\ IsFiniteSet(DOMAIN ledger.requests)
      BY <2>1, DomainSeq
    <2> QED
      BY <2>2
  <1> HIDE DEF D, ids
  <1>3. \A T \in SUBSET D : T # {} => Max(T) \in T
    BY <1>2, MaxIn
  <1>4. \A T \in SUBSET D : T # {} => pick[T] \in T
    BY <1>3
  <1>5. m \in Releases
    BY MarkedFollows DEF Releases, Follows
  <1>6. \A i \in D : \A k \in Releases : ReleaseOf(due, k, i) \in Releases
    BY <1>2, ReleaseOfFollows
  <1> HIDE DEF m
  <1>7. \A i \in D : \A k \in Releases : step[i][k] \in Releases
    BY <1>6
  <1>8. \E g : Folds(m, step, pick, g, D)
    <2> HIDE DEF step, pick
    <2> QED
      BY <1>2, <1>4, FoldsExist
  <1>9. PICK h : Folds(m, step, pick, h, D)
    BY <1>8
  <1>10. \A T \in SUBSET D : h[T] \in Releases
    <2> HIDE DEF step, pick
    <2> QED
      BY <1>2, <1>4, <1>5, <1>7, <1>9, FoldsIn
  <1>11. P(h)
    <2>1. ASSUME NEW T \in SUBSET D, T # {}
          PROVE  step[pick[T]][h[T \ {pick[T]}]]
                    = ReleaseOf(due, h[T \ {Max(T)}], ids[Max(T)])
      <3>1. Max(T) \in D /\ T \ {Max(T)} \in SUBSET D
        BY <1>3, <2>1
      <3>2. h[T \ {Max(T)}] \in Releases /\ ids[Max(T)] = Max(T)
        BY <1>2, <1>10, <3>1
      <3> QED
        BY <3>1, <3>2
    <2> HIDE DEF step, pick
    <2> QED
      BY <1>9, <2>1 DEF Folds
  <1>12. P(end)
    BY <1>11
  <1> HIDE DEF end, step
  <1>13. end[{}] = m
    BY <1>12
  <1>14. ASSUME NEW T \in SUBSET D, T # {}, end[T \ {pick[T]}] \in Releases
         PROVE  end[T] \in Releases
    <2>1. end[T] = ReleaseOf(due, end[T \ {Max(T)}], ids[Max(T)])
      BY <1>12, <1>14
    <2>2. Max(T) \in D /\ ids[Max(T)] = Max(T)
      BY <1>2, <1>3, <1>14
    <2> QED
      BY <1>6, <1>14, <2>1, <2>2
  <1>15. \A T \in SUBSET D : end[T] \in Releases
    <2> HIDE DEF pick, P
    <2> QED
      BY ZenonT(30), <1>2, <1>4, <1>5, <1>13, <1>14, FoldWithin
  <1>16. \A T \in SUBSET D : T # {} =>
            end[T] = ReleaseOf(due, end[T \ {Max(T)}], Max(T))
    <2>1. ASSUME NEW T \in SUBSET D, T # {}
          PROVE  end[T] = ReleaseOf(due, end[T \ {Max(T)}], Max(T))
      <3>1. Max(T) \in D /\ ids[Max(T)] = Max(T)
        BY <1>2, <1>3, <2>1
      <3>2. end[T] = ReleaseOf(due, end[T \ {Max(T)}], ids[Max(T)])
        BY <1>12, <2>1
      <3> QED
        BY <3>1, <3>2
    <2> QED
      BY <2>1
  <1>17. end[{}] = [ok |-> TRUE, l |-> Marked(due)]
    BY <1>13 DEF m
  <1>18. ReleaseEnd(due) = end[D]
    BY <1>1
  <1> HIDE DEF P
  <1>19. ReleaseBy(due, end)
    BY <1>2, <1>3, <1>15, <1>16, <1>17, <1>18 DEF ReleaseBy
  <1> QED
    BY <1>19

LEMMA ReleaseEndFollows ==
    ASSUME ledger \in Ledgers, NEW due
    PROVE  Follows(ledger, ReleaseEnd(due).l)
  <1>1. PICK g : ReleaseBy(due, g)
    BY ReleaseSteps
  <1>2. ReleaseEnd(due) \in Releases
    BY <1>1 DEF ReleaseBy
  <1> QED
    BY <1>2 DEF Releases
----------------------------------------------------------------------------
(***************************************************************************)
(* The handlers of the executor: each keeps what the ledger recorded, and  *)
(* writes all of memory or nothing.                                        *)
(***************************************************************************)
Kept == Follows(ledger, ledger') /\ (disk' = ledger' \/ disk' = disk)

LEMMA SaveKept ==
    ASSUME NEW l, Follows(ledger, l), Save(l) \/ SaveIfChanged(l)
    PROVE  Kept
  BY DEF Save, SaveIfChanged, Kept

LEMMA SameKept ==
    ASSUME ledger \in Ledgers, UNCHANGED <<ledger, disk>>
    PROVE  Kept
  BY FollowsSame DEF Kept

LEMMA KnownKnows == ASSUME NEW r PROVE Known(r) <=> Knows(ledger, r)
  BY DEF Known, Knows, Indices

LEMMA AttachKept ==
    ASSUME ledger \in Ledgers, NEW r, AttachFiberPeer(r)
    PROVE  Kept
  <1> DEFINE e == Entry(ledger, r)
             x == [e EXCEPT !.peer = TRUE]
  <1>1. Knows(ledger, r)
    BY KnownKnows DEF AttachFiberPeer
  <1>2. e \in RequestEntries
    BY <1>1, EntryIs
  <1>3. Save(SetRequest(ledger, r, x))
    BY DEF AttachFiberPeer
  <1> HIDE DEF e
  <1>4. Replaces(e, x)
    BY <1>2 DEF Replaces, RequestEntries
  <1> HIDE DEF x
  <1>5. Follows(ledger, SetRequest(ledger, r, x))
    BY <1>1, <1>4, SetRequestFollows DEF e
  <1> QED
    BY <1>3, <1>5, SaveKept

LEMMA RetryKept ==
    ASSUME ledger \in Ledgers, NEW r \in Requests, RetryJob(r)
    PROVE  Kept
  <1>1. Save(MarkJob(ledger, r, "Queued", "none"))
    BY DEF RetryJob
  <1>2. Follows(ledger, MarkJob(ledger, r, "Queued", "none"))
    BY MarkJobFollows DEF JobStatuses, JobErrors
  <1> QED
    BY <1>1, <1>2, SaveKept

LEMMA ReadKept ==
    ASSUME ledger \in Ledgers, NEW x, Knows(ledger, x.id), HandoffRead(x)
    PROVE  Kept
  <1> DEFINE r == x.id
             l == IF x.executor /\ x.stage = "read" THEN EnsureJob(ledger, r)
                  ELSE ledger
  <1>1. \/ SaveIfChanged(l)
        \/ UNCHANGED <<ledger, disk>>
        \/ Save(MarkJob(l, r, "Queued", "none"))
        \/ Save(MarkJob(l, r, "RetryableFailed", "other"))
        \/ Save(MarkJob(l, r, "Preparing", "none"))
    BY DEF HandoffRead
  <1>2. r \in Requests
    BY EntryIs
  <1>3. Follows(ledger, l) /\ l \in Ledgers
    BY EnsureJobFollows, FollowsSame DEF Follows
  <1> HIDE DEF l, r
  <1>4. \A status \in JobStatuses, error \in JobErrors :
           Follows(ledger, MarkJob(l, r, status, error))
    <2> TAKE status \in JobStatuses, error \in JobErrors
    <2>1. Follows(l, MarkJob(l, r, status, error))
      BY <1>2, <1>3, MarkJobFollows
    <2> QED
      BY <1>3, <2>1, FollowsTwice
  <1>5. /\ Follows(ledger, MarkJob(l, r, "Queued", "none"))
        /\ Follows(ledger, MarkJob(l, r, "RetryableFailed", "other"))
        /\ Follows(ledger, MarkJob(l, r, "Preparing", "none"))
    BY <1>4 DEF JobStatuses, JobErrors
  <1> QED
    BY <1>1, <1>3, <1>5, SaveKept, SameKept

LEMMA PreparedFollows ==
    ASSUME NEW l \in Ledgers, NEW r, Knows(l, r)
    PROVE  Follows(l, Prepared(l, r))
  <1> DEFINE e == Entry(l, r)
             x == [e EXCEPT !.status = "FundingRequired", !.temporary = None]
             m == SetRequest(l, r, x)
             f == FundingIntent("BuilderRequired", None, None)
  <1>1. e \in RequestEntries
    BY EntryIs
  <1>2. Prepared(l, r) = [m EXCEPT !.funding[r] = f]
    BY DEF Prepared
  <1> HIDE DEF e
  <1>3. Replaces(e, x)
    BY <1>1 DEF Replaces, RequestEntries, Shown
  <1> HIDE DEF x
  <1>4. Follows(l, m) /\ m \in Ledgers
    BY <1>3, SetRequestFollows DEF e, Follows
  <1>5. f \in FundingEntries
    BY DEF FundingIntent, FundingEntries, FundingStatuses
  <1> HIDE DEF m, f
  <1>6. Follows(m, [m EXCEPT !.funding[r] = f])
    BY <1>4, <1>5, FundingIsFollows
  <1> QED
    BY <1>2, <1>4, <1>6, FollowsTwice

LEMMA PrepareKept ==
    ASSUME ledger \in Ledgers, NEW x, Knows(ledger, x.id), HandoffPrepare(x)
    PROVE  Kept
  <1> DEFINE r == x.id
             l == Prepared(ledger, r)
  <1>1. \/ Save(l)
        \/ Save(MarkJob(l, r, "AwaitingVaultFunding", "other"))
    BY DEF HandoffPrepare
  <1>2. r \in Requests
    BY EntryIs
  <1>3. Follows(ledger, l) /\ l \in Ledgers
    BY PreparedFollows DEF Follows
  <1> HIDE DEF l, r
  <1>4. Follows(l, MarkJob(l, r, "AwaitingVaultFunding", "other"))
    BY <1>2, <1>3, MarkJobFollows DEF JobStatuses, JobErrors
  <1>5. Follows(ledger, MarkJob(l, r, "AwaitingVaultFunding", "other"))
    BY <1>3, <1>4, FollowsTwice
  <1> QED
    BY <1>1, <1>3, <1>5, SaveKept

LEMMA AnswerKept ==
    ASSUME ledger \in Ledgers, NEW x, Knows(ledger, x.id), NEW entry,
           Replaces(Entry(ledger, x.id), entry), NEW status \in JobStatuses,
           NEW error \in JobErrors, AfterAnswer(x, entry, status, error)
    PROVE  Kept
  <1> DEFINE r == x.id
             a == SetRequest(ledger, r, entry)
             b == FundingAfter(a, r)
             c == UpdateReservation(b, r)
             d == MarkJob(c, r, status, error)
  <1>1. Save(c) \/ Save(d)
    BY DEF AfterAnswer
  <1>2. r \in Requests
    BY EntryIs
  <1>3. Follows(ledger, a) /\ a \in Ledgers
    BY SetRequestFollows DEF Follows
  <1> HIDE DEF a, r
  <1>4. Follows(a, b)
    BY <1>2, <1>3, FundingAfterFollows
  <1>5. Follows(ledger, b) /\ b \in Ledgers
    BY <1>3, <1>4, FollowsTwice DEF Follows
  <1>6. Knows(b, r)
    BY <1>5, StillKnows DEF r
  <1> HIDE DEF b
  <1>7. Follows(b, c)
    BY <1>5, <1>6, UpdateMoves DEF Moves
  <1>8. Follows(ledger, c) /\ c \in Ledgers
    BY <1>5, <1>7, FollowsTwice DEF Follows
  <1> HIDE DEF c
  <1>9. Follows(c, d)
    BY <1>2, <1>8, MarkJobFollows
  <1>10. Follows(ledger, d)
    BY <1>8, <1>9, FollowsTwice
  <1> HIDE DEF d
  <1> QED
    BY <1>1, <1>8, <1>10, SaveKept

LEMMA AnsweredKept ==
    ASSUME ledger \in Ledgers, NEW x, Knows(ledger, x.id), NEW ref,
           x.channel \in Nat \cup {None}, HandoffAnswer(x, ref)
    PROVE  Kept
  <1> DEFINE e == Entry(ledger, x.id)
             y == Answered(x, ref)
             temporary == IF ref = "channel" THEN None ELSE x.channel
             channel == IF ref = "temporary" THEN None ELSE x.channel
             status == IF config.vaultMode
                       THEN IF FundingBuilt(x.id) THEN "FundingSubmitted"
                            ELSE "FundingRequired"
                       ELSE IF ref = "temporary" THEN "PendingFiberChannel"
                            ELSE "ChannelOpen"
  <1>1. e \in RequestEntries
    BY EntryIs
  <1>2. AfterAnswer(x, y, JobAfter(x.id, y.status), "none")
    BY DEF HandoffAnswer
  <1>3. JobAfter(x.id, y.status) \in JobStatuses
    BY DEF JobAfter, JobStatuses
  <1>4. y = [e EXCEPT !.temporary = temporary, !.channel = channel,
                      !.status = status]
    BY DEF Answered
  <1>5. temporary \in Nat \cup {None} /\ channel \in Nat \cup {None}
    OBVIOUS
  <1>6. /\ status \in {"FundingSubmitted", "FundingRequired",
                       "PendingFiberChannel", "ChannelOpen"}
        /\ config.vaultMode => status # "ChannelOpen"
    OBVIOUS
  <1> HIDE DEF e, y, temporary, channel, status
  <1>7. y \in RequestEntries /\ y.id = e.id /\ y.status = status
    BY <1>1, <1>4, <1>5, <1>6 DEF RequestEntries
  <1>8. Replaces(e, y)
    BY <1>6, <1>7 DEF Replaces, Shown
  <1>9. "none" \in JobErrors
    BY DEF JobErrors
  <1> QED
    BY <1>2, <1>3, <1>8, <1>9, AnswerKept DEF e

LEMMA ErrorKept ==
    ASSUME ledger \in Ledgers, NEW x, Knows(ledger, x.id), NEW error,
           HandoffError(x, error)
    PROVE  Kept
  <1> DEFINE e == Entry(ledger, x.id)
             y == [e EXCEPT !.status = "Failed"]
  <1>1. e \in RequestEntries
    BY EntryIs
  <1>2. /\ AfterAnswer(x, y, "RetryableFailed", error)
        /\ error \in {"other", "timeout"}
    BY DEF HandoffError
  <1> HIDE DEF e
  <1>3. Replaces(e, y)
    BY <1>1 DEF Replaces, RequestEntries, Shown
  <1>4. error \in JobErrors /\ "RetryableFailed" \in JobStatuses
    BY <1>2 DEF JobErrors, JobStatuses
  <1> HIDE DEF y
  <1> QED
    BY <1>2, <1>3, <1>4, AnswerKept DEF e

LEMMA SubmittedKept ==
    ASSUME ledger \in Ledgers, NEW x, Knows(ledger, x.id), NEW h \in Hashes,
           NEW point \in Hashes \cup {None}, MarkFundingSubmitted(x, h, point)
    PROVE  Kept
  <1> DEFINE r == x.id
             e == Entry(ledger, r)
             y == [e EXCEPT !.status = "FundingSubmitted", !.temporary = None]
             a == SetRequest(ledger, r, y)
             f == FundingIntent("FundingSubmitted", h, point)
             b == [a EXCEPT !.funding[r] = f]
             c == UpdateReservation(b, r)
  <1>1. Save(c)
    BY DEF MarkFundingSubmitted
  <1>2. e \in RequestEntries
    BY EntryIs
  <1> HIDE DEF e
  <1>3. Replaces(e, y)
    BY <1>2 DEF Replaces, RequestEntries, Shown
  <1> HIDE DEF y
  <1>4. Follows(ledger, a) /\ a \in Ledgers
    BY <1>3, SetRequestFollows DEF Follows, e
  <1>5. f \in FundingEntries
    BY DEF FundingIntent, FundingEntries, FundingStatuses
  <1> HIDE DEF a, f, r
  <1>6. Follows(a, b)
    BY <1>4, <1>5, FundingIsFollows
  <1>7. Follows(ledger, b) /\ b \in Ledgers
    BY <1>4, <1>6, FollowsTwice DEF Follows
  <1>8. Knows(b, r)
    BY <1>7, StillKnows DEF r
  <1> HIDE DEF b
  <1>9. Follows(b, c)
    BY <1>7, <1>8, UpdateMoves DEF Moves
  <1>10. Follows(ledger, c)
    BY <1>7, <1>9, FollowsTwice
  <1> HIDE DEF c
  <1> QED
    BY <1>1, <1>10, SaveKept

LEMMA BuiltKept ==
    ASSUME ledger \in Ledgers, NEW b, Knows(ledger, b.id), BuilderMark(b)
    PROVE  Kept
  <1> DEFINE r == b.id
             e == Entry(ledger, r)
             y == [e EXCEPT !.status = "FundingSubmitted"]
             a == SetRequest(ledger, r, y)
             h == <<"fund", r>>
             f == FundingIntent("FundingSubmitted", h, h)
             c == [a EXCEPT !.funding[r] = f]
  <1>1. Save(a) \/ Save(c)
    BY DEF BuilderMark
  <1>2. e \in RequestEntries /\ r \in Requests
    BY EntryIs
  <1> HIDE DEF e
  <1>3. Replaces(e, y)
    BY <1>2 DEF Replaces, RequestEntries, Shown
  <1> HIDE DEF y
  <1>4. Follows(ledger, a) /\ a \in Ledgers
    BY <1>3, SetRequestFollows DEF Follows, e
  <1>5. h \in Hashes
    BY <1>2 DEF Hashes
  <1> HIDE DEF h
  <1>6. f \in FundingEntries
    BY <1>5 DEF FundingIntent, FundingEntries, FundingStatuses
  <1> HIDE DEF a, f, r
  <1>7. Follows(a, c)
    BY <1>4, <1>6, FundingIsFollows
  <1>8. Follows(ledger, c)
    BY <1>4, <1>7, FollowsTwice
  <1> HIDE DEF c
  <1> QED
    BY <1>1, <1>4, <1>8, SaveKept

LEMMA ReleaseKept ==
    ASSUME ledger \in Ledgers, NEW r, ReleaseLiquidity(r)
    PROVE  Kept
  <1> DEFINE e == Entry(ledger, r)
             x == [e EXCEPT !.status = "Released"]
             a == SetRequest(ledger, r, x)
             b == [a EXCEPT !.positions = ReleasePositions(@, e.amount)]
             c == SetReservation(b, r, "Released")
             d == SetJobStatus(c, r, "Released")
  <1>1. Knows(ledger, r)
    BY KnownKnows DEF ReleaseLiquidity
  <1>2. e \in RequestEntries /\ r \in Requests /\ e.amount \in Nat
    BY <1>1, EntryIs
  <1>3. Save(d) \/ (ledger' = b /\ UNCHANGED disk)
    BY DEF ReleaseLiquidity
  <1> HIDE DEF e
  <1>4. Replaces(e, x)
    BY <1>2 DEF Replaces, RequestEntries, Shown
  <1> HIDE DEF x
  <1>5. Follows(ledger, a) /\ a \in Ledgers
    BY <1>1, <1>4, SetRequestFollows DEF Follows, e
  <1> HIDE DEF a
  <1>6. Moves(a, b)
    BY <1>2, <1>5, ReleaseMoves
  <1>7. b \in Ledgers /\ Follows(ledger, b)
    BY <1>5, <1>6, MovesIn, FollowsTwice DEF Moves
  <1> HIDE DEF b
  <1>8. Follows(b, c)
    BY <1>7, SetReservationFollows
  <1>9. Follows(ledger, c) /\ c \in Ledgers
    BY <1>7, <1>8, FollowsTwice DEF Follows
  <1> HIDE DEF c
  <1>10. Follows(c, d)
    BY <1>2, <1>9, SetJobStatusFollows DEF JobStatuses
  <1>11. Follows(ledger, d)
    BY <1>9, <1>10, FollowsTwice
  <1> HIDE DEF d
  <1> QED
    BY <1>3, <1>7, <1>11, SaveKept DEF Kept

LEMMA SettleKept ==
    ASSUME ledger \in Ledgers, fiber \in Seq(FiberEntries), NEW r,
           NEW named \in DOMAIN fiber \cup {None}, SettleLiquidity(r, named)
    PROVE  Kept
  <1> DEFINE e == Entry(ledger, r)
             x == [e EXCEPT !.status = "Settled",
                            !.channel = IF named = None THEN @ ELSE named]
             a == SetRequest(ledger, r, x)
             b == [a EXCEPT !.positions = SettlePositions(@, e.amount)]
             c == SetReservation(b, r, "Released")
             d == SetJobStatus(c, r, "ChannelSettled")
  <1>1. Knows(ledger, r)
    BY KnownKnows DEF SettleLiquidity
  <1>2. e \in RequestEntries /\ r \in Requests /\ e.amount \in Nat
    BY <1>1, EntryIs
  <1>3. Save(d) \/ (ledger' = b /\ UNCHANGED disk)
    BY DEF SettleLiquidity
  <1> HIDE DEF e
  <1>4. Replaces(e, x)
    <2>1. named \in Nat \cup {None}
      BY DomainSeq
    <2> QED
      BY <1>2, <2>1 DEF Replaces, RequestEntries, Shown
  <1> HIDE DEF x
  <1>5. Follows(ledger, a) /\ a \in Ledgers
    BY <1>1, <1>4, SetRequestFollows DEF Follows, e
  <1> HIDE DEF a
  <1>6. Moves(a, b)
    BY <1>2, <1>5, SettleMoves
  <1>7. b \in Ledgers /\ Follows(ledger, b)
    BY <1>5, <1>6, MovesIn, FollowsTwice DEF Moves
  <1> HIDE DEF b
  <1>8. Follows(b, c)
    BY <1>7, SetReservationFollows
  <1>9. Follows(ledger, c) /\ c \in Ledgers
    BY <1>7, <1>8, FollowsTwice DEF Follows
  <1> HIDE DEF c
  <1>10. Follows(c, d)
    BY <1>2, <1>9, SetJobStatusFollows DEF JobStatuses
  <1>11. Follows(ledger, d)
    BY <1>9, <1>10, FollowsTwice
  <1> HIDE DEF d
  <1> QED
    BY <1>3, <1>7, <1>11, SaveKept DEF Kept

LEMMA WatchKept ==
    ASSUME ledger \in Ledgers, fiber \in Seq(FiberEntries), NEW late,
           SyncFiberChannels(late)
    PROVE  Kept
  BY WatchFollows, SaveKept DEF SyncFiberChannels

LEMMA ExpiredKept ==
    ASSUME ledger \in Ledgers, NEW expired, ReleaseExpired(expired)
    PROVE  Kept
  <1> DEFINE l == ReleaseEnd(Due(expired)).l
  <1>1. ledger' = l /\ (disk' = l \/ disk' = disk)
    BY ExpiredIs
  <1>2. Follows(ledger, l)
    BY ReleaseEndFollows
  <1> HIDE DEF l
  <1> QED
    BY <1>1, <1>2 DEF Kept

LEMMA FoundKept ==
    ASSUME ledger \in Ledgers, Shaped, SyncRequests
    PROVE  Kept
  <1> DEFINE live == {r \in Requests :
                        request[r] # None /\ request[r].lock = MerchantLock[r]}
             l == FoldSet(UpsertRequest, ledger, live)
  <1>1. SaveIfChanged(l)
    BY DEF SyncRequests
  <1>2. live \in SUBSET Requests /\ IsFiniteSet(live)
    BY ChainAssumption, FS_Subset
  <1>3. \A r \in live : RequestCell(r, request[r])
    BY DEF Shaped
  <1> HIDE DEF live
  <1>4. Follows(ledger, l)
    BY <1>2, <1>3, FoundFollow
  <1> HIDE DEF l
  <1> QED
    BY <1>1, <1>4, SaveKept

LEMMA ReceiptsKept ==
    ASSUME ledger \in Ledgers, Shaped, ReceiptsMade, NEW lock, SyncReceipts(lock)
    PROVE  Kept
  <1> DEFINE owned == {p \in Positions : LpLock[p] = lock /\ receipt[p] # None}
             l == FoldSet(UpsertReceipt, ledger, owned)
  <1>1. SaveIfChanged(l)
    BY DEF SyncReceipts
  <1>2. owned \in SUBSET Positions /\ IsFiniteSet(owned)
    BY ChainAssumption, FS_Subset
  <1>3. \A p \in owned : LpCell(p, receipt[p]) /\ MadeFor(receipt[p].point, p)
    BY DEF Shaped, ReceiptsMade
  <1> HIDE DEF owned
  <1>4. Follows(ledger, l)
    BY <1>2, <1>3, ReceiptsFollow
  <1> HIDE DEF l
  <1> QED
    BY <1>1, <1>4, SaveKept
----------------------------------------------------------------------------
(***************************************************************************)
(* The vault's totals as the ledger takes them over.                       *)
(***************************************************************************)
LEMMA LiveTotals == ASSUME CellsInv PROVE Live \in Totals
  <1> DEFINE f == AmountIn("reserved")
             g == AmountIn("deployed")
  <1>1. IsFiniteSet(Requests)
    BY ChainAssumption
  <1>2. (\A r \in Requests : f[r] \in Nat) /\ (\A r \in Requests : g[r] \in Nat)
    BY AmountType DEF CellsInv, AmountIn
  <1>3. /\ vault.data.reserved = SumFunctionOnSet(f, Requests)
        /\ vault.data.deployed = SumFunctionOnSet(g, Requests)
        /\ vault.data.total \in Int
    BY DEF CellsInv, Agreed, Shaped, VaultData
  <1> HIDE DEF f, g
  <1>4. /\ SumFunctionOnSet(f, Requests) \in Nat
        /\ SumFunctionOnSet(g, Requests) \in Nat
    BY <1>1, <1>2, SumNat
  <1>5. vault.data.reserved \in Nat /\ vault.data.deployed \in Nat
    BY <1>3, <1>4
  <1>6. Sat(vault.data.total, vault.data.reserved + vault.data.deployed) \in Nat
    BY <1>3, <1>5 DEF Sat
  <1> QED
    BY <1>5, <1>6 DEF Live, Totals

LEMMA VaultKept ==
    ASSUME ledger \in Ledgers, CellsInv, SyncVault
    PROVE  Kept
  <1> DEFINE ps == Spread(ledger.positions, Live)
             a == [ledger EXCEPT !.live = Live]
             b == [a EXCEPT !.positions = ps]
  <1>1. Live \in Totals
    BY LiveTotals
  <1>2. ledger.positions \in Seq(PositionEntries)
    BY LedgerHas
  <1>3. SaveIfChanged(b)
    BY DEF SyncVault, Ledgers
  <1>4. Follows(ledger, a) /\ a \in Ledgers
    BY <1>1, LiveFollow DEF Follows
  <1>5. Steady(ledger.positions, ps)
    BY <1>1, <1>2, SpreadSteady
  <1>6. a.positions = ledger.positions
    BY DEF Ledgers
  <1> HIDE DEF a, ps
  <1>7. Follows(a, b)
    BY <1>4, <1>5, <1>6, PositionsFollow
  <1>8. Follows(ledger, b)
    BY <1>4, <1>7, FollowsTwice
  <1> HIDE DEF b
  <1> QED
    BY <1>3, <1>8, SaveKept

LEMMA EnteredKept ==
    ASSUME ledger \in Ledgers, NEW r \in Requests, NEW a \in Amounts,
           NEW fee \in Fees, NEW peer \in BOOLEAN,
           CreateLiquidityRequest(r, a, fee, peer)
    PROVE  Kept
  <1> DEFINE e == NewRequest(r, a, None, None, peer)
             k == WithRequest(ledger, e, fee)
             m == [ledger EXCEPT !.positions = ReservePositions(@, a, fee)]
  <1>1. Save(k) \/ (ledger' = m /\ UNCHANGED disk)
    BY DEF CreateLiquidityRequest
  <1>2. a \in Nat /\ a \in Nat \ {0} /\ fee \in Nat
    BY ChainAssumption
  <1>3. e \in RequestEntries /\ e.amount = a /\ e.status = "Requested"
    BY <1>2, NewRequestIs
  <1> HIDE DEF e
  <1>4. Follows(ledger, k)
    BY <1>2, <1>3, WithRequestFollows
  <1>5. Follows(ledger, m)
    BY <1>2, ReserveMoves DEF Moves
  <1> HIDE DEF k, m
  <1> QED
    BY <1>1, <1>4, <1>5, SaveKept DEF Kept
----------------------------------------------------------------------------
(***************************************************************************)
(* The handlers that make or settle an intent.                             *)
(***************************************************************************)
\* A withdrawal or a claim names a position of its receipt.
Placed(l) ==
    /\ \A w \in Withdrawals : l.withdrawals[w] # None =>
          LET i == l.withdrawals[w].position
          IN  i \in DOMAIN l.positions /\ l.positions[i].receipt = WithdrawnFrom[w]
    /\ \A c \in Claims : l.claims[c] # None =>
          LET i == l.claims[c].position
          IN  i \in DOMAIN l.positions /\ l.positions[i].receipt = ReceiptOf[c]

\* An intent stays, for its amount, and stays settled.
Lasting(s, t) ==
    \A x \in DOMAIN s : s[x] # None =>
        /\ t[x] # None /\ t[x].amount = s[x].amount
        /\ s[x].settled => t[x].settled
Advances(l, m) ==
    /\ m \in Ledgers /\ Placed(m)
    /\ Lasting(l.supplies, m.supplies) /\ Lasting(l.intents, m.intents)
    /\ Lasting(l.withdrawals, m.withdrawals) /\ Lasting(l.claims, m.claims)
    /\ Steady(l.positions, m.positions) /\ KeptRequests(l, m)
Grown ==
    /\ Advances(ledger, ledger')
    /\ disk' = ledger' \/ (disk' = disk /\ SameIntents(ledger, ledger'))

LEMMA LastingSame == ASSUME NEW s PROVE Lasting(s, s)
  BY DEF Lasting

LEMMA LastingUpdate ==
    ASSUME NEW X, NEW I, NEW s \in [X -> I \cup {None}], NEW k \in X,
           NEW x \in I, x # None,
           s[k] # None => /\ x.amount = s[k].amount
                          /\ s[k].settled => x.settled
    PROVE  /\ [s EXCEPT ![k] = x] \in [X -> I \cup {None}]
           /\ Lasting(s, [s EXCEPT ![k] = x])
           /\ \A j \in X : [s EXCEPT ![k] = x][j] = IF j = k THEN x ELSE s[j]
  BY DEF Lasting

LEMMA PlacedFollows ==
    ASSUME NEW l, NEW m, Placed(l), Follows(l, m)
    PROVE  Placed(m)
  BY DEF Placed, Follows, SameIntents, Steady

LEMMA FollowsAdvances ==
    ASSUME NEW l, NEW m, Placed(l), Follows(l, m)
    PROVE  Advances(l, m)
  <1>1. Placed(m)
    BY PlacedFollows
  <1>2. /\ Lasting(l.supplies, m.supplies) /\ Lasting(l.intents, m.intents)
        /\ Lasting(l.withdrawals, m.withdrawals) /\ Lasting(l.claims, m.claims)
    BY LastingSame DEF Follows, SameIntents
  <1> QED
    BY <1>1, <1>2 DEF Advances, Follows

LEMMA AdvancesAfter ==
    ASSUME NEW l, NEW k, NEW m, Follows(l, k), Advances(k, m)
    PROVE  Advances(l, m)
  <1>1. /\ Lasting(l.supplies, m.supplies) /\ Lasting(l.intents, m.intents)
        /\ Lasting(l.withdrawals, m.withdrawals) /\ Lasting(l.claims, m.claims)
    BY DEF Follows, SameIntents, Advances
  <1>2. Steady(l.positions, m.positions)
    BY SteadyTwice DEF Follows, Advances
  <1>3. KeptRequests(l, m)
    <2>1. /\ DOMAIN l.requests \subseteq DOMAIN m.requests
          /\ \A i \in DOMAIN l.requests : m.requests[i].id = l.requests[i].id
      BY DEF Follows, Advances, KeptRequests
    <2>2. ASSUME NEW i \in DOMAIN m.requests
          PROVE  \/ /\ i \in DOMAIN l.requests
                    /\ m.requests[i].status = l.requests[i].status
                    /\ m.requests[i].channel = l.requests[i].channel
                 \/ Shown(m.requests[i])
      <3>1. CASE Shown(m.requests[i])
        BY <3>1
      <3>2. CASE /\ i \in DOMAIN k.requests
                 /\ m.requests[i].status = k.requests[i].status
                 /\ m.requests[i].channel = k.requests[i].channel
        <4>1. \/ /\ i \in DOMAIN l.requests
                 /\ k.requests[i].status = l.requests[i].status
                 /\ k.requests[i].channel = l.requests[i].channel
              \/ Shown(k.requests[i])
          BY <3>2 DEF Follows, KeptRequests
        <4> QED
          BY <3>2, <4>1 DEF Shown
      <3> QED
        BY <3>1, <3>2 DEF Advances, KeptRequests
    <2> QED
      BY <2>1, <2>2 DEF KeptRequests
  <1> QED
    BY <1>1, <1>2, <1>3 DEF Advances

LEMMA KeptGrown == ASSUME Placed(ledger), Kept PROVE Grown
  BY FollowsAdvances DEF Kept, Grown, Follows

\* What the transactions of the chain are, as far as a settlement compares.
WithdrawsFor(tx, p, amount) ==
    /\ \A c \in OfKind(tx.in, "receipt") : MadeFor(c.point, p)
    /\ VaultIn(tx).data \in VaultData /\ VaultIn(tx).capacity \in Int
    /\ VaultOut(tx).data.total = VaultIn(tx).data.total - amount
    /\ VaultOut(tx).capacity = VaultIn(tx).capacity - amount
MinedFor(l) ==
    /\ \A w \in Withdrawals : <<"withdraw", w>> \in DOMAIN mined =>
          /\ l.withdrawals[w] # None
          /\ WithdrawsFor(mined[<<"withdraw", w>>], WithdrawnFrom[w],
                          l.withdrawals[w].amount)
    /\ \A c \in Claims : <<"claim", c>> \in DOMAIN mined =>
          \A x \in OfKind(mined[<<"claim", c>>].out, "claim") : x.id = c

LEMMA OneMaker ==
    ASSUME NEW h, NEW p \in Positions, NEW q \in Positions,
           MadeFor(h, p), MadeFor(h, q)
    PROVE  p = q /\ h \in Hashes
  BY DEF MadeFor, Hashes

\* A transaction verified for a withdrawal was made for one of the same
\* receipt and the same amount.
LEMMA WithdrawalShown ==
    ASSUME ledger \in Ledgers, MinedFor(ledger),
           NEW v \in Withdrawals, NEW w \in Withdrawals,
           <<"withdraw", v>> \in DOMAIN mined, NEW amount \in Amounts, NEW held,
           held.point # None => MadeFor(held.point, WithdrawnFrom[w]),
           WithdrawalVerified(mined[<<"withdraw", v>>], WithdrawnFrom[w],
                              amount, held)
    PROVE  /\ WithdrawnFrom[v] = WithdrawnFrom[w]
           /\ ledger.withdrawals[v] # None
           /\ ledger.withdrawals[v].amount = amount
  <1> DEFINE tx == mined[<<"withdraw", v>>]
             p == WithdrawnFrom[v]
             q == WithdrawnFrom[w]
             a == ledger.withdrawals[v].amount
             i == VaultIn(tx)
             o == VaultOut(tx)
  <1>1. p \in Positions /\ q \in Positions /\ amount \in Nat
    BY ChainAssumption
  <1>2. ledger.withdrawals[v] # None /\ WithdrawsFor(tx, p, a)
    BY DEF MinedFor
  <1>3. a \in Amounts
    <2>1. ledger.withdrawals \in WithdrawalIntents
      BY LedgerHas
    <2>2. ledger.withdrawals[v] \in PayoutIntents(Amounts)
      BY <1>2, <2>1 DEF WithdrawalIntents
    <2> QED
      BY <2>2 DEF PayoutIntents
  <1>4. a \in Nat \ {0}
    BY <1>3, ChainAssumption
  <1>5. p = q
    <2>1. PICK c \in OfKind(tx.in, "receipt") : c.point = held.point
      BY DEF WithdrawalVerified, SpendsReceipt
    <2>2. MadeFor(held.point, p)
      BY <1>2, <2>1 DEF WithdrawsFor
    <2>3. held.point \in Hashes
      BY <1>1, <2>2, OneMaker
    <2>4. held.point # None
      BY <2>3, LedgerAssumption
    <2> QED
      BY <1>1, <2>2, <2>4, OneMaker
  <1>6. amount = a
    <2>1. /\ o.data = [i.data EXCEPT !.total = Sat(i.data.total, amount)]
          /\ i.capacity >= o.capacity + amount
      BY DEF WithdrawalVerified, WithdrawalDelta
    <2>2. /\ i.data \in VaultData /\ i.capacity \in Int
          /\ o.data.total = i.data.total - a /\ o.capacity = i.capacity - a
      BY <1>2 DEF WithdrawsFor
    <2> HIDE DEF i, o, a
    <2>3. o.data.total = Sat(i.data.total, amount) /\ i.data.total \in Int
      BY <2>1, <2>2 DEF VaultData
    <2>4. a >= amount
      BY <1>1, <1>4, <2>1, <2>2
    <2> QED
      BY <1>1, <1>4, <2>2, <2>3, <2>4 DEF Sat
  <1> QED
    BY <1>2, <1>5, <1>6

\* A transaction verified for a claim is the claim's own.
LEMMA ClaimShown ==
    ASSUME MinedFor(ledger), NEW c \in Claims, NEW k \in Claims,
           <<"claim", k>> \in DOMAIN mined, NEW amount, NEW held,
           ClaimVerified(mined[<<"claim", k>>], c, amount, held)
    PROVE  k = c
  <1> DEFINE tx == mined[<<"claim", k>>]
             p == ReceiptOf[c]
             S == {x \in OfKind(tx.out, "claim") : x.lock = LpLock[p]}
             cell == TheOut(tx, "claim", LpLock[p])
  <1>1. Cardinality(S) = 1 /\ cell.id = c
    BY DEF ClaimVerified, OneOut, ClaimCellOK
  <1>2. cell \in S
    <2>1. S # {}
      <3>1. Cardinality({}) = 0
        BY FS_EmptySet
      <3> HIDE DEF S
      <3> QED
        BY <1>1, <3>1
    <2> QED
      BY <2>1 DEF TheOut, Only
  <1>3. cell.id = k
    BY <1>2 DEF MinedFor
  <1> QED
    BY <1>1, <1>3

LEMMA RequestsSame ==
    ASSUME NEW l, NEW m, m.requests = l.requests
    PROVE  KeptRequests(l, m)
  BY DEF KeptRequests

LEMMA PlacedSteady ==
    ASSUME NEW l, NEW m, Placed(l), Steady(l.positions, m.positions),
           \A w \in Withdrawals : m.withdrawals[w] # None =>
              l.withdrawals[w] # None
              /\ m.withdrawals[w].position = l.withdrawals[w].position,
           \A c \in Claims : m.claims[c] # None =>
              l.claims[c] # None /\ m.claims[c].position = l.claims[c].position
    PROVE  Placed(m)
  BY DEF Placed, Steady

LEMMA SupplyGrown ==
    ASSUME ledger \in Ledgers, Placed(ledger), NEW p \in Positions,
           NEW a \in Amounts, CreateSupplyIntent(p, a)
    PROVE  Grown
  <1> DEFINE x == [amount |-> a, settled |-> FALSE]
             ss == [ledger.supplies EXCEPT ![p] = x]
             m == [ledger EXCEPT !.supplies = ss]
  <1>1. Save(m) /\ ledger.supplies[p] = None
    BY DEF CreateSupplyIntent, Ledgers
  <1>2. x \in SupplyIntents
    BY DEF SupplyIntents
  <1>3. x # None
    BY <1>2, LedgerAssumption
  <1>4. ledger.supplies \in [Positions -> SupplyIntents \cup {None}]
    BY LedgerHas DEF Supplies
  <1> HIDE DEF x
  <1>5. ss \in Supplies /\ Lasting(ledger.supplies, ss)
    BY <1>1, <1>2, <1>3, <1>4, LastingUpdate DEF Supplies
  <1> HIDE DEF ss
  <1>6. /\ m \in Ledgers /\ m.supplies = ss /\ m.withdrawals = ledger.withdrawals
        /\ m.claims = ledger.claims /\ m.intents = ledger.intents
        /\ m.positions = ledger.positions /\ m.requests = ledger.requests
    BY <1>5 DEF Ledgers
  <1> HIDE DEF m
  <1>7. Placed(m)
    BY <1>6 DEF Placed
  <1>8. Steady(ledger.positions, m.positions)
    BY <1>6, LedgerHas, SteadySame
  <1>9. KeptRequests(ledger, m)
    BY <1>6, RequestsSame
  <1>10. Advances(ledger, m)
    BY <1>5, <1>6, <1>7, <1>8, <1>9, LastingSame DEF Advances
  <1> QED
    BY <1>1, <1>10 DEF Grown, Save

LEMMA DepositGrown ==
    ASSUME ledger \in Ledgers, Placed(ledger), NEW p \in Positions,
           CreateDeposit(p)
    PROVE  Grown
  <1> DEFINE h == <<"supply", p>>
             intent == ledger.supplies[p]
             x == [intent EXCEPT !.settled = TRUE]
             ss == [ledger.supplies EXCEPT ![p] = x]
             y == NewPosition(p, intent.amount, h)
             ps == Append(ledger.positions, y)
             m == [ledger EXCEPT !.supplies = ss, !.positions = ps]
  <1>1. ledger.supplies \in [Positions -> SupplyIntents \cup {None}]
        /\ ledger.positions \in Seq(PositionEntries)
    BY LedgerHas DEF Supplies
  <1>2. Save(m) /\ intent # None
    BY DEF CreateDeposit, Ledgers
  <1>3. intent \in SupplyIntents
    BY <1>1, <1>2
  <1>4. x \in SupplyIntents /\ x.amount = intent.amount /\ x.settled = TRUE
    BY <1>3 DEF SupplyIntents
  <1>5. x # None
    BY <1>4, LedgerAssumption
  <1>6. intent.amount \in Nat
    BY <1>3, ChainAssumption DEF SupplyIntents
  <1>7. h \in Hashes \cup {None} /\ MadeFor(h, p)
    BY DEF Hashes, MadeFor
  <1> HIDE DEF x, h
  <1>8. ss \in Supplies /\ Lasting(ledger.supplies, ss)
    BY <1>1, <1>4, <1>5, LastingUpdate DEF Supplies
  <1> HIDE DEF ss, intent
  <1>9. y \in PositionEntries /\ y.receipt = p /\ y.point = h
    BY <1>6, <1>7, NewOne
  <1>10. Owned(y)
    BY <1>7, <1>9 DEF Owned
  <1> HIDE DEF y
  <1>11. Steady(ledger.positions, ps)
    BY <1>1, <1>9, <1>10, AppendPositionSteady
  <1>12. ps \in Seq(PositionEntries)
    BY <1>11 DEF Steady
  <1> HIDE DEF ps
  <1>13. /\ m \in Ledgers /\ m.supplies = ss
         /\ m.withdrawals = ledger.withdrawals
         /\ m.claims = ledger.claims /\ m.intents = ledger.intents
         /\ m.positions = ps /\ m.requests = ledger.requests
    BY <1>8, <1>12 DEF Ledgers
  <1> HIDE DEF m
  <1>14. Placed(m)
    BY <1>11, <1>13, PlacedSteady
  <1>15. KeptRequests(ledger, m)
    BY <1>13, RequestsSame
  <1>16. Advances(ledger, m)
    BY <1>8, <1>11, <1>13, <1>14, <1>15, LastingSame DEF Advances
  <1> QED
    BY <1>2, <1>16 DEF Grown, Save

LEMMA WithdrawalGrown ==
    ASSUME ledger \in Ledgers, Placed(ledger), NEW w \in Withdrawals,
           NEW i \in DOMAIN ledger.positions, NEW a \in Amounts,
           CreateWithdrawalIntent(w, i, a)
    PROVE  Grown
  <1> DEFINE x == [position |-> i, amount |-> a, settled |-> FALSE]
             ws == [ledger.withdrawals EXCEPT ![w] = x]
             m == [ledger EXCEPT !.withdrawals = ws]
  <1>1. /\ Save(m) /\ ledger.withdrawals[w] = None
        /\ ledger.positions[i].receipt = WithdrawnFrom[w]
    BY DEF CreateWithdrawalIntent, Ledgers
  <1>2. i \in Nat
    BY LedgerHas, DomainSeq
  <1>3. x \in PayoutIntents(Amounts) /\ x.position = i
    BY <1>2 DEF PayoutIntents
  <1>4. x # None
    BY <1>3, LedgerAssumption
  <1>5. ledger.withdrawals \in [Withdrawals -> PayoutIntents(Amounts) \cup {None}]
    BY LedgerHas DEF WithdrawalIntents
  <1> HIDE DEF x
  <1>6. /\ ws \in WithdrawalIntents /\ Lasting(ledger.withdrawals, ws)
        /\ \A v \in Withdrawals :
              ws[v] = IF v = w THEN x ELSE ledger.withdrawals[v]
    BY <1>1, <1>3, <1>4, <1>5, LastingUpdate DEF WithdrawalIntents
  <1> HIDE DEF ws
  <1>7. /\ m \in Ledgers /\ m.supplies = ledger.supplies /\ m.withdrawals = ws
        /\ m.claims = ledger.claims /\ m.intents = ledger.intents
        /\ m.positions = ledger.positions /\ m.requests = ledger.requests
    BY <1>6 DEF Ledgers
  <1> HIDE DEF m
  <1>8. Placed(m)
    BY <1>1, <1>3, <1>6, <1>7 DEF Placed
  <1>9. Steady(ledger.positions, m.positions)
    BY <1>7, LedgerHas, SteadySame
  <1>10. KeptRequests(ledger, m)
    BY <1>7, RequestsSame
  <1>11. Advances(ledger, m)
    BY <1>6, <1>7, <1>8, <1>9, <1>10, LastingSame DEF Advances
  <1> QED
    BY <1>1, <1>11 DEF Grown, Save

LEMMA ClaimGrown ==
    ASSUME ledger \in Ledgers, Placed(ledger), NEW c \in Claims,
           NEW i \in DOMAIN ledger.positions, NEW a \in Fees,
           CreateFeeClaim(c, i, a)
    PROVE  Grown
  <1> DEFINE x == [position |-> i, amount |-> a, settled |-> FALSE]
             cs == [ledger.claims EXCEPT ![c] = x]
             m == [ledger EXCEPT !.claims = cs]
  <1>1. /\ Save(m) /\ ledger.claims[c] = None
        /\ ledger.positions[i].receipt = ReceiptOf[c]
    BY DEF CreateFeeClaim, Ledgers
  <1>2. i \in Nat
    BY LedgerHas, DomainSeq
  <1>3. x \in PayoutIntents(Fees) /\ x.position = i
    BY <1>2 DEF PayoutIntents
  <1>4. x # None
    BY <1>3, LedgerAssumption
  <1>5. ledger.claims \in [Claims -> PayoutIntents(Fees) \cup {None}]
    BY LedgerHas DEF ClaimIntents
  <1> HIDE DEF x
  <1>6. /\ cs \in ClaimIntents /\ Lasting(ledger.claims, cs)
        /\ \A k \in Claims : cs[k] = IF k = c THEN x ELSE ledger.claims[k]
    BY <1>1, <1>3, <1>4, <1>5, LastingUpdate DEF ClaimIntents
  <1> HIDE DEF cs
  <1>7. /\ m \in Ledgers /\ m.supplies = ledger.supplies
        /\ m.withdrawals = ledger.withdrawals
        /\ m.claims = cs /\ m.intents = ledger.intents
        /\ m.positions = ledger.positions /\ m.requests = ledger.requests
    BY <1>6 DEF Ledgers
  <1> HIDE DEF m
  <1>8. Placed(m)
    BY <1>1, <1>3, <1>6, <1>7 DEF Placed
  <1>9. Steady(ledger.positions, m.positions)
    BY <1>7, LedgerHas, SteadySame
  <1>10. KeptRequests(ledger, m)
    BY <1>7, RequestsSame
  <1>11. Advances(ledger, m)
    BY <1>6, <1>7, <1>8, <1>9, <1>10, LastingSame DEF Advances
  <1> QED
    BY <1>1, <1>11 DEF Grown, Save

LEMMA IntentGrown ==
    ASSUME ledger \in Ledgers, Placed(ledger), NEW r \in Requests,
           NEW a \in Amounts, NEW f \in Fees, CreateRequestIntent(r, a, f)
    PROVE  Grown
  <1> DEFINE x == [amount |-> a, fee |-> f, settled |-> FALSE]
             is == [ledger.intents EXCEPT ![r] = x]
             m == [ledger EXCEPT !.intents = is]
  <1>1. Save(m) /\ ledger.intents[r] = None
    BY DEF CreateRequestIntent, Ledgers
  <1>2. x \in RequestIntents
    BY DEF RequestIntents
  <1>3. x # None
    BY <1>2, LedgerAssumption
  <1>4. ledger.intents \in [Requests -> RequestIntents \cup {None}]
    BY LedgerHas DEF Intents
  <1> HIDE DEF x
  <1>5. is \in Intents /\ Lasting(ledger.intents, is)
    BY <1>1, <1>2, <1>3, <1>4, LastingUpdate DEF Intents
  <1> HIDE DEF is
  <1>6. /\ m \in Ledgers /\ m.supplies = ledger.supplies
        /\ m.withdrawals = ledger.withdrawals
        /\ m.claims = ledger.claims /\ m.intents = is
        /\ m.positions = ledger.positions /\ m.requests = ledger.requests
    BY <1>5 DEF Ledgers
  <1> HIDE DEF m
  <1>7. Placed(m)
    BY <1>6 DEF Placed
  <1>8. Steady(ledger.positions, m.positions)
    BY <1>6, LedgerHas, SteadySame
  <1>9. KeptRequests(ledger, m)
    BY <1>6, RequestsSame
  <1>10. Advances(ledger, m)
    BY <1>5, <1>6, <1>7, <1>8, <1>9, LastingSame DEF Advances
  <1> QED
    BY <1>1, <1>10 DEF Grown, Save

\* What an unfinished call has read was recorded, and is still.
Held(x, l) ==
    \/ /\ x.kind = "request" /\ x.id \in Requests /\ l.intents[x.id] # None
    \/ /\ x.kind = "withdrawal" /\ x.id \in Withdrawals
       /\ l.withdrawals[x.id] # None
       /\ config.rpc /\ x.point # None => MadeFor(x.point, WithdrawnFrom[x.id])
    \/ /\ x.kind = "claim" /\ x.id \in Claims /\ l.claims[x.id] # None

LEMMA SettledWithdrawalGrown ==
    ASSUME ledger \in Ledgers, Placed(ledger), MinedFor(ledger),
           NEW held, Held(held, ledger), NEW v \in Withdrawals,
           NEW point \in Hashes \cup {None},
           SettleWithdrawal(held, <<"withdraw", v>>, point)
    PROVE  Grown
  <1> DEFINE w == held.id
             h == <<"withdraw", v>>
             intent == ledger.withdrawals[w]
             i == intent.position
             ps == ledger.positions
             x == [intent EXCEPT !.settled = TRUE]
             ws == [ledger.withdrawals EXCEPT ![w] = x]
             y == Withdrawn(ps[i], intent.amount, point)
             qs == [ps EXCEPT ![i] = y]
             m == [ledger EXCEPT !.withdrawals = ws, !.positions = qs]
  <1>1. /\ held.kind = "withdrawal" /\ point \in {None, h}
        /\ ps[i].available >= intent.amount
        /\ config.rpc => /\ h \in DOMAIN mined
                         /\ WithdrawalVerified(mined[h], ps[i].receipt,
                                               intent.amount, held)
    BY DEF SettleWithdrawal
  <1>2. Save(m)
    BY DEF SettleWithdrawal, Ledgers
  <1>3. /\ w \in Withdrawals /\ intent # None
        /\ config.rpc /\ held.point # None => MadeFor(held.point, WithdrawnFrom[w])
    BY <1>1 DEF Held
  <1>4. /\ ledger.withdrawals \in [Withdrawals -> PayoutIntents(Amounts) \cup {None}]
        /\ ps \in Seq(PositionEntries)
    BY LedgerHas DEF WithdrawalIntents
  <1>5. intent \in PayoutIntents(Amounts)
    BY <1>3, <1>4
  <1>6. /\ x \in PayoutIntents(Amounts) /\ x.amount = intent.amount
        /\ x.settled = TRUE /\ x.position = i
    BY <1>5 DEF PayoutIntents
  <1>7. x # None
    BY <1>6, LedgerAssumption
  <1>8. intent.amount \in Amounts /\ intent.amount \in Nat
    BY <1>5, ChainAssumption DEF PayoutIntents
  <1>9. i \in DOMAIN ps /\ ps[i].receipt = WithdrawnFrom[w]
    BY <1>3 DEF Placed
  <1>10. config.rpc => WithdrawnFrom[v] = WithdrawnFrom[w]
    <2> SUFFICES ASSUME config.rpc PROVE WithdrawnFrom[v] = WithdrawnFrom[w]
      OBVIOUS
    <2>1. held.point # None => MadeFor(held.point, WithdrawnFrom[w])
      BY <1>3
    <2>2. /\ <<"withdraw", v>> \in DOMAIN mined
          /\ WithdrawalVerified(mined[<<"withdraw", v>>], WithdrawnFrom[w],
                                intent.amount, held)
      BY <1>1, <1>9
    <2> HIDE DEF intent, w
    <2> QED
      BY <1>3, <1>8, <2>1, <2>2, WithdrawalShown
  <1> HIDE DEF x
  <1>11. /\ ws \in WithdrawalIntents /\ Lasting(ledger.withdrawals, ws)
         /\ \A k \in Withdrawals :
               ws[k] = IF k = w THEN x ELSE ledger.withdrawals[k]
    BY <1>3, <1>4, <1>6, <1>7, LastingUpdate DEF WithdrawalIntents
  <1> HIDE DEF ws
  <1>12. ps[i] \in PositionEntries
    BY <1>4, <1>9, DomainSeq
  <1>13. /\ y \in PositionEntries /\ y.receipt = ps[i].receipt
         /\ y.point \in {ps[i].point, point, None}
    <2>1. intent.amount <= ps[i].available
      BY <1>1, <1>8, <1>12, PositionHas
    <2> QED
      BY <1>8, <1>12, <2>1, WithdrawnOne
  <1>14. y.point = ps[i].point \/ Owned(y)
    <2>1. CASE y.point = ps[i].point \/ y.point = None
      BY <2>1 DEF Owned
    <2>2. CASE y.point = h
      BY <1>9, <1>10, <1>13, <2>2 DEF Owned, MadeFor
    <2> QED
      BY <1>1, <1>13, <2>1, <2>2
  <1> HIDE DEF y, ps
  <1>15. Steady(ps, qs)
    BY <1>4, <1>9, <1>13, <1>14, ReplacePositionSteady
  <1>16. qs \in Seq(PositionEntries)
    BY <1>15 DEF Steady
  <1> HIDE DEF qs
  <1>17. /\ m \in Ledgers /\ m.supplies = ledger.supplies /\ m.withdrawals = ws
         /\ m.claims = ledger.claims /\ m.intents = ledger.intents
         /\ m.positions = qs /\ m.requests = ledger.requests
    BY <1>11, <1>16 DEF Ledgers
  <1> HIDE DEF m
  <1>18. Steady(ledger.positions, m.positions)
    BY <1>15, <1>17 DEF ps
  <1>19. \A k \in Withdrawals : m.withdrawals[k] # None =>
            ledger.withdrawals[k] # None
            /\ m.withdrawals[k].position = ledger.withdrawals[k].position
    BY <1>3, <1>6, <1>11, <1>17
  <1>20. Placed(m)
    BY <1>17, <1>18, <1>19, PlacedSteady
  <1>21. KeptRequests(ledger, m)
    BY <1>17, RequestsSame
  <1>22. Advances(ledger, m)
    BY <1>11, <1>17, <1>18, <1>20, <1>21, LastingSame DEF Advances
  <1> QED
    BY <1>2, <1>22 DEF Grown, Save

LEMMA SettledClaimGrown ==
    ASSUME ledger \in Ledgers, Placed(ledger), MinedFor(ledger),
           NEW held, Held(held, ledger), NEW k \in Claims,
           NEW point \in Hashes \cup {None},
           SettleFeeClaim(held, <<"claim", k>>, point)
    PROVE  Grown
  <1> DEFINE c == held.id
             h == <<"claim", k>>
             intent == ledger.claims[c]
             i == intent.position
             ps == ledger.positions
             x == [intent EXCEPT !.settled = TRUE]
             cs == [ledger.claims EXCEPT ![c] = x]
             next == IF point # None THEN point ELSE ps[i].point
             y == [ps[i] EXCEPT !.claimed = @ + intent.amount, !.point = next]
             qs == [ps EXCEPT ![i] = y]
             m == [ledger EXCEPT !.claims = cs, !.positions = qs]
  <1>1. /\ held.kind = "claim" /\ point \in {None, h}
        /\ Claimable(ps[i], intent.amount)
        /\ config.rpc => /\ h \in DOMAIN mined
                         /\ ClaimVerified(mined[h], c, intent.amount, held)
    BY DEF SettleFeeClaim
  <1>2. c \in Claims /\ intent # None
    BY <1>1 DEF Held
  <1>3. /\ ledger.claims \in [Claims -> PayoutIntents(Fees) \cup {None}]
        /\ ps \in Seq(PositionEntries)
    BY LedgerHas DEF ClaimIntents
  <1>4. intent \in PayoutIntents(Fees)
    BY <1>2, <1>3
  <1>5. i \in DOMAIN ps /\ ps[i].receipt = ReceiptOf[c]
    BY <1>2 DEF Placed
  <1>6. ps[i] \in PositionEntries
    BY <1>3, <1>5, DomainSeq
  <1>7. Save(m)
    <2>1. ps[i] \in PositionRecords
      BY <1>6, PositionHas
    <2>2. Save([ledger EXCEPT
                  !.claims[c].settled = TRUE,
                  !.positions[i].claimed = @ + intent.amount,
                  !.positions[i].point = IF point # None THEN point ELSE @])
      BY DEF SettleFeeClaim
    <2>3. [ledger EXCEPT
             !.claims[c].settled = TRUE,
             !.positions[i].claimed = @ + intent.amount,
             !.positions[i].point = IF point # None THEN point ELSE @] = m
      BY ZenonT(90), <1>2, <1>3, <1>4, <1>5, <2>1 DEF Ledgers, PositionRecords
    <2> QED
      BY <2>2, <2>3
  <1>8. /\ x \in PayoutIntents(Fees) /\ x.amount = intent.amount
        /\ x.settled = TRUE /\ x.position = i
    BY <1>4 DEF PayoutIntents
  <1>9. x # None
    BY <1>8, LedgerAssumption
  <1>10. intent.amount \in Nat
    BY <1>4, ChainAssumption DEF PayoutIntents
  <1>11. config.rpc => k = c
    <2> HIDE DEF intent, c
    <2> QED
      BY <1>1, <1>2, ClaimShown
  <1> HIDE DEF x
  <1>12. /\ cs \in ClaimIntents /\ Lasting(ledger.claims, cs)
         /\ \A d \in Claims : cs[d] = IF d = c THEN x ELSE ledger.claims[d]
    BY <1>2, <1>3, <1>8, <1>9, LastingUpdate DEF ClaimIntents
  <1> HIDE DEF cs
  <1>13. next \in Hashes \cup {None} /\ next \in {ps[i].point, h}
    BY <1>1, <1>6, PositionHas
  <1> HIDE DEF next
  <1>14. y \in PositionEntries /\ y.receipt = ps[i].receipt /\ y.point = next
    <2> DEFINE p == ps[i]
               a == intent.amount
    <2>1. p \in PositionEntries /\ a \in Nat /\ Claimable(p, a)
      BY <1>1, <1>6, <1>10
    <2>2. p = ps[i] /\ y = ClaimedFees(p, a, next)
      BY DEF ClaimedFees
    <2> HIDE DEF p, a, y
    <2>3. next \in Hashes \cup {None}
      BY <1>13
    <2> QED
      BY <2>1, <2>2, <2>3, ClaimedOne
  <1>15. y.point = ps[i].point \/ Owned(y)
    <2>1. CASE y.point = h
      BY <1>2, <1>5, <1>11, <1>14, <2>1 DEF Owned, MadeFor
    <2> QED
      BY <1>13, <1>14, <2>1
  <1> HIDE DEF y, ps
  <1>16. Steady(ps, qs)
    BY <1>3, <1>5, <1>14, <1>15, ReplacePositionSteady
  <1>17. qs \in Seq(PositionEntries)
    BY <1>16 DEF Steady
  <1> HIDE DEF qs
  <1>18. /\ m \in Ledgers /\ m.supplies = ledger.supplies /\ m.claims = cs
         /\ m.withdrawals = ledger.withdrawals /\ m.intents = ledger.intents
         /\ m.positions = qs /\ m.requests = ledger.requests
    BY <1>12, <1>17 DEF Ledgers
  <1> HIDE DEF m
  <1>19. Steady(ledger.positions, m.positions)
    BY <1>16, <1>18 DEF ps
  <1>20. \A d \in Claims : m.claims[d] # None =>
            ledger.claims[d] # None
            /\ m.claims[d].position = ledger.claims[d].position
    BY <1>2, <1>8, <1>12, <1>18
  <1>21. Placed(m)
    BY <1>18, <1>19, <1>20, PlacedSteady
  <1>22. KeptRequests(ledger, m)
    BY <1>18, RequestsSame
  <1>23. Advances(ledger, m)
    BY <1>12, <1>18, <1>19, <1>21, <1>22, LastingSame DEF Advances
  <1> QED
    BY <1>7, <1>23 DEF Grown, Save

LEMMA SettledRequestGrown ==
    ASSUME ledger \in Ledgers, Placed(ledger), NEW held, Held(held, ledger),
           NEW peer \in BOOLEAN, NEW cell, SettleRequestIntent(held, peer, cell)
    PROVE  Grown
  <1> DEFINE r == held.id
             h == <<"request", r>>
             intent == ledger.intents[r]
             e == NewRequest(r, intent.amount, h, cell, peer)
             k == WithRequest(ledger, e, intent.fee)
             x == [intent EXCEPT !.settled = TRUE]
             is == [ledger.intents EXCEPT ![r] = x]
             m == [k EXCEPT !.intents = is]
  <1>1. held.kind = "request" /\ cell \in {h, None}
    BY DEF SettleRequestIntent
  <1>2. r \in Requests /\ intent # None
    BY <1>1 DEF Held
  <1>3. ledger.intents \in [Requests -> RequestIntents \cup {None}]
    BY LedgerHas DEF Intents
  <1>4. intent \in RequestIntents
    BY <1>2, <1>3
  <1>5. /\ intent.amount \in Nat \ {0} /\ intent.amount \in Nat
        /\ intent.fee \in Nat
    BY <1>4, ChainAssumption DEF RequestIntents
  <1>6. h \in Hashes \cup {None} /\ cell \in Hashes \cup {None}
    <2>1. h \in Hashes
      BY <1>2 DEF Hashes
    <2> HIDE DEF h
    <2> QED
      BY <1>1, <2>1
  <1>7. e \in RequestEntries /\ e.amount = intent.amount /\ e.status = "Requested"
    <2> DEFINE a == intent.amount
    <2>1. a = intent.amount /\ a \in Nat /\ e = NewRequest(r, a, h, cell, peer)
      BY <1>5
    <2> HIDE DEF h, r, a, e
    <2>2. /\ NewRequest(r, a, h, cell, peer) \in RequestEntries
          /\ NewRequest(r, a, h, cell, peer).amount = a
          /\ NewRequest(r, a, h, cell, peer).status = "Requested"
      BY <1>2, <1>6, <2>1 DEF NewRequest, RequestEntries
    <2> QED
      BY <2>1, <2>2
  <1>8. Save([k EXCEPT !.intents[r].settled = TRUE])
    BY DEF SettleRequestIntent
  <1> HIDE DEF e
  <1>9. Follows(ledger, k)
    BY <1>5, <1>7, WithRequestFollows
  <1>10. k \in Ledgers /\ k.intents = ledger.intents /\ Placed(k)
    BY <1>9, PlacedFollows DEF Follows, SameIntents
  <1> HIDE DEF k
  <1>11. Save(m)
    <2>1. [k EXCEPT !.intents[r].settled = TRUE] = m
      BY <1>2, <1>3, <1>10 DEF Ledgers
    <2> QED
      BY <1>8, <2>1
  <1>12. x \in RequestIntents /\ x.amount = intent.amount /\ x.settled = TRUE
    BY <1>4 DEF RequestIntents
  <1>13. x # None
    BY <1>12, LedgerAssumption
  <1> HIDE DEF x
  <1>14. is \in Intents /\ Lasting(ledger.intents, is)
    BY <1>2, <1>3, <1>12, <1>13, LastingUpdate DEF Intents
  <1> HIDE DEF is
  <1>15. /\ m \in Ledgers /\ m.supplies = k.supplies /\ m.intents = is
         /\ m.withdrawals = k.withdrawals /\ m.claims = k.claims
         /\ m.positions = k.positions /\ m.requests = k.requests
    BY <1>10, <1>14 DEF Ledgers
  <1> HIDE DEF m
  <1>16. Placed(m)
    BY <1>10, <1>15 DEF Placed
  <1>17. Steady(k.positions, m.positions)
    BY <1>10, <1>15, LedgerHas, SteadySame
  <1>18. KeptRequests(k, m)
    BY <1>15, RequestsSame
  <1>19. Advances(k, m)
    BY <1>10, <1>14, <1>15, <1>16, <1>17, <1>18, LastingSame DEF Advances
  <1>20. Advances(ledger, m)
    BY <1>9, <1>19, AdvancesAfter
  <1> QED
    BY <1>11, <1>20 DEF Grown, Save


----------------------------------------------------------------------------
(***************************************************************************)
(* What the chain's transactions are made for.                             *)
(***************************************************************************)
LEMMA OnlyIn == ASSUME NEW S, S # {} PROVE Only(S) \in S
  BY DEF Only

LEMMA MadeCommit ==
    ASSUME ReceiptsMade, NEW h, NEW tx, Commit(h, tx),
           \A c \in tx.out : c.kind = "receipt" => MadeFor(c.point, c.id)
    PROVE  ReceiptsMade'
  <1>1. ASSUME NEW p \in Positions, receipt'[p] # None
        PROVE  MadeFor(receipt'[p].point, p)
    <2> DEFINE S == Group(tx.out, "receipt", p)
    <2>1. receipt'[p] = NextCell(tx, "receipt", p, receipt[p])
      BY DEF Commit
    <2>2. CASE S # {}
      <3>1. receipt'[p] \in S
        BY <2>1, <2>2, OnlyIn DEF NextCell
      <3> QED
        BY <3>1 DEF Group
    <2>3. CASE S = {}
      <3>1. receipt'[p] = receipt[p]
        BY <1>1, <2>1, <2>3 DEF NextCell
      <3> QED
        BY <1>1, <3>1 DEF ReceiptsMade
    <2> QED
      BY <2>2, <2>3
  <1> QED
    BY <1>1 DEF ReceiptsMade

LEMMA ReceiptFor ==
    ASSUME NEW h, NEW p, MadeFor(h, p), NEW data, NEW lock,
           NEW c, c = TypedCell("receipt", p, lock, h, data)
    PROVE  MadeFor(c.point, c.id)
  BY DEF TypedCell

LEMMA MovedKind ==
    ASSUME NEW h, NEW a, NEW d PROVE VaultMoved(h, a, d).kind = "vault"
  BY DEF VaultMoved, VaultCell

LEMMA SupplyMade ==
    ASSUME NEW p \in Positions, NEW a, NEW c \in SupplyTx(p, a).out,
           c.kind = "receipt"
    PROVE  MadeFor(c.point, c.id)
  <1> DEFINE h == <<"supply", p>>
             v == VaultMoved(h, a, [vault.data EXCEPT !.total = @ + a])
             data == [supplied |-> a, available |-> a, reserved |-> 0,
                      deployed |-> 0, claimed |-> 0]
  <1>1. MadeFor(h, p)
    BY DEF MadeFor
  <1>2. c \in {v, TypedCell("receipt", p, LpLock[p], h, data)}
    BY DEF SupplyTx
  <1>3. v.kind = "vault"
    BY MovedKind
  <1> HIDE DEF h, v, data
  <1> QED
    BY <1>1, <1>2, <1>3, ReceiptFor

LEMMA WithdrawMade ==
    ASSUME NEW w \in Withdrawals, NEW a, NEW c \in WithdrawTx(w, a).out,
           c.kind = "receipt"
    PROVE  MadeFor(c.point, c.id)
  <1> DEFINE h == <<"withdraw", w>>
             p == WithdrawnFrom[w]
             left == [receipt[p].data EXCEPT !.supplied = @ - a,
                                             !.available = @ - a]
             v == VaultMoved(h, -a, [vault.data EXCEPT !.total = @ - a])
             pay == IF left.supplied = 0 THEN a + CellBond ELSE a
             u == PlainCell(LpLock[p], h, pay)
             r == TypedCell("receipt", p, LpLock[p], h, left)
  <1>1. MadeFor(h, p)
    BY DEF MadeFor
  <1>2. c \in {v, u, r}
    BY DEF WithdrawTx
  <1>3. v.kind = "vault" /\ u.kind = "plain"
    BY MovedKind DEF PlainCell
  <1> HIDE DEF h, v, u, left, p
  <1> QED
    BY <1>1, <1>2, <1>3, ReceiptFor

LEMMA ClaimMade ==
    ASSUME NEW k \in Claims, NEW a, NEW c \in ClaimTx(k, a).out
    PROVE  /\ c.kind = "receipt" => MadeFor(c.point, c.id)
           /\ c.kind = "claim" => c.id = k
  <1> DEFINE h == <<"claim", k>>
             p == ReceiptOf[k]
             v == VaultMoved(h, -a, [vault.data EXCEPT !.fee = @ - a])
             data == [receipt[p].data EXCEPT !.claimed = @ + a]
             r == TypedCell("receipt", p, LpLock[p], h, data)
             f == TypedCell("claim", k, LpLock[p], h,
                            [status |-> "pending", amount |-> a])
             u == PlainCell(LpLock[p], h, a)
  <1>1. MadeFor(h, p)
    BY DEF MadeFor
  <1>2. c \in {v, r, f, u}
    BY DEF ClaimTx
  <1>3. /\ v.kind = "vault" /\ u.kind = "plain" /\ f.kind = "claim"
        /\ f.id = k /\ r.kind = "receipt"
    BY MovedKind DEF PlainCell, TypedCell
  <1>4. MadeFor(r.point, r.id)
    <2> HIDE DEF h, data, p
    <2> QED
      BY <1>1, ReceiptFor
  <1> HIDE DEF v, u, r, f
  <1> QED
    BY <1>2, <1>3, <1>4

LEMMA RequestMade ==
    ASSUME NEW r \in Requests, NEW a, NEW f, NEW c \in RequestTx(r, a, f).out
    PROVE  c.kind # "receipt"
  <1> DEFINE h == <<"request", r>>
             v == VaultMoved(h, f, [vault.data EXCEPT !.reserved = @ + a,
                                                      !.fee = @ + f])
             q == TypedCell("request", r, Operator, h,
                     [status |-> "reserved", amount |-> a, fee |-> f])
             u == PlainCell("receiver", h, ReservePay)
  <1>1. c \in {v, q, u}
    BY DEF RequestTx
  <1>2. v.kind = "vault" /\ q.kind = "request" /\ u.kind = "plain"
    BY MovedKind DEF PlainCell, TypedCell
  <1> HIDE DEF v, q, u
  <1> QED
    BY <1>1, <1>2

LEMMA FundMade ==
    ASSUME Shaped, NEW r \in Requests, request[r] # None,
           NEW c \in FundTx(r).out
    PROVE  c.kind # "receipt"
  <1>1. PICK v, q, u :
              /\ FundTx(r).out = {u, v, q}
              /\ NextVault(v, -request[r].data.amount,
                           AfterFund(vault.data, request[r].data.amount))
              /\ RequestCell(r, q) /\ u.kind = "plain"
    BY FundCells
  <1>2. v.kind = "vault" /\ q.kind = "request"
    BY <1>1, LiveRequest DEF NextVault, IsVault
  <1> QED
    BY <1>1, <1>2

\* A withdrawal takes the amount of its intent from the vault, and spends its
\* own receipt.
LEMMA WithdrawIs ==
    ASSUME Shaped, ReceiptsMade, NEW w \in Withdrawals, NEW a \in Amounts,
           MineWithdraw(w, a)
    PROVE  WithdrawsFor(WithdrawTx(w, a), WithdrawnFrom[w], a)
  <1> DEFINE tx == WithdrawTx(w, a)
             p == WithdrawnFrom[w]
  <1>1. receipt[p] # None /\ receipt[p].data.available >= a
    BY DEF MineWithdraw
  <1>2. /\ p \in Positions /\ LpCell(p, receipt[p])
        /\ tx.in = {vault, receipt[p]}
    BY <1>1, WithdrawCells
  <1>3. PICK v, u :
              /\ NextVault(v, -a, LessTotal(vault.data, a))
              /\ u.kind = "plain"
              /\ \/ tx.out = {v, u}
                 \/ \E c : tx.out = {v, u, c} /\ LpCell(p, c)
    BY <1>1, WithdrawCells
  <1>4. /\ vault.kind = "vault" /\ v.kind = "vault"
        /\ receipt[p].kind = "receipt"
        /\ \A c : LpCell(p, c) => c.kind = "receipt"
    BY <1>2, <1>3, LiveReceipt DEF Shaped, IsVault, NextVault
  <1>5. MadeFor(receipt[p].point, p)
    BY <1>1, <1>2 DEF ReceiptsMade
  <1> HIDE DEF tx
  <1>6. OfKind(tx.in, "receipt") = {receipt[p]} /\ OfKind(tx.in, "vault") = {vault}
    BY <1>2, <1>4 DEF OfKind
  <1>7. OfKind(tx.out, "vault") = {v}
    BY <1>3, <1>4 DEF OfKind
  <1>8. VaultIn(tx) = vault /\ VaultOut(tx) = v
    BY <1>6, <1>7, OnlyIs DEF VaultIn, VaultOut
  <1>9. /\ vault.data \in VaultData /\ vault.capacity \in Int
        /\ v.capacity = vault.capacity + -a
        /\ v.data = [vault.data EXCEPT !.total = vault.data.total - a]
    BY <1>3 DEF Shaped, NextVault, LessTotal
  <1>10. a \in Nat
    BY ChainAssumption
  <1>11. /\ v.capacity = vault.capacity - a
         /\ v.data.total = vault.data.total - a
    BY <1>9, <1>10 DEF VaultData
  <1> QED
    BY <1>5, <1>6, <1>8, <1>9, <1>11 DEF WithdrawsFor, tx

LEMMA MinedCommit ==
    ASSUME MinedFor(ledger), UNCHANGED ledger, NEW h, NEW tx, Commit(h, tx),
           \A w \in Withdrawals : h = <<"withdraw", w>> =>
              /\ ledger.withdrawals[w] # None
              /\ WithdrawsFor(tx, WithdrawnFrom[w], ledger.withdrawals[w].amount),
           \A k \in Claims : h = <<"claim", k>> =>
              \A c \in OfKind(tx.out, "claim") : c.id = k
    PROVE  MinedFor(ledger)' /\ DOMAIN mined \subseteq DOMAIN mined'
  <1>1. /\ DOMAIN mined' = DOMAIN mined \cup {h}
        /\ mined'[h] = tx
        /\ \A g \in DOMAIN mined : mined'[g] = mined[g]
    BY DEF Commit
  <1>2. ASSUME NEW w \in Withdrawals, <<"withdraw", w>> \in DOMAIN mined'
        PROVE  /\ ledger.withdrawals[w] # None
               /\ WithdrawsFor(mined'[<<"withdraw", w>>], WithdrawnFrom[w],
                               ledger.withdrawals[w].amount)
    <2>1. CASE <<"withdraw", w>> = h
      BY <1>1, <2>1
    <2>2. CASE <<"withdraw", w>> \in DOMAIN mined
      BY <1>1, <2>2 DEF MinedFor
    <2> QED
      BY <1>1, <1>2, <2>1, <2>2
  <1>3. ASSUME NEW k \in Claims, <<"claim", k>> \in DOMAIN mined'
        PROVE  \A c \in OfKind(mined'[<<"claim", k>>].out, "claim") : c.id = k
    <2>1. CASE <<"claim", k>> = h
      BY <1>1, <2>1
    <2>2. CASE <<"claim", k>> \in DOMAIN mined
      BY <1>1, <2>2 DEF MinedFor
    <2> QED
      BY <1>1, <1>3, <2>1, <2>2
  <1>4. ledger' = ledger
    OBVIOUS
  <1> QED
    BY <1>1, <1>2, <1>3, <1>4 DEF MinedFor
\* What a transaction of the chain leaves of all this.
ChainKept ==
    /\ ChainNext /\ ReceiptsMade' /\ MinedFor(ledger)'
    /\ DOMAIN mined \subseteq DOMAIN mined'

LEMMA WalletKept ==
    ASSUME ledger \in Ledgers, Shaped, ReceiptsMade, MinedFor(ledger),
           WalletNext, UNCHANGED ledger
    PROVE  ChainKept
  <1>1. ASSUME NEW p \in Positions, ledger.supplies[p] # None,
               MineSupply(p, ledger.supplies[p].amount)
        PROVE  ChainKept
    <2> DEFINE a == ledger.supplies[p].amount
               h == <<"supply", p>>
    <2>1. a \in Amounts
      <3>1. ledger.supplies[p] \in SupplyIntents
        BY <1>1, LedgerHas DEF Supplies
      <3> QED
        BY <3>1 DEF SupplyIntents
    <2> HIDE DEF a
    <2>2. MineSupply(p, a) /\ Commit(h, SupplyTx(p, a))
      BY <1>1 DEF MineSupply, a
    <2>3. ReceiptsMade'
      BY <2>2, SupplyMade, MadeCommit
    <2>4. /\ \A w \in Withdrawals : h # <<"withdraw", w>>
          /\ \A k \in Claims : h # <<"claim", k>>
      OBVIOUS
    <2> HIDE DEF h
    <2>5. MinedFor(ledger)' /\ DOMAIN mined \subseteq DOMAIN mined'
      BY <2>2, <2>4, MinedCommit
    <2> QED
      BY <2>1, <2>2, <2>3, <2>5 DEF ChainKept, ChainNext
  <1>2. ASSUME NEW w \in Withdrawals, ledger.withdrawals[w] # None,
               MineWithdraw(w, ledger.withdrawals[w].amount)
        PROVE  ChainKept
    <2> DEFINE a == ledger.withdrawals[w].amount
               h == <<"withdraw", w>>
    <2>1. a \in Amounts
      <3>1. ledger.withdrawals[w] \in PayoutIntents(Amounts)
        BY <1>2, LedgerHas DEF WithdrawalIntents
      <3> QED
        BY <3>1 DEF PayoutIntents
    <2>2. a = ledger.withdrawals[w].amount
      OBVIOUS
    <2> HIDE DEF a
    <2>3. MineWithdraw(w, a) /\ Commit(h, WithdrawTx(w, a))
      BY <1>2 DEF MineWithdraw, a
    <2>4. ReceiptsMade'
      BY <2>3, WithdrawMade, MadeCommit
    <2>5. WithdrawsFor(WithdrawTx(w, a), WithdrawnFrom[w], a)
      BY <2>1, <2>3, WithdrawIs
    <2>6. /\ \A v \in Withdrawals : h = <<"withdraw", v>> => v = w
          /\ \A k \in Claims : h # <<"claim", k>>
      OBVIOUS
    <2> HIDE DEF h
    <2>7. MinedFor(ledger)' /\ DOMAIN mined \subseteq DOMAIN mined'
      BY <1>2, <2>2, <2>3, <2>5, <2>6, MinedCommit
    <2> QED
      BY <2>1, <2>3, <2>4, <2>7 DEF ChainKept, ChainNext
  <1>3. ASSUME NEW c \in Claims, ledger.claims[c] # None,
               MineClaim(c, ledger.claims[c].amount)
        PROVE  ChainKept
    <2> DEFINE a == ledger.claims[c].amount
               h == <<"claim", c>>
    <2>1. a \in Fees
      <3>1. ledger.claims[c] \in PayoutIntents(Fees)
        BY <1>3, LedgerHas DEF ClaimIntents
      <3> QED
        BY <3>1 DEF PayoutIntents
    <2> HIDE DEF a
    <2>2. MineClaim(c, a) /\ Commit(h, ClaimTx(c, a))
      BY <1>3 DEF MineClaim, a
    <2>3. ReceiptsMade'
      BY <2>2, ClaimMade, MadeCommit
    <2>4. \A x \in OfKind(ClaimTx(c, a).out, "claim") : x.id = c
      BY ClaimMade DEF OfKind
    <2>5. /\ \A w \in Withdrawals : h # <<"withdraw", w>>
          /\ \A k \in Claims : h = <<"claim", k>> => k = c
      OBVIOUS
    <2> HIDE DEF h
    <2>6. MinedFor(ledger)' /\ DOMAIN mined \subseteq DOMAIN mined'
      BY <2>2, <2>4, <2>5, MinedCommit
    <2> QED
      BY <2>1, <2>2, <2>3, <2>6 DEF ChainKept, ChainNext
  <1>4. ASSUME NEW r \in Requests, ledger.intents[r] # None,
               MineRequest(r, ledger.intents[r].amount, ledger.intents[r].fee)
        PROVE  ChainKept
    <2> DEFINE a == ledger.intents[r].amount
               f == ledger.intents[r].fee
               h == <<"request", r>>
    <2>1. a \in Amounts /\ f \in Fees
      <3>1. ledger.intents[r] \in RequestIntents
        BY <1>4, LedgerHas DEF Intents
      <3> QED
        BY <3>1 DEF RequestIntents
    <2> HIDE DEF a, f
    <2>2. MineRequest(r, a, f) /\ Commit(h, RequestTx(r, a, f))
      BY <1>4 DEF MineRequest, a, f
    <2>3. ReceiptsMade'
      BY <2>2, RequestMade, MadeCommit
    <2>4. /\ \A w \in Withdrawals : h # <<"withdraw", w>>
          /\ \A k \in Claims : h # <<"claim", k>>
      OBVIOUS
    <2> HIDE DEF h
    <2>5. MinedFor(ledger)' /\ DOMAIN mined \subseteq DOMAIN mined'
      BY <2>2, <2>4, MinedCommit
    <2> QED
      BY <2>1, <2>2, <2>3, <2>5 DEF ChainKept, ChainNext
  <1> QED
    BY <1>1, <1>2, <1>3, <1>4 DEF WalletNext

LEMMA FundKept ==
    ASSUME Shaped, ReceiptsMade, MinedFor(ledger), UNCHANGED ledger,
           NEW r \in Requests, MineFund(r)
    PROVE  ChainKept
  <1> DEFINE h == <<"fund", r>>
  <1>1. Commit(h, FundTx(r)) /\ request[r] # None
    BY DEF MineFund, Fundable
  <1>2. ReceiptsMade'
    BY <1>1, FundMade, MadeCommit
  <1>3. /\ \A w \in Withdrawals : h # <<"withdraw", w>>
        /\ \A k \in Claims : h # <<"claim", k>>
    OBVIOUS
  <1> HIDE DEF h
  <1>4. MinedFor(ledger)' /\ DOMAIN mined \subseteq DOMAIN mined'
    BY <1>1, <1>3, MinedCommit
  <1> QED
    BY <1>2, <1>4 DEF ChainKept, ChainNext

----------------------------------------------------------------------------
(***************************************************************************)
(* An intent is settled only for a transaction the chain shows.            *)
(***************************************************************************)
NewlySettled(s, t, x) ==
    t[x] # None /\ t[x].settled /\ ~(s[x] # None /\ s[x].settled)

\* What a step settles is on the chain.
SettlesMined ==
    config.rpc =>
        /\ \A p \in Positions :
              NewlySettled(ledger.supplies, ledger'.supplies, p) =>
                 <<"supply", p>> \in DOMAIN mined
        /\ \A w \in Withdrawals :
              NewlySettled(ledger.withdrawals, ledger'.withdrawals, w) =>
                 \E v \in Withdrawals :
                    /\ <<"withdraw", v>> \in DOMAIN mined
                    /\ WithdrawnFrom[v] = WithdrawnFrom[w]
                    /\ ledger.withdrawals[v].amount
                          = ledger'.withdrawals[w].amount
        /\ \A c \in Claims :
              NewlySettled(ledger.claims, ledger'.claims, c) =>
                 <<"claim", c>> \in DOMAIN mined
        /\ \A r \in Requests :
              NewlySettled(ledger.intents, ledger'.intents, r) =>
                 <<"request", r>> \in DOMAIN mined

LEMMA SameSettles == ASSUME SameIntents(ledger, ledger') PROVE SettlesMined
  BY DEF SameIntents, SettlesMined, NewlySettled

LEMMA MinedKept ==
    ASSUME ledger \in Ledgers, MinedFor(ledger), Grown, UNCHANGED mined
    PROVE  MinedFor(ledger)'
  <1>1. Lasting(ledger.withdrawals, ledger'.withdrawals)
    BY DEF Grown, Advances
  <1>2. DOMAIN ledger.withdrawals = Withdrawals
    BY LedgerHas DEF WithdrawalIntents
  <1>3. \A w \in Withdrawals : ledger.withdrawals[w] # None =>
           /\ ledger'.withdrawals[w] # None
           /\ ledger'.withdrawals[w].amount = ledger.withdrawals[w].amount
    BY <1>1, <1>2 DEF Lasting
  <1>4. mined' = mined
    OBVIOUS
  <1> QED
    BY <1>3, <1>4 DEF MinedFor

LEMMA SettledKept ==
    ASSUME ledger \in Ledgers, MinedFor(ledger), SettledIsMined, Grown,
           SettlesMined, UNCHANGED <<mined, config>>
    PROVE  SettledIsMined'
  <1> SUFFICES ASSUME config.rpc
               PROVE  SettledIsMined'
    BY DEF SettledIsMined
  <1>1. Lasting(ledger.withdrawals, ledger'.withdrawals)
    BY DEF Grown, Advances
  <1>2. DOMAIN ledger.withdrawals = Withdrawals
    BY LedgerHas DEF WithdrawalIntents
  <1>3. \A w \in Withdrawals : ledger.withdrawals[w] # None =>
           /\ ledger'.withdrawals[w] # None
           /\ ledger'.withdrawals[w].amount = ledger.withdrawals[w].amount
    BY <1>1, <1>2 DEF Lasting
  <1>4. ASSUME NEW p \in Positions, ledger'.supplies[p] # None,
               ledger'.supplies[p].settled
        PROVE  <<"supply", p>> \in DOMAIN mined
    BY <1>4 DEF SettledIsMined, SettlesMined, NewlySettled
  <1>5. ASSUME NEW c \in Claims, ledger'.claims[c] # None,
               ledger'.claims[c].settled
        PROVE  <<"claim", c>> \in DOMAIN mined
    BY <1>5 DEF SettledIsMined, SettlesMined, NewlySettled
  <1>6. ASSUME NEW r \in Requests, ledger'.intents[r] # None,
               ledger'.intents[r].settled
        PROVE  <<"request", r>> \in DOMAIN mined
    BY <1>6 DEF SettledIsMined, SettlesMined, NewlySettled
  <1>7. ASSUME NEW w \in Withdrawals, ledger'.withdrawals[w] # None,
               ledger'.withdrawals[w].settled
        PROVE  \E v \in Withdrawals :
                  /\ <<"withdraw", v>> \in DOMAIN mined
                  /\ WithdrawnFrom[v] = WithdrawnFrom[w]
                  /\ ledger'.withdrawals[v].amount = ledger'.withdrawals[w].amount
    <2>1. PICK v \in Withdrawals :
             /\ <<"withdraw", v>> \in DOMAIN mined
             /\ WithdrawnFrom[v] = WithdrawnFrom[w]
             /\ ledger.withdrawals[v].amount = ledger'.withdrawals[w].amount
      <3>1. CASE NewlySettled(ledger.withdrawals, ledger'.withdrawals, w)
        BY <3>1 DEF SettlesMined
      <3>2. CASE ~NewlySettled(ledger.withdrawals, ledger'.withdrawals, w)
        <4>1. ledger.withdrawals[w] # None /\ ledger.withdrawals[w].settled
          BY <1>7, <3>2 DEF NewlySettled
        <4> QED
          BY <1>3, <4>1 DEF SettledIsMined
      <3> QED
        BY <3>1, <3>2
    <2>2. ledger'.withdrawals[v].amount = ledger.withdrawals[v].amount
      BY <1>3, <2>1 DEF MinedFor
    <2> QED
      BY <2>1, <2>2
  <1>8. mined' = mined
    OBVIOUS
  <1> QED
    BY <1>4, <1>5, <1>6, <1>7, <1>8 DEF SettledIsMined

LEMMA SupplySettles ==
    ASSUME ledger \in Ledgers, NEW p \in Positions, NEW a,
           CreateSupplyIntent(p, a)
    PROVE  SettlesMined
  <1>1. /\ ledger'.supplies = [ledger.supplies EXCEPT ![p] =
                                  [amount |-> a, settled |-> FALSE]]
        /\ ledger'.withdrawals = ledger.withdrawals
        /\ ledger'.claims = ledger.claims /\ ledger'.intents = ledger.intents
    BY DEF CreateSupplyIntent, Save, Ledgers
  <1>2. ledger.supplies \in Supplies
    BY LedgerHas
  <1>3. \A q \in Positions : ~NewlySettled(ledger.supplies, ledger'.supplies, q)
    BY <1>1, <1>2 DEF NewlySettled, Supplies
  <1> QED
    BY <1>1, <1>3 DEF SettlesMined, NewlySettled

LEMMA WithdrawalSettles ==
    ASSUME ledger \in Ledgers, NEW w \in Withdrawals, NEW i, NEW a,
           CreateWithdrawalIntent(w, i, a)
    PROVE  SettlesMined
  <1>1. /\ ledger'.withdrawals = [ledger.withdrawals EXCEPT ![w] =
                              [position |-> i, amount |-> a, settled |-> FALSE]]
        /\ ledger'.supplies = ledger.supplies
        /\ ledger'.claims = ledger.claims /\ ledger'.intents = ledger.intents
    BY DEF CreateWithdrawalIntent, Save, Ledgers
  <1>2. ledger.withdrawals \in WithdrawalIntents
    BY LedgerHas
  <1>3. \A v \in Withdrawals :
           ~NewlySettled(ledger.withdrawals, ledger'.withdrawals, v)
    BY <1>1, <1>2 DEF NewlySettled, WithdrawalIntents
  <1> QED
    BY <1>1, <1>3 DEF SettlesMined, NewlySettled

LEMMA ClaimSettles ==
    ASSUME ledger \in Ledgers, NEW c \in Claims, NEW i, NEW a,
           CreateFeeClaim(c, i, a)
    PROVE  SettlesMined
  <1>1. /\ ledger'.claims = [ledger.claims EXCEPT ![c] =
                              [position |-> i, amount |-> a, settled |-> FALSE]]
        /\ ledger'.supplies = ledger.supplies
        /\ ledger'.withdrawals = ledger.withdrawals
        /\ ledger'.intents = ledger.intents
    BY DEF CreateFeeClaim, Save, Ledgers
  <1>2. ledger.claims \in ClaimIntents
    BY LedgerHas
  <1>3. \A d \in Claims : ~NewlySettled(ledger.claims, ledger'.claims, d)
    BY <1>1, <1>2 DEF NewlySettled, ClaimIntents
  <1> QED
    BY <1>1, <1>3 DEF SettlesMined, NewlySettled

LEMMA IntentSettles ==
    ASSUME ledger \in Ledgers, NEW r \in Requests, NEW a, NEW f,
           CreateRequestIntent(r, a, f)
    PROVE  SettlesMined
  <1>1. /\ ledger'.intents = [ledger.intents EXCEPT ![r] =
                                 [amount |-> a, fee |-> f, settled |-> FALSE]]
        /\ ledger'.supplies = ledger.supplies
        /\ ledger'.withdrawals = ledger.withdrawals
        /\ ledger'.claims = ledger.claims
    BY DEF CreateRequestIntent, Save, Ledgers
  <1>2. ledger.intents \in Intents
    BY LedgerHas
  <1>3. \A q \in Requests : ~NewlySettled(ledger.intents, ledger'.intents, q)
    BY <1>1, <1>2 DEF NewlySettled, Intents
  <1> QED
    BY <1>1, <1>3 DEF SettlesMined, NewlySettled

LEMMA DepositSettles ==
    ASSUME ledger \in Ledgers, NEW p \in Positions, CreateDeposit(p)
    PROVE  SettlesMined
  <1>1. /\ ledger'.supplies = [ledger.supplies EXCEPT ![p].settled = TRUE]
        /\ ledger'.withdrawals = ledger.withdrawals
        /\ ledger'.claims = ledger.claims /\ ledger'.intents = ledger.intents
    BY DEF CreateDeposit, Save, Ledgers
  <1>2. ledger.supplies \in Supplies
    BY LedgerHas
  <1>3. config.rpc => <<"supply", p>> \in DOMAIN mined
    BY DEF CreateDeposit, DepositShown
  <1>4. \A q \in Positions \ {p} : ledger'.supplies[q] = ledger.supplies[q]
    BY <1>1, <1>2 DEF Supplies
  <1> QED
    BY <1>1, <1>3, <1>4 DEF SettlesMined, NewlySettled

LEMMA SettledWithdrawalSettles ==
    ASSUME ledger \in Ledgers, Placed(ledger), MinedFor(ledger),
           NEW held, Held(held, ledger), NEW v \in Withdrawals,
           NEW point, SettleWithdrawal(held, <<"withdraw", v>>, point)
    PROVE  SettlesMined
  <1> DEFINE w == held.id
             intent == ledger.withdrawals[w]
             p == ledger.positions[intent.position]
  <1>1. /\ held.kind = "withdrawal"
        /\ config.rpc => /\ <<"withdraw", v>> \in DOMAIN mined
                         /\ WithdrawalVerified(mined[<<"withdraw", v>>],
                                               p.receipt, intent.amount, held)
    BY DEF SettleWithdrawal
  <1>2. /\ w \in Withdrawals /\ intent # None
        /\ config.rpc /\ held.point # None => MadeFor(held.point, WithdrawnFrom[w])
    BY <1>1 DEF Held
  <1>3. /\ ledger'.withdrawals = [ledger.withdrawals EXCEPT ![w].settled = TRUE]
        /\ ledger'.supplies = ledger.supplies
        /\ ledger'.claims = ledger.claims /\ ledger'.intents = ledger.intents
    BY DEF SettleWithdrawal, Save, Ledgers
  <1>4. ledger.withdrawals \in WithdrawalIntents
    BY LedgerHas
  <1>5. intent \in PayoutIntents(Amounts)
    BY <1>2, <1>4 DEF WithdrawalIntents
  <1>6. intent.amount \in Amounts
    BY <1>5 DEF PayoutIntents
  <1>7. p.receipt = WithdrawnFrom[w]
    BY <1>2 DEF Placed
  <1>8. \A u \in Withdrawals \ {w} : ledger'.withdrawals[u] = ledger.withdrawals[u]
    BY <1>3, <1>4 DEF WithdrawalIntents
  <1>9. ledger'.withdrawals[w].amount = intent.amount
    BY <1>2, <1>3, <1>4, <1>5 DEF WithdrawalIntents, PayoutIntents
  <1>10. ASSUME config.rpc
         PROVE  /\ <<"withdraw", v>> \in DOMAIN mined
                /\ WithdrawnFrom[v] = WithdrawnFrom[w]
                /\ ledger.withdrawals[v].amount = intent.amount
    <2>1. held.point # None => MadeFor(held.point, WithdrawnFrom[w])
      BY <1>2, <1>10
    <2>2. /\ <<"withdraw", v>> \in DOMAIN mined
          /\ WithdrawalVerified(mined[<<"withdraw", v>>], WithdrawnFrom[w],
                                intent.amount, held)
      BY <1>1, <1>7, <1>10
    <2> HIDE DEF intent, w
    <2> QED
      BY <1>2, <1>6, <2>1, <2>2, WithdrawalShown
  <1> HIDE DEF intent, w
  <1> QED
    BY <1>3, <1>8, <1>9, <1>10 DEF SettlesMined, NewlySettled

LEMMA SettledClaimSettles ==
    ASSUME ledger \in Ledgers, MinedFor(ledger),
           NEW held, Held(held, ledger), NEW k \in Claims,
           NEW point, SettleFeeClaim(held, <<"claim", k>>, point)
    PROVE  SettlesMined
  <1> DEFINE c == held.id
             intent == ledger.claims[c]
  <1>1. /\ held.kind = "claim"
        /\ config.rpc => /\ <<"claim", k>> \in DOMAIN mined
                         /\ ClaimVerified(mined[<<"claim", k>>], c,
                                          intent.amount, held)
    BY DEF SettleFeeClaim
  <1>2. c \in Claims
    BY <1>1 DEF Held
  <1>3. /\ ledger'.claims = [ledger.claims EXCEPT ![c].settled = TRUE]
        /\ ledger'.supplies = ledger.supplies
        /\ ledger'.withdrawals = ledger.withdrawals
        /\ ledger'.intents = ledger.intents
    BY DEF SettleFeeClaim, Save, Ledgers
  <1>4. ledger.claims \in ClaimIntents
    BY LedgerHas
  <1>5. \A d \in Claims \ {c} : ledger'.claims[d] = ledger.claims[d]
    BY <1>3, <1>4 DEF ClaimIntents
  <1>6. config.rpc => <<"claim", c>> \in DOMAIN mined
    <2> HIDE DEF intent, c
    <2> QED
      BY <1>1, <1>2, ClaimShown
  <1> HIDE DEF intent, c
  <1> QED
    BY <1>3, <1>5, <1>6 DEF SettlesMined, NewlySettled

LEMMA SettledRequestSettles ==
    ASSUME ledger \in Ledgers, NEW held, Held(held, ledger),
           NEW peer, NEW cell, SettleRequestIntent(held, peer, cell)
    PROVE  SettlesMined
  <1> DEFINE r == held.id
             intent == ledger.intents[r]
             k == WithRequest(ledger, NewRequest(r, intent.amount,
                                                 <<"request", r>>, cell, peer),
                              intent.fee)
  <1>1. /\ held.kind = "request"
        /\ config.rpc => <<"request", r>> \in DOMAIN mined
        /\ ledger' = [k EXCEPT !.intents[r].settled = TRUE]
    BY DEF SettleRequestIntent, Save
  <1>2. r \in Requests
    BY <1>1 DEF Held
  <1>3. /\ k.supplies = ledger.supplies /\ k.withdrawals = ledger.withdrawals
        /\ k.claims = ledger.claims /\ k.intents = ledger.intents
        /\ DOMAIN k = DOMAIN ledger
    BY DEF WithRequest, Ledgers
  <1>4. DOMAIN ledger = {"supplies", "positions", "withdrawals", "claims",
                         "intents", "requests", "reservations", "jobs",
                         "funding", "live"}
    BY DEF Ledgers
  <1> HIDE DEF k
  <1>5. /\ ledger'.intents = [k.intents EXCEPT ![r].settled = TRUE]
        /\ ledger'.supplies = k.supplies
        /\ ledger'.withdrawals = k.withdrawals /\ ledger'.claims = k.claims
    BY <1>1, <1>3, <1>4
  <1>6. DOMAIN ledger.intents = Requests
    BY LedgerHas DEF Intents
  <1>7. \A q \in Requests \ {r} : ledger'.intents[q] = ledger.intents[q]
    BY <1>3, <1>5, <1>6
  <1> HIDE DEF r
  <1> QED
    BY <1>1, <1>3, <1>5, <1>7 DEF SettlesMined, NewlySettled

LEMMA SettledGrows ==
    ASSUME SettledIsMined, DOMAIN mined \subseteq DOMAIN mined',
           UNCHANGED <<ledger, config>>
    PROVE  SettledIsMined'
  BY DEF SettledIsMined

----------------------------------------------------------------------------
(***************************************************************************)
(* The invariant of the service: its ledger, in memory and in the file,    *)
(* the calls that wait, and the builders at work.                          *)
(***************************************************************************)
OwnedIn(p, c) == c.rpc /\ p.point # None => MadeFor(p.point, p.receipt)
ShownIn(e, c, f) ==
    c.vaultMode /\ e.status = "ChannelOpen" =>
        e.channel \in DOMAIN f /\ f[e.channel].state \in SignedStates
HeldIn(x, l, c) ==
    \/ /\ x.kind = "request" /\ x.id \in Requests /\ l.intents[x.id] # None
    \/ /\ x.kind = "withdrawal" /\ x.id \in Withdrawals
       /\ l.withdrawals[x.id] # None
       /\ c.rpc /\ x.point # None => MadeFor(x.point, WithdrawnFrom[x.id])
    \/ /\ x.kind = "claim" /\ x.id \in Claims /\ l.claims[x.id] # None

Sound(l, c, f) ==
    /\ l \in Ledgers /\ Placed(l)
    /\ \A i \in DOMAIN l.positions : OwnedIn(l.positions[i], c)
    /\ \A i \in DOMAIN l.requests : ShownIn(l.requests[i], c, f)

LedgersInv ==
    /\ config \in Configs
    /\ Sound(ledger, config, fiber) /\ Sound(disk, config, fiber)
    /\ SameIntents(ledger, disk)
    /\ SettledIsMined
CallsInv ==
    /\ \A x \in contexts : HeldIn(x, ledger, config)
    /\ \A x \in handoffs : Knows(ledger, x.id) /\ x.channel \in Nat \cup {None}
\* A builder works on a channel that has no transaction yet, alone; a channel
\* that the vault funds is not signed without a transaction.
BuilderInv ==
    /\ fiber \in Seq(FiberEntries)
    /\ config.vaultMode =>
          \A n \in DOMAIN fiber :
             fiber[n].state \in SignedStates => fiber[n].tx # None
    /\ \A b \in building :
          /\ config.vaultMode /\ Knows(ledger, b.id)
          /\ b.channel \in DOMAIN fiber /\ fiber[b.channel].tx = None
          /\ fiber[b.channel].state \notin SignedStates
    /\ \A b, d \in building : b.channel = d.channel => b = d
MinedInv == IInv /\ CellsInv /\ ReceiptsMade /\ MinedFor(ledger)
ServiceInv == LedgersInv /\ CallsInv /\ BuilderInv /\ MinedInv

LEMMA HeldIs == ASSUME NEW x, NEW l PROVE HeldIn(x, l, config) <=> Held(x, l)
  BY DEF HeldIn, Held

LEMMA SoundAdvances ==
    ASSUME NEW l, NEW m, Sound(l, config, fiber), Advances(l, m)
    PROVE  Sound(m, config, fiber)
  <1>1. m \in Ledgers /\ Placed(m)
    BY DEF Advances
  <1>2. ASSUME NEW i \in DOMAIN m.positions
        PROVE  OwnedIn(m.positions[i], config)
    <2>1. \/ /\ i \in DOMAIN l.positions
             /\ m.positions[i].point = l.positions[i].point
          \/ Owned(m.positions[i])
      BY DEF Advances, Steady
    <2>2. CASE Owned(m.positions[i])
      BY <2>2 DEF Owned, OwnedIn
    <2>3. CASE /\ i \in DOMAIN l.positions
               /\ m.positions[i].point = l.positions[i].point
      <3>1. m.positions[i].receipt = l.positions[i].receipt
        BY <2>3 DEF Advances, Steady
      <3>2. OwnedIn(l.positions[i], config)
        BY <2>3 DEF Sound
      <3> QED
        BY <2>3, <3>1, <3>2 DEF OwnedIn
    <2> QED
      BY <2>1, <2>2, <2>3
  <1>3. ASSUME NEW i \in DOMAIN m.requests
        PROVE  ShownIn(m.requests[i], config, fiber)
    <2>1. \/ /\ i \in DOMAIN l.requests
             /\ m.requests[i].status = l.requests[i].status
             /\ m.requests[i].channel = l.requests[i].channel
          \/ Shown(m.requests[i])
      BY DEF Advances, KeptRequests
    <2>2. CASE Shown(m.requests[i])
      BY <2>2 DEF Shown, ShownIn
    <2>3. CASE /\ i \in DOMAIN l.requests
               /\ m.requests[i].status = l.requests[i].status
               /\ m.requests[i].channel = l.requests[i].channel
      <3>1. ShownIn(l.requests[i], config, fiber)
        BY <2>3 DEF Sound
      <3> QED
        BY <2>3, <3>1 DEF ShownIn
    <2> QED
      BY <2>1, <2>2, <2>3
  <1> QED
    BY <1>1, <1>2, <1>3 DEF Sound

\* Channels stay, and one that is ready or was stays so.
Serves(f, g) ==
    /\ DOMAIN f \subseteq DOMAIN g
    /\ \A n \in DOMAIN f : f[n].state \in SignedStates =>
          g[n].state \in SignedStates

LEMMA SoundServes ==
    ASSUME NEW l, NEW c, NEW f, NEW g, Sound(l, c, f), Serves(f, g)
    PROVE  Sound(l, c, g)
  BY DEF Sound, ShownIn, Serves

LEMMA SameTwice ==
    ASSUME NEW l, NEW m, NEW k, SameIntents(l, m), SameIntents(l, k)
    PROVE  SameIntents(m, k)
  BY DEF SameIntents

LEMMA LedgersGrow ==
    ASSUME LedgersInv, MinedFor(ledger), Grown, SettlesMined,
           Serves(fiber, fiber'), UNCHANGED <<mined, config>>
    PROVE  LedgersInv'
  <1>1. ledger \in Ledgers
    BY DEF LedgersInv, Sound
  <1>2. Sound(ledger', config, fiber)
    BY SoundAdvances DEF LedgersInv, Grown
  <1>3. Sound(disk', config, fiber) /\ SameIntents(ledger', disk')
    <2>1. CASE disk' = ledger'
      BY <1>2, <2>1 DEF SameIntents
    <2>2. CASE disk' = disk /\ SameIntents(ledger, ledger')
      BY <2>2, SameTwice DEF LedgersInv
    <2> QED
      BY <2>1, <2>2 DEF Grown
  <1>4. Sound(ledger', config, fiber') /\ Sound(disk', config, fiber')
    BY <1>2, <1>3, SoundServes
  <1>5. SettledIsMined'
    BY <1>1, SettledKept DEF LedgersInv
  <1>6. config' = config
    OBVIOUS
  <1> QED
    BY <1>3, <1>4, <1>5, <1>6 DEF LedgersInv

LEMMA HeldGrows ==
    ASSUME ledger \in Ledgers, Grown, NEW x, HeldIn(x, ledger, config)
    PROVE  HeldIn(x, ledger', config)
  <1>1. /\ DOMAIN ledger.withdrawals = Withdrawals
        /\ DOMAIN ledger.claims = Claims /\ DOMAIN ledger.intents = Requests
    BY LedgerHas DEF WithdrawalIntents, ClaimIntents, Intents
  <1>2. /\ Lasting(ledger.withdrawals, ledger'.withdrawals)
        /\ Lasting(ledger.claims, ledger'.claims)
        /\ Lasting(ledger.intents, ledger'.intents)
    BY DEF Grown, Advances
  <1> QED
    BY <1>1, <1>2 DEF HeldIn, Lasting

LEMMA KnowsGrows ==
    ASSUME Grown, NEW r, Knows(ledger, r) PROVE Knows(ledger', r)
  BY DEF Grown, Advances, KeptRequests, Knows

LEMMA CallsGrow ==
    ASSUME LedgersInv, CallsInv, Grown, UNCHANGED config,
           \A x \in contexts' : x \in contexts \/ HeldIn(x, ledger', config),
           \A x \in handoffs' :
              /\ x.channel \in Nat \cup {None}
              /\ \/ Knows(ledger', x.id)
                 \/ \E y \in handoffs : y.id = x.id
    PROVE  CallsInv'
  <1>1. ledger \in Ledgers
    BY DEF LedgersInv, Sound
  <1>2. \A x \in contexts' : HeldIn(x, ledger', config)
    BY <1>1, HeldGrows DEF CallsInv
  <1>3. \A x \in handoffs' : Knows(ledger', x.id)
    BY KnowsGrows DEF CallsInv
  <1>4. config' = config
    OBVIOUS
  <1> QED
    BY <1>2, <1>3, <1>4 DEF CallsInv

LEMMA BuildersGrow ==
    ASSUME BuilderInv, Grown, UNCHANGED <<building, fiber, config>>
    PROVE  BuilderInv'
  <1>1. \A b \in building : Knows(ledger', b.id)
    BY KnowsGrows DEF BuilderInv
  <1> QED
    BY <1>1 DEF BuilderInv

LEMMA CellsSame ==
    ASSUME MinedInv, ledger \in Ledgers, Grown, UNCHANGED chainVars
    PROVE  MinedInv'
  <1>1. IInv' /\ CellsInv'
    BY NextInv, CellsNext DEF MinedInv
  <1>2. ReceiptsMade'
    BY DEF MinedInv, ReceiptsMade, chainVars
  <1>3. MinedFor(ledger)'
    BY MinedKept DEF MinedInv, chainVars
  <1> QED
    BY <1>1, <1>2, <1>3 DEF MinedInv

----------------------------------------------------------------------------
(***************************************************************************)
(* Every step keeps it.                                                    *)
(***************************************************************************)
\* Nothing is known of a handoff but that its request was entered.
Handing ==
    \A x \in handoffs' :
        /\ x.channel \in Nat \cup {None}
        /\ \/ Knows(ledger', x.id)
           \/ \E y \in handoffs : y.id = x.id
Calling == \A x \in contexts' : x \in contexts \/ HeldIn(x, ledger', config)

IntentsLast ==
    /\ Lasting(ledger.supplies, ledger'.supplies)
    /\ Lasting(ledger.withdrawals, ledger'.withdrawals)
    /\ Lasting(ledger.claims, ledger'.claims)
    /\ Lasting(ledger.intents, ledger'.intents)
Served == ServiceInv' /\ IntentsLast

LEMMA StepGrown ==
    ASSUME ServiceInv, Grown, SettlesMined, UNCHANGED <<chainVars, config>>,
           Handing, Calling, Serves(fiber, fiber'), BuilderInv'
    PROVE  Served
  <1>1. ledger \in Ledgers /\ mined' = mined
    BY DEF ServiceInv, LedgersInv, Sound, chainVars
  <1>2. LedgersInv'
    BY <1>1, LedgersGrow DEF ServiceInv, MinedInv
  <1>3. CallsInv'
    BY CallsGrow DEF ServiceInv, Handing, Calling
  <1>4. MinedInv'
    BY <1>1, CellsSame DEF ServiceInv
  <1>5. IntentsLast
    BY DEF Grown, Advances, IntentsLast
  <1> QED
    BY <1>2, <1>3, <1>4, <1>5 DEF ServiceInv, Served

LEMMA ServesSame == ASSUME NEW f PROVE Serves(f, f)
  BY DEF Serves

LEMMA StepPlain ==
    ASSUME ServiceInv, Grown, SettlesMined, Handing, Calling,
           UNCHANGED <<chainVars, config, building, fiber>>
    PROVE  Served
  <1>1. Serves(fiber, fiber')
    BY ServesSame
  <1>2. BuilderInv'
    BY BuildersGrow DEF ServiceInv
  <1> QED
    BY <1>1, <1>2, StepGrown

LEMMA StepKept ==
    ASSUME ServiceInv, Kept, Handing,
           UNCHANGED <<chainVars, config, contexts, building, fiber>>
    PROVE  Served
  <1>1. Grown
    BY KeptGrown DEF ServiceInv, LedgersInv, Sound
  <1>2. SettlesMined
    BY SameSettles DEF Kept, Follows
  <1>3. Calling
    BY DEF Calling
  <1> QED
    BY <1>1, <1>2, <1>3, StepPlain

LEMMA HandingSame == ASSUME CallsInv, UNCHANGED handoffs PROVE Handing
  BY DEF CallsInv, Handing

\* A handoff is done or moves on.
LEMMA HandingOn ==
    ASSUME CallsInv, NEW x \in handoffs,
           \/ Done(x)
           \/ \E stage, channel : /\ channel \in Nat \cup {None}
                                  /\ Becomes(x, stage, channel)
    PROVE  Handing
  <1>1. CASE Done(x)
    BY <1>1 DEF CallsInv, Handing, Done
  <1>2. CASE \E stage, channel : /\ channel \in Nat \cup {None}
                                 /\ Becomes(x, stage, channel)
    <2>1. PICK stage, channel : /\ channel \in Nat \cup {None}
                                /\ Becomes(x, stage, channel)
      BY <1>2
    <2> DEFINE z == [x EXCEPT !.stage = stage, !.channel = channel]
    <2>2. handoffs' = (handoffs \ {x}) \cup {z}
      BY <2>1 DEF Becomes
    <2>3. z.id = x.id /\ z.channel \in {channel, x.channel}
      OBVIOUS
    <2> HIDE DEF z
    <2>4. z.channel \in Nat \cup {None}
      BY <2>1, <2>3 DEF CallsInv
    <2> QED
      BY <2>2, <2>3, <2>4 DEF CallsInv, Handing
  <1> QED
    BY <1>1, <1>2

LEMMA HandingMore ==
    ASSUME CallsInv, NEW r, Knows(ledger', r), NEW executor, NEW stage,
           handoffs' = handoffs \cup {Handoff(r, executor, stage, None)}
    PROVE  Handing
  BY DEF CallsInv, Handing, Handoff

LEMMA KnowsSame ==
    ASSUME Kept, NEW r, Knows(ledger, r) PROVE Knows(ledger', r)
  BY StillKnows DEF Kept

LEMMA PointsAreHashes ==
    ASSUME ledger \in Ledgers PROVE FundPoints \subseteq Hashes
  <1>1. ledger.requests \in Seq(RequestEntries)
    BY LedgerHas
  <1>2. \A i \in DOMAIN ledger.requests : ledger.requests[i] \in RequestEntries
    BY <1>1, DomainSeq
  <1>3. \A i \in DOMAIN ledger.requests : ledger.requests[i].id \in Requests
    BY <1>2 DEF RequestEntries
  <1> QED
    BY <1>3 DEF FundPoints, Hashes

LEMMA HandoffStep ==
    ASSUME ServiceInv, HandoffNext, UNCHANGED <<chainVars, config>>
    PROVE  Served
  <1>1. ledger \in Ledgers /\ CallsInv /\ BuilderInv
    BY DEF ServiceInv, LedgersInv, Sound
  <1>2. ASSUME NEW r \in Requests, DeployLiquidity(r) PROVE Served
    <2>1. Kept
      BY <1>1, <1>2, SameKept DEF DeployLiquidity
    <2>2. Knows(ledger', r)
      BY <1>2, <2>1, KnownKnows, KnowsSame DEF DeployLiquidity
    <2>3. Handing
      BY <1>1, <1>2, <2>2, HandingMore DEF DeployLiquidity, StartHandoff
    <2> QED
      BY <1>2, <2>1, <2>3, StepKept DEF DeployLiquidity
  <1>3. ASSUME NEW r \in Requests, AttachFiberPeer(r) PROVE Served
    <2>1. Kept
      BY <1>1, <1>3, AttachKept
    <2>2. Knows(ledger', r)
      BY <1>3, <2>1, KnownKnows, KnowsSame DEF AttachFiberPeer
    <2>3. Handing
      BY <1>1, <1>3, <2>2, HandingMore DEF AttachFiberPeer, StartHandoff
    <2> QED
      BY <1>3, <2>1, <2>3, StepKept DEF AttachFiberPeer
  <1>4. ASSUME NEW r \in Requests, RetryExternalFunding(r) PROVE Served
    <2>1. Kept
      BY <1>1, <1>4, SameKept DEF RetryExternalFunding
    <2>2. Knows(ledger', r)
      BY <1>4, <2>1, KnownKnows, KnowsSame DEF RetryExternalFunding
    <2>3. Handing
      BY <1>1, <1>4, <2>2, HandingMore DEF RetryExternalFunding
    <2> QED
      BY <1>4, <2>1, <2>3, StepKept DEF RetryExternalFunding
  <1>5. ASSUME NEW r \in Requests, RetryJob(r) PROVE Served
    <2>1. Kept
      BY <1>1, <1>5, RetryKept
    <2>2. Knows(ledger', r)
      BY <1>5, <2>1, KnownKnows, KnowsSame DEF RetryJob
    <2>3. Handing
      BY <1>1, <1>5, <2>2, HandingMore DEF RetryJob, StartHandoff
    <2> QED
      BY <1>5, <2>1, <2>3, StepKept DEF RetryJob
  <1>6. ASSUME NEW r \in Requests, SubmitExternalFunding(r) PROVE Served
    <2>1. Kept
      BY <1>1, <1>6, SameKept DEF SubmitExternalFunding
    <2>2. Knows(ledger', r)
      BY <1>6, <2>1, KnownKnows, KnowsSame DEF SubmitExternalFunding
    <2>3. Handing
      BY <1>1, <1>6, <2>2, HandingMore DEF SubmitExternalFunding
    <2> QED
      BY <1>6, <2>1, <2>3, StepKept DEF SubmitExternalFunding
  <1>7. ASSUME NEW x \in handoffs, HandoffRead(x) PROVE Served
    <2>1. Kept
      BY <1>1, <1>7, ReadKept DEF CallsInv
    <2>2. \/ Done(x)
          \/ \E stage, channel : /\ channel \in Nat \cup {None}
                                 /\ Becomes(x, stage, channel)
      BY <1>7 DEF HandoffRead
    <2>3. Handing
      BY <1>1, <2>2, HandingOn
    <2> QED
      BY <1>7, <2>1, <2>3, StepKept DEF HandoffRead
  <1>8. ASSUME NEW x \in handoffs, HandoffPrepare(x) PROVE Served
    <2>1. Kept
      BY <1>1, <1>8, PrepareKept DEF CallsInv
    <2>2. \/ Done(x)
          \/ \E stage, channel : /\ channel \in Nat \cup {None}
                                 /\ Becomes(x, stage, channel)
      BY <1>8 DEF HandoffPrepare
    <2>3. Handing
      BY <1>1, <2>2, HandingOn
    <2> QED
      BY <1>8, <2>1, <2>3, StepKept DEF HandoffPrepare
  <1>9. ASSUME NEW x \in handoffs, NEW ref, HandoffAnswer(x, ref)
        PROVE  Served
    <2>1. Kept
      BY <1>1, <1>9, AnsweredKept DEF CallsInv
    <2>2. Handing
      BY <1>1, <1>9, HandingOn DEF HandoffAnswer
    <2> QED
      BY <1>9, <2>1, <2>2, StepKept DEF HandoffAnswer
  <1>10. ASSUME NEW x \in handoffs, NEW error, HandoffError(x, error)
         PROVE  Served
    <2>1. Kept
      BY <1>1, <1>10, ErrorKept DEF CallsInv
    <2>2. Handing
      BY <1>1, <1>10, HandingOn DEF HandoffError
    <2> QED
      BY <1>10, <2>1, <2>2, StepKept DEF HandoffError
  <1>11. ASSUME NEW x \in handoffs, NEW h \in Hashes,
                NEW point \in FundPoints \cup {None},
                MarkFundingSubmitted(x, h, point)
         PROVE  Served
    <2>1. Kept
      BY <1>1, <1>11, PointsAreHashes, SubmittedKept DEF CallsInv
    <2>2. Handing
      BY <1>1, <1>11, HandingOn DEF MarkFundingSubmitted
    <2> QED
      BY <1>11, <2>1, <2>2, StepKept DEF MarkFundingSubmitted
  <1>12. ASSUME NEW x \in handoffs, FiberOpen(x) PROVE Served
    <2> DEFINE c == [amount |-> Entry(ledger, x.id).amount, tx |-> None,
                     state |-> "negotiating"]
    <2>1. Kept
      BY <1>1, <1>12, SameKept DEF FiberOpen
    <2>2. Grown /\ SettlesMined
      BY <2>1, KeptGrown, SameSettles
         DEF ServiceInv, LedgersInv, Sound, Kept, Follows
    <2>3. Calling
      BY <1>12 DEF Calling, FiberOpen
    <2>4. fiber' = Append(fiber, c) /\ Becomes(x, "open", Len(fiber) + 1)
      BY <1>12 DEF FiberOpen
    <2>5. Len(fiber) + 1 \in Nat /\ fiber \in Seq(FiberEntries)
      BY <1>1 DEF BuilderInv
    <2>6. Handing
      <3> DEFINE n == Len(fiber) + 1
      <3>1. n \in Nat \cup {None} /\ Becomes(x, "open", n)
        BY <2>4, <2>5
      <3> HIDE DEF n
      <3> QED
        BY <1>1, <3>1, HandingOn
    <2>7. c \in FiberEntries
      <3>1. Entry(ledger, x.id) \in RequestEntries
        BY <1>1, EntryIs DEF CallsInv
      <3>2. Entry(ledger, x.id).amount \in Nat
        BY <3>1 DEF RequestEntries
      <3> QED
        BY <3>2 DEF FiberEntries
    <2> HIDE DEF c
    <2>8. /\ fiber' \in Seq(FiberEntries)
          /\ DOMAIN fiber' = DOMAIN fiber \cup {Len(fiber) + 1}
          /\ \A n \in DOMAIN fiber : fiber'[n] = fiber[n]
      BY <2>4, <2>5, <2>7, AppendSeq
    <2>9. Serves(fiber, fiber')
      BY <2>8 DEF Serves
    <2>10. BuilderInv'
      <3>1. fiber'[Len(fiber) + 1].state = "negotiating"
        BY <2>4, <2>5 DEF c
      <3> QED
        BY <1>1, <1>12, <2>8, <3>1 DEF BuilderInv, FiberOpen, SignedStates
    <2> QED
      BY <2>2, <2>3, <2>6, <2>9, <2>10, StepGrown
  <1> QED
    BY <1>2, <1>3, <1>4, <1>5, <1>6, <1>7, <1>8, <1>9, <1>10, <1>11, <1>12
       DEF HandoffNext, RetryFailedJob

LEMMA BuilderStep ==
    ASSUME ServiceInv, BuilderNext, UNCHANGED <<chainVars, config>>
    PROVE  Served
  <1>1. ledger \in Ledgers /\ CallsInv /\ BuilderInv /\ Placed(ledger)
    BY DEF ServiceInv, LedgersInv, Sound
  <1>2. ASSUME Kept, UNCHANGED <<contexts, handoffs>>, Serves(fiber, fiber'),
               BuilderInv'
        PROVE  Served
    <2>1. Grown /\ SettlesMined
      BY <1>1, <1>2, KeptGrown, SameSettles DEF Kept, Follows
    <2>2. Calling /\ Handing
      BY <1>1, <1>2, HandingSame DEF Calling
    <2> QED
      BY <1>2, <2>1, <2>2, StepGrown
  <1>3. ASSUME NEW n \in DOMAIN fiber, NEW i \in DOMAIN ledger.requests,
               BuilderMatch(n, i)
        PROVE  Served
    <2> DEFINE d == [id |-> ledger.requests[i].id, channel |-> n]
    <2>1. Kept
      BY <1>1, <1>3, SameKept DEF BuilderMatch
    <2>2. Serves(fiber, fiber')
      BY <1>3, ServesSame DEF BuilderMatch
    <2>3. /\ building' = building \cup {d} /\ UNCHANGED <<ledger, fiber>>
          /\ config.vaultMode
          /\ fiber[n].state = "negotiating" /\ fiber[n].tx = None
          /\ \A b \in building : b.channel # n
      BY <1>3 DEF BuilderMatch
    <2>4. d.channel = n /\ Knows(ledger, d.id)
      BY DEF Knows
    <2> HIDE DEF d
    <2>5. BuilderInv'
      BY <1>1, <2>3, <2>4 DEF BuilderInv, SignedStates
    <2> QED
      BY <1>2, <1>3, <2>1, <2>2, <2>5 DEF BuilderMatch
  <1>4. ASSUME NEW b \in building, BuilderMark(b) PROVE Served
    <2> DEFINE h == <<"fund", b.id>>
               x == [fiber[b.channel] EXCEPT !.tx = h]
    <2>1. Knows(ledger, b.id) /\ b.channel \in DOMAIN fiber
      BY <1>1 DEF BuilderInv
    <2>2. Kept
      BY <1>1, <1>4, <2>1, BuiltKept
    <2>3. fiber' = [fiber EXCEPT ![b.channel].tx = h] /\ building' = building \ {b}
      BY <1>4 DEF BuilderMark
    <2>4. fiber \in Seq(FiberEntries) /\ fiber[b.channel] \in FiberEntries
      BY <1>1, <2>1, DomainSeq DEF BuilderInv
    <2>5. h \in Hashes
      <3>1. b.id \in Requests
        BY <1>1, <2>1, EntryIs
      <3> QED
        BY <3>1 DEF Hashes
    <2>6. /\ x \in FiberEntries /\ x.state = fiber[b.channel].state
          /\ x.state \notin SignedStates
      BY <1>1, <2>4, <2>5 DEF FiberEntries, BuilderInv
    <2>7. fiber' = [fiber EXCEPT ![b.channel] = x]
      BY <2>3
    <2> HIDE DEF x
    <2>8. /\ fiber' \in Seq(FiberEntries) /\ DOMAIN fiber' = DOMAIN fiber
          /\ \A n \in DOMAIN fiber :
                fiber'[n] = IF n = b.channel THEN x ELSE fiber[n]
      BY <2>4, <2>6, <2>7, UpdateSeq
    <2>9. Serves(fiber, fiber')
      BY <2>6, <2>8 DEF Serves
    <2>10. \A d \in building' : d \in building /\ d.channel # b.channel
      BY <1>1, <2>3 DEF BuilderInv
    <2>11. \A d \in building : Knows(ledger', d.id)
      BY <1>1, <2>2, KnowsSame DEF BuilderInv
    <2>12. BuilderInv'
      BY <1>1, <2>6, <2>8, <2>10, <2>11 DEF BuilderInv
    <2> QED
      BY <1>2, <1>4, <2>2, <2>9, <2>12 DEF BuilderMark
  <1>5. ASSUME NEW b \in building, BuilderFail(b) PROVE Served
    <2> DEFINE x == [fiber[b.channel] EXCEPT !.state = "failed"]
    <2>1. /\ b.channel \in DOMAIN fiber
          /\ fiber[b.channel].state \notin SignedStates
      BY <1>1 DEF BuilderInv
    <2>2. Kept
      BY <1>1, <1>5, SameKept DEF BuilderFail
    <2>3. /\ fiber' = [fiber EXCEPT ![b.channel].state = "failed"]
          /\ building' = building \ {b} /\ UNCHANGED ledger
      BY <1>5 DEF BuilderFail
    <2>4. fiber \in Seq(FiberEntries) /\ fiber[b.channel] \in FiberEntries
      BY <1>1, <2>1, DomainSeq DEF BuilderInv
    <2>5. x \in FiberEntries /\ x.state \notin SignedStates
      BY <2>4 DEF FiberEntries, SignedStates
    <2>6. fiber' = [fiber EXCEPT ![b.channel] = x]
      BY <2>3
    <2> HIDE DEF x
    <2>7. /\ fiber' \in Seq(FiberEntries) /\ DOMAIN fiber' = DOMAIN fiber
          /\ \A n \in DOMAIN fiber :
                fiber'[n] = IF n = b.channel THEN x ELSE fiber[n]
      BY <2>4, <2>5, <2>6, UpdateSeq
    <2>8. Serves(fiber, fiber')
      BY <2>1, <2>7 DEF Serves
    <2>9. \A d \in building' : d \in building /\ d.channel # b.channel
      BY <1>1, <2>3 DEF BuilderInv
    <2>10. BuilderInv'
      BY <1>1, <2>3, <2>5, <2>7, <2>9 DEF BuilderInv
    <2> QED
      BY <1>2, <1>5, <2>2, <2>8, <2>10 DEF BuilderFail
  <1> QED
    BY <1>3, <1>4, <1>5 DEF BuilderNext

LEMMA FiberStep ==
    ASSUME ServiceInv, FiberNext, UNCHANGED <<chainVars, config>>
    PROVE  Served
  <1>1. ledger \in Ledgers /\ CallsInv /\ BuilderInv /\ Placed(ledger)
    BY DEF ServiceInv, LedgersInv, Sound
  <1>2. UNCHANGED <<ledger, disk, contexts, handoffs, building>>
    BY DEF FiberNext
  <1>3. Kept
    BY <1>1, <1>2, SameKept
  <1>4. Grown /\ SettlesMined
    BY <1>1, <1>3, KeptGrown, SameSettles DEF Kept, Follows
  <1>5. Calling /\ Handing
    BY <1>1, <1>2, HandingSame DEF Calling
  <1>6. PICK n \in DOMAIN fiber, state \in {"usable", "failed", "lost", "closed"} :
           /\ fiber' = [fiber EXCEPT ![n].state = state]
           /\ \/ state \in {"closed", "lost"} /\ fiber[n].state = "usable"
              \/ state = "failed" /\ fiber[n].state = "negotiating"
              \/ /\ state = "usable"
                 /\ config.vaultMode => fiber[n].tx # None
    BY DEF FiberNext, FiberSign, FiberAbort, FiberClose
  <1> DEFINE x == [fiber[n] EXCEPT !.state = state]
  <1>7. fiber \in Seq(FiberEntries) /\ fiber[n] \in FiberEntries
    BY <1>1, DomainSeq DEF BuilderInv
  <1>8. x \in FiberEntries /\ x.tx = fiber[n].tx /\ x.state = state
    BY <1>7 DEF FiberEntries
  <1>9. fiber' = [fiber EXCEPT ![n] = x]
    BY <1>6
  <1> HIDE DEF x
  <1>10. /\ fiber' \in Seq(FiberEntries) /\ DOMAIN fiber' = DOMAIN fiber
         /\ \A m \in DOMAIN fiber : fiber'[m] = IF m = n THEN x ELSE fiber[m]
    BY <1>7, <1>8, <1>9, UpdateSeq
  <1>11. Serves(fiber, fiber')
    BY <1>6, <1>8, <1>10 DEF Serves, SignedStates
  <1>12. BuilderInv'
    <2>1. ASSUME NEW b \in building
          PROVE  /\ fiber'[b.channel].tx = None
                 /\ fiber'[b.channel].state \notin SignedStates
      <3>1. /\ config.vaultMode /\ b.channel \in DOMAIN fiber
            /\ fiber[b.channel].tx = None
            /\ fiber[b.channel].state \notin SignedStates
        BY <1>1 DEF BuilderInv
      <3> QED
        BY <1>6, <1>8, <1>10, <3>1 DEF SignedStates
    <2>2. ASSUME config.vaultMode, NEW m \in DOMAIN fiber,
                 fiber'[m].state \in SignedStates
          PROVE  fiber'[m].tx # None
      BY <1>1, <1>6, <1>8, <1>10, <2>2 DEF BuilderInv, SignedStates
    <2> QED
      BY <1>1, <1>2, <1>10, <2>1, <2>2 DEF BuilderInv
  <1> QED
    BY <1>4, <1>5, <1>11, <1>12, StepGrown

LEMMA BoundIs ==
    ASSUME config \in Configs
    PROVE  /\ bound.supplied \subseteq Amounts /\ bound.moved \subseteq Amounts
           /\ bound.providers \subseteq Positions
           /\ bound.merchants \subseteq Requests
  BY LedgerAssumption DEF bound

LEMMA EnterStep ==
    ASSUME ServiceInv, EnterRequest, UNCHANGED <<chainVars, config>>
    PROVE  Served
  <1>1. /\ ledger \in Ledgers /\ CallsInv /\ Placed(ledger) /\ config \in Configs
        /\ MinedFor(ledger)
    BY DEF ServiceInv, LedgersInv, Sound, MinedInv
  <1>2. MerchantNext /\ UNCHANGED <<building, fiber>>
    BY DEF EnterRequest
  <1>3. Handing
    <2>1. ASSUME NEW x \in handoffs', x \notin handoffs
          PROVE  x.channel = None /\ Knows(ledger', x.id)
      <3>1. PICK i \in DOMAIN ledger'.requests :
               x = Handoff(ledger'.requests[i].id, TRUE, "read", None)
        BY <2>1 DEF EnterRequest
      <3> QED
        BY <3>1 DEF Handoff, Knows
    <2> QED
      BY <1>1, <2>1 DEF CallsInv, Handing
  <1>4. ASSUME NEW r \in bound.merchants, NEW a \in bound.moved, NEW f \in Fees,
               CreateRequestIntent(r, a, f)
        PROVE  Served
    <2>1. r \in Requests /\ a \in Amounts
      BY <1>1, BoundIs
    <2>2. Grown /\ SettlesMined
      BY <1>1, <1>4, <2>1, IntentGrown, IntentSettles
    <2>3. Calling
      BY <1>4 DEF CreateRequestIntent, Calling
    <2> QED
      BY <1>2, <1>3, <2>2, <2>3, StepPlain
  <1>5. ASSUME NEW r \in bound.merchants, NEW a \in bound.moved, NEW f \in Fees,
               NEW peer \in BOOLEAN, CreateLiquidityRequest(r, a, f, peer)
        PROVE  Served
    <2>1. r \in Requests /\ a \in Amounts
      BY <1>1, BoundIs
    <2>2. Kept
      BY <1>1, <1>5, <2>1, EnteredKept
    <2>3. UNCHANGED contexts
      BY <1>5 DEF CreateLiquidityRequest
    <2> QED
      BY <1>2, <1>3, <2>2, <2>3, StepKept
  <1>6. ASSUME NEW r \in Requests, ReadRequestIntent(r) PROVE Served
    <2>1. Kept
      BY <1>1, <1>6, SameKept DEF ReadRequestIntent
    <2>2. Grown /\ SettlesMined
      BY <1>1, <2>1, KeptGrown, SameSettles DEF Kept, Follows
    <2>3. Calling
      BY <1>6 DEF ReadRequestIntent, Hold, Calling, HeldIn
    <2> QED
      BY <1>2, <1>3, <2>2, <2>3, StepPlain
  <1>7. ASSUME NEW held \in contexts, NEW peer \in BOOLEAN, NEW cell,
               SettleRequestIntent(held, peer, cell)
        PROVE  Served
    <2>1. Held(held, ledger)
      BY <1>1, HeldIs DEF CallsInv
    <2>2. Grown /\ SettlesMined
      BY <1>1, <1>7, <2>1, SettledRequestGrown, SettledRequestSettles
    <2>3. Calling
      BY <1>7 DEF SettleRequestIntent, Calling
    <2> QED
      BY <1>2, <1>3, <2>2, <2>3, StepPlain
  <1> QED
    BY <1>2, <1>4, <1>5, <1>6, <1>7 DEF MerchantNext

LEMMA ProviderStep ==
    ASSUME ServiceInv, ProviderNext,
           UNCHANGED <<chainVars, config, executorVars>>
    PROVE  Served
  <1>1. /\ ledger \in Ledgers /\ CallsInv /\ Placed(ledger) /\ config \in Configs
        /\ MinedFor(ledger)
    BY DEF ServiceInv, LedgersInv, Sound, MinedInv
  <1>2. /\ UNCHANGED <<building, fiber, chainVars, config>> /\ Handing
    BY <1>1, HandingSame DEF executorVars
  <1>3. ASSUME Grown, SettlesMined, UNCHANGED contexts PROVE Served
    <2>1. Calling
      BY <1>3 DEF Calling
    <2> QED
      BY <1>2, <1>3, <2>1, StepPlain
  <1>4. ASSUME UNCHANGED <<ledger, disk>>, Calling PROVE Served
    <2>1. Kept
      BY <1>1, <1>4, SameKept
    <2>2. Grown /\ SettlesMined
      BY <1>1, <2>1, KeptGrown, SameSettles DEF Kept, Follows
    <2> QED
      BY <1>2, <1>4, <2>2, StepPlain
  <1>5. ASSUME NEW p \in bound.providers, NEW a \in bound.supplied,
               CreateSupplyIntent(p, a)
        PROVE  Served
    <2>1. p \in Positions /\ a \in Amounts
      BY <1>1, BoundIs
    <2>2. Grown /\ SettlesMined
      BY <1>1, <1>5, <2>1, SupplyGrown, SupplySettles
    <2> QED
      BY <1>3, <1>5, <2>2 DEF CreateSupplyIntent
  <1>6. ASSUME NEW p \in Positions, CreateDeposit(p) PROVE Served
    <2>1. Grown /\ SettlesMined
      BY <1>1, <1>6, DepositGrown, DepositSettles
    <2> QED
      BY <1>3, <1>6, <2>1 DEF CreateDeposit
  <1>7. ASSUME NEW w \in Withdrawals, NEW i \in DOMAIN ledger.positions,
               NEW a \in bound.moved, CreateWithdrawalIntent(w, i, a)
        PROVE  Served
    <2>1. a \in Amounts
      BY <1>1, BoundIs
    <2>2. Grown /\ SettlesMined
      BY <1>1, <1>7, <2>1, WithdrawalGrown, WithdrawalSettles
    <2> QED
      BY <1>3, <1>7, <2>2 DEF CreateWithdrawalIntent
  <1>8. ASSUME NEW c \in Claims, NEW i \in DOMAIN ledger.positions,
               NEW a \in Fees, CreateFeeClaim(c, i, a)
        PROVE  Served
    <2>1. Grown /\ SettlesMined
      BY <1>1, <1>8, ClaimGrown, ClaimSettles
    <2> QED
      BY <1>3, <1>8, <2>1 DEF CreateFeeClaim
  <1>9. ASSUME NEW w \in Withdrawals, ReadWithdrawal(w) PROVE Served
    <2> DEFINE i == ledger.withdrawals[w].position
               p == ledger.positions[i]
               x == Context("withdrawal", w, ledger.withdrawals[w])
    <2>1. /\ ledger.withdrawals[w] # None /\ UNCHANGED <<ledger, disk>>
          /\ contexts' = contexts \cup {x}
      BY <1>9 DEF ReadWithdrawal, Hold
    <2>2. i \in DOMAIN ledger.positions /\ p.receipt = WithdrawnFrom[w]
      BY <1>1, <2>1 DEF Placed
    <2>3. OwnedIn(p, config)
      BY <2>2 DEF ServiceInv, LedgersInv, Sound
    <2>4. x.kind = "withdrawal" /\ x.id = w /\ x.point = p.point
      BY DEF Context
    <2> HIDE DEF x, p, i
    <2>5. HeldIn(x, ledger', config)
      BY <2>1, <2>2, <2>3, <2>4 DEF HeldIn, OwnedIn
    <2>6. Calling
      BY <2>1, <2>5 DEF Calling
    <2> QED
      BY <1>4, <2>1, <2>6
  <1>10. ASSUME NEW c \in Claims, ReadFeeClaim(c) PROVE Served
    <2>1. Calling
      BY <1>10 DEF ReadFeeClaim, Hold, Context, Calling, HeldIn
    <2> QED
      BY <1>4, <1>10, <2>1 DEF ReadFeeClaim
  <1>11. ASSUME NEW held \in contexts, NEW w \in Withdrawals,
                NEW point \in Hashes \cup {None},
                SettleWithdrawal(held, <<"withdraw", w>>, point)
         PROVE  Served
    <2>1. Held(held, ledger)
      BY <1>1, HeldIs DEF CallsInv
    <2>2. Grown /\ SettlesMined
      BY <1>1, <1>11, <2>1, SettledWithdrawalGrown, SettledWithdrawalSettles
    <2> QED
      BY <1>3, <1>11, <2>2 DEF SettleWithdrawal
  <1>12. ASSUME NEW held \in contexts, NEW c \in Claims,
                NEW point \in Hashes \cup {None},
                SettleFeeClaim(held, <<"claim", c>>, point)
         PROVE  Served
    <2>1. Held(held, ledger)
      BY <1>1, HeldIs DEF CallsInv
    <2>2. Grown /\ SettlesMined
      BY <1>1, <1>12, <2>1, SettledClaimGrown, SettledClaimSettles
    <2> QED
      BY <1>3, <1>12, <2>2 DEF SettleFeeClaim
  <1> QED
    BY <1>5, <1>6, <1>7, <1>8, <1>9, <1>10, <1>11, <1>12 DEF ProviderNext

LEMMA RepairStep ==
    ASSUME ServiceInv,
           RepairNext
              \/ ((SyncVault \/ \E p \in Positions : SyncReceipts(LpLock[p]))
                    /\ UNCHANGED executorVars),
           UNCHANGED <<chainVars, config>>
    PROVE  Served
  <1>1. /\ ledger \in Ledgers /\ CallsInv /\ fiber \in Seq(FiberEntries)
        /\ Shaped /\ CellsInv /\ ReceiptsMade
    BY DEF ServiceInv, LedgersInv, BuilderInv, MinedInv, CellsInv, Sound
  <1>2. ASSUME Kept, UNCHANGED <<contexts, handoffs, building, fiber>>
        PROVE  Served
    BY <1>1, <1>2, HandingSame, StepKept
  <1>3. ASSUME NEW r \in Requests, ReleaseLiquidity(r) PROVE Served
    <2>1. Kept
      BY <1>1, <1>3, ReleaseKept
    <2> QED
      BY <1>2, <1>3, <2>1 DEF ReleaseLiquidity
  <1>4. ASSUME NEW r \in Requests, NEW named \in DOMAIN fiber \cup {None},
               SettleLiquidity(r, named)
        PROVE  Served
    <2>1. Kept
      BY <1>1, <1>4, SettleKept
    <2> QED
      BY <1>2, <1>4, <2>1 DEF SettleLiquidity
  <1>5. ASSUME NEW late, SyncFiberChannels(late) PROVE Served
    <2>1. Kept
      BY <1>1, <1>5, WatchKept
    <2> QED
      BY <1>2, <1>5, <2>1 DEF SyncFiberChannels
  <1>6. ASSUME NEW late, ReleaseExpired(late) PROVE Served
    <2>1. Kept
      BY <1>1, <1>6, ExpiredKept
    <2> QED
      BY <1>2, <1>6, <2>1 DEF ReleaseExpired
  <1>7. CASE SyncRequests
    <2>1. Kept
      BY <1>1, <1>7, FoundKept
    <2> QED
      BY <1>2, <1>7, <2>1 DEF SyncRequests
  <1>8. CASE SyncVault /\ UNCHANGED executorVars
    <2>1. Kept
      BY <1>1, <1>8, VaultKept
    <2> QED
      BY <1>2, <1>8, <2>1 DEF SyncVault, executorVars
  <1>9. ASSUME NEW p \in Positions, SyncReceipts(LpLock[p]),
               UNCHANGED executorVars
        PROVE  Served
    <2>1. Kept
      BY <1>1, <1>9, ReceiptsKept
    <2> QED
      BY <1>2, <1>9, <2>1 DEF SyncReceipts, executorVars
  <1> QED
    BY <1>3, <1>4, <1>5, <1>6, <1>7, <1>8, <1>9 DEF RepairNext

LEMMA ChainStep ==
    ASSUME ServiceInv, WalletNext \/ \E n \in DOMAIN fiber : FiberFund(n),
           UNCHANGED <<ledgerVars, executorVars>>
    PROVE  Served
  <1>1. /\ ledger \in Ledgers /\ Shaped /\ ReceiptsMade /\ MinedFor(ledger)
        /\ IInv /\ CellsInv
    BY DEF ServiceInv, LedgersInv, MinedInv, CellsInv, Sound
  <1>2. /\ UNCHANGED <<config, ledger, disk, contexts>>
        /\ UNCHANGED <<handoffs, building, fiber>>
    BY DEF ledgerVars, executorVars
  <1>3. ChainKept
    <2>1. CASE WalletNext
      BY <1>1, <1>2, <2>1, WalletKept
    <2>2. ASSUME NEW n \in DOMAIN fiber, FiberFund(n) PROVE ChainKept
      BY <1>1, <1>2, <2>2, FundKept DEF FiberFund
    <2> QED
      BY <2>1, <2>2
  <1>4. MinedInv'
    BY <1>1, <1>3, NextInv, CellsNext DEF MinedInv, ChainKept
  <1>5. SettledIsMined'
    BY <1>2, <1>3, SettledGrows DEF ServiceInv, LedgersInv, ChainKept
  <1>6. LedgersInv'
    BY <1>2, <1>5 DEF ServiceInv, LedgersInv
  <1>7. CallsInv' /\ BuilderInv'
    BY <1>2 DEF ServiceInv, CallsInv, BuilderInv
  <1>8. IntentsLast
    BY <1>2, LastingSame DEF IntentsLast
  <1> QED
    BY <1>4, <1>6, <1>7, <1>8 DEF ServiceInv, Served

LEMMA RestartStep ==
    ASSUME ServiceInv, Restart
    PROVE  Served
  <1>1. /\ ledger' = disk /\ disk' = disk /\ contexts' = {} /\ handoffs' = {}
        /\ building' = {} /\ fiber' = fiber /\ config' = config
        /\ UNCHANGED chainVars /\ mined' = mined
    BY DEF Restart, Crash, chainVars
  <1>2. SameIntents(ledger, disk)
    BY DEF ServiceInv, LedgersInv
  <1>3. SettledIsMined'
    <2>1. /\ ledger'.supplies = ledger.supplies
          /\ ledger'.withdrawals = ledger.withdrawals
          /\ ledger'.claims = ledger.claims /\ ledger'.intents = ledger.intents
      BY <1>1, <1>2 DEF SameIntents
    <2>2. SettledIsMined
      BY DEF ServiceInv, LedgersInv
    <2> QED
      BY <1>1, <2>1, <2>2 DEF SettledIsMined
  <1>4. LedgersInv'
    BY <1>1, <1>3 DEF ServiceInv, LedgersInv, SameIntents
  <1>5. CallsInv' /\ BuilderInv'
    BY <1>1 DEF ServiceInv, CallsInv, BuilderInv
  <1>6. IInv' /\ CellsInv'
    BY <1>1, NextInv, CellsNext DEF ServiceInv, MinedInv
  <1>7. ReceiptsMade'
    BY <1>1 DEF ServiceInv, MinedInv, ReceiptsMade, chainVars
  <1>8. MinedFor(ledger)'
    BY <1>1, <1>2 DEF ServiceInv, MinedInv, MinedFor, SameIntents
  <1>9. IntentsLast
    BY <1>1, <1>2, LastingSame DEF IntentsLast, SameIntents
  <1> QED
    BY <1>4, <1>5, <1>6, <1>7, <1>8, <1>9 DEF ServiceInv, MinedInv, Served

LEMMA StutterStep == ASSUME ServiceInv, UNCHANGED vars PROVE Served
  <1>1. /\ UNCHANGED <<config, ledger, disk, contexts>> /\ mined' = mined
        /\ UNCHANGED <<handoffs, building, fiber>> /\ UNCHANGED chainVars
    BY DEF vars, ledgerVars, executorVars, chainVars
  <1>2. SettledIsMined'
    BY <1>1 DEF ServiceInv, LedgersInv, SettledIsMined
  <1>3. LedgersInv' /\ CallsInv' /\ BuilderInv'
    BY <1>1, <1>2 DEF ServiceInv, LedgersInv, CallsInv, BuilderInv
  <1>4. IInv' /\ CellsInv'
    BY <1>1, NextInv, CellsNext DEF ServiceInv, MinedInv
  <1>5. ReceiptsMade' /\ MinedFor(ledger)'
    BY <1>1 DEF ServiceInv, MinedInv, ReceiptsMade, MinedFor, chainVars
  <1>6. IntentsLast
    BY <1>1, LastingSame DEF IntentsLast
  <1> QED
    BY <1>3, <1>4, <1>5, <1>6 DEF ServiceInv, MinedInv, Served

LEMMA ServiceNext == ASSUME ServiceInv, [Next]_vars PROVE Served
  <1>1. CASE EnterRequest /\ UNCHANGED <<chainVars, config, crashes>>
    BY <1>1, EnterStep
  <1>2. CASE HandoffNext /\ UNCHANGED <<chainVars, config, crashes>>
    BY <1>2, HandoffStep
  <1>3. CASE BuilderNext /\ UNCHANGED <<chainVars, config, crashes>>
    BY <1>3, BuilderStep
  <1>4. CASE FiberNext /\ UNCHANGED <<chainVars, config, crashes>>
    BY <1>4, FiberStep
  <1>5. CASE /\ \/ RepairNext
                \/ /\ SyncVault \/ \E p \in Positions : SyncReceipts(LpLock[p])
                   /\ UNCHANGED executorVars
             /\ UNCHANGED <<chainVars, config, crashes>>
    BY <1>5, RepairStep
  <1>6. CASE ProviderNext /\ UNCHANGED executorVars
               /\ UNCHANGED <<chainVars, config, crashes>>
    BY <1>6, ProviderStep
  <1>7. CASE /\ WalletNext \/ \E n \in DOMAIN fiber : FiberFund(n)
             /\ UNCHANGED <<ledgerVars, executorVars>>
    BY <1>7, ChainStep
  <1>8. CASE Restart
    BY <1>8, RestartStep
  <1>9. CASE UNCHANGED vars
    BY <1>9, StutterStep
  <1> QED
    BY <1>1, <1>2, <1>3, <1>4, <1>5, <1>6, <1>7, <1>8, <1>9 DEF Next

LEMMA ServiceInit == Init => ServiceInv
  <1> SUFFICES ASSUME Init PROVE ServiceInv
    OBVIOUS
  <1>1. /\ ChainInit /\ config \in Configs /\ disk = ledger /\ contexts = {}
        /\ handoffs = {} /\ building = {} /\ fiber = <<>>
        /\ ledger = [supplies     |-> [p \in Positions |-> None],
                     positions    |-> <<>>,
                     withdrawals  |-> [w \in Withdrawals |-> None],
                     claims       |-> [c \in Claims |-> None],
                     intents      |-> [r \in Requests |-> None],
                     requests     |-> <<>>,
                     reservations |-> <<>>,
                     jobs         |-> [r \in Requests |-> None],
                     funding      |-> [r \in Requests |-> None],
                     live         |-> None]
    BY DEF Init, LedgerInit
  <1>2. ledger \in Ledgers
    BY <1>1 DEF Ledgers, Supplies, WithdrawalIntents, ClaimIntents, Intents,
                Jobs, Fundings
  <1>3. /\ DOMAIN ledger.positions = {} /\ DOMAIN ledger.requests = {}
        /\ \A p \in Positions : ledger.supplies[p] = None
        /\ \A w \in Withdrawals : ledger.withdrawals[w] = None
        /\ \A c \in Claims : ledger.claims[c] = None
        /\ \A r \in Requests : ledger.intents[r] = None
    BY <1>1
  <1>4. Sound(ledger, config, fiber)
    BY <1>2, <1>3 DEF Sound, Placed
  <1>5. SameIntents(ledger, disk) /\ SettledIsMined
    BY <1>1, <1>3 DEF SameIntents, SettledIsMined
  <1>6. CallsInv
    BY <1>1 DEF CallsInv
  <1>7. BuilderInv
    BY <1>1 DEF BuilderInv
  <1>8. IInv /\ CellsInv
    BY <1>1, InitInv, CellsInit
  <1>9. DOMAIN mined = {} /\ \A p \in Positions : receipt[p] = None
    BY <1>1 DEF ChainInit
  <1>10. ReceiptsMade /\ MinedFor(ledger)
    BY <1>9 DEF ReceiptsMade, MinedFor
  <1> QED
    BY <1>1, <1>4, <1>5, <1>6, <1>7, <1>8, <1>10
       DEF ServiceInv, LedgersInv, MinedInv

LEMMA SpecService == Spec => []ServiceInv
  <1>1. ServiceInv /\ [Next]_vars => ServiceInv'
    BY ServiceNext DEF Served
  <1> QED
    BY <1>1, ServiceInit, PTL DEF Spec

(***************************************************************************)
(* Every position's balances add up to what was supplied, and a closed     *)
(* position holds nothing: through every reservation, deployment, release, *)
(* settlement and withdrawal, whatever errors interrupt them, and whatever *)
(* is copied from the chain.  Each operation moves between balances what   *)
(* it takes, and takes no more than a position has.                        *)
(***************************************************************************)
THEOREM PositionsBalancedHolds == Spec => []PositionsBalanced
  <1>1. ServiceInv => PositionsBalanced
    <2> SUFFICES ASSUME ServiceInv, NEW i \in DOMAIN ledger.positions
                 PROVE  LET p == ledger.positions[i]
                        IN  /\ p.available + p.reserved + p.deployed = p.supplied
                            /\ ~p.active => p.supplied = 0
      BY DEF PositionsBalanced
    <2>1. ledger.positions \in Seq(PositionEntries)
      BY LedgerHas DEF ServiceInv, LedgersInv, Sound
    <2>2. ledger.positions[i] \in PositionEntries
      BY <2>1, DomainSeq
    <2> QED
      BY <2>2, PositionHas
  <1> QED
    BY <1>1, SpecService, PTL

(***************************************************************************)
(* No position has claimed more fees than it earned, though any number of  *)
(* claims for the same fees may wait for the chain at once: a settlement   *)
(* looks at the fees again, and a receipt copied from the chain brings its *)
(* own claims along.                                                       *)
(***************************************************************************)
THEOREM FeesWithinEarnedHolds == Spec => []FeesWithinEarned
  <1>1. ServiceInv => FeesWithinEarned
    <2> SUFFICES ASSUME ServiceInv, NEW i \in DOMAIN ledger.positions
                 PROVE  ledger.positions[i].claimed <= ledger.positions[i].earned
      BY DEF FeesWithinEarned
    <2>1. ledger.positions \in Seq(PositionEntries)
      BY LedgerHas DEF ServiceInv, LedgersInv, Sound
    <2>2. ledger.positions[i] \in PositionEntries
      BY <2>1, DomainSeq
    <2> QED
      BY <2>2, PositionHas
  <1> QED
    BY <1>1, SpecService, PTL

(***************************************************************************)
(* With a node, an intent is settled only for a transaction of the chain,  *)
(* made for the same owner's cell and the same amount.  A withdrawal may   *)
(* be settled by the transaction of another intent of the same receipt     *)
(* and amount; that is what the verification can tell.                     *)
(***************************************************************************)
THEOREM SettledIsMinedHolds == Spec => []SettledIsMined
  <1>1. ServiceInv => SettledIsMined
    BY DEF ServiceInv, LedgersInv
  <1> QED
    BY <1>1, SpecService, PTL

(***************************************************************************)
(* A request that the vault funds is shown with an open channel only once  *)
(* the funding of that channel was built and signed.  No callback fails a  *)
(* channel that is signed, since a builder works on a channel without a    *)
(* transaction, and a channel that is lost later was signed all the same.  *)
(***************************************************************************)
THEOREM OpenIsSignedHolds == Spec => []OpenIsSigned
  <1>1. ServiceInv => OpenIsSigned
    <2> SUFFICES ASSUME ServiceInv, config.vaultMode,
                        NEW i \in DOMAIN ledger.requests,
                        ledger.requests[i].status = "ChannelOpen"
                 PROVE  LET n == ledger.requests[i].channel
                        IN  /\ n \in DOMAIN fiber
                            /\ fiber[n].state \in {"usable", "closed", "lost"}
                            /\ fiber[n].tx # None
      BY DEF OpenIsSigned
    <2>1. ShownIn(ledger.requests[i], config, fiber)
      BY DEF ServiceInv, LedgersInv, Sound
    <2>2. /\ ledger.requests[i].channel \in DOMAIN fiber
          /\ fiber[ledger.requests[i].channel].state \in SignedStates
      BY <2>1 DEF ShownIn
    <2>3. fiber[ledger.requests[i].channel].tx # None
      BY <2>2 DEF ServiceInv, BuilderInv
    <2> QED
      BY <2>2, <2>3 DEF SignedStates
  <1> QED
    BY <1>1, SpecService, PTL

(***************************************************************************)
(* A settled supply, withdrawal, claim or request stays settled, across    *)
(* crashes too: the intents in the file are those in memory after every    *)
(* handler, also after one that failed half way.                           *)
(***************************************************************************)
THEOREM SettledSurvivesHolds == Spec => SettledSurvives
  <1> DEFINE Survives ==
        /\ \A p \in Positions : ledger.supplies[p] # None =>
              /\ ledger'.supplies[p] # None
              /\ ledger.supplies[p].settled => ledger'.supplies[p].settled
        /\ \A w \in Withdrawals : ledger.withdrawals[w] # None =>
              /\ ledger'.withdrawals[w] # None
              /\ ledger.withdrawals[w].settled
                    => ledger'.withdrawals[w].settled
        /\ \A c \in Claims : ledger.claims[c] # None =>
              /\ ledger'.claims[c] # None
              /\ ledger.claims[c].settled => ledger'.claims[c].settled
        /\ \A r \in Requests : ledger.intents[r] # None =>
              /\ ledger'.intents[r] # None
              /\ ledger.intents[r].settled => ledger'.intents[r].settled
  <1>1. ServiceInv /\ [Next]_vars => [Survives]_ledger
    <2> SUFFICES ASSUME ServiceInv, [Next]_vars PROVE Survives
      OBVIOUS
    <2>1. IntentsLast
      BY ServiceNext DEF Served
    <2>2. ledger \in Ledgers
      BY DEF ServiceInv, LedgersInv, Sound
    <2>3. /\ DOMAIN ledger.supplies = Positions
          /\ DOMAIN ledger.withdrawals = Withdrawals
          /\ DOMAIN ledger.claims = Claims /\ DOMAIN ledger.intents = Requests
      BY <2>2, LedgerHas DEF Supplies, WithdrawalIntents, ClaimIntents, Intents
    <2> QED
      BY <2>1, <2>3 DEF IntentsLast, Lasting
  <1>2. SettledSurvives <=> [][Survives]_ledger
    BY DEF SettledSurvives
  <1> HIDE DEF Survives
  <1> QED
    BY <1>1, <1>2, SpecService, PTL DEF Spec
=============================================================================
