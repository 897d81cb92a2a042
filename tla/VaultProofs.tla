---------------------------- MODULE VaultProofs ----------------------------
(***************************************************************************)
(* What holds of the vault on the chain for every number of providers,     *)
(* merchants and claims, and for every amount and fee.                     *)
(***************************************************************************)
EXTENDS VaultChain, SumLemmas

VaultData == [total : Int, reserved : Int, deployed : Int, fee : Int]
IsVault(c) ==
    c.kind = "vault" /\ c.id = "vault"
RequestData == [status : RequestStatuses, amount : Int, fee : Int]
IsRequest(c) ==
    c \in [kind : {"request"}, id : Requests, lock : {Operator}, point : Hashes,
           capacity : Int, data : RequestData]

Typed ==
    /\ vault.capacity \in Int /\ vault.data \in VaultData
    /\ \A r \in Requests : request[r] = None \/ IsRequest(request[r])

IInv == Typed /\ VaultBacked

\* The cell v is the one vault cell the transaction makes, and its request
\* cells state amounts.
Makes(tx, v) ==
    /\ v \in tx.out /\ IsVault(v)
    /\ \A c \in tx.out : c.kind = "vault" => c = v
    /\ \A c \in tx.out : c.kind = "request" => IsRequest(c)

\* The vault's data after a reservation, and after a funding.
AfterReserve(d, a, f) == [d EXCEPT !.reserved = @ + a, !.fee = @ + f]
AfterFund(d, a) == [d EXCEPT !.reserved = @ - a, !.deployed = @ + a]

LEMMA ReservedData ==
    ASSUME NEW d \in VaultData, NEW a \in Int, NEW f \in Int,
           NEW e, e = AfterReserve(d, a, f)
    PROVE  /\ e \in VaultData
           /\ e.total = d.total /\ e.deployed = d.deployed
           /\ e.reserved = d.reserved + a /\ e.fee = d.fee + f
  <1> DEFINE m == [d EXCEPT !.reserved = d.reserved + a]
  <1>1. e = [m EXCEPT !.fee = d.fee + f]
    BY DEF AfterReserve
  <1>2. m \in VaultData /\ m.total = d.total /\ m.deployed = d.deployed
        /\ m.reserved = d.reserved + a
    BY DEF VaultData
  <1>3. d.fee + f \in Int
    BY DEF VaultData
  <1> HIDE DEF m
  <1> QED
    BY <1>1, <1>2, <1>3 DEF VaultData

LEMMA DeployedData ==
    ASSUME NEW d \in VaultData, NEW a \in Int,
           NEW e, e = AfterFund(d, a)
    PROVE  /\ e \in VaultData
           /\ e.total = d.total /\ e.fee = d.fee
           /\ e.reserved = d.reserved - a /\ e.deployed = d.deployed + a
  <1> DEFINE m == [d EXCEPT !.reserved = d.reserved - a]
  <1>1. e = [m EXCEPT !.deployed = d.deployed + a]
    BY DEF AfterFund
  <1>2. m \in VaultData /\ m.total = d.total /\ m.fee = d.fee
        /\ m.reserved = d.reserved - a
    BY DEF VaultData
  <1>3. d.deployed + a \in Int
    BY DEF VaultData
  <1> HIDE DEF m
  <1> QED
    BY <1>1, <1>2, <1>3 DEF VaultData

LEMMA InitInv == ChainInit => IInv
  BY ChainAssumption DEF ChainInit, IInv, Typed, VaultBacked, VaultCell, VaultData

(***************************************************************************)
(* A committed transaction leaves the vault cell it makes, with totals the *)
(* vault's type script has accepted.                                       *)
(***************************************************************************)
LEMMA CommitVault ==
    ASSUME Typed, NEW h, NEW tx, NEW v, Commit(h, tx), Makes(tx, v)
    PROVE  /\ vault' = v
           /\ VaultDataOK(v.data)
           /\ \A r \in Requests : request'[r] = None \/ IsRequest(request'[r])
  <1>1. Group(tx.out, "vault", "vault") = {v}
    BY DEF Group, Makes, IsVault
  <1>2. Only({v}) = v
    BY DEF Only
  <1>3. vault' = v
    BY <1>1, <1>2 DEF Commit, NextCell
  <1>4. HasVault(tx)
    BY DEF HasVault, HasType, Group, Cells, Makes, IsVault
  <1>5. VaultDataOK(v.data)
    BY <1>1, <1>2, <1>4 DEF Commit, Accepted, VaultTypeAllows
  <1>6. ASSUME NEW r \in Requests
        PROVE  request'[r] = None \/ IsRequest(request'[r])
    <2> DEFINE made == Group(tx.out, "request", r)
    <2>1. request'[r] = NextCell(tx, "request", r, request[r])
      BY DEF Commit
    <2>2. CASE made # {}
      <3>1. Only(made) \in made
        BY <2>2 DEF Only
      <3>2. IsRequest(Only(made))
        BY <3>1 DEF Group, Makes
      <3> QED
        BY <2>1, <2>2, <3>2 DEF NextCell
    <2>3. CASE made = {}
      BY <2>1, <2>3 DEF NextCell, Typed
    <2> QED
      BY <2>2, <2>3
  <1> QED
    BY <1>3, <1>5, <1>6

\* A balanced change of the vault: what goes into the cell and what its data
\* promises change alike.
LEMMA MovedInv ==
    ASSUME IInv, NEW h, NEW tx, NEW capacity \in Int, NEW data \in VaultData,
           Commit(h, tx), Makes(tx, VaultMoved(h, capacity, data)),
           capacity = (data.total - data.deployed + data.fee)
                        - (vault.data.total - vault.data.deployed
                             + vault.data.fee)
    PROVE  IInv'
  <1> DEFINE v == VaultMoved(h, capacity, data)
  <1>1. /\ vault' = v
        /\ VaultDataOK(v.data)
        /\ \A r \in Requests : request'[r] = None \/ IsRequest(request'[r])
    BY CommitVault DEF IInv
  <1>2. v.capacity = vault.capacity + capacity /\ v.data = data
    BY DEF VaultMoved, VaultCell
  <1>3. Typed'
    BY <1>1, <1>2 DEF IInv, Typed, VaultData
  <1>4. VaultBacked'
    BY <1>1, <1>2, ChainAssumption
       DEF IInv, Typed, VaultBacked, VaultData, VaultDataOK
  <1> QED
    BY <1>3, <1>4 DEF IInv

LEMMA SupplyInv ==
    ASSUME IInv, NEW p \in Positions, NEW a \in Amounts, MineSupply(p, a)
    PROVE  IInv'
  <1> DEFINE h == <<"supply", p>>
             data == [vault.data EXCEPT !.total = @ + a]
  <1>1. a \in Int
    BY ChainAssumption
  <1>2. data \in VaultData /\ data.total = vault.data.total + a
        /\ data.deployed = vault.data.deployed /\ data.fee = vault.data.fee
    BY <1>1 DEF IInv, Typed, VaultData
  <1>3. Commit(h, SupplyTx(p, a))
    BY DEF MineSupply
  <1>4. Makes(SupplyTx(p, a), VaultMoved(h, a, data))
    BY DEF Makes, SupplyTx, VaultMoved, VaultCell, TypedCell, IsVault, IsRequest
  <1> HIDE DEF data
  <1>5. a = (data.total - data.deployed + data.fee)
              - (vault.data.total - vault.data.deployed + vault.data.fee)
    BY <1>1, <1>2 DEF IInv, Typed, VaultData
  <1> QED
    BY <1>1, <1>2, <1>3, <1>4, <1>5, MovedInv

LEMMA WithdrawInv ==
    ASSUME IInv, NEW w \in Withdrawals, NEW a \in Amounts, MineWithdraw(w, a)
    PROVE  IInv'
  <1> DEFINE h == <<"withdraw", w>>
             data == [vault.data EXCEPT !.total = @ - a]
  <1>1. a \in Int /\ -a \in Int
    BY ChainAssumption
  <1>2. data \in VaultData /\ data.total = vault.data.total - a
        /\ data.deployed = vault.data.deployed /\ data.fee = vault.data.fee
    BY <1>1 DEF IInv, Typed, VaultData
  <1>3. Commit(h, WithdrawTx(w, a))
    BY DEF MineWithdraw
  <1>4. Makes(WithdrawTx(w, a), VaultMoved(h, -a, data))
    BY DEF Makes, WithdrawTx, VaultMoved, VaultCell, TypedCell, PlainCell,
           IsVault, IsRequest
  <1> HIDE DEF data
  <1>5. -a = (data.total - data.deployed + data.fee)
               - (vault.data.total - vault.data.deployed + vault.data.fee)
    BY <1>1, <1>2 DEF IInv, Typed, VaultData
  <1> QED
    BY <1>1, <1>2, <1>3, <1>4, <1>5, MovedInv

LEMMA ClaimInv ==
    ASSUME IInv, NEW c \in Claims, NEW a \in Amounts \cup Fees, MineClaim(c, a)
    PROVE  IInv'
  <1> DEFINE h == <<"claim", c>>
             data == [vault.data EXCEPT !.fee = @ - a]
  <1>1. a \in Int /\ -a \in Int
    BY ChainAssumption
  <1>2. data \in VaultData /\ data.total = vault.data.total
        /\ data.deployed = vault.data.deployed /\ data.fee = vault.data.fee - a
    BY <1>1 DEF IInv, Typed, VaultData
  <1>3. Commit(h, ClaimTx(c, a))
    BY DEF MineClaim
  <1>4. Makes(ClaimTx(c, a), VaultMoved(h, -a, data))
    BY DEF Makes, ClaimTx, VaultMoved, VaultCell, TypedCell, PlainCell,
           IsVault, IsRequest
  <1> HIDE DEF data
  <1>5. -a = (data.total - data.deployed + data.fee)
               - (vault.data.total - vault.data.deployed + vault.data.fee)
    BY <1>1, <1>2 DEF IInv, Typed, VaultData
  <1> QED
    BY <1>1, <1>2, <1>3, <1>4, <1>5, MovedInv

LEMMA RequestInv ==
    ASSUME IInv, NEW r \in Requests, NEW a \in Amounts, NEW f \in Fees,
           MineRequest(r, a, f)
    PROVE  IInv'
  <1> DEFINE h == <<"request", r>>
             data == AfterReserve(vault.data, a, f)
  <1>1. a \in Int /\ f \in Int
    BY ChainAssumption
  <1>6. data \in VaultData /\ data.total = vault.data.total
        /\ data.deployed = vault.data.deployed /\ data.fee = vault.data.fee + f
    <2>1. vault.data \in VaultData
      BY DEF IInv, Typed
    <2> QED
      BY <1>1, <2>1, ReservedData
  <1>3. Commit(h, RequestTx(r, a, f))
    BY DEF MineRequest
  <1>4. Makes(RequestTx(r, a, f), VaultMoved(h, f, data))
    <2> DEFINE cell == TypedCell("request", r, Operator, h,
                          [status |-> "reserved", amount |-> a, fee |-> f])
    <2>1. IsRequest(cell)
      BY <1>1, ChainAssumption DEF TypedCell, IsRequest, RequestData, RequestStatuses, Hashes
    <2>2. RequestTx(r, a, f).out = {VaultMoved(h, f, data), cell,
                                    PlainCell("receiver", h, ReservePay)}
      BY DEF RequestTx, AfterReserve
    <2>3. /\ PlainCell("receiver", h, ReservePay).kind = "plain"
          /\ IsVault(VaultMoved(h, f, data))
      BY DEF PlainCell, VaultMoved, VaultCell, IsVault
    <2> HIDE DEF cell
    <2> QED
      BY <2>1, <2>2, <2>3 DEF Makes, IsVault, IsRequest
  <1> HIDE DEF data
  <1>5. f = (data.total - data.deployed + data.fee)
              - (vault.data.total - vault.data.deployed + vault.data.fee)
    BY <1>1, <1>6 DEF IInv, Typed, VaultData
  <1> QED
    BY <1>1, <1>6, <1>3, <1>4, <1>5, MovedInv

LEMMA FundInv ==
    ASSUME IInv, NEW r \in Requests, MineFund(r) PROVE IInv'
  <1> DEFINE h == <<"fund", r>>
             a == request[r].data.amount
             data == AfterFund(vault.data, a)
  <1>1. IsRequest(request[r])
    BY DEF MineFund, Fundable, IInv, Typed
  <1>2. a \in Int /\ -a \in Int
    BY <1>1 DEF IsRequest, RequestData
  <1>3. data \in VaultData /\ data.total = vault.data.total
        /\ data.deployed = vault.data.deployed + a /\ data.fee = vault.data.fee
    <2>1. vault.data \in VaultData
      BY DEF IInv, Typed
    <2> QED
      BY <1>2, <2>1, DeployedData
  <1>4. Commit(h, FundTx(r))
    BY DEF MineFund
  <1>5. IsRequest(NextRequestCell(h, r))
    BY <1>1 DEF IsRequest, NextRequestCell, RequestData, RequestStatuses,
               Hashes
  <1>6. Makes(FundTx(r), VaultMoved(h, -a, data))
    <2>1. FundTx(r).out = {FundingCell(h, a), VaultMoved(h, -a, data),
                           NextRequestCell(h, r)}
      BY DEF FundTx, NextVaultCell, AfterFund
    <2>2. /\ FundingCell(h, a).kind = "plain"
          /\ IsVault(VaultMoved(h, -a, data))
      BY DEF FundingCell, PlainCell, VaultMoved, VaultCell, IsVault
    <2> QED
      BY <1>5, <2>1, <2>2 DEF Makes, IsVault, IsRequest
  <1> HIDE DEF data
  <1>7. -a = (data.total - data.deployed + data.fee)
               - (vault.data.total - vault.data.deployed + vault.data.fee)
    BY <1>2, <1>3 DEF IInv, Typed, VaultData
  <1> QED
    BY <1>2, <1>3, <1>4, <1>6, <1>7, MovedInv

LEMMA NextInv == ASSUME IInv, [ChainNext]_chainVars PROVE IInv'
  <1>1. CASE UNCHANGED chainVars
    BY <1>1 DEF chainVars, IInv, Typed, VaultBacked
  <1> QED
    BY <1>1, SupplyInv, WithdrawInv, ClaimInv, RequestInv, FundInv DEF ChainNext

(***************************************************************************)
(* The vault cell holds what its data promises, and promises no more than  *)
(* was supplied, for every number of providers and merchants and every     *)
(* order of their transactions.  The second part is the type script's      *)
(* check (vault-type); the first follows from how the wallets and the      *)
(* builder compose the capacities, which no script compares with the data. *)
(***************************************************************************)
THEOREM VaultIsBacked == ChainSpec => []VaultBacked
  <1>1. IInv => VaultBacked
    BY DEF IInv
  <1> QED
    BY <1>1, InitInv, NextInv, PTL DEF ChainSpec

----------------------------------------------------------------------------
(***************************************************************************)
(* The sums over cells that the scripts compute.                           *)
(***************************************************************************)
LEMMA FieldSum ==
    ASSUME NEW S, IsFiniteSet(S), NEW field
    PROVE  MapThenSumSet(LAMBDA c : c.data[field], S)
              = SumFunctionOnSet([c \in S |-> c.data[field]], S)
  <1> DEFINE f == [c \in S |-> c.data[field]]
             P(g) == g = [T \in SUBSET S |->
                             IF T = {} THEN 0
                             ELSE Chosen(T).data[field] + g[T \ {Chosen(T)}]]
  <1>1. MapThenSumSet(LAMBDA c : c.data[field], S) = (CHOOSE g : P(g))[S]
    BY DEF MapThenSumSet, MapThenFoldSet, Chosen
  <1>2. \A T \in SUBSET S : T # {} => f[Chosen(T)] = Chosen(T).data[field]
    BY ChosenIn
  <1>3. \A g : Sums(f, g, S) <=> P(g)
    BY <1>2 DEF Sums
  <1> HIDE DEF f, P
  <1>4. PICK g : Sums(f, g, S)
    BY SumsExist
  <1>5. Sums(f, CHOOSE x : P(x), S)
    BY <1>3, <1>4
  <1> QED
    BY <1>1, <1>5, SumIs DEF f

LEMMA CapacitySum ==
    ASSUME NEW S, IsFiniteSet(S)
    PROVE  Capacity(S) = SumFunctionOnSet([c \in S |-> c.capacity], S)
  <1> DEFINE f == [c \in S |-> c.capacity]
             P(g) == g = [T \in SUBSET S |->
                             IF T = {} THEN 0
                             ELSE Chosen(T).capacity + g[T \ {Chosen(T)}]]
  <1>1. Capacity(S) = (CHOOSE g : P(g))[S]
    BY DEF Capacity, MapThenSumSet, MapThenFoldSet, Chosen
  <1>2. \A T \in SUBSET S : T # {} => f[Chosen(T)] = Chosen(T).capacity
    BY ChosenIn
  <1>3. \A g : Sums(f, g, S) <=> P(g)
    BY <1>2 DEF Sums
  <1> HIDE DEF f, P
  <1>4. PICK g : Sums(f, g, S)
    BY SumsExist
  <1>5. Sums(f, CHOOSE x : P(x), S)
    BY <1>3, <1>4
  <1> QED
    BY <1>1, <1>5, SumIs DEF f

LEMMA SumOfIs ==
    ASSUME NEW cells, NEW kind, NEW field, IsFiniteSet(OfKind(cells, kind))
    PROVE  SumOf(cells, kind, field)
              = SumFunctionOnSet([c \in OfKind(cells, kind) |-> c.data[field]],
                                 OfKind(cells, kind))
  BY FieldSum DEF SumOf

LEMMA SumOfNone ==
    ASSUME NEW cells, NEW kind, NEW field, OfKind(cells, kind) = {}
    PROVE  SumOf(cells, kind, field) = 0
  <1> DEFINE f == [c \in OfKind(cells, kind) |-> c.data[field]]
  <1>1. IsFiniteSet(OfKind(cells, kind))
    BY FS_EmptySet
  <1>2. SumOf(cells, kind, field) = SumFunctionOnSet(f, OfKind(cells, kind))
    BY <1>1, SumOfIs
  <1> HIDE DEF f
  <1> QED
    BY <1>2, SumEmpty

LEMMA SumOfOne ==
    ASSUME NEW cells, NEW kind, NEW field, NEW c, OfKind(cells, kind) = {c},
           c.data[field] \in Int
    PROVE  SumOf(cells, kind, field) = c.data[field]
  <1> DEFINE f == [d \in OfKind(cells, kind) |-> d.data[field]]
  <1>1. SumOf(cells, kind, field) = SumFunctionOnSet(f, {c})
    <2>1. IsFiniteSet(OfKind(cells, kind))
      BY FS_Singleton
    <2>2. SumOf(cells, kind, field) = SumFunctionOnSet(f, OfKind(cells, kind))
      BY <2>1, SumOfIs
    <2> HIDE DEF f
    <2> QED
      BY <2>2
  <1>2. f[c] = c.data[field] /\ f[c] \in Int
    OBVIOUS
  <1> HIDE DEF f
  <1>3. SumFunctionOnSet(f, {c}) = f[c]
    BY <1>2, SumOne
  <1> QED
    BY <1>1, <1>2, <1>3

LEMMA SuppliedOne ==
    ASSUME NEW cells, NEW c, NEW n \in Int, OfKind(cells, "receipt") = {c},
           c.data.supplied = n
    PROVE  SumOf(cells, "receipt", "supplied") = n
  <1> DEFINE field == "supplied"
  <1>1. c.data[field] = n
    OBVIOUS
  <1> HIDE DEF field
  <1>2. SumOf(cells, "receipt", field) = n
    BY <1>1, SumOfOne
  <1> QED
    BY <1>2 DEF field

LEMMA AmountOne ==
    ASSUME NEW cells, NEW kind, NEW c, NEW n \in Int,
           OfKind(cells, kind) = {c}, c.data.amount = n
    PROVE  SumOf(cells, kind, "amount") = n
  <1> DEFINE field == "amount"
  <1>1. c.data[field] = n
    OBVIOUS
  <1> HIDE DEF field
  <1>2. SumOf(cells, kind, field) = n
    BY <1>1, SumOfOne
  <1> QED
    BY <1>2 DEF field

LEMMA FeeOne ==
    ASSUME NEW cells, NEW kind, NEW c, NEW n \in Int,
           OfKind(cells, kind) = {c}, c.data.fee = n
    PROVE  SumOf(cells, kind, "fee") = n
  <1> DEFINE field == "fee"
  <1>1. c.data[field] = n
    OBVIOUS
  <1> HIDE DEF field
  <1>2. SumOf(cells, kind, field) = n
    BY <1>1, SumOfOne
  <1> QED
    BY <1>2 DEF field

LEMMA CapacityAdd ==
    ASSUME NEW S, IsFiniteSet(S), NEW y, y \notin S,
           \A c \in S \cup {y} : c.capacity \in Int
    PROVE  Capacity(S \cup {y}) = y.capacity + Capacity(S)
  <1> DEFINE f == [c \in S \cup {y} |-> c.capacity]
             g == [c \in S |-> c.capacity]
  <1>1. IsFiniteSet(S \cup {y})
    BY FS_AddElement
  <1>2. /\ Capacity(S \cup {y}) = SumFunctionOnSet(f, S \cup {y})
        /\ Capacity(S) = SumFunctionOnSet(g, S)
    BY <1>1, CapacitySum
  <1>3. /\ \A x \in S \cup {y} : f[x] \in Int
        /\ \A x \in S : f[x] = g[x]
        /\ f[y] = y.capacity
    OBVIOUS
  <1> HIDE DEF f, g
  <1>4. SumFunctionOnSet(f, S \cup {y}) = f[y] + SumFunctionOnSet(f, S)
    BY <1>3, SumAdd
  <1>5. SumFunctionOnSet(f, S) = SumFunctionOnSet(g, S)
    BY <1>3, SumSame
  <1> QED
    BY <1>2, <1>3, <1>4, <1>5

\* A transaction's cells differ in kind, so their capacities add up.
LEMMA CapacityTwo ==
    ASSUME NEW S, NEW x, NEW y, x # y, S = {x, y},
           \A c \in S : c.capacity \in Int
    PROVE  Capacity(S) = x.capacity + y.capacity
  <1> DEFINE T == {x}
  <1>1. IsFiniteSet(T) /\ y \notin T /\ S = T \cup {y}
    BY FS_Singleton
  <1>2. Capacity({}) = 0
    <2> DEFINE f == [c \in {} |-> c.capacity]
    <2>1. Capacity({}) = SumFunctionOnSet(f, {})
      BY FS_EmptySet, CapacitySum
    <2> HIDE DEF f
    <2> QED
      BY <2>1, SumEmpty
  <1>3. Capacity(T) = x.capacity
    <2>1. {} \cup {x} = T /\ IsFiniteSet({})
      BY FS_EmptySet
    <2>2. Capacity({} \cup {x}) = x.capacity + Capacity({})
      BY <2>1, CapacityAdd
    <2> QED
      BY <1>2, <2>1, <2>2
  <1> HIDE DEF T
  <1>4. Capacity(S) = y.capacity + Capacity(T)
    BY <1>1, CapacityAdd
  <1> QED
    BY <1>1, <1>3, <1>4

LEMMA FiniteTwo == ASSUME NEW x, NEW y PROVE IsFiniteSet({x, y})
  <1>1. IsFiniteSet({x} \cup {y}) /\ {x} \cup {y} = {x, y}
    BY FS_Singleton, FS_AddElement
  <1> QED
    BY <1>1

LEMMA CapacityThree ==
    ASSUME NEW S, NEW x, NEW y, NEW z, x # y, x # z, y # z, S = {x, y, z},
           \A c \in S : c.capacity \in Int
    PROVE  Capacity(S) = x.capacity + y.capacity + z.capacity
  <1> DEFINE T == {x, y}
  <1>1. \A c \in T : c.capacity \in Int
    OBVIOUS
  <1>2. z \notin T /\ S = T \cup {z} /\ T = {x, y}
    OBVIOUS
  <1>3. IsFiniteSet(T)
    BY FiniteTwo
  <1> HIDE DEF T
  <1>4. Capacity(T) = x.capacity + y.capacity
    BY <1>1, <1>2, CapacityTwo
  <1>5. Capacity(S) = z.capacity + Capacity(T)
    BY <1>2, <1>3, CapacityAdd
  <1> QED
    BY <1>4, <1>5

LEMMA CapacityFour ==
    ASSUME NEW S, NEW x, NEW y, NEW z, NEW w,
           x # y, x # z, y # z, w # x, w # y, w # z, S = {x, y, z, w},
           \A c \in S : c.capacity \in Int
    PROVE  Capacity(S) = x.capacity + y.capacity + z.capacity + w.capacity
  <1> DEFINE T == {x, y, z}
  <1>1. \A c \in T : c.capacity \in Int
    OBVIOUS
  <1>2. w \notin T /\ S = T \cup {w} /\ T = {x, y, z}
    OBVIOUS
  <1>3. IsFiniteSet(T)
    <2>1. IsFiniteSet({x, y} \cup {z}) /\ {x, y} \cup {z} = T
      BY FiniteTwo, FS_AddElement
    <2> QED
      BY <2>1
  <1> HIDE DEF T
  <1>4. Capacity(T) = x.capacity + y.capacity + z.capacity
    BY <1>1, <1>2, CapacityThree
  <1>5. Capacity(S) = w.capacity + Capacity(T)
    BY <1>2, <1>3, CapacityAdd
  <1> QED
    BY <1>4, <1>5

----------------------------------------------------------------------------
(***************************************************************************)
(* The live cells are the ones the transactions above make: a receipt is   *)
(* its provider's and wholly available, a request is the operator's and    *)
(* reserved or deployed.                                                   *)
(***************************************************************************)
LpCell(p, c) ==
    /\ c \in ReceiptCells /\ c.id = p /\ c.lock = LpLock[p]
    /\ c.data.reserved = 0 /\ c.data.deployed = 0
    /\ c.data.available = c.data.supplied /\ c.data.supplied > 0
RequestCell(r, c) ==
    /\ c \in RequestCells /\ c.id = r /\ c.lock = Operator
    /\ c.data.status \in {"reserved", "deployed"}
    /\ c.data.amount > 0 /\ c.data.fee > 0

Shaped ==
    /\ IsVault(vault) /\ vault.capacity \in Int
    /\ vault.data \in VaultData /\ vault.data.fee >= 0
    /\ \A p \in Positions : receipt[p] = None \/ LpCell(p, receipt[p])
    /\ \A r \in Requests : request[r] = None \/ RequestCell(r, request[r])

LEMMA LiveReceipt ==
    ASSUME NEW p, NEW c, LpCell(p, c)
    PROVE  /\ c # None /\ c.kind = "receipt" /\ c.id = p /\ c.lock = LpLock[p]
           /\ c.capacity = CellBond /\ c.lock # "vault"
           /\ c.data.supplied \in Nat /\ c.data.available \in Nat
           /\ c.data.claimed \in Nat
  BY ChainAssumption DEF LpCell, ReceiptCells

LEMMA LiveRequest ==
    ASSUME NEW r, NEW c, RequestCell(r, c)
    PROVE  /\ c # None /\ c.kind = "request" /\ c.id = r /\ c.lock = Operator
           /\ c.capacity = CellBond /\ c.lock # "vault"
           /\ c.data.amount \in Nat /\ c.data.fee \in Nat
  BY ChainAssumption DEF RequestCell, RequestCells

LEMMA OnlyIs == ASSUME NEW c PROVE Only({c}) = c
  BY DEF Only

\* What a commit leaves of each kind of cell.
LEMMA CommitStep ==
    ASSUME Shaped, NEW h, NEW tx, Commit(h, tx)
    PROVE  /\ \A v : Group(tx.out, "vault", "vault") = {v} => vault' = v
           /\ \A p \in Positions :
                 /\ \A c : Group(tx.out, "receipt", p) = {c} => receipt'[p] = c
                 /\ /\ Group(tx.out, "receipt", p) = {}
                    /\ Group(tx.in, "receipt", p) = {}
                    => receipt'[p] = receipt[p]
                 /\ /\ Group(tx.out, "receipt", p) = {}
                    /\ receipt[p] \in tx.in
                    => receipt'[p] = None
           /\ \A r \in Requests :
                 /\ \A c : Group(tx.out, "request", r) = {c} => request'[r] = c
                 /\ /\ Group(tx.out, "request", r) = {}
                    /\ Group(tx.in, "request", r) = {}
                    => request'[r] = request[r]
  <1>1. /\ vault' = NextCell(tx, "vault", "vault", vault)
        /\ \A p \in Positions :
              receipt'[p] = NextCell(tx, "receipt", p, receipt[p])
        /\ \A r \in Requests :
              request'[r] = NextCell(tx, "request", r, request[r])
    BY DEF Commit
  <1>2. ASSUME NEW v, Group(tx.out, "vault", "vault") = {v} PROVE vault' = v
    <2>1. Only(Group(tx.out, "vault", "vault")) = v
      BY <1>2, OnlyIs
    <2> QED
      BY <1>1, <1>2, <2>1 DEF NextCell
  <1>3. ASSUME NEW p \in Positions
        PROVE  /\ \A c : Group(tx.out, "receipt", p) = {c} => receipt'[p] = c
               /\ /\ Group(tx.out, "receipt", p) = {}
                  /\ Group(tx.in, "receipt", p) = {}
                  => receipt'[p] = receipt[p]
               /\ /\ Group(tx.out, "receipt", p) = {}
                  /\ receipt[p] \in tx.in
                  => receipt'[p] = None
    <2>1. \/ receipt[p] = None
          \/ /\ receipt[p].kind = "receipt" /\ receipt[p].id = p
      BY LiveReceipt DEF Shaped
    <2>2. \A c : Group(tx.out, "receipt", p) = {c} =>
                   Only(Group(tx.out, "receipt", p)) = c
      BY OnlyIs
    <2>3. receipt'[p] = NextCell(tx, "receipt", p, receipt[p])
      BY <1>1
    <2>4. \A c : Group(tx.out, "receipt", p) = {c} => receipt'[p] = c
      BY <2>2, <2>3 DEF NextCell
    <2>5. \/ receipt[p] = None
          \/ Group(tx.in, "receipt", p) # {}
          \/ receipt[p] \notin tx.in
      BY <2>1 DEF Group
    <2> QED
      BY <2>3, <2>4, <2>5 DEF NextCell
  <1>4. ASSUME NEW r \in Requests
        PROVE  /\ \A c : Group(tx.out, "request", r) = {c} => request'[r] = c
               /\ /\ Group(tx.out, "request", r) = {}
                  /\ Group(tx.in, "request", r) = {}
                  => request'[r] = request[r]
    <2>1. \/ request[r] = None
          \/ /\ request[r].kind = "request" /\ request[r].id = r
      BY LiveRequest DEF Shaped
    <2>2. \A c : Group(tx.out, "request", r) = {c} =>
                   Only(Group(tx.out, "request", r)) = c
      BY OnlyIs
    <2>3. request'[r] = NextCell(tx, "request", r, request[r])
      BY <1>1
    <2>4. \A c : Group(tx.out, "request", r) = {c} => request'[r] = c
      BY <2>2, <2>3 DEF NextCell
    <2>5. \/ request[r] = None
          \/ Group(tx.in, "request", r) # {}
          \/ request[r] \notin tx.in
      BY <2>1 DEF Group
    <2> QED
      BY <2>3, <2>4, <2>5 DEF NextCell
  <1> QED
    BY <1>2, <1>3, <1>4

\* What a transaction makes of the vault cell.
NextVault(v, capacity, d) ==
    /\ IsVault(v) /\ v.lock = "vault"
    /\ v.capacity = vault.capacity + capacity /\ v.data = d

LEMMA MovedVault ==
    ASSUME NEW h, NEW capacity, NEW d
    PROVE  NextVault(VaultMoved(h, capacity, d), capacity, d)
  BY DEF NextVault, VaultMoved, VaultCell, IsVault

----------------------------------------------------------------------------
(***************************************************************************)
(* The cells of each transaction.                                          *)
(***************************************************************************)
Minted(p, a) ==
    TypedCell("receipt", p, LpLock[p], <<"supply", p>>,
       [supplied |-> a, available |-> a, reserved |-> 0, deployed |-> 0,
        claimed |-> 0])

\* The vault's data after a supply.
MoreTotal(d, a) == [d EXCEPT !.total = @ + a]

LEMMA SupplyCells ==
    ASSUME Shaped, NEW p \in Positions, NEW a \in Amounts
    PROVE  \E v, c, w :
              /\ SupplyTx(p, a).in = {vault, w}
              /\ SupplyTx(p, a).out = {v, c}
              /\ w.kind = "plain" /\ w.lock = LpLock[p]
              /\ w.capacity = a + CellBond
              /\ NextVault(v, a, MoreTotal(vault.data, a))
              /\ LpCell(p, c) /\ c.data = Minted(p, a).data
  <1> DEFINE h == <<"supply", p>>
             v == VaultMoved(h, a, MoreTotal(vault.data, a))
             c == Minted(p, a)
             w == Wallet(LpLock[p], a + CellBond)
  <1>1. SupplyTx(p, a).in = {vault, w} /\ SupplyTx(p, a).out = {v, c}
    BY DEF SupplyTx, Minted, MoreTotal
  <1>2. /\ w.kind = "plain" /\ w.lock = LpLock[p]
        /\ w.capacity = a + CellBond
    BY DEF Wallet, PlainCell
  <1>3. LpCell(p, c)
    <2>1. a \in Nat /\ a > 0 /\ LpLock[p] \in STRING /\ h \in Hashes
      BY ChainAssumption DEF Hashes
    <2> QED
      BY <2>1 DEF LpCell, ReceiptCells, Minted, TypedCell
  <1>4. NextVault(v, a, MoreTotal(vault.data, a))
    BY MovedVault
  <1> QED
    BY <1>1, <1>2, <1>3, <1>4

LEMMA SupplyStep ==
    ASSUME Shaped, NEW p \in Positions, NEW a \in Amounts, MineSupply(p, a)
    PROVE  /\ NextVault(vault', a, MoreTotal(vault.data, a))
           /\ LpCell(p, receipt'[p]) /\ receipt'[p].data = Minted(p, a).data
           /\ \A q \in Positions \ {p} : receipt'[q] = receipt[q]
           /\ \A r \in Requests : request'[r] = request[r]
  <1> DEFINE tx == SupplyTx(p, a)
  <1>1. Commit(<<"supply", p>>, tx)
    BY DEF MineSupply
  <1>2. PICK v, c, w :
              /\ tx.in = {vault, w} /\ tx.out = {v, c}
              /\ w.kind = "plain" /\ w.lock = LpLock[p]
              /\ w.capacity = a + CellBond
              /\ NextVault(v, a, MoreTotal(vault.data, a))
              /\ LpCell(p, c) /\ c.data = Minted(p, a).data
    BY SupplyCells
  <1>3. /\ vault.kind = "vault" /\ v.kind = "vault" /\ v.id = "vault"
        /\ c.kind = "receipt" /\ c.id = p
    BY <1>2, LiveReceipt DEF Shaped, IsVault, NextVault
  <1> HIDE DEF tx
  <1>4. Group(tx.out, "vault", "vault") = {v}
    BY <1>2, <1>3 DEF Group
  <1>5. Group(tx.out, "receipt", p) = {c}
    BY <1>2, <1>3 DEF Group
  <1>6. \A q \in Positions \ {p} :
           Group(tx.out, "receipt", q) = {} /\ Group(tx.in, "receipt", q) = {}
    BY <1>2, <1>3 DEF Group
  <1>7. \A r \in Requests :
           Group(tx.out, "request", r) = {} /\ Group(tx.in, "request", r) = {}
    BY <1>2, <1>3 DEF Group
  <1>8. vault' = v /\ receipt'[p] = c
    BY <1>1, <1>4, <1>5, CommitStep
  <1>9. /\ \A q \in Positions \ {p} : receipt'[q] = receipt[q]
        /\ \A r \in Requests : request'[r] = request[r]
    BY <1>1, <1>6, <1>7, CommitStep
  <1> QED
    BY <1>2, <1>8, <1>9

ReceiptData == [supplied : Nat, available : Nat, reserved : Nat,
                deployed : Nat, claimed : Nat]
LessTotal(d, a) == [d EXCEPT !.total = @ - a]
Left(d, a) == [d EXCEPT !.supplied = @ - a, !.available = @ - a]

LEMMA LeftData ==
    ASSUME NEW d \in ReceiptData, NEW a \in Nat,
           d.supplied >= a, d.available >= a, NEW e, e = Left(d, a)
    PROVE  /\ e \in ReceiptData
           /\ e.supplied = d.supplied - a /\ e.available = d.available - a
           /\ e.reserved = d.reserved /\ e.deployed = d.deployed
           /\ e.claimed = d.claimed
  <1> DEFINE m == [d EXCEPT !.supplied = d.supplied - a]
  <1>1. e = [m EXCEPT !.available = d.available - a]
    BY DEF Left
  <1>2. /\ m \in ReceiptData /\ m.supplied = d.supplied - a
        /\ m.reserved = d.reserved /\ m.deployed = d.deployed
        /\ m.claimed = d.claimed
    BY DEF ReceiptData
  <1>3. d.available - a \in Nat
    BY DEF ReceiptData
  <1> HIDE DEF m
  <1> QED
    BY <1>1, <1>2, <1>3 DEF ReceiptData

LEMMA WithdrawCells ==
    ASSUME Shaped, NEW w \in Withdrawals, NEW a \in Amounts,
           NEW p, p = WithdrawnFrom[w],
           receipt[p] # None, receipt[p].data.available >= a
    PROVE  /\ p \in Positions /\ LpCell(p, receipt[p])
           /\ WithdrawTx(w, a).in = {vault, receipt[p]}
           /\ \E v, u :
                 /\ NextVault(v, -a, LessTotal(vault.data, a))
                 /\ u.kind = "plain" /\ u.lock = LpLock[p]
                 /\ \/ /\ receipt[p].data.supplied = a
                       /\ WithdrawTx(w, a).out = {v, u}
                       /\ u.capacity = a + CellBond
                    \/ /\ receipt[p].data.supplied # a
                       /\ u.capacity = a
                       /\ \E c : /\ WithdrawTx(w, a).out = {v, u, c}
                                 /\ LpCell(p, c)
                                 /\ c.data = Left(receipt[p].data, a)
  <1> DEFINE h == <<"withdraw", w>>
             v == VaultMoved(h, -a, LessTotal(vault.data, a))
             left == Left(receipt[p].data, a)
             burn == left.supplied = 0
             u == PlainCell(LpLock[p], h, IF burn THEN a + CellBond ELSE a)
             c == TypedCell("receipt", p, LpLock[p], h, left)
  <1>1. p \in Positions /\ LpCell(p, receipt[p])
    BY ChainAssumption DEF Shaped
  <1>2. /\ WithdrawTx(w, a).in = {vault, receipt[p]}
        /\ WithdrawTx(w, a).out = {v, u} \cup IF burn THEN {} ELSE {c}
    BY DEF WithdrawTx, Left, LessTotal
  <1>3. /\ left \in ReceiptData
        /\ left.supplied = receipt[p].data.supplied - a
        /\ left.available = receipt[p].data.available - a
        /\ left.reserved = 0 /\ left.deployed = 0
    <2>1. /\ receipt[p].data \in ReceiptData /\ a \in Nat
          /\ receipt[p].data.supplied >= a /\ receipt[p].data.available >= a
          /\ receipt[p].data.reserved = 0 /\ receipt[p].data.deployed = 0
      BY <1>1, ChainAssumption DEF LpCell, ReceiptCells, ReceiptData
    <2> QED
      BY <2>1, LeftData
  <1>4. /\ u.kind = "plain" /\ u.lock = LpLock[p]
        /\ u.capacity = IF burn THEN a + CellBond ELSE a
    BY DEF PlainCell
  <1>5. NextVault(v, -a, LessTotal(vault.data, a))
    BY MovedVault
  <1>6. /\ receipt[p].data.supplied \in Nat /\ a \in Nat
        /\ receipt[p].data.supplied = receipt[p].data.available
    BY <1>1, ChainAssumption DEF LpCell, ReceiptCells
  <1>7. /\ c.kind = "receipt" /\ c.id = p /\ c.lock = LpLock[p]
        /\ c.data = left
    BY DEF TypedCell
  <1>8. ASSUME ~burn PROVE LpCell(p, c)
    <2>1. LpLock[p] \in STRING /\ h \in Hashes
      BY <1>1, ChainAssumption DEF Hashes
    <2>2. c \in ReceiptCells
      <3> HIDE DEF left, h
      <3> QED
        BY <1>1, <1>3, <2>1 DEF ReceiptCells, ReceiptData, TypedCell
    <2>3. left.supplied > 0
      BY <1>3, <1>8 DEF ReceiptData
    <2> HIDE DEF left, c
    <2> QED
      BY <1>3, <1>6, <1>7, <2>2, <2>3 DEF LpCell
  <1>9. CASE burn
    <2>1. receipt[p].data.supplied = a /\ u.capacity = a + CellBond
      BY <1>3, <1>4, <1>6, <1>9
    <2>2. WithdrawTx(w, a).out = {v, u}
      BY <1>2, <1>9
    <2>3. WithdrawTx(w, a).in = {vault, receipt[p]}
      BY <1>2
    <2> HIDE DEF h, v, left, u, c
    <2> QED
      BY <1>1, <1>4, <1>5, <2>1, <2>2, <2>3
  <1>10. CASE ~burn
    <2>1. receipt[p].data.supplied # a /\ u.capacity = a
      BY <1>3, <1>4, <1>6, <1>10
    <2>2. WithdrawTx(w, a).out = {v, u, c}
      BY <1>2, <1>10
    <2> QED
      BY <1>1, <1>2, <1>4, <1>5, <1>7, <1>8, <1>10, <2>1, <2>2
  <1> QED
    BY <1>9, <1>10

LEMMA WithdrawStep ==
    ASSUME Shaped, NEW w \in Withdrawals, NEW a \in Amounts,
           MineWithdraw(w, a), NEW p, p = WithdrawnFrom[w]
    PROVE  /\ p \in Positions /\ LpCell(p, receipt[p])
           /\ receipt[p].data.available >= a
           /\ NextVault(vault', -a, LessTotal(vault.data, a))
           /\ \/ receipt[p].data.supplied = a /\ receipt'[p] = None
              \/ /\ LpCell(p, receipt'[p])
                 /\ receipt'[p].data = Left(receipt[p].data, a)
           /\ \A q \in Positions \ {p} : receipt'[q] = receipt[q]
           /\ \A r \in Requests : request'[r] = request[r]
  <1> DEFINE tx == WithdrawTx(w, a)
  <1>1. /\ Commit(<<"withdraw", w>>, tx)
        /\ receipt[p] # None /\ receipt[p].data.available >= a
    BY DEF MineWithdraw
  <1>2. /\ p \in Positions /\ LpCell(p, receipt[p])
        /\ tx.in = {vault, receipt[p]}
    BY <1>1, WithdrawCells
  <1>3. PICK v, u :
              /\ NextVault(v, -a, LessTotal(vault.data, a))
              /\ u.kind = "plain" /\ u.lock = LpLock[p]
              /\ \/ /\ receipt[p].data.supplied = a
                    /\ tx.out = {v, u}
                    /\ u.capacity = a + CellBond
                 \/ /\ receipt[p].data.supplied # a
                    /\ u.capacity = a
                    /\ \E c : /\ tx.out = {v, u, c}
                              /\ LpCell(p, c)
                              /\ c.data = Left(receipt[p].data, a)
    BY <1>1, WithdrawCells
  <1>4. /\ vault.kind = "vault" /\ v.kind = "vault" /\ v.id = "vault"
        /\ receipt[p].kind = "receipt" /\ receipt[p].id = p
        /\ \A c : LpCell(p, c) => c.kind = "receipt" /\ c.id = p
    BY <1>2, <1>3, LiveReceipt DEF Shaped, IsVault, NextVault
  <1> HIDE DEF tx
  <1>5. Group(tx.out, "vault", "vault") = {v}
    BY <1>3, <1>4 DEF Group
  <1>6. \A q \in Positions \ {p} :
           Group(tx.out, "receipt", q) = {} /\ Group(tx.in, "receipt", q) = {}
    BY <1>2, <1>3, <1>4 DEF Group
  <1>7. \A r \in Requests :
           Group(tx.out, "request", r) = {} /\ Group(tx.in, "request", r) = {}
    BY <1>2, <1>3, <1>4 DEF Group
  <1>8. vault' = v
    BY <1>1, <1>5, CommitStep
  <1>9. /\ \A q \in Positions \ {p} : receipt'[q] = receipt[q]
        /\ \A r \in Requests : request'[r] = request[r]
    BY <1>1, <1>6, <1>7, CommitStep
  <1>10. CASE receipt[p].data.supplied = a
    <2>1. Group(tx.out, "receipt", p) = {} /\ receipt[p] \in tx.in
      BY <1>2, <1>3, <1>4, <1>10 DEF Group
    <2>2. receipt'[p] = None
      BY <1>1, <1>2, <2>1, CommitStep
    <2> QED
      BY <1>1, <1>2, <1>3, <1>8, <1>9, <1>10, <2>2
  <1>11. CASE receipt[p].data.supplied # a
    <2>1. PICK c : /\ tx.out = {v, u, c}
                   /\ LpCell(p, c)
                   /\ c.data = Left(receipt[p].data, a)
      BY <1>3, <1>11
    <2>2. Group(tx.out, "receipt", p) = {c}
      BY <1>3, <1>4, <2>1 DEF Group
    <2>3. receipt'[p] = c
      BY <1>1, <1>2, <2>2, CommitStep
    <2> QED
      BY <1>1, <1>2, <1>3, <1>8, <1>9, <2>1, <2>3
  <1> QED
    BY <1>10, <1>11

LessFee(d, a) == [d EXCEPT !.fee = @ - a]
MoreClaimed(d, a) == [d EXCEPT !.claimed = @ + a]

LEMMA MoreClaimedData ==
    ASSUME NEW d \in ReceiptData, NEW a \in Nat, NEW e, e = MoreClaimed(d, a)
    PROVE  /\ e \in ReceiptData
           /\ e.supplied = d.supplied /\ e.available = d.available
           /\ e.reserved = d.reserved /\ e.deployed = d.deployed
           /\ e.claimed = d.claimed + a
  <1>1. d.claimed + a \in Nat
    BY DEF ReceiptData
  <1> QED
    BY <1>1 DEF MoreClaimed, ReceiptData

LEMMA ClaimCells ==
    ASSUME Shaped, NEW k \in Claims, NEW a \in Amounts \cup Fees,
           NEW p, p = ReceiptOf[k], receipt[p] # None
    PROVE  /\ p \in Positions /\ LpCell(p, receipt[p])
           /\ \E v, c, f, u, w :
                 /\ ClaimTx(k, a).in = {vault, receipt[p], w}
                 /\ ClaimTx(k, a).out = {v, c, f, u}
                 /\ w.kind = "plain" /\ w.lock = LpLock[p]
                 /\ w.capacity = CellBond
                 /\ NextVault(v, -a, LessFee(vault.data, a))
                 /\ LpCell(p, c) /\ c.data = MoreClaimed(receipt[p].data, a)
                 /\ f.kind = "claim" /\ f.id = k /\ f.lock = LpLock[p]
                 /\ f.capacity = CellBond
                 /\ f.data = [status |-> "pending", amount |-> a]
                 /\ u.kind = "plain" /\ u.lock = LpLock[p] /\ u.capacity = a
  <1> DEFINE h == <<"claim", k>>
             v == VaultMoved(h, -a, LessFee(vault.data, a))
             data == MoreClaimed(receipt[p].data, a)
             c == TypedCell("receipt", p, LpLock[p], h, data)
             f == TypedCell("claim", k, LpLock[p], h,
                     [status |-> "pending", amount |-> a])
             u == PlainCell(LpLock[p], h, a)
             w == Wallet(LpLock[p], CellBond)
  <1>1. p \in Positions /\ LpCell(p, receipt[p])
    BY ChainAssumption DEF Shaped
  <1>2. /\ ClaimTx(k, a).in = {vault, receipt[p], w}
        /\ ClaimTx(k, a).out = {v, c, f, u}
    BY DEF ClaimTx, LessFee, MoreClaimed
  <1>3. /\ w.kind = "plain" /\ w.lock = LpLock[p] /\ w.capacity = CellBond
        /\ f.kind = "claim" /\ f.id = k /\ f.lock = LpLock[p]
        /\ f.capacity = CellBond
        /\ f.data = [status |-> "pending", amount |-> a]
        /\ u.kind = "plain" /\ u.lock = LpLock[p] /\ u.capacity = a
    BY DEF Wallet, PlainCell, TypedCell
  <1>4. NextVault(v, -a, LessFee(vault.data, a))
    BY MovedVault
  <1>5. /\ c.kind = "receipt" /\ c.id = p /\ c.lock = LpLock[p]
        /\ c.data = data
    BY DEF TypedCell
  <1>6. LpCell(p, c)
    <2>1. /\ receipt[p].data \in ReceiptData /\ a \in Nat
          /\ LpLock[p] \in STRING /\ h \in Hashes
      BY <1>1, ChainAssumption
         DEF Hashes, LpCell, ReceiptCells, ReceiptData
    <2>2. /\ data \in ReceiptData
          /\ data.supplied = receipt[p].data.supplied
          /\ data.available = receipt[p].data.available
          /\ data.reserved = receipt[p].data.reserved
          /\ data.deployed = receipt[p].data.deployed
      <3>1. data = MoreClaimed(receipt[p].data, a)
        OBVIOUS
      <3> HIDE DEF data
      <3> QED
        BY <2>1, <3>1, MoreClaimedData
    <2>3. c \in ReceiptCells
      <3> HIDE DEF data, h
      <3> QED
        BY <1>1, <2>1, <2>2 DEF ReceiptCells, ReceiptData, TypedCell
    <2> HIDE DEF data, c
    <2> QED
      BY <1>1, <1>5, <2>2, <2>3 DEF LpCell
  <1> HIDE DEF v, c, f, u, w
  <1> QED
    BY <1>1, <1>2, <1>3, <1>4, <1>5, <1>6

LEMMA ClaimStep ==
    ASSUME Shaped, NEW k \in Claims, NEW a \in Amounts \cup Fees,
           MineClaim(k, a), NEW p, p = ReceiptOf[k]
    PROVE  /\ p \in Positions /\ LpCell(p, receipt[p])
           /\ vault.data.fee >= a
           /\ NextVault(vault', -a, LessFee(vault.data, a))
           /\ LpCell(p, receipt'[p])
           /\ receipt'[p].data = MoreClaimed(receipt[p].data, a)
           /\ \A q \in Positions \ {p} : receipt'[q] = receipt[q]
           /\ \A r \in Requests : request'[r] = request[r]
  <1> DEFINE tx == ClaimTx(k, a)
  <1>1. /\ Commit(<<"claim", k>>, tx)
        /\ receipt[p] # None /\ vault.data.fee >= a
    BY DEF MineClaim
  <1>2. p \in Positions /\ LpCell(p, receipt[p])
    BY <1>1, ClaimCells
  <1>3. PICK v, c, f, u, w :
              /\ tx.in = {vault, receipt[p], w}
              /\ tx.out = {v, c, f, u}
              /\ w.kind = "plain" /\ w.lock = LpLock[p]
              /\ w.capacity = CellBond
              /\ NextVault(v, -a, LessFee(vault.data, a))
              /\ LpCell(p, c) /\ c.data = MoreClaimed(receipt[p].data, a)
              /\ f.kind = "claim" /\ f.id = k /\ f.lock = LpLock[p]
              /\ f.capacity = CellBond
              /\ f.data = [status |-> "pending", amount |-> a]
              /\ u.kind = "plain" /\ u.lock = LpLock[p] /\ u.capacity = a
    BY SMTT(30), <1>1, ClaimCells
  <1>4. /\ vault.kind = "vault" /\ v.kind = "vault" /\ v.id = "vault"
        /\ receipt[p].kind = "receipt" /\ receipt[p].id = p
        /\ c.kind = "receipt" /\ c.id = p
    BY <1>2, <1>3, LiveReceipt DEF Shaped, IsVault, NextVault
  <1> HIDE DEF tx
  <1>5. /\ Group(tx.out, "vault", "vault") = {v}
        /\ Group(tx.out, "receipt", p) = {c}
    BY <1>3, <1>4 DEF Group
  <1>6. \A q \in Positions \ {p} :
           Group(tx.out, "receipt", q) = {} /\ Group(tx.in, "receipt", q) = {}
    BY <1>3, <1>4 DEF Group
  <1>7. \A r \in Requests :
           Group(tx.out, "request", r) = {} /\ Group(tx.in, "request", r) = {}
    BY <1>3, <1>4 DEF Group
  <1>8. vault' = v /\ receipt'[p] = c
    BY <1>1, <1>2, <1>5, CommitStep
  <1>9. /\ \A q \in Positions \ {p} : receipt'[q] = receipt[q]
        /\ \A r \in Requests : request'[r] = request[r]
    BY <1>1, <1>6, <1>7, CommitStep
  <1> QED
    BY <1>1, <1>2, <1>3, <1>8, <1>9

NewRequestData(a, f) == [status |-> "reserved", amount |-> a, fee |-> f]

LEMMA RequestTxCells ==
    ASSUME Shaped, NEW r \in Requests, NEW a \in Amounts, NEW f \in Fees
    PROVE  \E v, q, u, w :
              /\ RequestTx(r, a, f).in = {vault, w}
              /\ RequestTx(r, a, f).out = {v, q, u}
              /\ w.kind = "plain" /\ w.lock = MerchantLock[r]
              /\ w.capacity = f + CellBond + ReservePay
              /\ NextVault(v, f, AfterReserve(vault.data, a, f))
              /\ RequestCell(r, q) /\ q.data = NewRequestData(a, f)
              /\ u.kind = "plain" /\ u.lock = "receiver"
              /\ u.capacity = ReservePay
  <1> DEFINE h == <<"request", r>>
             v == VaultMoved(h, f, AfterReserve(vault.data, a, f))
             q == TypedCell("request", r, Operator, h, NewRequestData(a, f))
             u == PlainCell("receiver", h, ReservePay)
             w == Wallet(MerchantLock[r], f + CellBond + ReservePay)
  <1>1. RequestTx(r, a, f).in = {vault, w} /\ RequestTx(r, a, f).out = {v, q, u}
    BY DEF RequestTx, AfterReserve, NewRequestData
  <1>2. /\ w.kind = "plain" /\ w.lock = MerchantLock[r]
        /\ w.capacity = f + CellBond + ReservePay
        /\ u.kind = "plain" /\ u.lock = "receiver" /\ u.capacity = ReservePay
        /\ q.data = NewRequestData(a, f)
    BY DEF Wallet, PlainCell, TypedCell
  <1>3. NextVault(v, f, AfterReserve(vault.data, a, f))
    BY MovedVault
  <1>4. RequestCell(r, q)
    <2>1. /\ a \in Nat /\ a > 0 /\ f \in Nat /\ f > 0 /\ Operator \in STRING
          /\ h \in Hashes
      BY ChainAssumption DEF Hashes
    <2> QED
      BY <2>1 DEF RequestCell, RequestCells, TypedCell, NewRequestData,
                  RequestStatuses
  <1> HIDE DEF v, q, u, w
  <1> QED
    BY <1>1, <1>2, <1>3, <1>4

LEMMA RequestStep ==
    ASSUME Shaped, NEW r \in Requests, NEW a \in Amounts, NEW f \in Fees,
           MineRequest(r, a, f)
    PROVE  /\ request[r] = None
           /\ NextVault(vault', f, AfterReserve(vault.data, a, f))
           /\ RequestCell(r, request'[r])
           /\ request'[r].data = NewRequestData(a, f)
           /\ \A q \in Requests \ {r} : request'[q] = request[q]
           /\ \A p \in Positions : receipt'[p] = receipt[p]
  <1> DEFINE tx == RequestTx(r, a, f)
  <1>1. Commit(<<"request", r>>, tx) /\ request[r] = None
    BY DEF MineRequest
  <1>2. PICK v, c, u, w :
              /\ tx.in = {vault, w} /\ tx.out = {v, c, u}
              /\ w.kind = "plain"
              /\ NextVault(v, f, AfterReserve(vault.data, a, f))
              /\ RequestCell(r, c) /\ c.data = NewRequestData(a, f)
              /\ u.kind = "plain"
    BY RequestTxCells
  <1>3. /\ vault.kind = "vault" /\ v.kind = "vault" /\ v.id = "vault"
        /\ c.kind = "request" /\ c.id = r
    BY <1>2, LiveRequest DEF Shaped, IsVault, NextVault
  <1> HIDE DEF tx
  <1>4. /\ Group(tx.out, "vault", "vault") = {v}
        /\ Group(tx.out, "request", r) = {c}
    BY <1>2, <1>3 DEF Group
  <1>5. \A q \in Requests \ {r} :
           Group(tx.out, "request", q) = {} /\ Group(tx.in, "request", q) = {}
    BY <1>2, <1>3 DEF Group
  <1>6. \A p \in Positions :
           Group(tx.out, "receipt", p) = {} /\ Group(tx.in, "receipt", p) = {}
    BY <1>2, <1>3 DEF Group
  <1>7. vault' = v /\ request'[r] = c
    BY <1>1, <1>4, CommitStep
  <1>8. /\ \A q \in Requests \ {r} : request'[q] = request[q]
        /\ \A p \in Positions : receipt'[p] = receipt[p]
    BY <1>1, <1>5, <1>6, CommitStep
  <1> QED
    BY <1>1, <1>2, <1>7, <1>8

LEMMA FundCells ==
    ASSUME Shaped, NEW r \in Requests, request[r] # None,
           NEW a, a = request[r].data.amount
    PROVE  /\ RequestCell(r, request[r]) /\ a \in Nat /\ a > 0
           /\ \E v, q, u :
                 /\ FundTx(r).in = {vault, request[r]}
                 /\ FundTx(r).out = {u, v, q}
                 /\ NextVault(v, -a, AfterFund(vault.data, a))
                 /\ RequestCell(r, q)
                 /\ q.data.status = "deployed" /\ q.data.amount = a
                 /\ q.data.fee = request[r].data.fee
                 /\ u.kind = "plain" /\ u.lock = "channel" /\ u.capacity = a
  <1> DEFINE h == <<"fund", r>>
             v == VaultMoved(h, -a, AfterFund(vault.data, a))
             q == NextRequestCell(h, r)
             u == FundingCell(h, a)
  <1>1. RequestCell(r, request[r])
    BY DEF Shaped
  <1>2. a \in Nat /\ a > 0 /\ h \in Hashes
    BY <1>1 DEF RequestCell, RequestCells, Hashes
  <1>3. FundTx(r).in = {vault, request[r]} /\ FundTx(r).out = {u, v, q}
    BY DEF FundTx, NextVaultCell, AfterFund
  <1>4. u.kind = "plain" /\ u.lock = "channel" /\ u.capacity = a
    BY DEF FundingCell, PlainCell
  <1>5. NextVault(v, -a, AfterFund(vault.data, a))
    BY MovedVault
  <1>6. /\ RequestCell(r, q)
        /\ q.data.status = "deployed" /\ q.data.amount = a
        /\ q.data.fee = request[r].data.fee
    BY <1>1, <1>2 DEF NextRequestCell, RequestCell, RequestCells, RequestStatuses
  <1> HIDE DEF v, q, u
  <1> QED
    BY <1>1, <1>2, <1>3, <1>4, <1>5, <1>6

LEMMA FundStep ==
    ASSUME Shaped, NEW r \in Requests, MineFund(r),
           NEW a, a = request[r].data.amount
    PROVE  /\ RequestCell(r, request[r]) /\ a \in Nat /\ a > 0
           /\ NextVault(vault', -a, AfterFund(vault.data, a))
           /\ RequestCell(r, request'[r])
           /\ request'[r].data.status = "deployed"
           /\ request'[r].data.amount = a
           /\ request'[r].data.fee = request[r].data.fee
           /\ \A q \in Requests \ {r} : request'[q] = request[q]
           /\ \A p \in Positions : receipt'[p] = receipt[p]
  <1> DEFINE tx == FundTx(r)
  <1>1. Commit(<<"fund", r>>, tx) /\ request[r] # None
    BY DEF MineFund, Fundable
  <1>2. RequestCell(r, request[r]) /\ a \in Nat /\ a > 0
    BY <1>1, FundCells
  <1>3. PICK v, c, u :
              /\ tx.in = {vault, request[r]} /\ tx.out = {u, v, c}
              /\ NextVault(v, -a, AfterFund(vault.data, a))
              /\ RequestCell(r, c)
              /\ c.data.status = "deployed" /\ c.data.amount = a
              /\ c.data.fee = request[r].data.fee
              /\ u.kind = "plain"
    BY <1>1, FundCells
  <1>4. /\ vault.kind = "vault" /\ v.kind = "vault" /\ v.id = "vault"
        /\ request[r].kind = "request" /\ request[r].id = r
        /\ c.kind = "request" /\ c.id = r
    BY <1>2, <1>3, LiveRequest DEF Shaped, IsVault, NextVault
  <1> HIDE DEF tx
  <1>5. /\ Group(tx.out, "vault", "vault") = {v}
        /\ Group(tx.out, "request", r) = {c}
    BY <1>3, <1>4 DEF Group
  <1>6. \A q \in Requests \ {r} :
           Group(tx.out, "request", q) = {} /\ Group(tx.in, "request", q) = {}
    BY <1>3, <1>4 DEF Group
  <1>7. \A p \in Positions :
           Group(tx.out, "receipt", p) = {} /\ Group(tx.in, "receipt", p) = {}
    BY <1>3, <1>4 DEF Group
  <1>8. vault' = v /\ request'[r] = c
    BY <1>1, <1>5, CommitStep
  <1>9. /\ \A q \in Requests \ {r} : request'[q] = request[q]
        /\ \A p \in Positions : receipt'[p] = receipt[p]
    BY <1>1, <1>6, <1>7, CommitStep
  <1> QED
    BY <1>1, <1>2, <1>3, <1>8, <1>9

----------------------------------------------------------------------------
(***************************************************************************)
(* The vault's totals are sums over the live cells: every transaction      *)
(* changes both alike.                                                     *)
(***************************************************************************)
Supplied(c) == IF c = None THEN 0 ELSE c.data.supplied
Amount(c, status) ==
    IF c # None /\ c.data.status = status THEN c.data.amount ELSE 0
SuppliedIn == [p \in Positions |-> Supplied(receipt[p])]
AmountIn(status) == [r \in Requests |-> Amount(request[r], status)]

Agreed ==
    /\ vault.data.total = SumFunctionOnSet(SuppliedIn, Positions)
    /\ vault.data.reserved = SumFunctionOnSet(AmountIn("reserved"), Requests)
    /\ vault.data.deployed = SumFunctionOnSet(AmountIn("deployed"), Requests)

LEMMA SuppliedType ==
    ASSUME Shaped PROVE \A p \in Positions : Supplied(receipt[p]) \in Nat
  BY LiveReceipt DEF Shaped, Supplied

LEMMA AmountType ==
    ASSUME Shaped, NEW status
    PROVE  \A r \in Requests : Amount(request[r], status) \in Nat
  BY LiveRequest DEF Shaped, Amount

\* One receipt more, less or other.
LEMMA SuppliedChange ==
    ASSUME Shaped, NEW p \in Positions, Supplied(receipt'[p]) \in Nat,
           \A q \in Positions \ {p} : receipt'[q] = receipt[q]
    PROVE  SumFunctionOnSet(SuppliedIn', Positions)
              = SumFunctionOnSet(SuppliedIn, Positions)
                  - Supplied(receipt[p]) + Supplied(receipt'[p])
  <1> DEFINE f == SuppliedIn
             g == SuppliedIn'
  <1>1. \A q \in Positions : f[q] = Supplied(receipt[q]) /\ f[q] \in Int
    BY SuppliedType DEF SuppliedIn
  <1>2. \A q \in Positions : g[q] = Supplied(receipt'[q])
    BY DEF SuppliedIn
  <1>3. \A q \in Positions \ {p} : g[q] = f[q]
    BY <1>1, <1>2
  <1>4. \A q \in Positions : g[q] \in Int
    BY <1>1, <1>2, <1>3
  <1>5. IsFiniteSet(Positions)
    BY ChainAssumption
  <1> HIDE DEF f, g
  <1>6. SumFunctionOnSet(g, Positions)
           = SumFunctionOnSet(f, Positions) - f[p] + g[p]
    BY <1>1, <1>3, <1>4, <1>5, SumChange
  <1>7. f[p] = Supplied(receipt[p]) /\ g[p] = Supplied(receipt'[p])
    BY <1>1, <1>2
  <1> QED
    BY <1>6, <1>7 DEF f, g

LEMMA SuppliedSame ==
    ASSUME \A q \in Positions : receipt'[q] = receipt[q]
    PROVE  SuppliedIn' = SuppliedIn
  BY DEF SuppliedIn

LEMMA AmountChange ==
    ASSUME Shaped, NEW r \in Requests, NEW status,
           Amount(request'[r], status) \in Nat,
           \A q \in Requests \ {r} : request'[q] = request[q]
    PROVE  SumFunctionOnSet(AmountIn(status)', Requests)
              = SumFunctionOnSet(AmountIn(status), Requests)
                  - Amount(request[r], status) + Amount(request'[r], status)
  <1> DEFINE f == AmountIn(status)
             g == AmountIn(status)'
  <1>1. \A q \in Requests : f[q] = Amount(request[q], status) /\ f[q] \in Int
    BY AmountType DEF AmountIn
  <1>2. \A q \in Requests : g[q] = Amount(request'[q], status)
    BY DEF AmountIn
  <1>3. \A q \in Requests \ {r} : g[q] = f[q]
    BY <1>1, <1>2
  <1>4. \A q \in Requests : g[q] \in Int
    BY <1>1, <1>2, <1>3
  <1>5. IsFiniteSet(Requests)
    BY ChainAssumption
  <1> HIDE DEF f, g
  <1>6. SumFunctionOnSet(g, Requests)
           = SumFunctionOnSet(f, Requests) - f[r] + g[r]
    BY <1>1, <1>3, <1>4, <1>5, SumChange
  <1>7. f[r] = Amount(request[r], status) /\ g[r] = Amount(request'[r], status)
    BY <1>1, <1>2
  <1> QED
    BY <1>6, <1>7 DEF f, g

LEMMA AmountSame ==
    ASSUME \A q \in Requests : request'[q] = request[q], NEW status
    PROVE  AmountIn(status)' = AmountIn(status)
  BY DEF AmountIn

LEMMA TotalData ==
    ASSUME NEW d \in VaultData, NEW a \in Int, NEW e,
           e = MoreTotal(d, a) \/ e = LessTotal(d, -a)
    PROVE  /\ e \in VaultData /\ e.total = d.total + a
           /\ e.reserved = d.reserved /\ e.deployed = d.deployed
           /\ e.fee = d.fee
  BY DEF VaultData, MoreTotal, LessTotal

LEMMA FeeData ==
    ASSUME NEW d \in VaultData, NEW a \in Int, NEW e, e = LessFee(d, a)
    PROVE  /\ e \in VaultData /\ e.total = d.total
           /\ e.reserved = d.reserved /\ e.deployed = d.deployed
           /\ e.fee = d.fee - a
  BY DEF VaultData, LessFee

LEMMA SupplyAgrees ==
    ASSUME Shaped, Agreed, NEW p \in Positions, NEW a \in Amounts,
           MineSupply(p, a)
    PROVE  Shaped' /\ Agreed'
  <1> DEFINE d == MoreTotal(vault.data, a)
  <1>1. /\ NextVault(vault', a, d)
        /\ LpCell(p, receipt'[p]) /\ receipt'[p].data = Minted(p, a).data
        /\ \A q \in Positions \ {p} : receipt'[q] = receipt[q]
        /\ \A r \in Requests : request'[r] = request[r]
    BY SupplyStep
  <1>2. /\ receipt[p] = None /\ receipt'[p] # None
        /\ receipt'[p].data.supplied = a /\ a \in Nat
    BY <1>1, LiveReceipt, ChainAssumption DEF MineSupply, Minted, TypedCell
  <1>3. /\ d \in VaultData /\ d.total = vault.data.total + a
        /\ d.reserved = vault.data.reserved /\ d.deployed = vault.data.deployed
        /\ d.fee = vault.data.fee
    BY <1>2, TotalData DEF Shaped
  <1> HIDE DEF d
  <1>4. Shaped'
    BY <1>1, <1>2, <1>3 DEF Shaped, NextVault, IsVault
  <1>5. SumFunctionOnSet(SuppliedIn', Positions)
           = SumFunctionOnSet(SuppliedIn, Positions) - 0 + a
    BY <1>1, <1>2, SuppliedChange DEF Supplied
  <1>6. \A status : AmountIn(status)' = AmountIn(status)
    BY <1>1, AmountSame
  <1>7. Agreed'
    BY <1>1, <1>2, <1>3, <1>5, <1>6 DEF Agreed, NextVault, Shaped, VaultData
  <1> QED
    BY <1>4, <1>7

LEMMA WithdrawAgrees ==
    ASSUME Shaped, Agreed, NEW w \in Withdrawals, NEW a \in Amounts,
           MineWithdraw(w, a)
    PROVE  Shaped' /\ Agreed'
  <1> DEFINE p == WithdrawnFrom[w]
             d == LessTotal(vault.data, a)
  <1>1. /\ p \in Positions /\ LpCell(p, receipt[p])
        /\ receipt[p].data.available >= a
        /\ NextVault(vault', -a, d)
        /\ \/ receipt[p].data.supplied = a /\ receipt'[p] = None
           \/ /\ LpCell(p, receipt'[p])
              /\ receipt'[p].data = Left(receipt[p].data, a)
        /\ \A q \in Positions \ {p} : receipt'[q] = receipt[q]
        /\ \A r \in Requests : request'[r] = request[r]
    BY WithdrawStep
  <1>2. /\ a \in Nat /\ -a \in Int /\ receipt[p].data \in ReceiptData
        /\ receipt[p] # None
        /\ receipt[p].data.supplied = receipt[p].data.available
        /\ receipt[p].data.supplied \in Nat
    BY <1>1, LiveReceipt, ChainAssumption DEF LpCell, ReceiptCells, ReceiptData
  <1>3. /\ d \in VaultData /\ d.total = vault.data.total - a
        /\ d.reserved = vault.data.reserved /\ d.deployed = vault.data.deployed
        /\ d.fee = vault.data.fee
    <2>1. vault.data \in VaultData
      BY DEF Shaped
    <2> QED
      BY <1>2, <2>1 DEF VaultData, LessTotal
  <1>4. Supplied(receipt'[p]) = receipt[p].data.supplied - a
    <2>1. CASE receipt[p].data.supplied = a /\ receipt'[p] = None
      BY <1>2, <2>1 DEF Supplied
    <2>2. CASE /\ LpCell(p, receipt'[p])
               /\ receipt'[p].data = Left(receipt[p].data, a)
      <3>1. receipt'[p] # None
        BY <2>2, LiveReceipt
      <3>2. receipt'[p].data.supplied = receipt[p].data.supplied - a
        BY <1>1, <1>2, <2>2, LeftData
      <3> QED
        BY <3>1, <3>2 DEF Supplied
    <2> QED
      BY <1>1, <2>1, <2>2
  <1> HIDE DEF d, p
  <1>5. Shaped'
    BY <1>1, <1>2, <1>3 DEF Shaped, NextVault, IsVault
  <1>6. SumFunctionOnSet(SuppliedIn', Positions)
           = SumFunctionOnSet(SuppliedIn, Positions) - Supplied(receipt[p])
               + Supplied(receipt'[p])
    <2>1. Supplied(receipt'[p]) \in Nat
      BY <1>1, <1>2, <1>4
    <2> QED
      BY <1>1, <2>1, SuppliedChange
  <1>7. Supplied(receipt[p]) = receipt[p].data.supplied
    BY <1>2 DEF Supplied
  <1>8. \A status : AmountIn(status)' = AmountIn(status)
    BY <1>1, AmountSame
  <1>9. Agreed'
    BY <1>1, <1>2, <1>3, <1>4, <1>6, <1>7, <1>8
       DEF Agreed, NextVault, Shaped, VaultData
  <1> QED
    BY <1>5, <1>9

LEMMA ClaimAgrees ==
    ASSUME Shaped, Agreed, NEW k \in Claims, NEW a \in Amounts \cup Fees,
           MineClaim(k, a)
    PROVE  Shaped' /\ Agreed'
  <1> DEFINE p == ReceiptOf[k]
             d == LessFee(vault.data, a)
  <1>1. /\ p \in Positions /\ LpCell(p, receipt[p])
        /\ vault.data.fee >= a
        /\ NextVault(vault', -a, d)
        /\ LpCell(p, receipt'[p])
        /\ receipt'[p].data = MoreClaimed(receipt[p].data, a)
        /\ \A q \in Positions \ {p} : receipt'[q] = receipt[q]
        /\ \A r \in Requests : request'[r] = request[r]
    BY ClaimStep
  <1>2. /\ a \in Nat /\ -a \in Int /\ receipt[p].data \in ReceiptData
        /\ receipt[p] # None /\ receipt'[p] # None
        /\ receipt[p].data.supplied \in Nat
    BY <1>1, LiveReceipt, ChainAssumption DEF LpCell, ReceiptCells, ReceiptData
  <1>3. /\ d \in VaultData /\ d.total = vault.data.total
        /\ d.reserved = vault.data.reserved /\ d.deployed = vault.data.deployed
        /\ d.fee = vault.data.fee - a
    <2>1. d = LessFee(vault.data, a)
      OBVIOUS
    <2>2. vault.data \in VaultData /\ -a \in Int /\ a \in Int
      BY <1>2 DEF Shaped
    <2> HIDE DEF d
    <2> QED
      BY <2>1, <2>2, FeeData
  <1>4. receipt'[p].data.supplied = receipt[p].data.supplied
    BY <1>1, <1>2, MoreClaimedData
  <1> HIDE DEF d, p
  <1>5. Shaped'
    BY <1>1, <1>2, <1>3 DEF Shaped, NextVault, IsVault, VaultData
  <1>6. SumFunctionOnSet(SuppliedIn', Positions)
           = SumFunctionOnSet(SuppliedIn, Positions) - Supplied(receipt[p])
               + Supplied(receipt'[p])
    <2>1. Supplied(receipt'[p]) \in Nat
      BY <1>2, <1>4 DEF Supplied
    <2> QED
      BY <1>1, <2>1, SuppliedChange
  <1>7. /\ Supplied(receipt'[p]) = Supplied(receipt[p])
        /\ Supplied(receipt[p]) \in Nat
    BY <1>2, <1>4 DEF Supplied
  <1>8. \A status : AmountIn(status)' = AmountIn(status)
    BY <1>1, AmountSame
  <1>9. Agreed'
    BY <1>1, <1>3, <1>6, <1>7, <1>8 DEF Agreed, NextVault, Shaped, VaultData
  <1> QED
    BY <1>5, <1>9

LEMMA RequestAgrees ==
    ASSUME Shaped, Agreed, NEW r \in Requests, NEW a \in Amounts,
           NEW f \in Fees, MineRequest(r, a, f)
    PROVE  Shaped' /\ Agreed'
  <1> DEFINE d == AfterReserve(vault.data, a, f)
  <1>1. /\ request[r] = None
        /\ NextVault(vault', f, d)
        /\ RequestCell(r, request'[r])
        /\ request'[r].data = NewRequestData(a, f)
        /\ \A q \in Requests \ {r} : request'[q] = request[q]
        /\ \A p \in Positions : receipt'[p] = receipt[p]
    BY RequestStep
  <1>2. /\ a \in Nat /\ f \in Nat /\ request'[r] # None
        /\ request'[r].data.status = "reserved" /\ request'[r].data.amount = a
    BY <1>1, LiveRequest, ChainAssumption DEF NewRequestData
  <1>3. /\ d \in VaultData /\ d.total = vault.data.total
        /\ d.reserved = vault.data.reserved + a
        /\ d.deployed = vault.data.deployed /\ d.fee = vault.data.fee + f
    BY <1>2, ReservedData DEF Shaped
  <1> HIDE DEF d
  <1>4. Shaped'
    BY <1>1, <1>2, <1>3 DEF Shaped, NextVault, IsVault, VaultData
  <1>5. /\ Amount(request[r], "reserved") = 0
        /\ Amount(request[r], "deployed") = 0
        /\ Amount(request'[r], "reserved") = a
        /\ Amount(request'[r], "deployed") = 0
    BY <1>1, <1>2 DEF Amount
  <1>6. /\ SumFunctionOnSet(AmountIn("reserved")', Requests)
              = SumFunctionOnSet(AmountIn("reserved"), Requests) - 0 + a
        /\ SumFunctionOnSet(AmountIn("deployed")', Requests)
              = SumFunctionOnSet(AmountIn("deployed"), Requests) - 0 + 0
    BY <1>1, <1>2, <1>5, AmountChange
  <1>7. SuppliedIn' = SuppliedIn
    BY <1>1, SuppliedSame
  <1>8. Agreed'
    BY <1>1, <1>2, <1>3, <1>6, <1>7 DEF Agreed, NextVault, Shaped, VaultData
  <1> QED
    BY <1>4, <1>8

LEMMA FundAgrees ==
    ASSUME Shaped, Agreed, NEW r \in Requests, MineFund(r),
           request[r].data.status = "reserved"
    PROVE  Shaped' /\ Agreed'
  <1> DEFINE a == request[r].data.amount
             d == AfterFund(vault.data, a)
  <1>1. /\ RequestCell(r, request[r]) /\ a \in Nat /\ a > 0
        /\ NextVault(vault', -a, d)
        /\ RequestCell(r, request'[r])
        /\ request'[r].data.status = "deployed"
        /\ request'[r].data.amount = a
        /\ request'[r].data.fee = request[r].data.fee
        /\ \A q \in Requests \ {r} : request'[q] = request[q]
        /\ \A p \in Positions : receipt'[p] = receipt[p]
    BY FundStep
  <1>2. request[r] # None /\ request'[r] # None /\ -a \in Int
    BY <1>1, LiveRequest
  <1>3. /\ d \in VaultData /\ d.total = vault.data.total
        /\ d.reserved = vault.data.reserved - a
        /\ d.deployed = vault.data.deployed + a /\ d.fee = vault.data.fee
    <2>1. a \in Int /\ vault.data \in VaultData
      BY <1>1 DEF Shaped
    <2> HIDE DEF a
    <2> QED
      BY <2>1, DeployedData
  <1>4. /\ Amount(request[r], "reserved") = a
        /\ Amount(request[r], "deployed") = 0
        /\ Amount(request'[r], "reserved") = 0
        /\ Amount(request'[r], "deployed") = a
    BY <1>1, <1>2 DEF Amount
  <1> HIDE DEF a, d
  <1>5. Shaped'
    BY <1>1, <1>2, <1>3 DEF Shaped, NextVault, IsVault, VaultData
  <1>6. /\ SumFunctionOnSet(AmountIn("reserved")', Requests)
              = SumFunctionOnSet(AmountIn("reserved"), Requests) - a + 0
        /\ SumFunctionOnSet(AmountIn("deployed")', Requests)
              = SumFunctionOnSet(AmountIn("deployed"), Requests) - 0 + a
    BY <1>1, <1>4, AmountChange
  <1>7. SuppliedIn' = SuppliedIn
    BY <1>1, SuppliedSame
  <1>8. Agreed'
    BY <1>1, <1>2, <1>3, <1>6, <1>7 DEF Agreed, NextVault, Shaped, VaultData
  <1> QED
    BY <1>5, <1>8

\* A request is deployed by its funding transaction, which there is one of.
Funded ==
    \A r \in Requests :
        /\ request[r] # None
        /\ request[r].data.status = "deployed"
        => <<"fund", r>> \in DOMAIN mined

CellsInv == Shaped /\ Agreed /\ Funded

LEMMA FundedStep ==
    ASSUME Funded, NEW h, NEW tx, Commit(h, tx),
           \A r \in Requests :
              \/ request'[r] = request[r]
              \/ request'[r].data.status # "deployed"
              \/ h = <<"fund", r>>
    PROVE  Funded'
  <1>1. DOMAIN mined' = DOMAIN mined \cup {h}
    BY DEF Commit
  <1> QED
    BY <1>1 DEF Funded

LEMMA CellsInit == ChainInit => CellsInv
  <1> SUFFICES ASSUME ChainInit PROVE CellsInv
    OBVIOUS
  <1>1. /\ \A p \in Positions : receipt[p] = None
        /\ \A r \in Requests : request[r] = None
        /\ IsVault(vault) /\ vault.capacity \in Int
        /\ vault.data = [total |-> 0, reserved |-> 0, deployed |-> 0, fee |-> 0]
    BY ChainAssumption DEF ChainInit, VaultCell, IsVault
  <1>2. Shaped
    BY <1>1 DEF Shaped, VaultData
  <1>3. /\ \A p \in Positions : SuppliedIn[p] = 0
        /\ \A r \in Requests : AmountIn("reserved")[r] = 0
        /\ \A r \in Requests : AmountIn("deployed")[r] = 0
    BY <1>1 DEF SuppliedIn, AmountIn, Supplied, Amount
  <1>4. /\ SumFunctionOnSet(SuppliedIn, Positions) = 0
        /\ SumFunctionOnSet(AmountIn("reserved"), Requests) = 0
        /\ SumFunctionOnSet(AmountIn("deployed"), Requests) = 0
    BY <1>3, SumZero, ChainAssumption
  <1>5. Agreed
    BY <1>1, <1>4 DEF Agreed
  <1> QED
    BY <1>1, <1>2, <1>5 DEF CellsInv, Funded

LEMMA CellsNext == ASSUME CellsInv, [ChainNext]_chainVars PROVE CellsInv'
  <1> USE DEF CellsInv
  <1>1. ASSUME NEW p \in Positions, NEW a \in Amounts, MineSupply(p, a)
        PROVE  CellsInv'
    <2>1. Shaped' /\ Agreed'
      BY <1>1, SupplyAgrees
    <2>2. Commit(<<"supply", p>>, SupplyTx(p, a))
      BY <1>1 DEF MineSupply
    <2>3. \A r \in Requests : request'[r] = request[r]
      BY <1>1, SupplyStep
    <2> QED
      BY <2>1, <2>2, <2>3, FundedStep
  <1>2. ASSUME NEW w \in Withdrawals, NEW a \in Amounts, MineWithdraw(w, a)
        PROVE  CellsInv'
    <2>1. Shaped' /\ Agreed'
      BY <1>2, WithdrawAgrees
    <2>2. Commit(<<"withdraw", w>>, WithdrawTx(w, a))
      BY <1>2 DEF MineWithdraw
    <2>3. \A r \in Requests : request'[r] = request[r]
      BY <1>2, WithdrawStep
    <2> QED
      BY <2>1, <2>2, <2>3, FundedStep
  <1>3. ASSUME NEW k \in Claims, NEW a \in Amounts \cup Fees, MineClaim(k, a)
        PROVE  CellsInv'
    <2>1. Shaped' /\ Agreed'
      BY <1>3, ClaimAgrees
    <2>2. Commit(<<"claim", k>>, ClaimTx(k, a))
      BY <1>3 DEF MineClaim
    <2>3. \A r \in Requests : request'[r] = request[r]
      BY <1>3, ClaimStep
    <2> QED
      BY <2>1, <2>2, <2>3, FundedStep
  <1>4. ASSUME NEW r \in Requests, NEW a \in Amounts, NEW f \in Fees,
               MineRequest(r, a, f)
        PROVE  CellsInv'
    <2>1. Shaped' /\ Agreed'
      BY <1>4, RequestAgrees
    <2>2. Commit(<<"request", r>>, RequestTx(r, a, f))
      BY <1>4 DEF MineRequest
    <2>3. /\ request'[r].data.status = "reserved"
          /\ \A q \in Requests \ {r} : request'[q] = request[q]
      <3>1. /\ request'[r].data = NewRequestData(a, f)
            /\ \A q \in Requests \ {r} : request'[q] = request[q]
        BY <1>4, RequestStep
      <3> QED
        BY <3>1 DEF NewRequestData
    <2>4. \A q \in Requests : \/ request'[q] = request[q]
                              \/ request'[q].data.status # "deployed"
      BY <2>3
    <2> QED
      BY <2>1, <2>2, <2>4, FundedStep
  <1>5. ASSUME NEW r \in Requests, MineFund(r)
        PROVE  CellsInv'
    <2>1. Commit(<<"fund", r>>, FundTx(r)) /\ request[r] # None
      BY <1>5 DEF MineFund, Fundable
    <2>2. request[r].data.status = "reserved"
      <3>1. <<"fund", r>> \notin DOMAIN mined
        BY <2>1 DEF Commit
      <3> QED
        BY <2>1, <3>1 DEF Funded, Shaped, RequestCell
    <2>3. Shaped' /\ Agreed'
      BY <1>5, <2>2, FundAgrees
    <2>4. \A q \in Requests \ {r} : request'[q] = request[q]
      BY <1>5, FundStep
    <2> QED
      BY <2>1, <2>3, <2>4, FundedStep
  <1>6. CASE UNCHANGED chainVars
    BY <1>6 DEF chainVars, Shaped, Agreed, Funded, SuppliedIn, AmountIn
  <1> QED
    BY <1>1, <1>2, <1>3, <1>4, <1>5, <1>6 DEF ChainNext

LEMMA SpecCells == ChainSpec => [](IInv /\ CellsInv)
  BY InitInv, NextInv, CellsInit, CellsNext, PTL DEF ChainSpec

LEMMA ReceiptsSum ==
    ASSUME Shaped
    PROVE  SumOf(LiveReceipts, "receipt", "supplied")
              = SumFunctionOnSet(SuppliedIn, Positions)
  <1> DEFINE L == {p \in Positions : receipt[p] # None}
             f == [c \in LiveReceipts |-> c.data["supplied"]]
             g == [p \in L |-> f[receipt[p]]]
  <1>1. IsFiniteSet(L) /\ IsFiniteSet(Positions)
    BY FS_Subset, ChainAssumption
  <1>2. \A p \in L : /\ LpCell(p, receipt[p]) /\ receipt[p].kind = "receipt"
                     /\ receipt[p].id = p /\ receipt[p].data.supplied \in Nat
    BY LiveReceipt DEF Shaped
  <1>3. LiveReceipts = {receipt[p] : p \in L}
    BY DEF LiveReceipts
  <1>4. OfKind(LiveReceipts, "receipt") = LiveReceipts
    BY <1>2, <1>3 DEF OfKind
  <1>5. \A p \in L : f[receipt[p]] = SuppliedIn[p] /\ f[receipt[p]] \in Int
    BY <1>2, <1>3 DEF SuppliedIn, Supplied
  <1>6. \A p, q \in L : receipt[p] = receipt[q] => p = q
    BY <1>2
  <1>7. IsFiniteSet(LiveReceipts)
    <2>1. [p \in L |-> receipt[p]] \in Surjection(L, LiveReceipts)
      BY <1>3 DEF Surjection
    <2> QED
      BY <1>1, <2>1, FS_Surjection
  <1>8. SumOf(LiveReceipts, "receipt", "supplied")
           = SumFunctionOnSet(f, LiveReceipts)
    <2>1. IsFiniteSet(OfKind(LiveReceipts, "receipt"))
      BY <1>4, <1>7
    <2>2. SumOf(LiveReceipts, "receipt", "supplied")
             = SumFunctionOnSet([c \in OfKind(LiveReceipts, "receipt") |->
                                    c.data["supplied"]],
                                OfKind(LiveReceipts, "receipt"))
      BY <2>1, SumOfIs
    <2> QED
      BY <1>4, <2>2
  <1> HIDE DEF f
  <1>9. SumFunctionOnSet(f, {receipt[p] : p \in L}) = SumFunctionOnSet(g, L)
    BY <1>1, <1>5, <1>6, SumImage
  <1>10. \A p \in L : g[p] = SuppliedIn[p]
    BY <1>5
  <1>11. /\ \A p \in L : SuppliedIn[p] \in Int
         /\ \A p \in Positions \ L : SuppliedIn[p] = 0
    BY <1>5 DEF SuppliedIn, Supplied
  <1>12. L \in SUBSET Positions
    OBVIOUS
  <1> HIDE DEF g, L
  <1>13. SumFunctionOnSet(g, L) = SumFunctionOnSet(SuppliedIn, L)
    BY <1>1, <1>10, SumSame
  <1>14. SumFunctionOnSet(SuppliedIn, Positions) = SumFunctionOnSet(SuppliedIn, L)
    BY <1>1, <1>11, <1>12, SumRest
  <1> QED
    BY <1>3, <1>8, <1>9, <1>13, <1>14

LEMMA RequestsSum ==
    ASSUME Shaped, NEW statuses, NEW status,
           \A x \in {"reserved", "deployed"} : x \in statuses <=> x = status
    PROVE  SumOf(LiveRequests(statuses), "request", "amount")
              = SumFunctionOnSet(AmountIn(status), Requests)
  <1> DEFINE R == LiveRequests(statuses)
             L == {r \in Requests : /\ request[r] # None
                                    /\ request[r].data.status \in statuses}
             f == [c \in R |-> c.data["amount"]]
             g == [r \in L |-> f[request[r]]]
             h == AmountIn(status)
  <1>1. IsFiniteSet(L) /\ IsFiniteSet(Requests)
    BY FS_Subset, ChainAssumption
  <1>2. \A r \in Requests : request[r] # None =>
           /\ RequestCell(r, request[r]) /\ request[r].kind = "request"
           /\ request[r].id = r /\ request[r].data.amount \in Nat
           /\ request[r].data.status \in statuses
                 <=> request[r].data.status = status
    <2>1. \A r \in Requests : request[r] # None =>
             /\ RequestCell(r, request[r])
             /\ request[r].data.status \in {"reserved", "deployed"}
      BY DEF Shaped, RequestCell
    <2> QED
      BY <2>1, LiveRequest
  <1>3. R = {request[r] : r \in L}
    BY DEF LiveRequests
  <1>4. OfKind(R, "request") = R
    BY <1>2, <1>3 DEF OfKind
  <1>5. \A r \in L : f[request[r]] = h[r] /\ f[request[r]] \in Int
    BY <1>2, <1>3 DEF AmountIn, Amount
  <1>6. \A r, q \in L : request[r] = request[q] => r = q
    BY <1>2
  <1>7. IsFiniteSet(R)
    <2>1. [r \in L |-> request[r]] \in Surjection(L, R)
      BY <1>3 DEF Surjection
    <2> QED
      BY <1>1, <2>1, FS_Surjection
  <1> HIDE DEF R
  <1>8. SumOf(R, "request", "amount") = SumFunctionOnSet(f, R)
    <2>1. IsFiniteSet(OfKind(R, "request"))
      BY <1>4, <1>7
    <2>2. SumOf(R, "request", "amount")
             = SumFunctionOnSet([c \in OfKind(R, "request") |->
                                    c.data["amount"]],
                                OfKind(R, "request"))
      BY <2>1, SumOfIs
    <2> QED
      BY <1>4, <2>2
  <1> HIDE DEF f
  <1>9. SumFunctionOnSet(f, {request[r] : r \in L}) = SumFunctionOnSet(g, L)
    BY <1>1, <1>5, <1>6, SumImage
  <1>10. \A r \in L : g[r] = h[r]
    BY <1>5
  <1>11. /\ \A r \in L : h[r] \in Int
         /\ \A r \in Requests \ L : h[r] = 0
    BY <1>2, <1>5 DEF AmountIn, Amount
  <1>12. L \in SUBSET Requests
    OBVIOUS
  <1> HIDE DEF g, h, L
  <1>13. SumFunctionOnSet(g, L) = SumFunctionOnSet(h, L)
    BY <1>1, <1>10, SumSame
  <1>14. SumFunctionOnSet(h, Requests) = SumFunctionOnSet(h, L)
    BY <1>1, <1>11, <1>12, SumRest
  <1> QED
    BY <1>3, <1>8, <1>9, <1>13, <1>14 DEF R, h

(***************************************************************************)
(* The totals in the vault cell are those of the live cells around it, for *)
(* every number of receipts and requests: what the receipts supplied, what *)
(* the reserved and what the deployed requests are for.  The type scripts  *)
(* only bound each change by the cells of one transaction.                 *)
(***************************************************************************)
THEOREM CellsAgreeHolds == ChainSpec => []CellsAgree
  <1>1. IInv /\ CellsInv => CellsAgree
    <2> SUFFICES ASSUME CellsInv PROVE CellsAgree
      OBVIOUS
    <2>1. SumOf(LiveRequests({"pending", "reserved"}), "request", "amount")
             = SumFunctionOnSet(AmountIn("reserved"), Requests)
      BY RequestsSum DEF CellsInv
    <2>2. SumOf(LiveRequests({"deployed"}), "request", "amount")
             = SumFunctionOnSet(AmountIn("deployed"), Requests)
      BY RequestsSum DEF CellsInv
    <2> QED
      BY <2>1, <2>2, ReceiptsSum DEF CellsInv, Agreed, CellsAgree
  <1> QED
    BY <1>1, SpecCells, PTL

----------------------------------------------------------------------------
(***************************************************************************)
(* What the scripts say of each transaction.                               *)
(***************************************************************************)
LEMMA OneIs == ASSUME NEW c PROVE Cardinality({c}) = 1 /\ Only({c}) = c
  BY FS_Singleton, OnlyIs

LEMMA VaultAllows ==
    ASSUME NEW tx, NEW i, NEW o, NEW kind \in {"receipt", "request", "claim"},
           Group(tx.in, "vault", "vault") = {i},
           Group(tx.out, "vault", "vault") = {o},
           VaultDataOK(i.data), VaultDataOK(o.data), HasTypeCode(tx, kind),
           \A c \in tx.out : c.lock = "vault" => c.kind = "vault",
           CapacityDeltaOK(tx, i, o), AccountingDeltaOK(tx, i, o)
    PROVE  HasVault(tx) /\ VaultLockAllows(tx) /\ VaultTypeAllows(tx)
  <1>1. HasVault(tx)
    BY DEF HasVault, HasType, Group, Cells
  <1>2. /\ Cardinality({i}) = 1 /\ Only({i}) = i
        /\ Cardinality({o}) = 1 /\ Only({o}) = o
    BY OneIs
  <1>3. VaultLockAllows(tx)
    BY <1>1 DEF VaultLockAllows
  <1>4. VaultTypeAllows(tx)
    BY <1>2 DEF VaultTypeAllows
  <1> QED
    BY <1>1, <1>3, <1>4

LEMMA FundAccepted ==
    ASSUME IInv, Shaped, NEW r \in Requests, request[r] # None,
           vault.data.reserved >= request[r].data.amount
    PROVE  Accepted(FundTx(r))
  <1> DEFINE tx == FundTx(r)
             a == request[r].data.amount
             d == AfterFund(vault.data, a)
  <1>1. RequestCell(r, request[r]) /\ a \in Nat /\ a > 0
    BY FundCells
  <1>2. PICK v, q, u :
              /\ tx.in = {vault, request[r]}
              /\ tx.out = {u, v, q}
              /\ NextVault(v, -a, d)
              /\ RequestCell(r, q)
              /\ q.data.status = "deployed" /\ q.data.amount = a
              /\ q.data.fee = request[r].data.fee
              /\ u.kind = "plain" /\ u.lock = "channel" /\ u.capacity = a
    BY FundCells
  <1>3. /\ d \in VaultData /\ d.total = vault.data.total
        /\ d.fee = vault.data.fee /\ d.reserved = vault.data.reserved - a
        /\ d.deployed = vault.data.deployed + a
    <2>1. vault.data \in VaultData /\ a \in Int
      BY <1>1 DEF Shaped
    <2> QED
      BY <2>1, DeployedData
  <1>4. /\ vault.kind = "vault" /\ vault.id = "vault" /\ vault.capacity \in Int
        /\ v.kind = "vault" /\ v.id = "vault" /\ v.data = d
        /\ v.capacity = vault.capacity - a
        /\ request[r].kind = "request" /\ request[r].id = r
        /\ request[r].capacity = CellBond /\ request[r].lock = Operator
        /\ q.kind = "request" /\ q.id = r /\ q.capacity = CellBond
        /\ q.lock # "vault" /\ CellBond \in Nat
    BY <1>1, <1>2, LiveRequest, ChainAssumption
       DEF Shaped, IsVault, NextVault
  <1> DEFINE x == request[r]
  <1>5. /\ x.data.amount = a /\ x.data.fee > 0 /\ q.data.fee = x.data.fee
        /\ x.data.status \in {"reserved", "deployed"}
    BY <1>1, <1>2 DEF RequestCell
  <1> HIDE DEF tx, a, d, x
  <1>6. /\ Group(tx.in, "vault", "vault") = {vault}
        /\ Group(tx.out, "vault", "vault") = {v}
        /\ Group(tx.in, "request", r) = {x} /\ Group(tx.out, "request", r) = {q}
        /\ OfKind(tx.in, "request") = {x} /\ OfKind(tx.out, "request") = {q}
        /\ OfKind(Cells(tx), "request") = {x, q}
        /\ OfKind(Cells(tx), "receipt") = {} /\ OfKind(Cells(tx), "claim") = {}
    BY <1>2, <1>4 DEF Group, OfKind, Cells, x
  <1>7. Capacity(tx.in) = vault.capacity + CellBond
    <2>1. vault # x /\ tx.in = {vault, x} /\ x.capacity = CellBond
          /\ \A c \in tx.in : c.capacity \in Int
      BY <1>2, <1>4 DEF x
    <2>2. Capacity(tx.in) = vault.capacity + x.capacity
      BY <2>1, CapacityTwo
    <2> QED
      BY <2>1, <2>2
  <1>8. Capacity(tx.out) = a + (vault.capacity - a) + CellBond
    <2>1. u # v /\ u # q /\ v # q /\ \A c \in tx.out : c.capacity \in Int
      BY <1>1, <1>2, <1>4
    <2>2. Capacity(tx.out) = u.capacity + v.capacity + q.capacity
      BY <1>2, <2>1, CapacityThree
    <2> QED
      BY <1>2, <1>4, <2>2
  <1>9. MaxSum(tx, "request", "amount") = a
    <2>1. /\ x.data["amount"] \in Int /\ q.data["amount"] \in Int
          /\ x.data["amount"] = a /\ q.data["amount"] = a
      BY <1>1, <1>2, <1>5
    <2>2. SumOf(tx.in, "request", "amount") = a
      BY <1>6, <2>1, SumOfOne
    <2>3. SumOf(tx.out, "request", "amount") = a
      BY <1>6, <2>1, SumOfOne
    <2> QED
      BY <2>2, <2>3 DEF MaxSum
  <1>10. HasTypeCode(tx, "request")
    BY <1>6 DEF HasTypeCode
  <1>11. VaultDataOK(vault.data) /\ VaultDataOK(v.data)
    BY <1>1, <1>3, <1>4 DEF IInv, VaultBacked, VaultDataOK, Shaped, VaultData
  <1>12. CapacityDeltaOK(tx, vault, v)
    BY <1>1, <1>4, <1>9, <1>10 DEF CapacityDeltaOK
  <1>13. AccountingDeltaOK(tx, vault, v)
    <2>1. RequestLockDeltaOK(tx, vault, v)
      BY <1>1, <1>3, <1>4, <1>9, <1>10
         DEF RequestLockDeltaOK, Shaped, VaultData
    <2> QED
      BY <1>3, <1>4, <2>1 DEF AccountingDeltaOK
  <1>14. HasVault(tx) /\ VaultLockAllows(tx) /\ VaultTypeAllows(tx)
    <2>1. \A c \in tx.out : c.lock = "vault" => c.kind = "vault"
      BY <1>2, <1>4
    <2> QED
      BY <1>6, <1>10, <1>11, <1>12, <1>13, <2>1, VaultAllows
  <1>15. RequestTypeAllows(tx, r)
    <2>1. HasInputLock(tx, Operator)
      BY <1>2, <1>4 DEF HasInputLock
    <2>2. RequestDataOK(x.data) /\ RequestDataOK(q.data)
      BY <1>1, <1>2, <1>5 DEF RequestDataOK, RequestStatuses
    <2>3. RequestUpdateOK(tx, r, x.data, q.data)
      BY <1>2, <1>5, <1>14, <2>1 DEF RequestUpdateOK, Rank
    <2>4. /\ Cardinality({x}) = 1 /\ Only({x}) = x
          /\ Cardinality({q}) = 1 /\ Only({q}) = q
      BY OneIs
    <2> QED
      BY SMTT(30), <1>6, <2>2, <2>3, <2>4 DEF RequestTypeAllows
  <1>16. Capacity(tx.in) >= Capacity(tx.out)
    BY <1>1, <1>4, <1>7, <1>8
  <1>17. \A c \in OfKind(Cells(tx), "request") : c.id = r
    BY <1>4, <1>6 DEF x
  <1> QED
    BY <1>6, <1>14, <1>15, <1>16, <1>17 DEF Accepted, tx

\* One cell's part of a sum is no more than the sum.
LEMMA ReservedCovers ==
    ASSUME CellsInv, NEW r \in Requests, request[r] # None,
           request[r].data.status = "reserved"
    PROVE  vault.data.reserved >= request[r].data.amount
  <1> DEFINE f == AmountIn("reserved")
  <1>1. \A q \in Requests : f[q] \in Nat
    BY AmountType DEF CellsInv, AmountIn
  <1>2. f[r] = request[r].data.amount
    BY DEF AmountIn, Amount
  <1>3. vault.data.reserved = SumFunctionOnSet(f, Requests)
    BY DEF CellsInv, Agreed
  <1> HIDE DEF f
  <1>4. SumFunctionOnSet(f, {r}) = f[r]
    <2>1. f[r] \in Int
      BY <1>1
    <2> QED
      BY <2>1, SumOne
  <1>5. SumFunctionOnSet(f, {r}) <= SumFunctionOnSet(f, Requests)
    <2>1. {r} \in SUBSET Requests /\ IsFiniteSet(Requests)
      BY ChainAssumption
    <2> QED
      BY <1>1, <2>1, SumPart
  <1>6. f[r] \in Int /\ SumFunctionOnSet(f, Requests) \in Int
    BY <1>1, <1>3 DEF CellsInv, Shaped, VaultData
  <1> QED
    BY <1>2, <1>3, <1>4, <1>5, <1>6

LEMMA TotalCovers ==
    ASSUME CellsInv, NEW p \in Positions, receipt[p] # None
    PROVE  vault.data.total >= receipt[p].data.supplied
  <1> DEFINE f == SuppliedIn
  <1>1. \A q \in Positions : f[q] \in Nat
    BY SuppliedType DEF CellsInv, SuppliedIn
  <1>2. f[p] = receipt[p].data.supplied
    BY DEF SuppliedIn, Supplied
  <1>3. vault.data.total = SumFunctionOnSet(f, Positions)
    BY DEF CellsInv, Agreed
  <1> HIDE DEF f
  <1>4. SumFunctionOnSet(f, {p}) = f[p]
    <2>1. f[p] \in Int
      BY <1>1
    <2> QED
      BY <2>1, SumOne
  <1>5. SumFunctionOnSet(f, {p}) <= SumFunctionOnSet(f, Positions)
    <2>1. {p} \in SUBSET Positions /\ IsFiniteSet(Positions)
      BY ChainAssumption
    <2> QED
      BY <1>1, <2>1, SumPart
  <1>6. f[p] \in Int /\ SumFunctionOnSet(f, Positions) \in Int
    BY <1>1, <1>3 DEF CellsInv, Shaped, VaultData
  <1> QED
    BY <1>2, <1>3, <1>4, <1>5, <1>6

(***************************************************************************)
(* A reserved request can always be funded: the CKB reserved in the vault  *)
(* cell covers each reserved request, for it is their sum, the vault's     *)
(* capacity covers what its data promises, and every script accepts the    *)
(* builder's transaction.                                                  *)
(***************************************************************************)
THEOREM FundingFitsHolds == ChainSpec => []FundingFits
  <1>1. IInv /\ CellsInv => FundingFits
    <2> SUFFICES ASSUME IInv, CellsInv, NEW r \in Requests, request[r] # None,
                        request[r].data.status \in {"pending", "reserved"}
                 PROVE  Fundable(r) /\ Accepted(FundTx(r))
      BY DEF FundingFits
    <2>1. RequestCell(r, request[r]) /\ Shaped
      BY DEF CellsInv, Shaped
    <2>2. vault.data.reserved >= request[r].data.amount
      <3>1. request[r].data.status = "reserved"
        BY <2>1 DEF RequestCell
      <3> QED
        BY <3>1, ReservedCovers
    <2>3. Accepted(FundTx(r))
      BY <2>1, <2>2, FundAccepted
    <2>4. vault.capacity - request[r].data.amount >= VaultBase
      <3>1. request[r].data.amount \in Nat /\ VaultBase \in Nat
        BY <2>1, LiveRequest, ChainAssumption
      <3> QED
        BY <2>1, <2>2, <3>1 DEF IInv, VaultBacked, Shaped, VaultData
    <2> QED
      BY <2>1, <2>2, <2>3, <2>4, LiveRequest DEF Fundable
  <1> QED
    BY <1>1, SpecCells, PTL

----------------------------------------------------------------------------
(***************************************************************************)
(* What the server verifies of each transaction, and the scripts accept.   *)
(***************************************************************************)
LEMMA VaultVerified ==
    ASSUME NEW tx, NEW i, NEW o,
           OfKind(tx.in, "vault") = {i}, OfKind(tx.out, "vault") = {o}
    PROVE  OneVault(tx) /\ VaultIn(tx) = i /\ VaultOut(tx) = o
  <1>1. /\ Cardinality({i}) = 1 /\ Only({i}) = i
        /\ Cardinality({o}) = 1 /\ Only({o}) = o
    BY OneIs
  <1> QED
    BY <1>1 DEF OneVault, VaultIn, VaultOut

LEMMA OutVerified ==
    ASSUME NEW tx, NEW kind, NEW lock, NEW c,
           OfKind(tx.out, kind) = {c}, c.lock = lock
    PROVE  OneOut(tx, kind, lock) /\ TheOut(tx, kind, lock) = c
  <1>1. {d \in OfKind(tx.out, kind) : d.lock = lock} = {c}
    OBVIOUS
  <1>2. Cardinality({c}) = 1 /\ Only({c}) = c
    BY OneIs
  <1> QED
    BY <1>1, <1>2 DEF OneOut, TheOut

LEMMA SupplyAccepted ==
    ASSUME IInv, Shaped, NEW p \in Positions, NEW a \in Amounts
    PROVE  DepositVerified(SupplyTx(p, a), p, a) /\ Accepted(SupplyTx(p, a))
  <1> DEFINE tx == SupplyTx(p, a)
             d == MoreTotal(vault.data, a)
             m == Minted(p, a).data
  <1>1. PICK v, c, w :
              /\ tx.in = {vault, w}
              /\ tx.out = {v, c}
              /\ w.kind = "plain" /\ w.lock = LpLock[p]
              /\ w.capacity = a + CellBond
              /\ NextVault(v, a, d)
              /\ LpCell(p, c) /\ c.data = m
    BY SupplyCells
  <1>2. a \in Nat /\ a > 0 /\ CellBond \in Nat
    BY ChainAssumption
  <1>3. /\ d = [vault.data EXCEPT !.total = @ + a]
        /\ d \in VaultData /\ d.total = vault.data.total + a
        /\ d.reserved = vault.data.reserved
        /\ d.deployed = vault.data.deployed /\ d.fee = vault.data.fee
    <2>1. vault.data \in VaultData /\ a \in Int
      BY <1>2 DEF Shaped
    <2>2. d = [vault.data EXCEPT !.total = @ + a]
      BY DEF MoreTotal
    <2> QED
      BY <2>1, <2>2, TotalData
  <1>4. m = [supplied |-> a, available |-> a, reserved |-> 0, deployed |-> 0,
             claimed |-> 0]
    BY DEF Minted, TypedCell
  <1>5. /\ vault.kind = "vault" /\ vault.id = "vault" /\ vault.capacity \in Int
        /\ v.kind = "vault" /\ v.id = "vault" /\ v.data = d
        /\ v.capacity = vault.capacity + a
        /\ c.kind = "receipt" /\ c.id = p /\ c.lock = LpLock[p]
        /\ c.capacity = CellBond /\ c.lock # "vault"
    BY <1>1, LiveReceipt DEF Shaped, IsVault, NextVault
  <1> HIDE DEF tx, d, m
  <1>6. /\ Group(tx.in, "vault", "vault") = {vault}
        /\ Group(tx.out, "vault", "vault") = {v}
        /\ OfKind(tx.in, "vault") = {vault} /\ OfKind(tx.out, "vault") = {v}
        /\ Group(tx.in, "receipt", p) = {} /\ Group(tx.out, "receipt", p) = {c}
        /\ OfKind(tx.in, "receipt") = {} /\ OfKind(tx.out, "receipt") = {c}
        /\ OfKind(Cells(tx), "receipt") = {c}
        /\ OfKind(Cells(tx), "request") = {} /\ OfKind(Cells(tx), "claim") = {}
    BY <1>1, <1>5 DEF Group, OfKind, Cells
  <1>7. Capacity(tx.in) >= Capacity(tx.out)
    <2>1. /\ vault # w /\ \A x \in tx.in : x.capacity \in Int
          /\ v # c /\ \A x \in tx.out : x.capacity \in Int
      BY <1>1, <1>2, <1>5
    <2>2. Capacity(tx.in) = vault.capacity + w.capacity
      BY <1>1, <2>1, CapacityTwo
    <2>3. Capacity(tx.out) = v.capacity + c.capacity
      BY <1>1, <2>1, CapacityTwo
    <2> QED
      BY <1>1, <1>2, <1>5, <2>2, <2>3
  <1>8. HasTypeCode(tx, "receipt")
    BY <1>6 DEF HasTypeCode
  <1>9. AccountingDeltaOK(tx, vault, v)
    <2>1. SumOf(tx.in, "receipt", "supplied") = 0
      BY <1>6, SumOfNone
    <2>2. c.data.supplied = a /\ a \in Int
      BY <1>1, <1>2, <1>4
    <2>3. SumOf(tx.out, "receipt", "supplied") = a
      BY <1>6, <2>2, SuppliedOne
    <2>4. ReceiptTotalDeltaOK(tx, vault, v)
      BY <1>2, <1>3, <1>5, <1>8, <2>1, <2>3
         DEF ReceiptTotalDeltaOK, Shaped, VaultData
    <2> QED
      BY <1>3, <1>5, <2>4 DEF AccountingDeltaOK
  <1>10. HasVault(tx) /\ VaultLockAllows(tx) /\ VaultTypeAllows(tx)
    <2>1. VaultDataOK(vault.data) /\ VaultDataOK(v.data)
      BY <1>2, <1>3, <1>5 DEF IInv, VaultBacked, VaultDataOK, Shaped, VaultData
    <2>2. CapacityDeltaOK(tx, vault, v)
      BY <1>8 DEF CapacityDeltaOK
    <2>3. \A x \in tx.out : x.lock = "vault" => x.kind = "vault"
      BY <1>1, <1>5
    <2> QED
      BY <1>6, <1>8, <1>9, <2>1, <2>2, <2>3, VaultAllows
  <1>11. ReceiptTypeAllows(tx, p)
    <2>1. HasInputLock(tx, LpLock[p])
      BY <1>1 DEF HasInputLock
    <2>2. ReceiptDataOK(c.data) /\ ReceiptCreateOK(tx, p, c.data)
      BY <1>1, <1>2, <1>4, <1>10, <2>1 DEF ReceiptDataOK, ReceiptCreateOK
    <2>3. /\ Cardinality({c}) = 1 /\ Only({c}) = c /\ Cardinality({}) = 0
      BY OneIs, FS_EmptySet
    <2> QED
      BY <1>6, <2>2, <2>3 DEF ReceiptTypeAllows
  <1>12. Accepted(tx)
    BY <1>5, <1>6, <1>7, <1>10, <1>11 DEF Accepted
  <1>13. DepositVerified(tx, p, a)
    <2>1. OneVault(tx) /\ VaultIn(tx) = vault /\ VaultOut(tx) = v
      BY <1>6, VaultVerified
    <2>2. SupplyDelta(tx, a)
      BY <1>2, <1>3, <1>5, <2>1 DEF SupplyDelta
    <2>3. OneOut(tx, "receipt", LpLock[p]) /\ TheOut(tx, "receipt", LpLock[p]) = c
      BY <1>5, <1>6, OutVerified
    <2>4. MintedReceipt(c, p, a)
      BY <1>1, <1>4, <1>5 DEF MintedReceipt
    <2> QED
      BY <2>1, <2>2, <2>3, <2>4 DEF DepositVerified
  <1> QED
    BY <1>12, <1>13 DEF tx

LEMMA WithdrawAccepted ==
    ASSUME IInv, CellsInv, NEW w \in Withdrawals, NEW a \in Amounts,
           NEW p, p = WithdrawnFrom[w],
           receipt[p] # None, receipt[p].data.available >= a,
           NEW held, held.supplied = receipt[p].data.supplied,
           held.point = receipt[p].point
    PROVE  /\ WithdrawalVerified(WithdrawTx(w, a), p, a, held)
           /\ Accepted(WithdrawTx(w, a)) <=> a <= Free
  <1> DEFINE tx == WithdrawTx(w, a)
             d == LessTotal(vault.data, a)
             x == receipt[p]
             left == Left(x.data, a)
  <1>1. /\ p \in Positions /\ LpCell(p, x) /\ tx.in = {vault, x}
        /\ Shaped
    BY WithdrawCells DEF CellsInv
  <1>2. PICK v, u :
              /\ NextVault(v, -a, d)
              /\ u.kind = "plain" /\ u.lock = LpLock[p]
              /\ \/ /\ x.data.supplied = a
                    /\ tx.out = {v, u}
                    /\ u.capacity = a + CellBond
                 \/ /\ x.data.supplied # a
                    /\ u.capacity = a
                    /\ \E c : /\ tx.out = {v, u, c}
                              /\ LpCell(p, c)
                              /\ c.data = left
    BY <1>1, WithdrawCells
  <1>3. /\ a \in Nat /\ a > 0 /\ CellBond \in Nat /\ MaxTxFee \in Nat
        /\ LpLock[p] # "vault"
    <2>1. a \in Nat /\ a > 0 /\ CellBond \in Nat /\ MaxTxFee \in Nat
      BY ChainAssumption
    <2>2. LpLock[p] # "vault"
      BY <1>1, ChainAssumption
    <2> QED
      BY <2>1, <2>2
  <1>4. /\ x.kind = "receipt" /\ x.id = p /\ x.lock = LpLock[p]
        /\ x.capacity = CellBond
        /\ x.data.supplied \in Nat /\ x.data.supplied >= a
        /\ x.data.available = x.data.supplied
        /\ x.data.reserved = 0 /\ x.data.deployed = 0
        /\ x.data \in ReceiptData
    BY <1>1, LiveReceipt DEF LpCell, ReceiptCells, ReceiptData
  <1>5. vault.data.total >= x.data.supplied
    BY <1>1, TotalCovers
  <1>6. /\ d \in VaultData /\ d.total = vault.data.total - a
        /\ d.reserved = vault.data.reserved
        /\ d.deployed = vault.data.deployed /\ d.fee = vault.data.fee
        /\ d = [vault.data EXCEPT !.total = Sat(@, a)]
    <2>1. vault.data \in VaultData /\ -a \in Int /\ -(-a) = a
          /\ vault.data.total + (-a) = vault.data.total - a
      BY <1>1, <1>3 DEF Shaped, VaultData
    <2>2. /\ d \in VaultData /\ d.total = vault.data.total + (-a)
          /\ d.reserved = vault.data.reserved
          /\ d.deployed = vault.data.deployed /\ d.fee = vault.data.fee
      BY <2>1, TotalData
    <2>3. Sat(vault.data.total, a) = vault.data.total - a
      BY <1>3, <1>4, <1>5, <2>1 DEF Sat, VaultData
    <2> QED
      BY <2>1, <2>2, <2>3 DEF LessTotal
  <1>7. /\ vault.kind = "vault" /\ vault.id = "vault" /\ vault.capacity \in Int
        /\ v.kind = "vault" /\ v.id = "vault" /\ v.data = d
        /\ v.capacity = vault.capacity - a
    BY <1>1, <1>2, <1>3 DEF Shaped, IsVault, NextVault
  <1>8. /\ left.supplied = x.data.supplied - a
        /\ left.available = x.data.available - a
        /\ left.reserved = 0 /\ left.deployed = 0
        /\ left.claimed = x.data.claimed
    BY <1>3, <1>4, LeftData
  <1>9. left = [x.data EXCEPT !.supplied = Sat(@, a), !.available = Sat(@, a)]
    <2>1. Sat(x.data.supplied, a) = x.data.supplied - a
          /\ Sat(x.data.available, a) = x.data.available - a
      BY <1>3, <1>4 DEF Sat
    <2> QED
      BY <2>1 DEF Left
  <1> HIDE DEF tx, d, x, left
  <1>10. /\ Group(tx.in, "vault", "vault") = {vault}
         /\ Group(tx.out, "vault", "vault") = {v}
         /\ OfKind(tx.in, "vault") = {vault} /\ OfKind(tx.out, "vault") = {v}
         /\ Group(tx.in, "receipt", p) = {x} /\ OfKind(tx.in, "receipt") = {x}
         /\ \A c \in OfKind(Cells(tx), "receipt") : c.id = p
         /\ OfKind(Cells(tx), "request") = {} /\ OfKind(Cells(tx), "claim") = {}
         /\ HasTypeCode(tx, "receipt") /\ ~HasTypeCode(tx, "request")
         /\ ~HasTypeCode(tx, "claim")
         /\ \A c \in tx.out : c.lock = "vault" => c.kind = "vault"
    BY <1>1, <1>2, <1>3, <1>4, <1>7, LiveReceipt
       DEF Group, OfKind, Cells, HasTypeCode
  <1>11. \/ /\ x.data.supplied = a
            /\ tx.out = {v, u} /\ u.capacity = a + CellBond
            /\ Group(tx.out, "receipt", p) = {}
            /\ OfKind(tx.out, "receipt") = {}
         \/ /\ u.capacity = a
            /\ \E c : /\ tx.out = {v, u, c} /\ c.capacity = CellBond
                      /\ LpCell(p, c) /\ c.data = left
                      /\ c.kind = "receipt" /\ c.id = p /\ c.lock = LpLock[p]
                      /\ Group(tx.out, "receipt", p) = {c}
                      /\ OfKind(tx.out, "receipt") = {c}
    <2>1. CASE x.data.supplied = a
      BY <1>2, <1>7, <2>1 DEF Group, OfKind
    <2>2. CASE x.data.supplied # a
      <3>1. PICK c : /\ tx.out = {v, u, c} /\ LpCell(p, c) /\ c.data = left
        BY <1>2, <2>2
      <3>2. /\ c.kind = "receipt" /\ c.id = p /\ c.lock = LpLock[p]
            /\ c.capacity = CellBond
        BY <3>1, LiveReceipt
      <3>3. /\ Group(tx.out, "receipt", p) = {c}
            /\ OfKind(tx.out, "receipt") = {c}
        BY <1>2, <1>7, <3>1, <3>2 DEF Group, OfKind
      <3> QED
        BY <1>2, <2>2, <3>1, <3>2, <3>3
    <2> QED
      BY <2>1, <2>2
  <1>12. Capacity(tx.in) = vault.capacity + CellBond
    <2>1. vault # x /\ \A c \in tx.in : c.capacity \in Int
      BY <1>1, <1>3, <1>4, <1>7
    <2>2. Capacity(tx.in) = vault.capacity + x.capacity
      BY <1>1, <2>1, CapacityTwo
    <2> QED
      BY <1>4, <2>2
  <1>13. Capacity(tx.out) = vault.capacity + CellBond
    <2>1. CASE /\ tx.out = {v, u} /\ u.capacity = a + CellBond
      <3>1. v # u /\ \A c \in tx.out : c.capacity \in Int
        BY <1>2, <1>3, <1>7, <2>1
      <3>2. Capacity(tx.out) = v.capacity + u.capacity
        BY <2>1, <3>1, CapacityTwo
      <3> QED
        BY <1>3, <1>7, <2>1, <3>2
    <2>2. ASSUME NEW c, tx.out = {v, u, c}, c.capacity = CellBond,
                 c.kind = "receipt", u.capacity = a
          PROVE  Capacity(tx.out) = vault.capacity + CellBond
      <3>1. /\ v # u /\ v # c /\ c # u /\ \A y \in tx.out : y.capacity \in Int
            /\ u # c /\ tx.out = {v, u, c}
        <4>1. u.kind = "plain"
          BY <1>2
        <4> QED
          BY <1>3, <1>7, <2>2, <4>1
      <3>2. Capacity(tx.out) = v.capacity + u.capacity + c.capacity
        BY <3>1, CapacityThree
      <3> QED
        BY <1>3, <1>7, <2>2, <3>2
    <2> QED
      BY <1>11, <2>1, <2>2
  <1>14. WithdrawalVerified(tx, p, a, held)
    <2>1. OneVault(tx) /\ VaultIn(tx) = vault /\ VaultOut(tx) = v
      BY <1>10, VaultVerified
    <2>2. ReasonableFee(tx)
      BY <1>3, <1>7, <1>12, <1>13 DEF ReasonableFee
    <2>3. WithdrawalDelta(tx, a)
      BY <1>3, <1>6, <1>7, <2>1 DEF WithdrawalDelta
    <2>4. SpendsReceipt(tx, p, held.point) /\ SpentReceipt(tx, p, held.point) = x
      <3>1. x.lock = LpLock[p] /\ x.point = held.point
        BY <1>4 DEF x
      <3> QED
        BY <1>10, <3>1 DEF SpendsReceipt, SpentReceipt
    <2>5. WithdrawnReceipt(tx, x, a, held)
      <3>1. CASE x.data.supplied = a
        BY <3>1 DEF WithdrawnReceipt, x
      <3>2. ASSUME NEW c, OfKind(tx.out, "receipt") = {c}, c.id = p,
                   c.lock = LpLock[p], c.data = left
            PROVE  WithdrawnReceipt(tx, x, a, held)
        <4>1. NextReceipts(tx, x) = {c}
          BY <1>4, <3>2 DEF NextReceipts
        <4>2. Cardinality({c}) = 1 /\ Only({c}) = c
          BY OneIs
        <4> QED
          BY <1>9, <3>2, <4>1, <4>2 DEF WithdrawnReceipt
      <3> QED
        BY <1>11, <3>1, <3>2
    <2> QED
      BY <2>1, <2>2, <2>3, <2>4, <2>5 DEF WithdrawalVerified
  <1>15. VaultDataOK(vault.data) /\ (VaultDataOK(d) <=> a <= Free)
    BY <1>1, <1>3, <1>6
       DEF IInv, VaultBacked, VaultDataOK, Shaped, VaultData, Free
  <1>16. ASSUME Accepted(tx) PROVE VaultDataOK(d)
    <2>1. HasVault(tx)
      BY <1>10 DEF HasVault, HasType, Group, Cells
    <2>2. Only({v}) = v
      BY OneIs
    <2> QED
      BY <1>7, <1>10, <1>16, <2>1, <2>2 DEF Accepted, VaultTypeAllows
  <1>17. ASSUME VaultDataOK(d) PROVE Accepted(tx)
    <2>1. HasInputLock(tx, LpLock[p])
      BY <1>1, <1>4 DEF HasInputLock
    <2>2. /\ SumOf(tx.in, "receipt", "supplied") = x.data.supplied
          /\ SumOf(tx.out, "receipt", "supplied") = x.data.supplied - a
      <3>1. SumOf(tx.in, "receipt", "supplied") = x.data.supplied
        <4>1. x.data.supplied \in Int
          BY <1>4
        <4> QED
          BY <1>10, <4>1, SuppliedOne
      <3>2. CASE x.data.supplied = a /\ OfKind(tx.out, "receipt") = {}
        <4>1. SumOf(tx.out, "receipt", "supplied") = 0
          BY <3>2, SumOfNone
        <4> QED
          BY <1>3, <3>1, <3>2, <4>1
      <3>3. ASSUME NEW c, OfKind(tx.out, "receipt") = {c}, c.data = left
            PROVE  SumOf(tx.out, "receipt", "supplied") = x.data.supplied - a
        <4>1. c.data.supplied = x.data.supplied - a
              /\ x.data.supplied - a \in Int
          BY <1>3, <1>4, <1>8, <3>3
        <4> QED
          BY <3>3, <4>1, SuppliedOne
      <3> QED
        BY <1>11, <3>1, <3>2, <3>3
    <2>3. AccountingDeltaOK(tx, vault, v)
      <3>1. ReceiptTotalDeltaOK(tx, vault, v)
        BY <1>1, <1>3, <1>4, <1>6, <1>7, <1>10, <2>2
           DEF ReceiptTotalDeltaOK, Shaped, VaultData
      <3> QED
        BY <1>6, <1>7, <3>1 DEF AccountingDeltaOK
    <2>4. CapacityDeltaOK(tx, vault, v)
      BY <1>10 DEF CapacityDeltaOK
    <2>5. HasVault(tx) /\ VaultLockAllows(tx) /\ VaultTypeAllows(tx)
      <3>1. VaultDataOK(v.data)
        BY <1>7, <1>17
      <3> QED
        BY <1>10, <1>15, <2>3, <2>4, <3>1, VaultAllows
    <2>6. ReceiptTypeAllows(tx, p)
      <3>1. /\ Cardinality({x}) = 1 /\ Only({x}) = x /\ Cardinality({}) = 0
            /\ Group(tx.in, "receipt", p) = {x}
        BY <1>10, OneIs, FS_EmptySet
      <3>2. ReceiptDataOK(x.data)
        BY <1>4 DEF ReceiptDataOK
      <3>3. CASE Group(tx.out, "receipt", p) = {}
        <4>1. ReceiptBurnOK(tx, p, x.data)
          BY <1>4, <2>1, <2>5 DEF ReceiptBurnOK, LockedOf
        <4> QED
          BY SMTT(30), <3>1, <3>2, <3>3, <4>1 DEF ReceiptTypeAllows
      <3>4. ASSUME NEW c, Group(tx.out, "receipt", p) = {c}, c.data = left
            PROVE  ReceiptTypeAllows(tx, p)
        <4>1. Cardinality({c}) = 1 /\ Only({c}) = c
          BY OneIs
        <4>2. ReceiptDataOK(c.data)
          BY <1>3, <1>4, <1>8, <3>4 DEF ReceiptDataOK
        <4>3. ReceiptUpdateOK(tx, p, x.data, c.data)
          BY <1>3, <1>4, <1>8, <1>10, <2>1, <3>4
             DEF ReceiptUpdateOK, LpDeltaOK, LockedOf
        <4> QED
          BY SMTT(30), <3>1, <3>2, <3>4, <4>1, <4>2, <4>3 DEF ReceiptTypeAllows
      <3> QED
        BY <1>11, <3>3, <3>4
    <2>7. Capacity(tx.in) >= Capacity(tx.out)
      BY <1>3, <1>7, <1>12, <1>13
    <2> QED
      BY <1>10, <2>5, <2>6, <2>7 DEF Accepted
  <1> QED
    BY <1>14, <1>15, <1>16, <1>17 DEF tx

LEMMA ClaimAccepted ==
    ASSUME IInv, CellsInv, NEW k \in Claims, NEW a \in Amounts \cup Fees,
           NEW p, p = ReceiptOf[k],
           receipt[p] # None, vault.data.fee >= a,
           NEW held, held.point = receipt[p].point
    PROVE  ClaimVerified(ClaimTx(k, a), k, a, held) /\ Accepted(ClaimTx(k, a))
  <1> DEFINE tx == ClaimTx(k, a)
             d == LessFee(vault.data, a)
             x == receipt[p]
             more == MoreClaimed(x.data, a)
  <1>1. p \in Positions /\ LpCell(p, x) /\ Shaped
    BY ClaimCells DEF CellsInv
  <1>2. PICK v, c, f, u, w :
              /\ tx.in = {vault, x, w}
              /\ tx.out = {v, c, f, u}
              /\ w.kind = "plain" /\ w.lock = LpLock[p]
              /\ w.capacity = CellBond
              /\ NextVault(v, -a, d)
              /\ LpCell(p, c) /\ c.data = more
              /\ f.kind = "claim" /\ f.id = k /\ f.lock = LpLock[p]
              /\ f.capacity = CellBond
              /\ f.data = [status |-> "pending", amount |-> a]
              /\ u.kind = "plain" /\ u.lock = LpLock[p] /\ u.capacity = a
    BY SMTT(30), <1>1, ClaimCells
  <1>3. a \in Nat /\ a > 0 /\ CellBond \in Nat /\ LpLock[p] # "vault"
    <2>1. a \in Nat /\ a > 0 /\ CellBond \in Nat
      <3>1. \A y \in Amounts \cup Fees : y \in Nat \ {0}
        BY ChainAssumption
      <3> QED
        BY <3>1, ChainAssumption
    <2>2. LpLock[p] # "vault"
      BY <1>1, ChainAssumption
    <2> QED
      BY <2>1, <2>2
  <1>4. /\ x.kind = "receipt" /\ x.id = p /\ x.lock = LpLock[p]
        /\ x.capacity = CellBond /\ x.data.supplied \in Nat
        /\ x.data.available = x.data.supplied
        /\ x.data.reserved = 0 /\ x.data.deployed = 0
        /\ x.data \in ReceiptData
    BY <1>1, LiveReceipt DEF LpCell, ReceiptCells, ReceiptData
  <1>5. /\ c.kind = "receipt" /\ c.id = p /\ c.lock = LpLock[p]
        /\ c.capacity = CellBond
    BY <1>2, LiveReceipt
  <1>6. /\ d \in VaultData /\ d.total = vault.data.total
        /\ d.reserved = vault.data.reserved
        /\ d.deployed = vault.data.deployed /\ d.fee = vault.data.fee - a
        /\ d = [vault.data EXCEPT !.fee = Sat(@, a)]
    <2>1. vault.data \in VaultData /\ a \in Int
      BY <1>1, <1>3 DEF Shaped
    <2>2. /\ d \in VaultData /\ d.total = vault.data.total
          /\ d.reserved = vault.data.reserved
          /\ d.deployed = vault.data.deployed /\ d.fee = vault.data.fee - a
      BY <2>1, FeeData
    <2>3. Sat(vault.data.fee, a) = vault.data.fee - a
      BY <1>3, <2>1 DEF Sat, VaultData
    <2> QED
      BY <2>2, <2>3 DEF LessFee
  <1>7. /\ vault.kind = "vault" /\ vault.id = "vault" /\ vault.capacity \in Int
        /\ v.kind = "vault" /\ v.id = "vault" /\ v.data = d
        /\ v.capacity = vault.capacity - a
    BY <1>1, <1>2, <1>3 DEF Shaped, IsVault, NextVault
  <1>8. /\ more.supplied = x.data.supplied /\ more.available = x.data.available
        /\ more.reserved = x.data.reserved /\ more.deployed = x.data.deployed
        /\ more.claimed = x.data.claimed + a /\ x.data.claimed \in Nat
        /\ more = [x.data EXCEPT !.claimed = @ + a]
    <2>1. /\ more.supplied = x.data.supplied /\ more.available = x.data.available
          /\ more.reserved = x.data.reserved /\ more.deployed = x.data.deployed
          /\ more.claimed = x.data.claimed + a
      <3>1. x.data \in ReceiptData /\ a \in Nat
        BY <1>3, <1>4
      <3> QED
        BY <3>1, MoreClaimedData
    <2> QED
      BY <1>4, <2>1 DEF MoreClaimed, ReceiptData
  <1> HIDE DEF tx, d, x, more
  <1>9. /\ Group(tx.in, "vault", "vault") = {vault}
        /\ Group(tx.out, "vault", "vault") = {v}
        /\ OfKind(tx.in, "vault") = {vault} /\ OfKind(tx.out, "vault") = {v}
        /\ Group(tx.in, "receipt", p) = {x} /\ Group(tx.out, "receipt", p) = {c}
        /\ OfKind(tx.in, "receipt") = {x} /\ OfKind(tx.out, "receipt") = {c}
        /\ Group(tx.in, "claim", k) = {} /\ Group(tx.out, "claim", k) = {f}
        /\ OfKind(tx.in, "claim") = {} /\ OfKind(tx.out, "claim") = {f}
        /\ OfKind(Cells(tx), "receipt") = {x, c}
        /\ OfKind(Cells(tx), "claim") = {f} /\ OfKind(Cells(tx), "request") = {}
    BY <1>2, <1>4, <1>5, <1>7 DEF Group, OfKind, Cells
  <1>10. HasTypeCode(tx, "receipt") /\ HasTypeCode(tx, "claim")
    BY <1>9 DEF HasTypeCode
  <1>11. Capacity(tx.in) >= Capacity(tx.out)
    <2>1. /\ vault # x /\ vault # w /\ x # w /\ tx.in = {vault, x, w}
          /\ \A y \in tx.in : y.capacity \in Int
      BY <1>2, <1>3, <1>4, <1>7
    <2>2. Capacity(tx.in) = vault.capacity + x.capacity + w.capacity
      BY <2>1, CapacityThree
    <2>3. /\ v # c /\ v # f /\ c # f /\ u # v /\ u # c /\ u # f
          /\ tx.out = {v, c, f, u}
          /\ \A y \in tx.out : y.capacity \in Int
      BY <1>2, <1>3, <1>5, <1>7
    <2>4. Capacity(tx.out) = v.capacity + c.capacity + f.capacity + u.capacity
      BY <2>3, CapacityFour
    <2> QED
      BY <1>2, <1>3, <1>4, <1>5, <1>7, <2>2, <2>4
  <1>12. HasInputLock(tx, LpLock[p])
    BY <1>2 DEF HasInputLock
  <1>13. HasVault(tx) /\ VaultLockAllows(tx) /\ VaultTypeAllows(tx)
    <2>1. VaultDataOK(vault.data) /\ VaultDataOK(v.data)
      BY <1>6, <1>7 DEF IInv, VaultBacked, VaultDataOK
    <2>2. CapacityDeltaOK(tx, vault, v)
      BY <1>10 DEF CapacityDeltaOK
    <2>3. \A y \in tx.out : y.lock = "vault" => y.kind = "vault"
      BY <1>2, <1>3, <1>5, <1>7
    <2>4. MaxSum(tx, "claim", "amount") = a
      <3>1. SumOf(tx.in, "claim", "amount") = 0
        BY <1>9, SumOfNone
      <3>2. SumOf(tx.out, "claim", "amount") = a
        <4>1. f.data.amount = a /\ a \in Int
          BY <1>2, <1>3
        <4> QED
          BY <1>9, <4>1, AmountOne
      <3> QED
        BY <1>3, <3>1, <3>2 DEF MaxSum
    <2>5. FeeDeltaOK(tx, vault, v)
      BY <1>1, <1>3, <1>6, <1>7, <1>10, <2>4 DEF FeeDeltaOK, Shaped, VaultData
    <2>6. AccountingDeltaOK(tx, vault, v)
      BY <1>6, <1>7, <2>5 DEF AccountingDeltaOK
    <2> QED
      BY <1>9, <1>10, <2>1, <2>2, <2>3, <2>6, VaultAllows
  <1>14. ReceiptTypeAllows(tx, p)
    <2>1. /\ Cardinality({x}) = 1 /\ Only({x}) = x
          /\ Cardinality({c}) = 1 /\ Only({c}) = c
      BY OneIs
    <2>2. ReceiptDataOK(x.data) /\ ReceiptDataOK(c.data)
      BY <1>2, <1>4, <1>8 DEF ReceiptDataOK
    <2>3. ReceiptUpdateOK(tx, p, x.data, c.data)
      <3>1. ClaimDeltaOK(x.data, c.data)
        BY <1>2, <1>3, <1>8 DEF ClaimDeltaOK
      <3> QED
        BY <1>10, <1>12, <1>13, <3>1 DEF ReceiptUpdateOK
    <2>4. Group(tx.in, "receipt", p) = {x} /\ Group(tx.out, "receipt", p) = {c}
      BY <1>9
    <2> QED
      BY SMTT(30), <2>1, <2>2, <2>3, <2>4 DEF ReceiptTypeAllows
  <1>15. ClaimTypeAllows(tx, k)
    <2>1. Cardinality({f}) = 1 /\ Only({f}) = f /\ Cardinality({}) = 0
      BY OneIs, FS_EmptySet
    <2>2. HasType(tx, "receipt", p)
      BY <1>9 DEF HasType, Group, Cells
    <2>3. /\ Group(tx.in, "claim", k) = {} /\ Group(tx.out, "claim", k) = {f}
      BY <1>9
    <2>4. f.data.status = "pending" /\ f.data.amount > 0
      BY <1>2, <1>3
    <2> QED
      BY <1>12, <1>13, <2>1, <2>2, <2>3, <2>4 DEF ClaimTypeAllows, ClaimStatuses
  <1>16. Accepted(tx)
    <2>1. \A y \in OfKind(Cells(tx), "receipt") : y.id = p
      BY <1>4, <1>5, <1>9
    <2>2. \A y \in OfKind(Cells(tx), "claim") : y.id = k
      BY <1>2, <1>9
    <2> QED
      BY <1>9, <1>11, <1>13, <1>14, <1>15, <2>1, <2>2 DEF Accepted
  <1>17. ClaimVerified(tx, k, a, held)
    <2>1. OneVault(tx) /\ VaultIn(tx) = vault /\ VaultOut(tx) = v
      <3>1. OfKind(tx.in, "vault") = {vault} /\ OfKind(tx.out, "vault") = {v}
        BY <1>9
      <3> QED
        BY <3>1, VaultVerified
    <2>2. FeeDelta(tx, a)
      BY <1>3, <1>6, <1>7, <2>1 DEF FeeDelta
    <2>3. SpendsReceipt(tx, p, held.point) /\ SpentReceipt(tx, p, held.point) = x
      <3>1. x.lock = LpLock[p] /\ x.point = held.point
        BY <1>4 DEF x
      <3> QED
        BY <1>9, <3>1 DEF SpendsReceipt, SpentReceipt
    <2>4. FeeReceiptDelta(tx, x, a)
      <3>1. NextReceipts(tx, x) = {c}
        BY <1>4, <1>5, <1>9 DEF NextReceipts
      <3>2. Cardinality({c}) = 1 /\ Only({c}) = c
        BY OneIs
      <3> QED
        BY <1>2, <1>8, <3>1, <3>2 DEF FeeReceiptDelta
    <2>5. OneOut(tx, "claim", LpLock[p]) /\ TheOut(tx, "claim", LpLock[p]) = f
      <3>1. OfKind(tx.out, "claim") = {f} /\ f.lock = LpLock[p]
        BY <1>2, <1>9
      <3> QED
        BY <3>1, OutVerified
    <2>6. ClaimCellOK(f, k, a)
      BY <1>2 DEF ClaimCellOK
    <2> QED
      BY <2>1, <2>2, <2>3, <2>4, <2>5, <2>6 DEF ClaimVerified
  <1> QED
    BY <1>16, <1>17 DEF tx

LEMMA RequestAccepted ==
    ASSUME IInv, CellsInv, NEW r \in Requests, NEW a \in Amounts, NEW f \in Fees
    PROVE  /\ RequestVerified(RequestTx(r, a, f), r, a, f)
           /\ Accepted(RequestTx(r, a, f)) <=> a <= Free
  <1> DEFINE tx == RequestTx(r, a, f)
             d == AfterReserve(vault.data, a, f)
             m == NewRequestData(a, f)
  <1>1. Shaped
    BY DEF CellsInv
  <1>2. PICK v, q, u, w :
              /\ tx.in = {vault, w}
              /\ tx.out = {v, q, u}
              /\ w.kind = "plain" /\ w.lock = MerchantLock[r]
              /\ w.capacity = f + CellBond + ReservePay
              /\ NextVault(v, f, d)
              /\ RequestCell(r, q) /\ q.data = m
              /\ u.kind = "plain" /\ u.lock = "receiver"
              /\ u.capacity = ReservePay
    BY <1>1, RequestTxCells
  <1>3. /\ a \in Nat /\ a > 0 /\ f \in Nat /\ f > 0
        /\ CellBond \in Nat /\ ReservePay \in Nat
    BY ChainAssumption
  <1>4. m.status = "reserved" /\ m.amount = a /\ m.fee = f
    BY DEF NewRequestData
  <1>5. /\ q.kind = "request" /\ q.id = r /\ q.lock = Operator
        /\ q.lock # "vault" /\ q.capacity = CellBond
    BY <1>2, LiveRequest
  <1>6. /\ d \in VaultData /\ d.total = vault.data.total
        /\ d.reserved = vault.data.reserved + a
        /\ d.deployed = vault.data.deployed /\ d.fee = vault.data.fee + f
        /\ d = [vault.data EXCEPT !.reserved = @ + a, !.fee = @ + f]
    <2>1. vault.data \in VaultData /\ a \in Int /\ f \in Int
      BY <1>1, <1>3 DEF Shaped
    <2>2. /\ d \in VaultData /\ d.total = vault.data.total
          /\ d.deployed = vault.data.deployed
          /\ d.reserved = vault.data.reserved + a
          /\ d.fee = vault.data.fee + f
      BY <2>1, ReservedData
    <2>3. d = [vault.data EXCEPT !.reserved = @ + a, !.fee = @ + f]
      BY DEF AfterReserve
    <2> QED
      BY <2>2, <2>3
  <1>7. /\ vault.kind = "vault" /\ vault.id = "vault" /\ vault.capacity \in Int
        /\ v.kind = "vault" /\ v.id = "vault" /\ v.data = d
        /\ v.capacity = vault.capacity + f
    BY <1>1, <1>2 DEF Shaped, IsVault, NextVault
  <1> HIDE DEF tx, d, m
  <1>8. /\ Group(tx.in, "vault", "vault") = {vault}
        /\ Group(tx.out, "vault", "vault") = {v}
        /\ OfKind(tx.in, "vault") = {vault} /\ OfKind(tx.out, "vault") = {v}
        /\ Group(tx.in, "request", r) = {} /\ Group(tx.out, "request", r) = {q}
        /\ OfKind(tx.in, "request") = {} /\ OfKind(tx.out, "request") = {q}
        /\ OfKind(tx.out, "plain") = {u}
        /\ OfKind(Cells(tx), "request") = {q}
        /\ OfKind(Cells(tx), "receipt") = {} /\ OfKind(Cells(tx), "claim") = {}
    BY <1>2, <1>5, <1>7 DEF Group, OfKind, Cells
  <1>9. HasTypeCode(tx, "request")
    BY <1>8 DEF HasTypeCode
  <1>10. Capacity(tx.in) >= Capacity(tx.out)
    <2>1. /\ vault # w /\ tx.in = {vault, w}
          /\ \A y \in tx.in : y.capacity \in Int
      BY <1>2, <1>3, <1>7
    <2>2. Capacity(tx.in) = vault.capacity + w.capacity
      BY <2>1, CapacityTwo
    <2>3. /\ v # q /\ v # u /\ q # u /\ tx.out = {v, q, u}
          /\ \A y \in tx.out : y.capacity \in Int
      BY <1>2, <1>3, <1>5, <1>7
    <2>4. Capacity(tx.out) = v.capacity + q.capacity + u.capacity
      BY <2>3, CapacityThree
    <2> QED
      BY <1>2, <1>3, <1>5, <1>7, <2>2, <2>4
  <1>11. VaultDataOK(vault.data) /\ (VaultDataOK(d) <=> a <= Free)
    BY <1>1, <1>3, <1>6
       DEF IInv, VaultBacked, VaultDataOK, Shaped, VaultData, Free
  <1>12. ASSUME Accepted(tx) PROVE VaultDataOK(d)
    <2>1. HasVault(tx)
      BY <1>8 DEF HasVault, HasType, Group, Cells
    <2>2. Only({v}) = v
      BY OneIs
    <2> QED
      BY <1>7, <1>8, <1>12, <2>1, <2>2 DEF Accepted, VaultTypeAllows
  <1>13. ASSUME VaultDataOK(d) PROVE Accepted(tx)
    <2>1. HasInputLock(tx, MerchantLock[r])
      BY <1>2 DEF HasInputLock
    <2>2. MaxSum(tx, "request", "amount") = a
      <3>1. SumOf(tx.in, "request", "amount") = 0
        BY <1>8, SumOfNone
      <3>2. SumOf(tx.out, "request", "amount") = a
        <4>1. q.data.amount = a /\ a \in Int
          <5>1. q.data = m
            BY <1>2
          <5> QED
            BY <1>3, <1>4, <5>1
        <4>2. OfKind(tx.out, "request") = {q}
          BY <1>8
        <4> QED
          BY <4>1, <4>2, AmountOne
      <3> QED
        BY <1>3, <3>1, <3>2 DEF MaxSum
    <2>3. MaxSum(tx, "request", "fee") = f
      <3>1. SumOf(tx.in, "request", "fee") = 0
        BY <1>8, SumOfNone
      <3>2. SumOf(tx.out, "request", "fee") = f
        <4>1. q.data.fee = f /\ f \in Int
          <5>1. q.data = m
            BY <1>2
          <5> QED
            BY <1>3, <1>4, <5>1
        <4>2. OfKind(tx.out, "request") = {q}
          BY <1>8
        <4> QED
          BY <4>1, <4>2, FeeOne
      <3> QED
        BY <1>3, <3>1, <3>2 DEF MaxSum
    <2>4. AccountingDeltaOK(tx, vault, v)
      <3>1. RequestLockDeltaOK(tx, vault, v)
        BY <1>1, <1>3, <1>6, <1>7, <1>9, <2>2
           DEF RequestLockDeltaOK, Shaped, VaultData
      <3>2. FeeDeltaOK(tx, vault, v)
        BY <1>1, <1>3, <1>6, <1>7, <1>9, <2>3 DEF FeeDeltaOK, Shaped, VaultData
      <3> QED
        BY <1>6, <1>7, <3>1, <3>2 DEF AccountingDeltaOK
    <2>5. HasVault(tx) /\ VaultLockAllows(tx) /\ VaultTypeAllows(tx)
      <3>1. VaultDataOK(v.data)
        BY <1>7, <1>13
      <3>2. CapacityDeltaOK(tx, vault, v)
        BY <1>3, <1>7 DEF CapacityDeltaOK
      <3>3. \A y \in tx.out : y.lock = "vault" => y.kind = "vault"
        BY <1>2, <1>5, <1>7
      <3> QED
        BY <1>8, <1>9, <1>11, <2>4, <3>1, <3>2, <3>3, VaultAllows
    <2>6. RequestTypeAllows(tx, r)
      <3>1. /\ Cardinality({q}) = 1 /\ Only({q}) = q /\ Cardinality({}) = 0
            /\ Group(tx.in, "request", r) = {}
            /\ Group(tx.out, "request", r) = {q}
        BY <1>8, OneIs, FS_EmptySet
      <3>2. RequestDataOK(q.data) /\ RequestCreateOK(tx, r, q.data)
        BY <1>2, <1>3, <1>4, <2>1, <2>5
           DEF RequestDataOK, RequestCreateOK, RequestStatuses
      <3> QED
        BY <3>1, <3>2 DEF RequestTypeAllows
    <2>7. \A y \in OfKind(Cells(tx), "request") : y.id = r
      BY <1>5, <1>8
    <2> QED
      BY <1>8, <1>10, <2>5, <2>6, <2>7 DEF Accepted
  <1>14. RequestVerified(tx, r, a, f)
    <2>1. OneVault(tx) /\ VaultIn(tx) = vault /\ VaultOut(tx) = v
      <3>1. OfKind(tx.in, "vault") = {vault} /\ OfKind(tx.out, "vault") = {v}
        BY <1>8
      <3> QED
        BY <3>1, VaultVerified
    <2>2. ReservationDelta(tx, a, f)
      BY <1>3, <1>6, <1>7, <2>1 DEF ReservationDelta
    <2>3. OneOut(tx, "request", Operator) /\ TheOut(tx, "request", Operator) = q
      <3>1. OfKind(tx.out, "request") = {q} /\ q.lock = Operator
        BY <1>5, <1>8
      <3> QED
        BY <3>1, OutVerified
    <2>4. RequestCellOK(q, r, a, f)
      BY <1>2, <1>4, <1>5 DEF RequestCellOK
    <2>5. ReceiverPaid(tx)
      <3>1. {y \in OfKind(tx.out, "plain") : y.lock = "receiver"} = {u}
        BY <1>2, <1>8
      <3>2. Cardinality({u}) = 1 /\ Only({u}) = u
        BY OneIs
      <3> QED
        BY <1>2, <3>1, <3>2 DEF ReceiverPaid
    <2> QED
      BY <2>1, <2>2, <2>3, <2>4, <2>5 DEF RequestVerified
  <1> QED
    BY <1>11, <1>12, <1>13, <1>14 DEF tx

(***************************************************************************)
(* The server's checks and the scripts agree on the transactions wallets   *)
(* compose from the rules: the server verifies each of them, and the       *)
(* chain takes it exactly when it stays within the free liquidity.         *)
(***************************************************************************)
THEOREM ServiceAcceptedHolds == ChainSpec => []ServiceAccepted
  <1>1. IInv /\ CellsInv => ServiceAccepted
    <2> SUFFICES ASSUME IInv, CellsInv PROVE ServiceAccepted
      OBVIOUS
    <2>1. ASSUME NEW p \in Positions, NEW a \in Amounts
          PROVE  /\ DepositVerified(SupplyTx(p, a), p, a)
                 /\ Accepted(SupplyTx(p, a))
      BY SupplyAccepted DEF CellsInv
    <2>2. ASSUME NEW w \in Withdrawals, NEW a \in Amounts,
                 NEW p, p = WithdrawnFrom[w],
                 receipt[p] # None, receipt[p].data.available >= a,
                 NEW held, held = [supplied |-> receipt[p].data.supplied,
                                   point |-> receipt[p].point]
          PROVE  /\ WithdrawalVerified(WithdrawTx(w, a), p, a, held)
                 /\ Accepted(WithdrawTx(w, a)) <=> a <= Free
      <3>1. /\ held.supplied = receipt[p].data.supplied
            /\ held.point = receipt[p].point
        BY <2>2
      <3> QED
        BY <2>2, <3>1, WithdrawAccepted
    <2>3. ASSUME NEW k \in Claims, NEW a \in Amounts \cup Fees,
                 NEW p, p = ReceiptOf[k], receipt[p] # None,
                 vault.data.fee >= a
          PROVE  /\ ClaimVerified(ClaimTx(k, a), k, a,
                                  [point |-> receipt[p].point])
                 /\ Accepted(ClaimTx(k, a))
      <3> DEFINE held == [point |-> receipt[p].point]
      <3>1. held.point = receipt[p].point
        OBVIOUS
      <3> HIDE DEF held
      <3>2. ClaimVerified(ClaimTx(k, a), k, a, held) /\ Accepted(ClaimTx(k, a))
        BY <2>3, <3>1, ClaimAccepted
      <3> QED
        BY <3>2 DEF held
    <2>4. ASSUME NEW r \in Requests, NEW a \in Amounts, NEW f \in Fees
          PROVE  /\ RequestVerified(RequestTx(r, a, f), r, a, f)
                 /\ Accepted(RequestTx(r, a, f)) <=> a <= Free
      BY RequestAccepted
    <2> QED
      BY <2>1, <2>2, <2>3, <2>4 DEF ServiceAccepted
  <1> QED
    BY <1>1, SpecCells, PTL

----------------------------------------------------------------------------
(***************************************************************************)
(* Every transaction is a transition the vault policy allows.              *)
(***************************************************************************)
Seen(d, v) ==
    /\ v.total = d.total /\ v.available = d.total - d.reserved - d.deployed
    /\ v.reserved = d.reserved /\ v.deployed = d.deployed /\ v.fee = d.fee
    /\ d.total \in Int /\ d.reserved \in Int /\ d.deployed \in Int
    /\ d.fee \in Int
    /\ Policy!ValidVault(v)

LEMMA SeenVault ==
    ASSUME NEW d \in VaultData PROVE Seen(d, VaultSeen(d))
  <1>1. /\ d.total \in Int /\ d.reserved \in Int /\ d.deployed \in Int
        /\ d.fee \in Int
    BY DEF VaultData
  <1> QED
    BY <1>1 DEF Seen, VaultSeen, Policy!ValidVault

LEMMA SeenReceipt ==
    ASSUME NEW p \in Positions, NEW c, LpCell(p, c), NEW fee \in Nat,
           NEW s, s = ReceiptSeen(c, fee)
    PROVE  /\ s # None
           /\ s.supplied = c.data.supplied /\ s.available = c.data.supplied
           /\ s.claimed = c.data.claimed /\ s.earned = c.data.claimed + fee
           /\ c.data.supplied \in Nat /\ c.data.claimed \in Nat
           /\ c.data.supplied > 0
           /\ Policy!ValidReceipt(s)
  <1> DEFINE d == c.data
  <1>1. /\ c # None /\ d.supplied \in Nat /\ d.claimed \in Nat
        /\ d.available = d.supplied /\ d.reserved = 0 /\ d.deployed = 0
        /\ d.supplied > 0
    BY LiveReceipt DEF LpCell
  <1>2. s = [supplied |-> d.supplied, available |-> d.available,
             reserved |-> d.reserved, deployed |-> d.deployed,
             claimed |-> d.claimed, earned |-> d.claimed + fee]
    BY <1>1 DEF ReceiptSeen
  <1> HIDE DEF d
  <1>3. /\ s.supplied = d.supplied /\ s.available = d.supplied
        /\ s.reserved = 0 /\ s.deployed = 0 /\ s.claimed = d.claimed
        /\ s.earned = d.claimed + fee
    BY <1>1, <1>2
  <1>4. s \in Records
    BY <1>1, <1>2 DEF Records
  <1>5. s # None
    BY <1>4, ChainAssumption
  <1>6. Policy!ValidReceipt(s)
    BY <1>1, <1>3 DEF Policy!ValidReceipt
  <1> QED
    BY <1>1, <1>3, <1>5, <1>6 DEF d

LEMMA SeenRequest ==
    ASSUME NEW r \in Requests, NEW c, RequestCell(r, c),
           NEW s, s = RequestSeen(c)
    PROVE  /\ s # None
           /\ s.amount = c.data.amount /\ s.fee = c.data.fee
           /\ s.status = IF c.data.status = "reserved"
                         THEN "Reserved" ELSE "Opening"
           /\ c.data.amount \in Nat /\ c.data.amount > 0
           /\ c.data.fee \in Nat
           /\ Policy!ValidRequest(s)
  <1> DEFINE d == c.data
  <1>1. /\ c # None /\ d.amount \in Nat /\ d.amount > 0
        /\ d.fee \in Nat /\ d.fee > 0
        /\ d.status \in {"reserved", "deployed"}
    BY LiveRequest DEF RequestCell
  <1>2. s = [amount |-> d.amount, fee |-> d.fee,
             status |-> IF d.status = "reserved" THEN "Reserved" ELSE "Opening"]
    BY <1>1 DEF RequestSeen
  <1> HIDE DEF d
  <1>3. /\ s.amount = d.amount /\ s.fee = d.fee
        /\ s.status = IF d.status = "reserved" THEN "Reserved" ELSE "Opening"
    BY <1>2
  <1>4. s \in Records
    BY <1>1, <1>2 DEF Records
  <1>5. s # None
    BY <1>4, ChainAssumption
  <1>6. Policy!ValidRequest(s)
    BY <1>1, <1>3 DEF Policy!ValidRequest
  <1> QED
    BY <1>1, <1>3, <1>5, <1>6 DEF d

\* What a receipt the transaction leaves alone looks like after it.
LEMMA OthersKept ==
    ASSUME Shaped, NEW p \in Positions,
           \A q \in Positions \ {p} : receipt'[q] = receipt[q],
           vault.data.fee \in Nat, vault'.data.fee \in Nat
    PROVE  Policy!OnlyReceipt(p)
  <1> DEFINE R == [q \in Positions |-> ReceiptSeen(receipt[q], vault.data.fee)]
  <1> SUFFICES ASSUME NEW q \in Positions \ {p}
               PROVE  /\ R[q] = None <=> R'[q] = None
                      /\ R[q] # None =>
                            /\ R'[q].supplied = R[q].supplied
                            /\ R'[q].claimed = R[q].claimed
    BY DEF Policy!OnlyReceipt
  <1>1. /\ R[q] = ReceiptSeen(receipt[q], vault.data.fee)
        /\ R'[q] = ReceiptSeen(receipt[q], vault'.data.fee)
    BY DEF ReceiptSeen
  <1> HIDE DEF R
  <1>2. CASE receipt[q] = None
    BY <1>1, <1>2 DEF ReceiptSeen
  <1>3. CASE LpCell(q, receipt[q])
    BY <1>1, <1>3, SeenReceipt
  <1> QED
    BY <1>2, <1>3 DEF Shaped

LEMMA FeeNat ==
    ASSUME Shaped PROVE vault.data \in VaultData /\ vault.data.fee \in Nat
  BY DEF Shaped, VaultData

LEMMA SupplyPolicy ==
    ASSUME IInv, CellsInv, Shaped', NEW p \in Positions, NEW a \in Amounts,
           MineSupply(p, a)
    PROVE  Policy!Supply(p)
  <1> DEFINE d == MoreTotal(vault.data, a)
             c == receipt'[p]
             s == ReceiptSeen(c, vault'.data.fee)
             v == VaultSeen(vault.data)
             u == VaultSeen(vault'.data)
  <1>1. /\ NextVault(vault', a, d)
        /\ LpCell(p, c) /\ c.data = Minted(p, a).data
        /\ \A q \in Positions \ {p} : receipt'[q] = receipt[q]
        /\ \A r \in Requests : request'[r] = request[r]
    BY SupplyStep DEF CellsInv
  <1>2. /\ a \in Nat /\ a > 0 /\ vault.data \in VaultData
        /\ vault.data.fee \in Nat
    BY FeeNat, ChainAssumption DEF CellsInv
  <1>3. /\ d \in VaultData /\ d.total = vault.data.total + a
        /\ d.reserved = vault.data.reserved /\ d.deployed = vault.data.deployed
        /\ d.fee = vault.data.fee
    BY <1>2, TotalData
  <1>4. vault'.data = d
    BY <1>1 DEF NextVault
  <1>5. c.data.supplied = a
    BY <1>1 DEF Minted, TypedCell
  <1> HIDE DEF d
  <1>6. Seen(vault.data, v) /\ Seen(d, u)
    BY <1>2, <1>3, <1>4, SeenVault
  <1>7. /\ s # None /\ s.supplied = a /\ s.available = a
        /\ Policy!ValidReceipt(s)
    <2>1. vault'.data.fee \in Nat
      BY <1>2, <1>3, <1>4
    <2> HIDE DEF c
    <2> QED
      BY <1>1, <1>5, <2>1, SeenReceipt
  <1>8. ReceiptSeen(receipt[p], vault.data.fee) = None
    BY DEF MineSupply, ReceiptSeen
  <1>9. Policy!OnlyReceipt(p)
    BY <1>1, <1>2, <1>3, <1>4, OthersKept DEF CellsInv
  <1> HIDE DEF c, s, v, u
  <1>10. Policy!ValidateSupply(v, u, s)
    BY <1>2, <1>3, <1>6, <1>7 DEF Policy!ValidateSupply, Seen
  <1>11. [r \in Requests |-> RequestSeen(request[r])]'
            = [r \in Requests |-> RequestSeen(request[r])]
    BY <1>1 DEF RequestSeen
  <1> QED
    BY <1>7, <1>8, <1>9, <1>10, <1>11 DEF Policy!Supply, c, s, v, u

LEMMA WithdrawPolicy ==
    ASSUME IInv, CellsInv, IInv', NEW w \in Withdrawals, NEW a \in Amounts,
           MineWithdraw(w, a), NEW p, p = WithdrawnFrom[w]
    PROVE  p \in Positions /\ Policy!Withdraw(p)
  <1> DEFINE d == LessTotal(vault.data, a)
             x == receipt[p]
             c == receipt'[p]
             r == ReceiptSeen(x, vault.data.fee)
             s == ReceiptSeen(c, vault'.data.fee)
             v == VaultSeen(vault.data)
             u == VaultSeen(vault'.data)
  <1>1. /\ p \in Positions /\ LpCell(p, x) /\ x.data.available >= a
        /\ NextVault(vault', -a, d)
        /\ \/ x.data.supplied = a /\ c = None
           \/ LpCell(p, c) /\ c.data = Left(x.data, a)
        /\ \A q \in Positions \ {p} : receipt'[q] = receipt[q]
        /\ \A q \in Requests : request'[q] = request[q]
    BY WithdrawStep DEF CellsInv
  <1>2. /\ a \in Nat /\ a > 0 /\ vault.data \in VaultData
        /\ vault.data.fee \in Nat
    BY FeeNat, ChainAssumption DEF CellsInv
  <1>3. /\ d \in VaultData /\ d.total = vault.data.total - a
        /\ d.reserved = vault.data.reserved /\ d.deployed = vault.data.deployed
        /\ d.fee = vault.data.fee
    <2>1. /\ -a \in Int /\ -(-a) = a
          /\ vault.data.total + (-a) = vault.data.total - a
      BY <1>2 DEF VaultData
    <2> QED
      BY <1>2, <2>1, TotalData
  <1>4. vault'.data = d
    BY <1>1 DEF NextVault
  <1>5. d.reserved + d.deployed <= d.total
    BY <1>4 DEF IInv, VaultBacked
  <1>6. /\ x.data.supplied \in Nat /\ x.data.available = x.data.supplied
        /\ x.data \in ReceiptData
    BY <1>1 DEF LpCell, ReceiptCells, ReceiptData
  <1>7. vault.data.total >= x.data.supplied
    BY <1>1, TotalCovers, LiveReceipt
  <1> HIDE DEF d
  <1>8. Seen(vault.data, v) /\ Seen(d, u)
    BY <1>2, <1>3, <1>4, SeenVault
  <1>9. /\ r # None /\ r.supplied = x.data.supplied
        /\ r.available = x.data.supplied /\ Policy!ValidReceipt(r)
    <2> HIDE DEF x
    <2> QED
      BY <1>1, <1>2, SeenReceipt
  <1>10. s # None => /\ Policy!ValidReceipt(s)
                     /\ s.supplied = x.data.supplied - a
                     /\ s.available = x.data.supplied - a
    <2>1. CASE c = None
      BY <2>1 DEF ReceiptSeen
    <2>2. CASE LpCell(p, c) /\ c.data = Left(x.data, a)
      <3>1. vault'.data.fee \in Nat
        BY <1>2, <1>3, <1>4
      <3>2. c.data.supplied = x.data.supplied - a
        BY <1>1, <1>2, <1>6, <2>2, LeftData
      <3> HIDE DEF c
      <3> QED
        BY <1>1, <2>2, <3>1, <3>2, SeenReceipt
    <2> QED
      BY <1>1, <2>1, <2>2
  <1>11. Policy!OnlyReceipt(p)
    BY <1>1, <1>2, <1>3, <1>4, OthersKept DEF CellsInv
  <1> HIDE DEF c, s, v, u, r, x
  <1>12. v.total - u.total = a
    BY <1>2, <1>3, <1>8 DEF Seen
  <1>13. Policy!ValidateWithdraw(v, u, r, a)
    BY <1>1, <1>2, <1>3, <1>5, <1>6, <1>7, <1>8, <1>9
       DEF Policy!ValidateWithdraw, Seen
  <1>14. Policy!PlannedWithdraw(v, u, r, s, v.total - u.total)
    BY <1>9, <1>10, <1>12, <1>13 DEF Policy!PlannedWithdraw
  <1>15. [q \in Requests |-> RequestSeen(request[q])]'
            = [q \in Requests |-> RequestSeen(request[q])]
    BY <1>1 DEF RequestSeen
  <1> QED
    BY <1>1, <1>9, <1>11, <1>14, <1>15 DEF Policy!Withdraw, c, s, v, u, r, x

LEMMA ClaimPolicy ==
    ASSUME IInv, CellsInv, Shaped', NEW k \in Claims,
           NEW a \in Amounts \cup Fees, MineClaim(k, a), NEW p, p = ReceiptOf[k]
    PROVE  p \in Positions /\ Policy!Claim(p)
  <1> DEFINE d == LessFee(vault.data, a)
             x == receipt[p]
             c == receipt'[p]
             r == ReceiptSeen(x, vault.data.fee)
             s == ReceiptSeen(c, vault'.data.fee)
             v == VaultSeen(vault.data)
             u == VaultSeen(vault'.data)
  <1>1. /\ p \in Positions /\ LpCell(p, x) /\ vault.data.fee >= a
        /\ NextVault(vault', -a, d)
        /\ LpCell(p, c) /\ c.data = MoreClaimed(x.data, a)
        /\ \A q \in Positions \ {p} : receipt'[q] = receipt[q]
        /\ \A q \in Requests : request'[q] = request[q]
    BY ClaimStep DEF CellsInv
  <1>2. /\ a \in Nat /\ a > 0 /\ vault.data \in VaultData
        /\ vault.data.fee \in Nat
    <2>1. \A y \in Amounts \cup Fees : y \in Nat \ {0}
      BY ChainAssumption
    <2> QED
      BY <2>1, FeeNat DEF CellsInv
  <1>3. /\ d \in VaultData /\ d.total = vault.data.total
        /\ d.reserved = vault.data.reserved /\ d.deployed = vault.data.deployed
        /\ d.fee = vault.data.fee - a
    <2>1. a \in Int
      BY <1>2
    <2> QED
      BY <1>2, <2>1, FeeData
  <1>4. vault'.data = d
    BY <1>1 DEF NextVault
  <1>5. vault'.data.fee \in Nat
    BY <1>1, <1>2, <1>3, <1>4
  <1>6. x.data \in ReceiptData /\ c.data.claimed = x.data.claimed + a
    <2>1. x.data \in ReceiptData
      BY <1>1 DEF LpCell, ReceiptCells, ReceiptData
    <2> QED
      BY <1>1, <1>2, <2>1, MoreClaimedData
  <1> HIDE DEF d
  <1>7. Seen(vault.data, v) /\ Seen(d, u)
    BY <1>2, <1>3, <1>4, SeenVault
  <1>8. /\ r # None /\ r.claimed = x.data.claimed
        /\ r.earned = x.data.claimed + vault.data.fee
        /\ x.data.claimed \in Nat /\ Policy!ValidReceipt(r)
    <2> HIDE DEF x
    <2> QED
      BY <1>1, <1>2, SeenReceipt
  <1>9. s # None /\ s.claimed = x.data.claimed + a /\ Policy!ValidReceipt(s)
    <2> HIDE DEF c
    <2> QED
      BY <1>1, <1>5, <1>6, SeenReceipt
  <1>10. Policy!OnlyReceipt(p)
    BY <1>1, <1>2, <1>5, OthersKept DEF CellsInv
  <1> HIDE DEF c, s, v, u, r, x
  <1>11. v.fee - u.fee = a
    BY <1>2, <1>3, <1>7 DEF Seen
  <1>12. Policy!ValidateClaim(v, u, r, a)
    BY <1>1, <1>2, <1>3, <1>7, <1>8 DEF Policy!ValidateClaim, Seen
  <1>13. Policy!PlannedClaim(v, u, r, s, v.fee - u.fee)
    BY <1>8, <1>9, <1>11, <1>12 DEF Policy!PlannedClaim
  <1>14. [q \in Requests |-> RequestSeen(request[q])]'
            = [q \in Requests |-> RequestSeen(request[q])]
    BY <1>1 DEF RequestSeen
  <1> QED
    BY <1>1, <1>8, <1>9, <1>10, <1>13, <1>14
       DEF Policy!Claim, c, s, v, u, r, x

LEMMA RequestPolicy ==
    ASSUME IInv, CellsInv, IInv', NEW r \in Requests, NEW a \in Amounts,
           NEW f \in Fees, MineRequest(r, a, f)
    PROVE  Policy!Reserve(r)
  <1> DEFINE d == AfterReserve(vault.data, a, f)
             c == request'[r]
             s == RequestSeen(c)
             v == VaultSeen(vault.data)
             u == VaultSeen(vault'.data)
  <1>1. /\ request[r] = None
        /\ NextVault(vault', f, d)
        /\ RequestCell(r, c) /\ c.data = NewRequestData(a, f)
        /\ \A q \in Requests \ {r} : request'[q] = request[q]
        /\ \A p \in Positions : receipt'[p] = receipt[p]
    BY RequestStep DEF CellsInv
  <1>2. /\ a \in Nat /\ f \in Nat /\ vault.data \in VaultData
        /\ vault.data.fee \in Nat
    BY FeeNat, ChainAssumption DEF CellsInv
  <1>3. /\ d \in VaultData /\ d.total = vault.data.total
        /\ d.deployed = vault.data.deployed
        /\ d.reserved = vault.data.reserved + a /\ d.fee = vault.data.fee + f
    <2>1. a \in Int /\ f \in Int
      BY <1>2
    <2> QED
      BY <1>2, <2>1, ReservedData
  <1>4. vault'.data = d
    BY <1>1 DEF NextVault
  <1>5. d.reserved + d.deployed <= d.total
    BY <1>4 DEF IInv, VaultBacked
  <1>6. c.data.status = "reserved" /\ c.data.amount = a /\ c.data.fee = f
    BY <1>1 DEF NewRequestData
  <1> HIDE DEF d
  <1>7. Seen(vault.data, v) /\ Seen(d, u)
    BY <1>2, <1>3, <1>4, SeenVault
  <1>8. /\ s # None /\ s.amount = a /\ s.fee = f /\ s.status = "Reserved"
        /\ Policy!ValidRequest(s)
    <2> HIDE DEF c
    <2> QED
      BY <1>1, <1>6, SeenRequest
  <1>9. RequestSeen(request[r]) = None
    BY <1>1 DEF RequestSeen
  <1>10. Policy!OnlyRequest(r)
    BY <1>1 DEF Policy!OnlyRequest, RequestSeen
  <1>11. \A p \in Positions :
            ReceiptSeen(receipt'[p], vault'.data.fee) # None =>
               ReceiptSeen(receipt[p], vault.data.fee) # None
    <2> SUFFICES ASSUME NEW p \in Positions, receipt[p] # None
                 PROVE  ReceiptSeen(receipt[p], vault.data.fee) # None
      BY <1>1 DEF ReceiptSeen
    <2>1. LpCell(p, receipt[p])
      BY DEF CellsInv, Shaped
    <2> QED
      BY <1>2, <2>1, SeenReceipt
  <1> HIDE DEF c, s, v, u
  <1>12. Policy!ValidateReserve(v, u, s) /\ u.total = v.total
    BY <1>2, <1>3, <1>5, <1>7, <1>8 DEF Policy!ValidateReserve, Seen
  <1> QED
    BY <1>8, <1>9, <1>10, <1>11, <1>12 DEF Policy!Reserve, c, s, v, u

LEMMA FundPolicy ==
    ASSUME IInv, CellsInv, NEW r \in Requests, MineFund(r)
    PROVE  Policy!ExternalFunding(r)
  <1> DEFINE x == request[r]
             a == x.data.amount
             d == AfterFund(vault.data, a)
             c == request'[r]
             s == RequestSeen(c)
             v == VaultSeen(vault.data)
             u == VaultSeen(vault'.data)
  <1>1. /\ RequestCell(r, x) /\ a \in Nat /\ a > 0
        /\ NextVault(vault', -a, d)
        /\ RequestCell(r, c) /\ c.data.status = "deployed"
        /\ c.data.amount = a
        /\ \A q \in Requests \ {r} : request'[q] = request[q]
        /\ \A p \in Positions : receipt'[p] = receipt[p]
    BY FundStep DEF CellsInv
  <1>2. /\ vault.data \in VaultData /\ vault.data.fee \in Nat
        /\ vault.data.reserved >= a
    BY FeeNat DEF CellsInv, MineFund, Fundable
  <1>3. /\ d \in VaultData /\ d.total = vault.data.total
        /\ d.fee = vault.data.fee /\ d.reserved = vault.data.reserved - a
        /\ d.deployed = vault.data.deployed + a
    <2>1. a \in Int /\ vault.data \in VaultData
      BY <1>1, <1>2
    <2> QED
      BY <2>1, DeployedData
  <1>4. vault'.data = d
    BY <1>1 DEF NextVault
  <1> HIDE DEF d, a
  <1>5. Seen(vault.data, v) /\ Seen(d, u)
    BY <1>2, <1>3, <1>4, SeenVault
  <1>6. RequestSeen(x) # None
    <2> HIDE DEF x
    <2> QED
      BY <1>1, SeenRequest
  <1>7. /\ s # None /\ s.amount = a /\ s.status = "Opening"
        /\ Policy!ValidRequest(s)
    <2> HIDE DEF c
    <2> QED
      BY <1>1, SeenRequest
  <1>8. Policy!OnlyRequest(r)
    BY <1>1 DEF Policy!OnlyRequest, RequestSeen
  <1>9. [p \in Positions |-> ReceiptSeen(receipt[p], vault.data.fee)]'
           = [p \in Positions |-> ReceiptSeen(receipt[p], vault.data.fee)]
    BY <1>1, <1>3, <1>4 DEF ReceiptSeen
  <1> HIDE DEF x, c, s, v, u
  <1>10. u.deployed - v.deployed = a
    BY <1>1, <1>2, <1>3, <1>5 DEF Seen
  <1>11. Policy!ValidateExternalFunding(v, u, s, u.deployed - v.deployed)
    BY <1>1, <1>2, <1>3, <1>5, <1>7, <1>10
       DEF Policy!ValidateExternalFunding, Policy!ValidateExecute, Seen
  <1>12. Policy!PlannedExternalFunding(v, u, s, u.deployed - v.deployed)
    BY <1>1, <1>2, <1>3, <1>5, <1>7, <1>10
       DEF Policy!PlannedExternalFunding, Seen
  <1> QED
    BY <1>6, <1>7, <1>8, <1>9, <1>11, <1>12
       DEF Policy!ExternalFunding, x, c, s, v, u

LEMMA PolicyStep ==
    ASSUME IInv, CellsInv, IInv', CellsInv', [ChainNext]_chainVars
    PROVE  [Policy!PolicyNext]_Policy!policyVars
  <1>1. ASSUME NEW p \in Positions, NEW a \in Amounts, MineSupply(p, a)
        PROVE  Policy!PolicyNext
    BY <1>1, SupplyPolicy DEF Policy!PolicyNext, CellsInv
  <1>2. ASSUME NEW w \in Withdrawals, NEW a \in Amounts, MineWithdraw(w, a)
        PROVE  Policy!PolicyNext
    BY <1>2, WithdrawPolicy DEF Policy!PolicyNext
  <1>3. ASSUME NEW k \in Claims, NEW a \in Amounts \cup Fees, MineClaim(k, a)
        PROVE  Policy!PolicyNext
    BY <1>3, ClaimPolicy DEF Policy!PolicyNext, CellsInv
  <1>4. ASSUME NEW r \in Requests, NEW a \in Amounts, NEW f \in Fees,
               MineRequest(r, a, f)
        PROVE  Policy!PolicyNext
    BY <1>4, RequestPolicy DEF Policy!PolicyNext
  <1>5. ASSUME NEW r \in Requests, MineFund(r)
        PROVE  Policy!PolicyNext
    BY <1>5, FundPolicy DEF Policy!PolicyNext
  <1>6. CASE UNCHANGED chainVars
    BY <1>6 DEF chainVars, Policy!policyVars
  <1> QED
    BY <1>1, <1>2, <1>3, <1>4, <1>5, <1>6 DEF ChainNext

LEMMA PolicyStart == ChainInit => Policy!PolicyInit
  <1> SUFFICES ASSUME ChainInit PROVE Policy!PolicyInit
    OBVIOUS
  <1>1. Shaped
    BY CellsInit DEF CellsInv
  <1>2. Policy!ValidVault(VaultSeen(vault.data))
    BY <1>1, FeeNat, SeenVault DEF Seen
  <1>3. \A p \in Positions : ReceiptSeen(receipt[p], vault.data.fee) = None
    BY DEF ChainInit, ReceiptSeen
  <1> QED
    BY <1>2, <1>3 DEF Policy!PolicyInit

(***************************************************************************)
(* The rules the repository writes down twice, in the scripts' policy      *)
(* library and in the server's planner, are what the transactions do: each *)
(* is a transition both copies allow of the vault, its receipts and its    *)
(* requests, whatever their number and amounts.                            *)
(***************************************************************************)
THEOREM KeepsPolicyHolds == ChainSpec => KeepsPolicy
  <1>1. /\ IInv /\ CellsInv /\ (IInv /\ CellsInv)' /\ [ChainNext]_chainVars
        => [Policy!PolicyNext]_Policy!policyVars
    BY PolicyStep
  <1> QED
    BY <1>1, PolicyStart, SpecCells, PTL
       DEF ChainSpec, KeepsPolicy, Policy!PolicySpec
=============================================================================
