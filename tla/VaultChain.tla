----------------------------- MODULE VaultChain -----------------------------
(***************************************************************************)
(* The vault and its cells on the CKB chain, and the transactions that     *)
(* move them: the ones a liquidity provider's or a merchant's wallet       *)
(* composes by the rules the server verifies, and the one the server's     *)
(* funding builder makes.  A transaction reads the live vault cell and     *)
(* commits only while that cell is live, so composing and committing are   *)
(* one step here; a wallet that lost the race composes again.              *)
(***************************************************************************)
EXTENDS VaultScripts

CONSTANTS
    Withdrawals,   \* withdrawal intents
    WithdrawnFrom, \* [Withdrawals -> Positions]
    Amounts,       \* CKB moved by one transaction
    Fees,          \* lease fees
    VaultBase,     \* capacity the empty vault cell occupies
    CellBond,      \* capacity a receipt, request or claim cell occupies
    ReservePay,    \* the receiver reserve payment
    MaxTxFee       \* 5 CKB in the code

Hashes == ({"supply"} \X Positions) \cup ({"withdraw"} \X Withdrawals)
            \cup ({"claim"} \X Claims) \cup ({"request", "fund"} \X Requests)

\* The live cells of the typed scripts, as their data parses.
ReceiptCells ==
    [kind : {"receipt"}, id : Positions, lock : STRING, point : Hashes,
     capacity : {CellBond},
     data : [supplied : Nat, available : Nat, reserved : Nat, deployed : Nat,
             claimed : Nat]]
RequestCells ==
    [kind : {"request"}, id : Requests, lock : STRING, point : Hashes,
     capacity : {CellBond},
     data : [status : RequestStatuses, amount : Nat, fee : Nat]]
\* The same as the policy's rules see them.
Records ==
    [supplied : Int, available : Int, reserved : Int, deployed : Int,
     claimed : Int, earned : Int]
    \cup [amount : Int, fee : Int,
          status : {"Reserved", "Opening", "Released"}]

\* Identifiers are byte strings of fixed lengths, so there are finitely many;
\* no account is locked by the vault's own lock script.
ASSUME ChainAssumption ==
    /\ Amounts \subseteq Nat \ {0} /\ Fees \subseteq Nat \ {0}
    /\ VaultBase \in Nat /\ CellBond \in Nat /\ ReservePay \in Nat
    /\ MaxTxFee \in Nat
    /\ IsFiniteSet(Positions) /\ IsFiniteSet(Requests)
    /\ LpLock \in [Positions -> STRING] /\ MerchantLock \in [Requests -> STRING]
    /\ Operator \in STRING
    /\ Operator # "vault" /\ \A p \in Positions : LpLock[p] # "vault"
    /\ ReceiptOf \in [Claims -> Positions]
    /\ WithdrawnFrom \in [Withdrawals -> Positions]
    /\ None \notin ReceiptCells /\ None \notin RequestCells
    /\ None \notin Records

VARIABLES
    vault,     \* the live vault cell
    receipt,   \* [Positions -> None or the live receipt cell]
    request,   \* [Requests -> None or the live request cell]
    claim,     \* [Claims -> None or the live claim cell]
    mined      \* the committed transactions, a function on their hashes

chainVars == <<vault, receipt, request, claim, mined>>

VaultCell(point, capacity, data) ==
    [kind |-> "vault", id |-> "vault", lock |-> "vault", point |-> point,
     capacity |-> capacity, data |-> data]
TypedCell(kind, id, lock, point, data) ==
    [kind |-> kind, id |-> id, lock |-> lock, point |-> point,
     capacity |-> CellBond, data |-> data]
\* A wallet's own cell, or a payment: no type script, no data.
PlainCell(lock, point, capacity) ==
    [kind |-> "plain", id |-> lock, lock |-> lock, point |-> point,
     capacity |-> capacity, data |-> None]

Wallet(lock, capacity) == PlainCell(lock, <<"wallet", None>>, capacity)

Free == vault.data.total - vault.data.reserved - vault.data.deployed

----------------------------------------------------------------------------
(***************************************************************************)
(* The transactions.                                                       *)
(***************************************************************************)
VaultMoved(h, capacity, data) ==
    VaultCell(h, vault.capacity + capacity, data)

SupplyTx(p, amount) ==
    LET h == <<"supply", p>>
    IN  [in  |-> {vault, Wallet(LpLock[p], amount + CellBond)},
         out |-> {VaultMoved(h, amount,
                             [vault.data EXCEPT !.total = @ + amount]),
                  TypedCell("receipt", p, LpLock[p], h,
                     [supplied |-> amount, available |-> amount, reserved |-> 0,
                      deployed |-> 0, claimed |-> 0])}]

\* The whole supply is withdrawn by burning the receipt.
WithdrawTx(w, amount) ==
    LET h == <<"withdraw", w>>
        p == WithdrawnFrom[w]
        left == [receipt[p].data EXCEPT !.supplied = @ - amount,
                                        !.available = @ - amount]
        burn == left.supplied = 0
    IN  [in  |-> {vault, receipt[p]},
         out |-> {VaultMoved(h, -amount,
                             [vault.data EXCEPT !.total = @ - amount]),
                  PlainCell(LpLock[p], h, IF burn THEN amount + CellBond
                                          ELSE amount)}
                 \cup IF burn THEN {}
                      ELSE {TypedCell("receipt", p, LpLock[p], h, left)}]

ClaimTx(c, amount) ==
    LET h == <<"claim", c>>
        p == ReceiptOf[c]
    IN  [in  |-> {vault, receipt[p], Wallet(LpLock[p], CellBond)},
         out |-> {VaultMoved(h, -amount,
                             [vault.data EXCEPT !.fee = @ - amount]),
                  TypedCell("receipt", p, LpLock[p], h,
                     [receipt[p].data EXCEPT !.claimed = @ + amount]),
                  TypedCell("claim", c, LpLock[p], h,
                     [status |-> "pending", amount |-> amount]),
                  PlainCell(LpLock[p], h, amount)}]

RequestTx(r, amount, fee) ==
    LET h == <<"request", r>>
    IN  [in  |-> {vault, Wallet(MerchantLock[r], fee + CellBond + ReservePay)},
         out |-> {VaultMoved(h, fee, [vault.data EXCEPT !.reserved = @ + amount,
                                                        !.fee = @ + fee]),
                  TypedCell("request", r, Operator, h,
                     [status |-> "reserved", amount |-> amount, fee |-> fee]),
                  PlainCell("receiver", h, ReservePay)}]

\* The builder's transaction: the vault pays the request's channel.
FundingCell(h, amount) == PlainCell("channel", h, amount)
\* Mutant: the reserved amount is freed, not deployed.
VaultCellForgetful(h, amount) ==
    VaultMoved(h, -amount, [vault.data EXCEPT !.reserved = @ - amount])
NextVaultCell(h, amount) ==
    VaultMoved(h, -amount, [vault.data EXCEPT !.reserved = @ - amount,
                                              !.deployed = @ + amount])
\* Mutant: the request cell is recreated as it was.
RequestCellSame(h, r) == [request[r] EXCEPT !.point = h]
NextRequestCell(h, r) ==
    [request[r] EXCEPT !.point = h, !.data.status = "deployed"]
FundTx(r) ==
    LET h == <<"fund", r>>
        amount == request[r].data.amount
    IN  [in  |-> {vault, request[r]},
         out |-> {FundingCell(h, amount), NextVaultCell(h, amount),
                  NextRequestCell(h, r)}]

\* What the builder refuses to build.
Fundable(r) ==
    /\ request[r] # None
    /\ request[r].lock = Operator
    /\ vault.data.reserved >= request[r].data.amount
    /\ vault.capacity - request[r].data.amount >= VaultBase

----------------------------------------------------------------------------
(***************************************************************************)
(* What the server verifies of a transaction it is shown.                  *)
(***************************************************************************)
Sat(x, y) == IF x > y THEN x - y ELSE 0

OneVault(tx) == /\ Cardinality(OfKind(tx.in, "vault")) = 1
                /\ Cardinality(OfKind(tx.out, "vault")) = 1
VaultIn(tx) == Only(OfKind(tx.in, "vault"))
VaultOut(tx) == Only(OfKind(tx.out, "vault"))
OneOut(tx, kind, lock) ==
    Cardinality({c \in OfKind(tx.out, kind) : c.lock = lock}) = 1
TheOut(tx, kind, lock) == Only({c \in OfKind(tx.out, kind) : c.lock = lock})

ReasonableFee(tx) ==
    /\ Capacity(tx.in) >= Capacity(tx.out)
    /\ Capacity(tx.in) - Capacity(tx.out) <= MaxTxFee

SupplyDelta(tx, amount) ==
    /\ VaultOut(tx).data = [VaultIn(tx).data EXCEPT !.total = @ + amount]
    /\ VaultOut(tx).capacity >= VaultIn(tx).capacity + amount

\* The receipt is the one of this supply intent, and nothing of it is used.
MintedReceipt(cell, p, amount) ==
    /\ cell.id = p
    /\ cell.data = [supplied |-> amount, available |-> amount,
                    reserved |-> 0, deployed |-> 0, claimed |-> 0]

DepositVerified(tx, p, amount) ==
    /\ OneVault(tx)
    /\ OneOut(tx, "receipt", LpLock[p])
    /\ SupplyDelta(tx, amount)
    /\ MintedReceipt(TheOut(tx, "receipt", LpLock[p]), p, amount)

SpendsReceipt(tx, p, point) ==
    \E c \in OfKind(tx.in, "receipt") : c.lock = LpLock[p] /\ c.point = point
SpentReceipt(tx, p, point) ==
    CHOOSE c \in OfKind(tx.in, "receipt") :
        c.lock = LpLock[p] /\ c.point = point
NextReceipts(tx, prev) ==
    {c \in OfKind(tx.out, "receipt") : c.id = prev.id /\ c.lock = prev.lock}

WithdrawalDelta(tx, amount) ==
    /\ VaultOut(tx).data = [VaultIn(tx).data EXCEPT !.total = Sat(@, amount)]
    /\ VaultIn(tx).capacity >= VaultOut(tx).capacity + amount

\* held is the ledger's position when the settlement was asked for.
WithdrawnReceipt(tx, prev, amount, held) ==
    \/ amount = held.supplied
    \/ /\ Cardinality(NextReceipts(tx, prev)) = 1
       /\ Only(NextReceipts(tx, prev)).data =
             [prev.data EXCEPT !.supplied = Sat(@, amount),
                               !.available = Sat(@, amount)]

WithdrawalVerified(tx, p, amount, held) ==
    /\ ReasonableFee(tx)
    /\ OneVault(tx)
    /\ WithdrawalDelta(tx, amount)
    /\ SpendsReceipt(tx, p, held.point)
    /\ WithdrawnReceipt(tx, SpentReceipt(tx, p, held.point), amount, held)

FeeDelta(tx, amount) ==
    /\ VaultOut(tx).data = [VaultIn(tx).data EXCEPT !.fee = Sat(@, amount)]
    /\ VaultIn(tx).capacity >= VaultOut(tx).capacity + amount

FeeReceiptDelta(tx, prev, amount) ==
    /\ Cardinality(NextReceipts(tx, prev)) = 1
    /\ Only(NextReceipts(tx, prev)).data =
          [prev.data EXCEPT !.claimed = @ + amount]

ClaimCellOK(cell, c, amount) ==
    /\ cell.id = c /\ cell.data.amount = amount
    /\ cell.data.status \in {"pending", "approved"}

ClaimVerified(tx, c, amount, held) ==
    LET p == ReceiptOf[c]
    IN  /\ OneVault(tx)
        /\ FeeDelta(tx, amount)
        /\ SpendsReceipt(tx, p, held.point)
        /\ FeeReceiptDelta(tx, SpentReceipt(tx, p, held.point), amount)
        /\ OneOut(tx, "claim", LpLock[p])
        /\ ClaimCellOK(TheOut(tx, "claim", LpLock[p]), c, amount)

ReservationDelta(tx, amount, fee) ==
    /\ VaultOut(tx).data = [VaultIn(tx).data EXCEPT !.reserved = @ + amount,
                                                    !.fee = @ + fee]
    /\ VaultOut(tx).capacity >= VaultIn(tx).capacity + fee

RequestCellOK(cell, r, amount, fee) ==
    /\ cell.id = r
    /\ cell.data.status \in {"pending", "reserved"}
    /\ cell.data.amount = amount /\ cell.data.fee = fee

ReceiverPaid(tx) ==
    LET paid == {c \in OfKind(tx.out, "plain") : c.lock = "receiver"}
    IN  Cardinality(paid) = 1 /\ Only(paid).capacity = ReservePay

RequestVerified(tx, r, amount, fee) ==
    /\ OneVault(tx)
    /\ ReservationDelta(tx, amount, fee)
    /\ OneOut(tx, "request", Operator)
    /\ RequestCellOK(TheOut(tx, "request", Operator), r, amount, fee)
    /\ ReceiverPaid(tx)

----------------------------------------------------------------------------
(***************************************************************************)
(* Committing a transaction.                                               *)
(***************************************************************************)
NextCell(tx, kind, id, cell) ==
    LET made == Group(tx.out, kind, id)
    IN  IF made # {} THEN Only(made)
        ELSE IF cell \in tx.in THEN None ELSE cell

Commit(h, tx) ==
    /\ h \notin DOMAIN mined
    /\ Accepted(tx)
    /\ mined' = [g \in DOMAIN mined \cup {h} |-> IF g = h THEN tx ELSE mined[g]]
    /\ vault' = NextCell(tx, "vault", "vault", vault)
    /\ receipt' = [p \in Positions |-> NextCell(tx, "receipt", p, receipt[p])]
    /\ request' = [r \in Requests |-> NextCell(tx, "request", r, request[r])]
    /\ claim' = [c \in Claims |-> NextCell(tx, "claim", c, claim[c])]

MineSupply(p, amount) ==
    /\ receipt[p] = None
    /\ Commit(<<"supply", p>>, SupplyTx(p, amount))

\* The wallet composes no negative number.
MineWithdraw(w, amount) ==
    /\ receipt[WithdrawnFrom[w]] # None
    /\ receipt[WithdrawnFrom[w]].data.available >= amount
    /\ Commit(<<"withdraw", w>>, WithdrawTx(w, amount))

MineClaim(c, amount) ==
    /\ receipt[ReceiptOf[c]] # None
    /\ vault.data.fee >= amount
    /\ Commit(<<"claim", c>>, ClaimTx(c, amount))

MineRequest(r, amount, fee) ==
    /\ request[r] = None
    /\ Commit(<<"request", r>>, RequestTx(r, amount, fee))

MineFund(r) ==
    /\ Fundable(r)
    /\ Commit(<<"fund", r>>, FundTx(r))

ChainInit ==
    /\ vault = VaultCell(<<"deploy", None>>, VaultBase,
                 [total |-> 0, reserved |-> 0, deployed |-> 0, fee |-> 0])
    /\ receipt = [p \in Positions |-> None]
    /\ request = [r \in Requests |-> None]
    /\ claim = [c \in Claims |-> None]
    /\ mined = [h \in {} |-> None]

ChainNext ==
    \/ \E p \in Positions, a \in Amounts : MineSupply(p, a)
    \/ \E w \in Withdrawals, a \in Amounts : MineWithdraw(w, a)
    \/ \E c \in Claims, a \in Amounts \cup Fees : MineClaim(c, a)
    \/ \E r \in Requests, a \in Amounts, f \in Fees : MineRequest(r, a, f)
    \/ \E r \in Requests : MineFund(r)

ChainSpec == ChainInit /\ [][ChainNext]_chainVars

----------------------------------------------------------------------------
(***************************************************************************)
(* Properties.                                                             *)
(***************************************************************************)
LiveReceipts == {receipt[p] : p \in {q \in Positions : receipt[q] # None}}
LiveRequests(statuses) ==
    {request[r] : r \in {q \in Requests :
        request[q] # None /\ request[q].data.status \in statuses}}

\* However the transactions of providers, merchants and the executor follow
\* each other, the vault cell holds the CKB its data promises: what was
\* supplied and is not deployed, the fees not claimed, and its own capacity.
VaultBacked ==
    /\ vault.data.reserved + vault.data.deployed <= vault.data.total
    /\ vault.capacity = VaultBase + vault.data.total - vault.data.deployed
                          + vault.data.fee

\* The vault's totals are those of the cells around it: its total is what the
\* live receipts supplied, and each request the vault reserved or deployed for
\* is a live request cell of that amount and status.
CellsAgree ==
    /\ vault.data.total =
          SumOf(LiveReceipts, "receipt", "supplied")
    /\ vault.data.reserved =
          SumOf(LiveRequests({"pending", "reserved"}), "request", "amount")
    /\ vault.data.deployed =
          SumOf(LiveRequests({"deployed"}), "request", "amount")

\* The builder never refuses a reserved request for want of reserved CKB or of
\* capacity, and the scripts accept what it builds.
FundingFits ==
    \A r \in Requests :
        /\ request[r] # None
        /\ request[r].data.status \in {"pending", "reserved"}
        => Fundable(r) /\ Accepted(FundTx(r))

\* What the server would verify of a committed transaction is what the wallet
\* asked for, and the scripts let every such transaction through that stays
\* within the free liquidity and the fee balance.
ServiceAccepted ==
    /\ \A p \in Positions, a \in Amounts :
          receipt[p] = None =>
              LET tx == SupplyTx(p, a)
              IN  DepositVerified(tx, p, a) /\ Accepted(tx)
    /\ \A w \in Withdrawals, a \in Amounts :
          LET p == WithdrawnFrom[w]
          IN  receipt[p] # None /\ receipt[p].data.available >= a =>
              LET tx == WithdrawTx(w, a)
                  held == [supplied |-> receipt[p].data.supplied,
                           point |-> receipt[p].point]
              IN  /\ WithdrawalVerified(tx, p, a, held)
                  /\ Accepted(tx) <=> a <= Free
    /\ \A c \in Claims, a \in Amounts \cup Fees :
          LET p == ReceiptOf[c]
          IN  receipt[p] # None /\ claim[c] = None /\ vault.data.fee >= a =>
              LET tx == ClaimTx(c, a)
              IN  ClaimVerified(tx, c, a, [point |-> receipt[p].point])
                    /\ Accepted(tx)
    /\ \A r \in Requests, a \in Amounts, f \in Fees :
          request[r] = None =>
              LET tx == RequestTx(r, a, f)
              IN  RequestVerified(tx, r, a, f) /\ (Accepted(tx) <=> a <= Free)

\* The chain records no fees earned by one receipt: a receipt may claim
\* whatever the vault's fee balance holds.
VaultSeen(d) ==
    [total |-> d.total, available |-> d.total - d.reserved - d.deployed,
     reserved |-> d.reserved, deployed |-> d.deployed, fee |-> d.fee]
ReceiptSeen(c, fee) ==
    IF c = None THEN None
    ELSE [supplied |-> c.data.supplied, available |-> c.data.available,
          reserved |-> c.data.reserved, deployed |-> c.data.deployed,
          claimed |-> c.data.claimed,
          earned |-> c.data.claimed + fee]
RequestSeen(c) ==
    IF c = None THEN None
    ELSE [amount |-> c.data.amount, fee |-> c.data.fee,
          status |-> CASE c.data.status \in {"pending", "reserved"} -> "Reserved"
                       [] c.data.status = "deployed" -> "Opening"
                       [] OTHER -> "Released"]
Policy == INSTANCE VaultPolicy WITH
    vault <- VaultSeen(vault.data),
    receipts <- [p \in Positions |-> ReceiptSeen(receipt[p], vault.data.fee)],
    requests <- [r \in Requests |-> RequestSeen(request[r])]

\* Every transaction the server verifies or builds is a transition both copies
\* of the vault policy allow.
KeepsPolicy == Policy!PolicySpec
=============================================================================
