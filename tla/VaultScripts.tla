---------------------------- MODULE VaultScripts ----------------------------
(***************************************************************************)
(* The scripts that guard the vault on the CKB chain, as predicates of a   *)
(* transaction.  A cell is [kind, id, lock, point, capacity, data]: kind   *)
(* and id stand for its type script (the code hash and the arguments),     *)
(* point for the transaction that made it, capacity is in whole CKB.  A    *)
(* transaction is [in, out], its inputs resolved to the cells they spend;  *)
(* a lock of an input has signed.                                          *)
(*                                                                         *)
(* No transaction of the service carries a funding intent cell, and none   *)
(* makes or closes the vault: those paths of the scripts are left out.     *)
(***************************************************************************)
EXTENDS Integers, FiniteSets, FiniteSetsExt

CONSTANTS
    Positions,     \* one LP receipt each
    Requests,      \* one capacity request each
    Claims,        \* one fee claim each
    LpLock,        \* [Positions -> lock of the liquidity provider]
    MerchantLock,  \* [Requests -> lock of the merchant]
    ReceiptOf,     \* [Claims -> Positions]
    Operator,      \* the executor's lock
    None

Cells(tx) == tx.in \cup tx.out
OfKind(cells, kind) == {c \in cells : c.kind = kind}
Group(cells, kind, id) == {c \in cells : c.kind = kind /\ c.id = id}

HasInputLock(tx, lock) == \E c \in tx.in : c.lock = lock
HasTypeCode(tx, kind) == OfKind(Cells(tx), kind) # {}
HasType(tx, kind, id) == Group(Cells(tx), kind, id) # {}
HasVault(tx) == HasType(tx, "vault", "vault")

SumOf(cells, kind, field) ==
    MapThenSumSet(LAMBDA c : c.data[field], OfKind(cells, kind))
MaxSum(tx, kind, field) ==
    LET a == SumOf(tx.in, kind, field)
        b == SumOf(tx.out, kind, field)
    IN  IF a > b THEN a ELSE b
Capacity(cells) == MapThenSumSet(LAMBDA c : c.capacity, cells)

Only(cells) == CHOOSE c \in cells : TRUE

----------------------------------------------------------------------------
(***************************************************************************)
(* The vault cell: its lock and its type script.                           *)
(***************************************************************************)
\* Mutant: the last free CKB cannot be used.
VaultDataStrict(v) == v.reserved + v.deployed < v.total
VaultDataOK(v) == v.reserved + v.deployed <= v.total

\* The vault may be spent only on a service path, and stays typed.
VaultLockAllows(tx) ==
    /\ \E kind \in {"receipt", "request", "claim"} : HasTypeCode(tx, kind)
    /\ HasVault(tx)
    /\ \A c \in tx.out : c.lock = "vault" => c.kind = "vault"

\* Mutant: a request lets no capacity out of the vault.
CapacityDeltaStrict(tx, in, out) ==
    \/ out.capacity >= in.capacity
    \/ HasTypeCode(tx, "receipt") \/ HasTypeCode(tx, "claim")
CapacityDeltaOK(tx, in, out) ==
    \/ out.capacity >= in.capacity
    \/ HasTypeCode(tx, "receipt") \/ HasTypeCode(tx, "claim")
    \/ /\ HasTypeCode(tx, "request")
       /\ in.capacity - out.capacity
             <= MaxSum(tx, "request", "amount")

ReceiptTotalDeltaOK(tx, in, out) ==
    /\ HasTypeCode(tx, "receipt")
    /\ out.data.total - in.data.total
          = SumOf(tx.out, "receipt", "supplied")
              - SumOf(tx.in, "receipt", "supplied")

RequestLockDeltaOK(tx, in, out) ==
    LET before == in.data.reserved + in.data.deployed
        after  == out.data.reserved + out.data.deployed
        limit  == MaxSum(tx, "request", "amount")
    IN  /\ HasTypeCode(tx, "request")
        /\ after - before <= limit /\ before - after <= limit

FeeDeltaOK(tx, in, out) ==
    IF out.data.fee > in.data.fee
    THEN /\ HasTypeCode(tx, "request")
         /\ out.data.fee - in.data.fee
               <= MaxSum(tx, "request", "fee")
    ELSE /\ HasTypeCode(tx, "claim")
         /\ in.data.fee - out.data.fee
               <= MaxSum(tx, "claim", "amount")

AccountingDeltaOK(tx, in, out) ==
    /\ in.data.total # out.data.total => ReceiptTotalDeltaOK(tx, in, out)
    /\ \/ in.data.reserved # out.data.reserved
       \/ in.data.deployed # out.data.deployed
       => RequestLockDeltaOK(tx, in, out)
    /\ in.data.fee # out.data.fee => FeeDeltaOK(tx, in, out)

VaultTypeAllows(tx) ==
    LET ins  == Group(tx.in, "vault", "vault")
        outs == Group(tx.out, "vault", "vault")
    IN  /\ Cardinality(ins) = 1 /\ Cardinality(outs) = 1
        /\ VaultDataOK(Only(ins).data) /\ VaultDataOK(Only(outs).data)
        /\ \E kind \in {"receipt", "request", "claim"} : HasTypeCode(tx, kind)
        /\ CapacityDeltaOK(tx, Only(ins), Only(outs))
        /\ AccountingDeltaOK(tx, Only(ins), Only(outs))

----------------------------------------------------------------------------
(***************************************************************************)
(* LP receipts.                                                            *)
(***************************************************************************)
ReceiptDataOK(d) == d.available + d.reserved + d.deployed = d.supplied
LockedOf(d) == d.reserved + d.deployed

LpDeltaOK(in, out) ==
    /\ in.reserved = out.reserved /\ in.deployed = out.deployed
    /\ in.claimed = out.claimed
    /\ out.supplied >= LockedOf(out)

RequestDeltaOK(in, out) ==
    in.supplied = out.supplied /\ in.claimed = out.claimed

ClaimDeltaOK(in, out) ==
    /\ in.supplied = out.supplied /\ in.available = out.available
    /\ in.reserved = out.reserved /\ in.deployed = out.deployed
    /\ out.claimed >= in.claimed

ReceiptCreateOK(tx, p, out) ==
    /\ HasInputLock(tx, LpLock[p]) /\ HasVault(tx)
    /\ out.supplied > 0 /\ out.available = out.supplied

ReceiptBurnOK(tx, p, in) ==
    HasInputLock(tx, LpLock[p]) /\ HasVault(tx) /\ LockedOf(in) = 0

ReceiptUpdateOK(tx, p, in, out) ==
    LET lp == HasInputLock(tx, LpLock[p])
    IN  IF lp /\ HasVault(tx) /\ HasTypeCode(tx, "claim")
        THEN ClaimDeltaOK(in, out)
        ELSE IF HasVault(tx) /\ HasTypeCode(tx, "request")
             THEN RequestDeltaOK(in, out)
             ELSE /\ lp /\ ~HasTypeCode(tx, "request")
                  /\ LpDeltaOK(in, out)

ReceiptTypeAllows(tx, p) ==
    LET ins  == Group(tx.in, "receipt", p)
        outs == Group(tx.out, "receipt", p)
    IN  /\ Cardinality(ins) <= 1 /\ Cardinality(outs) <= 1
        /\ \A c \in ins \cup outs : ReceiptDataOK(c.data)
        /\ IF ins = {} THEN ReceiptCreateOK(tx, p, Only(outs).data)
           ELSE IF outs = {} THEN ReceiptBurnOK(tx, p, Only(ins).data)
           ELSE ReceiptUpdateOK(tx, p, Only(ins).data, Only(outs).data)

----------------------------------------------------------------------------
(***************************************************************************)
(* Capacity requests.                                                      *)
(***************************************************************************)
RequestStatuses == {"pending", "reserved", "deployed", "closed"}
Rank(status) == CASE status = "pending" -> 0 [] status = "reserved" -> 1
                  [] status = "deployed" -> 2 [] status = "closed" -> 3

RequestDataOK(d) ==
    d.status \in RequestStatuses /\ d.amount > 0 /\ d.fee > 0

RequestCreateOK(tx, r, out) ==
    /\ HasInputLock(tx, MerchantLock[r]) /\ HasVault(tx)
    /\ out.status \in {"pending", "reserved"}

RequestDeleteOK(tx, r, in) ==
    \/ HasInputLock(tx, MerchantLock[r]) /\ in.status = "pending"
    \/ HasVault(tx) /\ in.status = "closed"

RequestUpdateOK(tx, r, in, out) ==
    /\ HasInputLock(tx, MerchantLock[r]) \/ HasInputLock(tx, Operator)
    /\ in.amount = out.amount /\ in.fee = out.fee
    /\ Rank(out.status) >= Rank(in.status)
    /\ out.status \in {"reserved", "closed"} => HasVault(tx)
    /\ out.status = "deployed" => HasInputLock(tx, Operator) /\ HasVault(tx)

RequestTypeAllows(tx, r) ==
    LET ins  == Group(tx.in, "request", r)
        outs == Group(tx.out, "request", r)
    IN  /\ Cardinality(ins) <= 1 /\ Cardinality(outs) <= 1
        /\ \A c \in ins \cup outs : RequestDataOK(c.data)
        /\ IF ins = {} THEN RequestCreateOK(tx, r, Only(outs).data)
           ELSE IF outs = {} THEN RequestDeleteOK(tx, r, Only(ins).data)
           ELSE RequestUpdateOK(tx, r, Only(ins).data, Only(outs).data)

----------------------------------------------------------------------------
(***************************************************************************)
(* Fee claims, and the whole transaction.                                  *)
(***************************************************************************)
ClaimStatuses == {"pending", "approved", "paid"}
ClaimRank(status) == CASE status = "pending" -> 0 [] status = "approved" -> 1
                       [] status = "paid" -> 2

ClaimTypeAllows(tx, c) ==
    LET ins  == Group(tx.in, "claim", c)
        outs == Group(tx.out, "claim", c)
        p    == ReceiptOf[c]
    IN  /\ HasInputLock(tx, LpLock[p]) /\ HasVault(tx)
        /\ HasType(tx, "receipt", p)
        /\ Cardinality(ins) <= 1 /\ Cardinality(outs) <= 1
        /\ \A d \in ins \cup outs :
              d.data.status \in ClaimStatuses /\ d.data.amount > 0
        /\ IF ins = {} THEN Only(outs).data.status \in {"pending", "approved"}
           ELSE IF outs = {} THEN Only(ins).data.status = "paid"
           ELSE /\ Only(ins).data.amount = Only(outs).data.amount
                /\ ClaimRank(Only(outs).data.status)
                      >= ClaimRank(Only(ins).data.status)

\* External: the chain runs every script a transaction triggers, and refuses
\* one that makes capacity.  The locks of wallets accept their owner.
Accepted(tx) ==
    /\ Capacity(tx.in) >= Capacity(tx.out)
    /\ OfKind(tx.in, "vault") # {} => VaultLockAllows(tx)
    /\ HasVault(tx) => VaultTypeAllows(tx)
    /\ \A c \in OfKind(Cells(tx), "receipt") : ReceiptTypeAllows(tx, c.id)
    /\ \A c \in OfKind(Cells(tx), "request") : RequestTypeAllows(tx, c.id)
    /\ \A c \in OfKind(Cells(tx), "claim") : ClaimTypeAllows(tx, c.id)
=============================================================================
