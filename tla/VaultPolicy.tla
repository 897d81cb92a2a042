---------------------------- MODULE VaultPolicy ----------------------------
(***************************************************************************)
(* What the vault promises its liquidity providers, as the repository      *)
(* writes it down twice: the rules of the scripts' policy library, and the *)
(* transitions the server plans by.  A transition is judged by the vault   *)
(* and the receipt before and after it.  Next takes the steps both copies  *)
(* of the rules allow; VaultChain is shown to take no other.               *)
(***************************************************************************)
EXTENDS Integers

CONSTANTS
    Positions,   \* one LP receipt each
    Requests,    \* one capacity request each
    None

VARIABLES
    vault,       \* [total, available, reserved, deployed, fee]
    receipts,    \* [Positions -> None or a receipt]
    requests     \* [Requests -> None or a request]

policyVars == <<vault, receipts, requests>>

----------------------------------------------------------------------------
ValidVault(v) == v.total = v.available + v.reserved + v.deployed

ValidReceipt(r) ==
    /\ r.supplied = r.available + r.reserved + r.deployed
    /\ r.earned >= r.claimed

ValidRequest(q) == q.amount > 0 /\ q.fee > 0

----------------------------------------------------------------------------
(***************************************************************************)
(* The policy library's rules.                                             *)
(***************************************************************************)
ValidateSupply(before, after, receipt) ==
    LET delta == after.total - before.total
    IN  /\ ValidVault(before) /\ ValidVault(after) /\ ValidReceipt(receipt)
        /\ delta > 0
        /\ after.available = before.available + delta
        /\ receipt.supplied = delta /\ receipt.available = delta

ValidateWithdraw(before, after, receipt, amount) ==
    /\ ValidVault(before) /\ ValidVault(after) /\ ValidReceipt(receipt)
    /\ amount > 0
    /\ receipt.available >= amount
    /\ before.available >= amount /\ before.total >= amount
    /\ after.total = before.total - amount
    /\ after.available = before.available - amount

ValidateReserve(before, after, request) ==
    /\ ValidVault(before) /\ ValidVault(after) /\ ValidRequest(request)
    /\ request.status = "Reserved"
    /\ before.available >= request.amount
    /\ after.available = before.available - request.amount
    /\ after.reserved = before.reserved + request.amount
    /\ after.fee = before.fee + request.fee

ValidateExecute(before, after, request) ==
    /\ ValidVault(before) /\ ValidVault(after) /\ ValidRequest(request)
    /\ request.status \in {"Opening", "Active"}
    /\ before.reserved >= request.amount
    /\ after.reserved = before.reserved - request.amount
    /\ after.deployed = before.deployed + request.amount
    /\ after.total = before.total

\* The lock, shutdown and request hashes of the funding are not modelled.
ValidateExternalFunding(before, after, request, funded) ==
    /\ ValidateExecute(before, after, request)
    /\ funded = request.amount

ValidateClaim(before, after, receipt, amount) ==
    /\ ValidVault(before) /\ ValidVault(after) /\ ValidReceipt(receipt)
    /\ amount > 0
    /\ before.fee >= amount
    /\ receipt.earned >= receipt.claimed + amount
    /\ after.fee = before.fee - amount

----------------------------------------------------------------------------
(***************************************************************************)
(* The server's copy: what it adds to the rules above, or says otherwise.  *)
(***************************************************************************)
PlannedWithdraw(before, after, rbefore, rafter, amount) ==
    /\ ValidateWithdraw(before, after, rbefore, amount)
    /\ rafter # None =>
          /\ ValidReceipt(rafter)
          /\ rafter.supplied = rbefore.supplied - amount
          /\ rafter.available = rbefore.available - amount

PlannedClaim(before, after, rbefore, rafter, amount) ==
    /\ ValidateClaim(before, after, rbefore, amount)
    /\ ValidReceipt(rafter)
    /\ rafter.claimed = rbefore.claimed + amount

PlannedExternalFunding(before, after, request, funded) ==
    /\ ValidVault(before) /\ ValidVault(after)
    /\ funded > 0 /\ funded = request.amount
    /\ request.status \in {"Opening", "Active"}
    /\ before.reserved >= request.amount
    /\ after.total = before.total
    /\ after.available = before.available
    /\ after.reserved = before.reserved - request.amount
    /\ after.deployed = before.deployed + request.amount

----------------------------------------------------------------------------
OnlyReceipt(p) == \A q \in Positions \ {p} :
    /\ (receipts[q] = None) <=> (receipts'[q] = None)
    /\ receipts[q] # None =>
          /\ receipts'[q].supplied = receipts[q].supplied
          /\ receipts'[q].claimed = receipts[q].claimed
OnlyRequest(r) == \A q \in Requests \ {r} : requests'[q] = requests[q]

Supply(p) ==
    /\ receipts[p] = None /\ receipts'[p] # None
    /\ ValidateSupply(vault, vault', receipts'[p])
    /\ OnlyReceipt(p) /\ UNCHANGED requests

Withdraw(p) ==
    /\ receipts[p] # None
    /\ PlannedWithdraw(vault, vault', receipts[p], receipts'[p],
                       vault.total - vault'.total)
    /\ OnlyReceipt(p) /\ UNCHANGED requests

Reserve(r) ==
    /\ requests[r] = None /\ requests'[r] # None
    /\ ValidateReserve(vault, vault', requests'[r])
    /\ vault'.total = vault.total
    /\ \A p \in Positions : receipts'[p] # None => receipts[p] # None
    /\ OnlyRequest(r)

ExternalFunding(r) ==
    /\ requests[r] # None /\ requests'[r] # None
    /\ LET funded == vault'.deployed - vault.deployed
       IN  /\ ValidateExternalFunding(vault, vault', requests'[r], funded)
           /\ PlannedExternalFunding(vault, vault', requests'[r], funded)
    /\ UNCHANGED receipts /\ OnlyRequest(r)

Claim(p) ==
    /\ receipts[p] # None /\ receipts'[p] # None
    /\ PlannedClaim(vault, vault', receipts[p], receipts'[p],
                    vault.fee - vault'.fee)
    /\ OnlyReceipt(p) /\ UNCHANGED requests

PolicyInit ==
    /\ ValidVault(vault)
    /\ \A p \in Positions : receipts[p] # None => ValidReceipt(receipts[p])

PolicyNext ==
    \/ \E p \in Positions : Supply(p) \/ Withdraw(p) \/ Claim(p)
    \/ \E r \in Requests : Reserve(r) \/ ExternalFunding(r)

PolicySpec == PolicyInit /\ [][PolicyNext]_policyVars
=============================================================================
