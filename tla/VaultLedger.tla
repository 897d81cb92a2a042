----------------------------- MODULE VaultLedger -----------------------------
(***************************************************************************)
(* The service's ledger of the vault: the state it keeps of the supplies,  *)
(* LP positions, withdrawals, fee claims, capacity requests and            *)
(* reservations, in memory and in one file, and how it follows the chain.  *)
(*                                                                         *)
(* ledger is the state in memory and disk the file, written at the end of  *)
(* each mutation.  A handler that fails half way leaves its changes in     *)
(* memory: they reach the file with the next mutation that succeeds, or    *)
(* are lost with the process.  A handler that reads, waits for the chain   *)
(* and then writes leaves what it read in contexts; any number of calls    *)
(* may have read the same, and a call may never come back.                 *)
(*                                                                         *)
(* An expired intent only refuses, so expiry needs no action here: it is   *)
(* the settlement that never happens.  Without a CKB node (config.rpc      *)
(* FALSE) transactions are taken on the client's word and nothing follows  *)
(* the chain.                                                              *)
(***************************************************************************)
EXTENDS VaultChain, Sequences

CONSTANTS
    Configs  \* settings of the process (see VaultExecutor), with their bounds

\* What a client was promised, until the chain shows it.
SupplyIntents == [amount : Amounts, settled : BOOLEAN]
PayoutIntents(amounts) ==
    [position : Nat, amount : amounts, settled : BOOLEAN]
RequestIntents == [amount : Amounts, fee : Fees, settled : BOOLEAN]

ASSUME LedgerAssumption ==
    /\ None \notin Hashes
    /\ None \notin SupplyIntents /\ None \notin RequestIntents
    /\ None \notin PayoutIntents(Amounts) /\ None \notin PayoutIntents(Fees)
    /\ \A c \in Configs :
          /\ c.bound.supplied \subseteq Amounts /\ c.bound.moved \subseteq Amounts
          /\ c.bound.providers \subseteq Positions
          /\ c.bound.merchants \subseteq Requests

VARIABLES
    config,    \* the settings, one of Configs
    ledger,    \* StoreState in memory
    disk,      \* StoreState as last written
    contexts,  \* what unfinished calls have read
    crashes    \* restarts so far

ledgerVars == <<config, ledger, disk, contexts, crashes>>

\* What an exploration is bounded by: who takes part (providers, merchants),
\* the amounts (supplied, moved), the entries of the ledger (positions,
\* requests), withdrawals and claims (payouts), settlements being verified
\* (calls), restarts (crashes), whether a channel is asked for again (again),
\* handoffs at once, attempts of one job, and channels that Fiber opens.
bound == config.bound

\* Mutant: what was settled is answered before it is written.
SaveMemory(l) == ledger' = l /\ UNCHANGED disk
Save(l) == ledger' = l /\ disk' = l
SaveIfChanged(l) == ledger' = l /\ disk' = IF l = ledger THEN disk ELSE l

\* The first element for an id: every lookup of the code takes that one.
Indices(s, id) == {i \in DOMAIN s : s[i].id = id}
First(s, id) == CHOOSE i \in Indices(s, id) : \A j \in Indices(s, id) : i <= j

----------------------------------------------------------------------------
(***************************************************************************)
(* Accounting: an amount is taken from the active positions in their       *)
(* order, as much as each has, and moved to another of its balances.       *)
(***************************************************************************)
SumBefore(ps, i, field) ==
    MapThenSumSet(LAMBDA j : ps[j][field], {j \in 1..(i - 1) : ps[j].active})
Total(ps, field) == SumBefore(ps, Len(ps) + 1, field)
Least(x, y) == IF x < y THEN x ELSE y

Taken(ps, i, field, amount) ==
    IF ps[i].active
    THEN Least(ps[i][field], Sat(amount, SumBefore(ps, i, field)))
    ELSE 0

Move(ps, from, to, amount) ==
    [i \in DOMAIN ps |->
        [ps[i] EXCEPT ![from] = @ - Taken(ps, i, from, amount),
                      ![to] = @ + Taken(ps, i, from, amount)]]
Covered(ps, from, amount) == Total(ps, from) >= amount

\* The last position an amount is taken from gets the rest of the fee.
FeePart(ps, i, amount, fee) ==
    (fee * Taken(ps, i, "available", amount)) \div amount
FeeShare(ps, i, amount, fee) ==
    LET taken  == Taken(ps, i, "available", amount)
        before == MapThenSumSet(LAMBDA j : FeePart(ps, j, amount, fee),
                                1..(i - 1))
    IN  IF taken > 0 /\ taken + SumBefore(ps, i, "available") = amount
        THEN fee - before
        ELSE FeePart(ps, i, amount, fee)
\* Mutant: the amount is locked, and still available.
ReserveTwice(ps, amount, fee) ==
    [i \in DOMAIN ps |->
        [ps[i] EXCEPT !.reserved = @ + Taken(ps, i, "available", amount)]]
ReservePositions(ps, amount, fee) ==
    LET moved == Move(ps, "available", "reserved", amount)
    IN  [i \in DOMAIN ps |->
            [moved[i] EXCEPT !.earned = @ + FeeShare(ps, i, amount, fee)]]
DeployPositions(ps, amount) == Move(ps, "reserved", "deployed", amount)
UndeployPositions(ps, amount) == Move(ps, "deployed", "reserved", amount)
ReleasePositions(ps, amount) == Move(ps, "reserved", "available", amount)
\* Mutant: nothing goes back to the providers.
SettleNothing(ps, amount) == ps
SettlePositions(ps, amount) == Move(ps, "deployed", "available", amount)

\* What the service offers: the vault's own figure when it has one.
AvailableLiquidity(l) ==
    IF l.live = None THEN Total(l.positions, "available")
    ELSE l.live.available

----------------------------------------------------------------------------
(***************************************************************************)
(* Liquidity providers: supplies, withdrawals and fee claims.              *)
(***************************************************************************)
CreateSupplyIntent(p, amount) ==
    /\ ledger.supplies[p] = None
    /\ Save([ledger EXCEPT !.supplies[p] =
                [amount |-> amount, settled |-> FALSE]])
    /\ UNCHANGED contexts

NewPosition(p, amount, point) ==
    [receipt |-> p, supplied |-> amount, available |-> amount,
     reserved |-> 0, deployed |-> 0, earned |-> 0, claimed |-> 0,
     point |-> point, active |-> TRUE]

\* Mutant: a transaction the node does not know is not refused.
DepositUnseen(p, amount) ==
    LET h == <<"supply", p>>
    IN  config.rpc /\ h \in DOMAIN mined => DepositVerified(mined[h], p, amount)
DepositShown(p, amount) ==
    LET h == <<"supply", p>>
    IN  config.rpc => h \in DOMAIN mined /\ DepositVerified(mined[h], p, amount)

\* The intent is checked again after the transaction was verified, so the
\* handler is one step.
CreateDeposit(p) ==
    LET h == <<"supply", p>>
        intent == ledger.supplies[p]
    IN  /\ intent # None /\ ~intent.settled
        /\ DepositShown(p, intent.amount)
        /\ Len(ledger.positions) < bound.positions
        /\ Save([ledger EXCEPT
                    !.supplies[p].settled = TRUE,
                    !.positions = Append(@, NewPosition(p, intent.amount, h))])
        /\ UNCHANGED contexts

Payouts == Cardinality({w \in Withdrawals : ledger.withdrawals[w] # None})
             + Cardinality({c \in Claims : ledger.claims[c] # None})
CreateWithdrawalIntent(w, i, amount) ==
    /\ Payouts < bound.payouts
    /\ ledger.withdrawals[w] = None
    /\ ledger.positions[i].receipt = WithdrawnFrom[w]
    /\ ledger.positions[i].active
    /\ ledger.positions[i].available >= amount
    /\ Save([ledger EXCEPT !.withdrawals[w] =
                [position |-> i, amount |-> amount, settled |-> FALSE]])
    /\ UNCHANGED contexts

\* Two claims may be created for the same fees.
CreateFeeClaim(c, i, amount) ==
    /\ Payouts < bound.payouts
    /\ ledger.claims[c] = None
    /\ ledger.positions[i].receipt = ReceiptOf[c]
    /\ Sat(ledger.positions[i].earned, ledger.positions[i].claimed) >= amount
    /\ Save([ledger EXCEPT !.claims[c] =
                [position |-> i, amount |-> amount, settled |-> FALSE]])
    /\ UNCHANGED contexts

\* The intent is pending and the position read, before the chain is asked.
Context(kind, id, intent) ==
    LET position == ledger.positions[intent.position]
    IN  [kind |-> kind, id |-> id, supplied |-> position.supplied,
         point |-> position.point]
Hold(context) ==
    /\ Cardinality(contexts) < bound.calls
    /\ contexts' = contexts \cup {context}
ReadWithdrawal(w) ==
    /\ ledger.withdrawals[w] # None /\ ~ledger.withdrawals[w].settled
    /\ Hold(Context("withdrawal", w, ledger.withdrawals[w]))
    /\ UNCHANGED <<ledger, disk>>
ReadFeeClaim(c) ==
    /\ ledger.claims[c] # None /\ ~ledger.claims[c].settled
    /\ Hold(Context("claim", c, ledger.claims[c]))
    /\ UNCHANGED <<ledger, disk>>

\* point is the new receipt cell the client names, or None.
Withdrawn(position, amount, point) ==
    LET left == position.supplied - amount
    IN  [position EXCEPT
            !.supplied = left, !.available = @ - amount,
            !.active = @ /\ left # 0,
            !.point = IF left = 0 THEN None
                      ELSE IF point # None THEN point ELSE @]
\* The position's balance is checked again, the intent's status is not.
SettleWithdrawal(held, h, point) ==
    LET intent == ledger.withdrawals[held.id]
        position == ledger.positions[intent.position]
    IN  /\ held.kind = "withdrawal"
        /\ config.rpc => /\ h \in DOMAIN mined
                         /\ WithdrawalVerified(mined[h], position.receipt,
                                               intent.amount, held)
        /\ point \in {None, h}
        /\ position.available >= intent.amount
        /\ Save([ledger EXCEPT
                    !.withdrawals[held.id].settled = TRUE,
                    !.positions[intent.position] =
                        Withdrawn(@, intent.amount, point)])
        /\ UNCHANGED contexts

\* Mutant: the claim is not compared with what is left of the fees.
ClaimableAny(position, amount) == TRUE
Claimable(position, amount) ==
    Sat(position.earned, position.claimed) >= amount

SettleFeeClaim(held, h, point) ==
    LET intent == ledger.claims[held.id]
        position == ledger.positions[intent.position]
    IN  /\ held.kind = "claim"
        /\ config.rpc => /\ h \in DOMAIN mined
                         /\ ClaimVerified(mined[h], held.id, intent.amount, held)
        /\ point \in {None, h}
        /\ Claimable(position, intent.amount)
        /\ Save([ledger EXCEPT
                    !.claims[held.id].settled = TRUE,
                    !.positions[intent.position].claimed = @ + intent.amount,
                    !.positions[intent.position].point =
                        IF point # None THEN point ELSE @])
        /\ UNCHANGED contexts

----------------------------------------------------------------------------
(***************************************************************************)
(* Merchants: capacity requests.                                           *)
(***************************************************************************)
CreateRequestIntent(r, amount, fee) ==
    /\ ledger.intents[r] = None
    /\ AvailableLiquidity(ledger) >= amount
    /\ Save([ledger EXCEPT !.intents[r] =
                [amount |-> amount, fee |-> fee, settled |-> FALSE]])
    /\ UNCHANGED contexts

\* The client may name the transaction without the request cell in it.
NewRequest(r, amount, hash, cell, peer) ==
    [id |-> r, amount |-> amount, hash |-> hash, cell |-> cell,
     peer |-> peer, status |-> "Requested", temporary |-> None,
     channel |-> None, funding |-> None]
NewReservation(r, amount) == [id |-> r, amount |-> amount, status |-> "Reserved"]

WithRequest(l, entry, fee) ==
    [l EXCEPT
        !.positions = ReservePositions(@, entry.amount, fee),
        !.reservations = Append(@, NewReservation(entry.id, entry.amount)),
        !.requests = Append(@, entry)]
Known(r) == Indices(ledger.requests, r) # {}

\* Without an intent there is no transaction: the ledger alone reserves.  What
\* a refused reservation already took stays taken in memory.
CreateLiquidityRequest(r, amount, fee, peer) ==
    /\ ledger.intents[r] = None /\ ~Known(r)
    /\ Len(ledger.requests) < bound.requests
    /\ AvailableLiquidity(ledger) >= amount
    /\ IF Covered(ledger.positions, "available", amount)
       THEN Save(WithRequest(ledger, NewRequest(r, amount, None, None, peer), fee))
       ELSE /\ ledger' = [ledger EXCEPT !.positions =
                             ReservePositions(@, amount, fee)]
            /\ UNCHANGED disk
    /\ UNCHANGED contexts

ReadRequestIntent(r) ==
    /\ ledger.intents[r] # None /\ ~ledger.intents[r].settled
    /\ Hold([kind |-> "request", id |-> r])
    /\ UNCHANGED <<ledger, disk>>

\* A signed intent is entered whatever the positions still have: the error of
\* the reservation is dropped, its partial changes stay.
SettleRequestIntent(held, peer, cell) ==
    LET r == held.id
        h == <<"request", r>>
        intent == ledger.intents[r]
    IN  /\ held.kind = "request" /\ cell \in {h, None}
        /\ config.rpc => /\ h \in DOMAIN mined
                         /\ RequestVerified(mined[h], r, intent.amount,
                                            intent.fee)
        /\ Len(ledger.requests) < bound.requests
        /\ Save([WithRequest(ledger, NewRequest(r, intent.amount, h, cell, peer),
                             intent.fee)
                   EXCEPT !.intents[r].settled = TRUE])
        /\ UNCHANGED contexts

----------------------------------------------------------------------------
(***************************************************************************)
(* Following the chain.  A dashboard syncs the receipts of its user, then  *)
(* the vault's accounting, then the request cells; a quote syncs the       *)
(* accounting.  Each is a call to the node of its own and may fail alone.  *)
(***************************************************************************)
Recovered(position, cell) ==
    [position EXCEPT
        !.point = cell.point, !.active = TRUE,
        !.supplied = cell.data.supplied, !.available = cell.data.available,
        !.reserved = cell.data.reserved, !.deployed = cell.data.deployed,
        !.claimed = cell.data.claimed,
        !.earned = IF @ > cell.data.claimed THEN @ ELSE cell.data.claimed]
UpsertReceipt(p, l) ==
    LET cell == receipt[p]
        same == {i \in DOMAIN l.positions :
                    \/ l.positions[i].receipt = p
                    \/ l.positions[i].point = cell.point}
        i == CHOOSE j \in same : \A k \in same : j <= k
        \* A position that shows all of the cell is left as it is.
        shown(position) ==
            [position EXCEPT !.active = TRUE, !.earned = 0]
               = [Recovered(position, cell) EXCEPT !.earned = 0]
    IN  IF same = {}
        THEN [l EXCEPT !.positions =
                 Append(@, Recovered(NewPosition(p, 0, None), cell))]
        ELSE IF shown(l.positions[i]) THEN l
        ELSE [l EXCEPT !.positions[i] = Recovered(@, cell)]

SyncReceipts(lock) ==
    LET owned == {p \in Positions : LpLock[p] = lock /\ receipt[p] # None}
    IN  /\ config.rpc /\ owned # {}
        /\ Len(ledger.positions) + Cardinality(owned) <= bound.positions
             \/ \A p \in owned : \E i \in DOMAIN ledger.positions :
                    ledger.positions[i].receipt = p
        /\ SaveIfChanged(FoldSet(UpsertReceipt, ledger, owned))
        /\ UNCHANGED contexts

\* The vault's totals spread over the positions, in their order.
Spread(ps, live) ==
    LET deployed(i) == Least(ps[i].supplied,
                             Sat(live.deployed, SumBefore(ps, i, "supplied")))
        free(i) == ps[i].supplied - deployed(i)
        before(i) == MapThenSumSet(LAMBDA j : free(j),
                                   {j \in 1..(i - 1) : ps[j].active})
        reserved(i) == Least(free(i), Sat(live.reserved, before(i)))
    IN  [i \in DOMAIN ps |->
            IF ps[i].active
            THEN [ps[i] EXCEPT !.deployed = deployed(i),
                               !.reserved = reserved(i),
                               !.available = free(i) - reserved(i)]
            ELSE ps[i]]

Live == [reserved |-> vault.data.reserved, deployed |-> vault.data.deployed,
         available |-> Sat(vault.data.total,
                           vault.data.reserved + vault.data.deployed)]

SyncVault ==
    /\ config.rpc
    /\ SaveIfChanged([ledger EXCEPT !.live = Live,
                                    !.positions = Spread(@, Live)])
    /\ UNCHANGED contexts

----------------------------------------------------------------------------
Crash ==
    /\ crashes < bound.crashes
    /\ ledger' = disk /\ contexts' = {}
    /\ crashes' = crashes + 1
    /\ UNCHANGED <<disk, config, chainVars>>

ProviderNext ==
    \/ \E p \in bound.providers, a \in bound.supplied : CreateSupplyIntent(p, a)
    \/ \E p \in Positions : CreateDeposit(p)
    \/ \E w \in Withdrawals, i \in DOMAIN ledger.positions, a \in bound.moved :
          CreateWithdrawalIntent(w, i, a)
    \/ \E c \in Claims, i \in DOMAIN ledger.positions, a \in Fees :
          CreateFeeClaim(c, i, a)
    \/ \E w \in Withdrawals : ReadWithdrawal(w)
    \/ \E c \in Claims : ReadFeeClaim(c)
    \/ \E held \in contexts, w \in Withdrawals,
          point \in Hashes \cup {None} :
          SettleWithdrawal(held, <<"withdraw", w>>, point)
    \/ \E held \in contexts, c \in Claims, point \in Hashes \cup {None} :
          SettleFeeClaim(held, <<"claim", c>>, point)

MerchantNext ==
    \/ \E r \in bound.merchants, a \in bound.moved, f \in Fees :
          CreateRequestIntent(r, a, f)
    \/ \E r \in bound.merchants, a \in bound.moved, f \in Fees, peer \in BOOLEAN :
          CreateLiquidityRequest(r, a, f, peer)
    \/ \E r \in Requests : ReadRequestIntent(r)
    \/ \E held \in contexts, peer \in BOOLEAN, cell \in Hashes \cup {None} :
          SettleRequestIntent(held, peer, cell)

\* A wallet signs the transaction of an intent.
WalletNext ==
    /\ config.rpc
    /\ \/ \E p \in Positions :
             ledger.supplies[p] # None /\ MineSupply(p, ledger.supplies[p].amount)
       \/ \E w \in Withdrawals :
             /\ ledger.withdrawals[w] # None
             /\ MineWithdraw(w, ledger.withdrawals[w].amount)
       \/ \E c \in Claims :
             ledger.claims[c] # None /\ MineClaim(c, ledger.claims[c].amount)
       \/ \E r \in Requests :
             /\ ledger.intents[r] # None
             /\ MineRequest(r, ledger.intents[r].amount, ledger.intents[r].fee)

LedgerInit ==
    /\ ChainInit
    /\ config \in Configs
    /\ ledger = [supplies     |-> [p \in Positions |-> None],
                 positions    |-> <<>>,
                 withdrawals  |-> [w \in Withdrawals |-> None],
                 claims       |-> [c \in Claims |-> None],
                 intents      |-> [r \in Requests |-> None],
                 requests     |-> <<>>,
                 reservations |-> <<>>,
                 jobs         |-> [r \in Requests |-> None],
                 funding      |-> [r \in Requests |-> None],
                 live         |-> None]
    /\ disk = ledger
    /\ contexts = {}
    /\ crashes = 0

----------------------------------------------------------------------------
(***************************************************************************)
(* Properties.                                                             *)
(***************************************************************************)
\* Whatever was reserved, deployed, released, withdrawn or copied from the
\* chain, in any order and with errors half way, every position's balances add
\* up to what was supplied, and a closed position holds nothing.
PositionsBalanced ==
    \A i \in DOMAIN ledger.positions :
        LET p == ledger.positions[i]
        IN  /\ p.available + p.reserved + p.deployed = p.supplied
            /\ ~p.active => p.supplied = 0

\* No position has claimed more fees than it earned, though two claims for the
\* same fees may be on their way, and may both be settled on the chain.
FeesWithinEarned ==
    \A i \in DOMAIN ledger.positions :
        ledger.positions[i].claimed <= ledger.positions[i].earned

\* A settled supply, withdrawal, claim or request stays settled across a crash:
\* what the client was told is in the file.
SettledSurvives ==
    [][ /\ \A p \in Positions : ledger.supplies[p] # None =>
              /\ ledger'.supplies[p] # None
              /\ ledger.supplies[p].settled => ledger'.supplies[p].settled
        /\ \A w \in Withdrawals : ledger.withdrawals[w] # None =>
              /\ ledger'.withdrawals[w] # None
              /\ ledger.withdrawals[w].settled
                    => ledger'.withdrawals[w].settled
        /\ \A c \in Claims : ledger.claims[c] # None =>
              /\ ledger'.claims[c] # None
              /\ ledger.claims[c].settled => ledger'.claims[c].settled
        /\ \A r \in Requests : ledger.intents[r] # None =>
              /\ ledger'.intents[r] # None
              /\ ledger.intents[r].settled => ledger'.intents[r].settled ]_ledger

\* With a node, an intent is settled only for a transaction of the chain, made
\* for the same owner's cell and the same amount.
SettledIsMined ==
    config.rpc =>
        /\ \A p \in Positions :
              ledger.supplies[p] # None /\ ledger.supplies[p].settled =>
                 <<"supply", p>> \in DOMAIN mined
        /\ \A w \in Withdrawals :
              ledger.withdrawals[w] # None /\ ledger.withdrawals[w].settled =>
                 \E v \in Withdrawals :
                    /\ <<"withdraw", v>> \in DOMAIN mined
                    /\ WithdrawnFrom[v] = WithdrawnFrom[w]
                    /\ ledger.withdrawals[v].amount
                          = ledger.withdrawals[w].amount
        /\ \A c \in Claims :
              ledger.claims[c] # None /\ ledger.claims[c].settled =>
                 <<"claim", c>> \in DOMAIN mined
        /\ \A r \in Requests :
              ledger.intents[r] # None /\ ledger.intents[r].settled =>
                 <<"request", r>> \in DOMAIN mined
=============================================================================
