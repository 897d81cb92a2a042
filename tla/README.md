# A verification project for LiquidLane

LiquidLane (`src/` is the repository, the Rust crate is `src/src/`) lets a
merchant buy receive capacity on the Fiber network of CKB: a provider's node
opens a channel to the merchant's node, the merchant pays an opening fee after
the channel was proved usable. The coordinator only keeps records and checks
evidence; keys and funds stay with the two nodes. An older product of the same
crate, the custodial vault, runs only with `LIQUIDLANE_PRODUCT_MODE=legacy_vault`.

This directory holds TLA+ models of that program, TLC configurations for small
instances, and proofs that TLAPS checks for every value of the constants.

## 1. Inventory

| Component | Code | State | Operations | Status |
|---|---|---|---|---|
| Order book | `marketplace/{orders,offers,model,db,mod}.rs` | offers, orders, one SQLite database | publish, disable, create, accept, cancel; quote, claim ("start"), failure; a pass every 10 s over deadlines and fees | `MarketOrders` |
| Node reports | `marketplace/{heartbeat,nodes}.rs` | node records | signed heartbeat, registration | `MarketOrders`, `Sessions` |
| Delivery | `marketplace/{evidence,connector_api,receipts,chain}.rs` | per order: evidence of both sides, probe, receipt; the table of used references | report, probe, verify, receipt | `MarketDelivery` |
| Opening fee | `marketplace/payments.rs` | fee status, fee transaction | settle, waive | `MarketDelivery` |
| Settlement proof | `marketplace/{settlement,settlement_scan}.rs`, `connector/settlement.rs` | the connector's cache | find the spender of a funding output, follow its outputs, judge | `SettlementProof` |
| Sessions and pairing | `marketplace/{auth,joyid,crypto,nodes}.rs` | challenges, sessions, pairings | challenge, verify, logout, pair, register | `Sessions` |
| Provider connector | `connector/{worker,execution,budget,observe,mod,settlement,policy}.rs` | journal and settlement cache in SQLite; the worker's stack | cycle, observe, quote, open, approve | `CapacityOpening`; merchant's side only through `MarketDelivery` |
| Connector tools | `connector/{bootstrap,setup,service,release,cli,...}.rs` | files, a service unit | install, configure, pay an invoice | not modelled: files and processes |
| Legacy vault ledger | `store/`, `domain/` | supplies, positions, withdrawals, claims, requests, reservations, jobs: in memory and one JSON file | deposit, withdraw, claim, request, follow the chain (`VaultLedger`); hand over, build the funding, watch, retry, repair, expire (`VaultExecutor`) | modelled but for its login, the dashboards and dead code |
| Legacy service and clients | `http/`, `fiber/`, `ckb_rpc.rs`, `main.rs` | none of its own | routes, remote calls | opening and reading channels, the watcher's loop in `VaultExecutor`; the rest is input and output |
| Vault scripts | `ckb-scripts/*` | cells on the chain | transition rules | `VaultScripts`, `VaultChain`, promise in `VaultPolicy`; without the funding intent script and the vault's creation |
| Deployment tools, wallet helpers | `bin/`, `wallet/` | none | one-shot commands, encodings | not modelled |

How the parts meet. The merchant's wallet calls the coordinator over HTTP. Both
connectors poll the coordinator every 8 s, ask their local Fiber node, and post
signed payloads. The coordinator asks the CKB chain, and nobody calls the
connectors: an order is a record that each side moves when it sees it. A handler
of the coordinator reads and writes in one immediate SQLite transaction, which an
error rolls back. The connector's worker is one loop under two file locks; the
`approve` command is a second process on the same journal, without them.

What is hard. Handlers await a wallet's signature check or the chain between
reading an order and committing, and a request whose client gave up still runs,
so commits come in any order. Observations are signed early and stored late. The
claim of an opening, the journal entry, the node's answer and the first evidence
are four steps on three machines, with a crash or a lost answer between any two.
Balances, channel ids and even the list of channels of the Fiber node change
under the budget that is computed from them. The vault's ledger is a copy of
what two other systems decide, the chain and the Fiber node, and its handlers ask
them between reading and writing. `PROJECT.json` lists each hazard at
its line, with the properties that would catch it going wrong.

What makes each part correct:

* order book: the reservations of a provider stay within its last heartbeat;
  the terms under an idempotency key stand; no acceptance or claim at or after
  the deadline; a wallet has one order in the way per provider; unopened orders
  end;
* delivery and fee: a funding output serves one order; what is delivered is what
  the chain confirmed; the receipt proves it; a claimed order gives up its
  reservation only when its funding is settled; a payment credits one order;
* connector: the node is asked once per order, never for an order that was not
  claimed; the local limit holds; an opening with unknown outcome stays reserved
  and blocks the next; an order keeps its own channel, as far as that can be told;
* settlement proof: a claim accepted as confirmed means that all the channel's
  money is in wallets; an honest claim is accepted whenever it arrives; a scan
  that ran out of pages says nothing;
* sessions: a challenge or a pairing code buys one session, for the wallet that
  signed it; a node holds one session;
* vault on the chain: its cell holds what its data promises, its totals are those
  of the receipts and requests around it, and a reserved request can be funded;
* vault ledger: positions add up, what was settled was mined and stays settled, a
  lock on a provider's money has a reservation, a channel shown open is signed.

## 2. The modules

`MarketOrders` is the order book. `clock` is the coordinator's wall clock, in
units of the shortest window a run gives; `node`, `offer` and `order` are the
records; `publishing` and `accepting` hold what a handler read before its await
or before its transaction. An order's identifier is the pair of its wallet and
the idempotency key, because the code derives the one from the other with a
digest. A handler that awaits is two actions (`AcceptBegin`, `AcceptCommit`), one
that does everything in its transaction is one (`Create`, `Start`). A refused
request changes nothing and is no step. `Failure` covers both values of
`before_funding`. `Expire` is the whole pass of `orders::expire` over all orders.

`MarketDelivery` extends it with the delivery and the fee. `evidence`,
`attestation`, `probe`, `probeReport`, `delivery`, `receipt`, `feeTx`,
`boundPoint` and `boundFee` are the records and the table `unique_refs`;
`reports`, `probes`, `verifying` and `settling` are requests under way; `chain`,
`fiber` and `paid` are the world outside, changed by the external actions
`MineBlock`, `FundingStep`, `ChannelStep` and `PayInvoice`. A signature is
abstracted to the fact that the record was written by the connector of that
side, an amount of a channel to whether the merchant's side has the quoted
capacity. A report is composed from the true state of the channel at one moment
and stored at another; what it says of the settlement may be older than that.

`OrderPromise` is the abstract specification: per order a phase (free, asked,
committed, delivered, released), its fee, its provider. `MarketDelivery` shows
with `Promise == INSTANCE OrderPromise WITH ...` that the coordinator implements
it: the refinement mapping sends each status to its phase.

`CapacityOpening` is the provider's connector. `journal` survives a stop,
`worker` (the place in its cycle and what it holds there) does not. `core` and
`bound` are the coordinator as the connector sees it: one value stands for every
status between the claim and the delivery. `channel`, `moved` and `settled` are
the Fiber node and the chain, `older` the channels that existed when an order was
made (the code compares creation times; a channel of the last five seconds before the
order passes for a newer one, so any subset of the foreign channels under
negotiation may be left out of it), `calls` counts the requests to open.
`Orders` also identifies channels: channel `o` is the one opened for order `o`.
`Foreign` are channels of the same node that LiquidLane did not ask for: opened
by hand or by the merchant's node (`OpenOutside`), listed, counted and settled like
the others. `MerchantReport` is the merchant's connector, which finds a channel of its
own node by the same rule, from a list that may be ahead or behind; `Evidence` is what the
coordinator makes of a report of either side. `taken` remembers for which orders the
journal got a channel that is not theirs.
`Settings` are local configurations; a behaviour keeps the one it began with.
`GiveUp` is an error of any of the worker's requests, `Crash` the end of the process
at any point, `ApproveRead`/`ApproveSave` the command beside it.

`Sessions` is sign-in and pairing. `challenges`, `sessions`, `accounts`,
`pairings`, `status` and `nodes` are the tables; `calls` is what the requests under
way hold between the two transactions of `verify`: the first reads the challenge,
the wallet's proof is checked (`VerifyProof`, for JoyID after a lookup at its
service), the second deletes the challenge and inserts the session. A message a
wallet signs is named by its challenge, whose id and nonce it contains. A token is
random in the code; here it is named by what it was bought with (`from`) and a
number (`nth`), so that a second purchase from one source is visible.

`SettlementProof` is the proof that a closed channel's money came back. `scan` is
the connector's walk over the pages of an indexer that lags (`tip`) behind the
chain, one action per point or page; `cache` is its result, kept across restarts.
`Summary` and `Verified` are the functions the coordinator judges a claim with.
The code's work list is `Visit`, one round of it, and `Walk`, a recursive function that
ends within as many rounds as there are transactions; the indexer's `History` is one over
the blocks it has seen. `Descent` and `Recovered` are the reference definition, by
generations of spends instead of a work list.

The vault has three layers, each extending the one before.
`VaultScripts` are the scripts of the chain as predicates of a transaction, the
inputs resolved to cells. `VaultChain` is the life of the vault under them: the
transactions that the wallets compose by the server's rules and that the funding
builder makes, and what the server verifies of each. Composing and committing are
one step, because a transaction names the vault cell it spends and is lost with it.
`mined` maps the hashes of the committed transactions to them; a hash is named by what
its transaction does and for whom, and each is committed once.
`VaultPolicy` is the abstract specification: the rules of `ckb-scripts/v2-policy`
conjoined with the server's copy in `domain/vault_v2*.rs`, which differ in what they
check. `VaultChain` is shown to implement it (`Policy == INSTANCE VaultPolicy WITH
...`). A receipt on the chain does not record what it earned; the mapping lets
it claim up to the vault's fee balance, which is all the scripts enforce.

`VaultLedger` is the service's state over that chain: `ledger` in memory, `disk`
the file, `contexts` what handlers hold between reading an intent and writing after
the chain answered. `SyncReceipts` and `SyncVault` copy the chain into the
ledger. `VaultExecutor` adds what hands requests to the Fiber node: `handoffs` are
its unfinished calls with their stages, `building` the calls of the funding builder,
`fiber` the node's channels (external: `FiberFund`, `FiberSign`, `FiberAbort`,
`FiberClose`). A channel is "negotiating", then "usable", which is what
`channel_usable` (`fiber/channel.rs:80`) makes of the node's names: a name that contains
"ready" or "open", so both `AwaitingChannelReady`, whose funding is signed and
not confirmed, and `ChannelReady`. A usable channel whose funding is not mined may
still be "lost". Fiber asks for the funding of a channel once and waits for the answer
(`render/fiber/entrypoint.sh` writes the command it runs), so one call of the builder
is out per channel. `SyncFiberChannels` is the watcher's whole pass, with its four lists
applied in the code's order. `config` is the setting of the process: with or without a
CKB node, a Fiber node, funding from the vault, a builder.

The theorems are in `MarketProofs`, `OpeningProofs`, `SessionsProofs`,
`SettlementProofs`, `VaultProofs`, `LedgerProofs` and `ReserveProofs`, each extending the
module it is about or an earlier one of these, and the lemmas on sums, folds and
iteration they share in `SumLemmas`. The modules named `MC...` give the constants of the runs. An
operator marked "Mutant" is a plausible wrong version of the definition that
follows it; no specification uses one.

## 3. What the runs check

All runs use `CHECK_DEADLOCK FALSE`: the bounds on the clock, on the blocks and on the
orders end every behaviour, and the system itself may rest when nobody asks.

| Run | Instance | Properties |
|---|---|---|
| `book` | two merchants with a wallet each, one provider, two offers; budgets for one order and for two; at most three offers and orders together; clock 2..4 | `TypeOK`, `ReservationsFunded`, `TermsStand`, `DeadlineHolds`, `OneOfferPerNode` |
| `delivery` | claimed orders in four scenes: two observations at once with a probe; two funding outputs; ageing observations with two divisions of the balance and clock 2..3; two orders that name one output | `MarketTypeOK`, `OutpointsExclusive`, `VerifiedIsDelivered`, `ReleaseIsSettled`, `ReceiptProves`, `DeliveryFinal` |
| `fees` | two delivered orders, two fee transactions that each fit either order, two more keys, two blocks, clock 2..4 | `FeesExclusive`, `OneOutstanding`, `FeesComeDue`, `UnopenedEnds` |
| `promise` | one order from the published offer to the paid fee, two requests under way, clock 2..3 | `KeepsPromise` |
| `opening` | two orders of 2 units, five settings: a limit of 3, a limit of 4, one merchant for both, approval by hand, each with one crash; a channel the merchant opens outside LiquidLane and its connector's reports | `TypeOK`, `OpenedOnce`, `UncertainStaysReserved`, `BudgetHolds`, `OneUnresolvedAlone`, `OwnChannel` |
| `sessions` | a wallet whose address is its key's hash and a JoyID wallet, two keys, one node, two requests at once, two challenges, two codes, clock 0..2 with lifetimes of one and two | `OneSessionPerChallenge`, `NodeSessions`, `SessionFromProof` |
| `settlement` | ten transactions: a close by agreement, a forced close into two commitments swept together, one by one, onward or into an unknown cell, and two that only fill the indexer; limits of 2 transactions, 3 points, 2 pages of 3 | `ConfirmedIsRecovered`, `HonestClaimAccepted`, `ScanNeverGuesses` |
| `chain` | two providers, two requests of one merchant, a fee claim, a withdrawal each, amounts 1 and 2 | `VaultBacked`, `CellsAgree`, `FundingFits`, `ServiceAccepted`, `KeepsPolicy` |
| `vault` | twelve settings (below) | `PositionsBalanced`, `FeesWithinEarned`, `SettledIsMined`, `ReservesBacked`, `OpenIsDeployed`, `OpenIsSigned`, `SettledSurvives` |
| `claim_bypassed` | one order | `ReportsFollowClaim` is violated |
| `receipt_overwritten` | a claimed order, two probe reports at once | `ReceiptHoldsPaidProbe` is violated |
| `approve_overwrites` | the `opening` instance, the command used on an order the worker opens by itself | `OneUnresolved` is violated |

Why the bounds are enough. A race needs two actors, so each run has two of
whatever competes: wallets, offers, observations, funding outputs, fee
transactions, openings. A deadline needs the moment before it, the moment itself and one
after it: each window is one unit, or none, and the clock runs past it. A budget needs
to be too small for one more: 400 units with 100 committed take one order of
200, a limit of 3 takes one opening of 2. The runs of delivered and claimed orders start
in states that are reachable from `MarketInit` by the steps `book` and `promise`
take. In the scenes of `delivery` every node has been paired again since, and from
then on no node is, because no handler of those phases reads what pairing changes.
`MaxUsed` bounds the offers and orders of `book`, `MaxBusy` the requests that are
under way at once in the runs of `MCMarketDelivery`, and in `fees` the orders and
payments begun. Symmetry is used in `book` only, over the two offer
identifiers, and that run has no liveness property.

Symmetry is also used in `sessions`, over the two requests; no property there is
a liveness property.

The settings of `vault` (`MCVaultExecutor`) divide what would be too large together:
the chain without Fiber, with two positions, a withdrawal and a claim, each settled
by calls that race, and a merchant that is the operator, so that its request is also
found on the chain; the ledger alone, with two providers and requests for more than
they have, once with both amounts and once with two calls at once; Fiber without the
chain, with two handoffs at once, with two attempts, with a request of two providers,
with two channels for one request that Fiber funds itself, and without a builder; the
chain and Fiber together, once for a merchant's channel and once for the operator's
own; and a restart, once of the ledger alone and once with Fiber funding itself. What
no setting combines, two channels that the builder may fund for one request among it, is
left to the proofs.

`ReservesBacked` and `OpenIsDeployed` are stated for a
ledger without a CKB node: with one, a dashboard's sync rewrites balances under
the reservations (section 5). They and the lookups of the code go by a
request's id, so they are also stated for one entry per id. That the
reservation of a settled request is released is not claimed: a settlement by the
operator that finds too little deployed leaves the request `Settled` in memory with
its reservation still `Deployed`.

In `settlement` the limits are small enough to be reached: the forced close and two
sweeps are more than two transactions, the commitments' lock has more entries than a page,
and with both unrelated transactions more than two pages. `ConfirmedIsRecovered` is
over every subset of the committed transactions, so over every claim a connector
could send.

Fairness. `MarketFairness` is weak fairness of the clock and of `Expire`: `serve`
starts a task that runs the pass every ten seconds and goes on after an error.
Nothing else is fair: wallets and connectors may stop for ever. `FeesComeDue` and
`UnopenedEnds` are leads-to properties under that fairness, stated for deadlines
that lie within the bound of the clock. The connector has no liveness property:
the code gives none, an opening that the peer refused waits for its operator.
Neither have the modules of the vault, the sessions and the settlement: a scan
may fail at every attempt, a wallet may never sign, and the file of the ledger says
nothing of when.

Three things the code does that its documents do not say:

1. `receipt_overwritten`: every probe report replaces the stored one
   (`connector_api.rs:221`). A report "not paid yet" that is delayed past the
   report "paid" is what the receipt keeps, although the delivery was verified
   because of the other.
2. `claim_bypassed`: a failure report with `before_funding=false` moves an order
   that nobody accepted to `reconciling` (`connector_api.rs:160`), and in that
   status the report handler takes a channel, though its error says that the provider
   must claim the opening first.
3. `approve_overwrites`: `approve` reads and writes the journal without the
   worker's locks (`connector/mod.rs:159`). It can write back an entry it read
   before the attempt was marked, and then the attempt blocks no other opening
   and counts for nothing in the budget while its channel is not listed.
   `BudgetHolds` and `OneUnresolvedAlone` are therefore stated for a journal
   that only the worker writes; the other properties hold with the command too.

An order and a channel opened outside LiquidLane. `locate_channel`
(`connector/execution.rs:87`) takes any channel with the merchant that is not older
than the order less five seconds and was not listed before the attempt, and the
merchant's connector takes any such channel of its node. If the answer of `open_channel` was
lost, or the merchant's connector reports first, a channel that somebody opened by hand,
or that the merchant opened, is bound as the order's own, in the journal and at the
coordinator, and the channel that was opened for the order is then left
without one and may in turn be taken for a later order's. `OwnChannel` says that
this is all that can happen: what an order has is its own channel or, once a channel was
opened outside, a stray one (`Stray`: opened for no order, or deprived of its own order) with the
same merchant that is not older (`Passable`). Without a foreign channel it is the
order's own. `UncertainStaysReserved` then speaks of the channel that passes for it.
`BudgetHolds` and `OneUnresolvedAlone` leave out the orders whose journal took another channel
(`taken`): the attempt is matched to the wrong channel there, so that the right
one is counted by its present balance only, and an opening still under way is taken as resolved.
In the run the foreign channel holds nothing of the provider's, as one the merchant
opens; in the proofs it may hold any amount.

## 4. What is proved

TLC checks the instances above; the theorems hold for any sets of wallets, nodes,
orders, providers, requests, channels and transactions, any amounts, windows and
settings, and any bounds. Every invariant and every action property of the passing
runs is proved, and so are both refinements; what stays with TLC, liveness above all, is
listed at the end of this section.

| Module | Specification | Theorems |
|---|---|---|
| `MarketProofs` | `MarketSpec` | `TypesHold`, `OneOutstandingHolds`, `OutpointsExclusiveHolds`, `FeesExclusiveHolds`, `VerifiedIsDeliveredHolds`, `ReceiptProvesHolds`, `ReleaseIsSettledHolds`, `DeliveryFinalHolds`, `TermsStandHolds`, `DeadlineHoldsAlways`, `ReservationsFundedHolds`, `OneOfferPerNodeHolds`, `KeepsPromiseHolds`; `BookTypesHold` of the book's `Spec` |
| `OpeningProofs` | the connector's `Spec` | `TypesHold`, `OpenedOnceHolds`, `OwnChannelHolds`, `UncertainStaysReservedHolds`, `OneUnresolvedHolds`, `BudgetHoldsAlways` |
| `SessionsProofs` | the `Spec` of `Sessions` | `OneSession`, `NodeSessionsHold`, `SessionsFromProofs` |
| `SettlementProofs` | the `Spec` of `SettlementProof` | `ConfirmedIsRecoveredHolds`, `HonestClaimAcceptedHolds`, `ScanNeverGuessesHolds` |
| `VaultProofs` | `ChainSpec` | `VaultIsBacked`, `CellsAgreeHolds`, `FundingFitsHolds`, `ServiceAcceptedHolds`, `KeepsPolicyHolds` |
| `LedgerProofs` | the `Spec` of `VaultExecutor` | `PositionsBalancedHolds`, `FeesWithinEarnedHolds`, `SettledIsMinedHolds`, `OpenIsSignedHolds`, `SettledSurvivesHolds` |
| `ReserveProofs` | the `Spec` of `VaultExecutor` | `ReservesBackedHolds`, `OpenIsDeployedHolds` |

`SumLemmas` holds what the others need of sums and folds over finite sets: a sum
is a natural, changes with one summand by its difference, grows with the set, is the
sum of its parts; a fold whose step keeps a set ends in it. The library defines both by
recursion, and the induction theorems of the library cannot be used here; the
lemmas go by a least counterexample instead (`LeastSet`, `LeastNumber`), that sums
exist and agree being shown first for the recursive function behind them. What iterates
along `0..N` goes the same way: `UpTo` is induction with a set in place of a predicate,
and `IterateExists` says that steps which keep a set have an iteration, whose values
are in it; without it a recursive function is only a `CHOOSE`.

The assumptions are those the modules name, and TLC evaluates them on every run:

* `OwnerAssumption`, `RolesAssumption` (no node has both roles), `NoneAssumption`,
  `WindowAssumption`, `InputAssumption`, `DeliveryAssumption` of the market: amounts
  and windows are naturals, and `None`, the absent value of an `Option`, is no value;
* `ConnectorAssumption`: finitely many orders and foreign channels, an order's funding
  being at least one unit;
* `NativeAssumption`, `LifeAssumption` of the sessions;
* `TxAssumption`, `LimitAssumption` of the settlement: finitely many transactions, each
  with finitely many inputs and a list of outputs, the first of `Root` being the funding;
  a page of the indexer has room for an entry;
* `ChainAssumption`: amounts and fees are positive, ids are finitely many (they are
  byte strings of fixed length), and no provider's or operator's account is locked
  by the vault's own script;
* `LedgerAssumption`: `None` is no intent and no hash, and a setting's bounds are
  amounts and participants there are.

### The order book and the delivery

The type invariant is not inductive alone: storing an observation writes to its
order, and that an order in use names both its nodes is kept only if the order
was in use. `TypeInv` adds `ReportsUsed`: the order of a pending report is in use.
There is one lemma per group of handlers, and `NextType` puts them together.

`OneOutstanding` follows from `TypeInv` by a second notion: a step is `Quiet` if
no order changes its provider, an order in use stays in use, and an order that is
in the way after the step was in the way before it. Every step is quiet but the
creation of an order (`NextQuiet`); a quiet step cannot break the property, and
the creation checks it in its transaction (`CreateOutstanding`).

The second part of `MarketProofs` has `OutpointsExclusive`, `FeesExclusive`,
`VerifiedIsDelivered` and `ReceiptProves`, each as `MarketSpec => []...`. They are one
induction, because they need each other: a verification relies on the channel its
order is bound to, a receipt on what the verification found, a payment on the
delivery being final. The invariant `Linked` is their conjunction with five ties
between records: `Fresh` (an order nobody made is bound to nothing, a delivered one to an
output), `Reported` (a pending observation names the channel of its output),
`Observed` (the stored observations are the signed ones, and of the order's
output), `Anchored` (only a delivered order has a delivery height) and `Probed` (a
probe counts as received only if its invoice was paid). Most steps `Stay`: they leave
every order's binding, its delivery and whether it is delivered; such a step keeps
`Linked` for a general reason (`StaysRecords`, `StaysPending`, `StaysProbed`), and a
proof of its own is left for a report, a delivery and a payment.

The third part of `MarketProofs` classifies what a step may make of an order: `Life` says that it keeps
its terms and either turns in the order book, is judged by its two observations, is
delivered, or is billed. `NextLives` shows that every step of every handler is one of
these for every order, or creates one order. With the invariant `Ruled` (a fee is owed for
what is delivered and a paid one was credited; an order whose opening nobody claimed
has no channel and no pending report; an observation says "settled" only if the
chain does) the action properties are read off from `Life`, and the refinement
`KeepsPromise` maps each kind of `Life` to an action of `OrderPromise` or to a stutter.
`ReleaseIsSettled` is part of `Ruled`, since a release rests on both observations
and those on the chain. `DeliveryFinal` also needs that a probe once received stays
(`NextProbe`). `ReservationsFunded` is a sum over the provider's orders: the creation
adds one term that fits what is free, and a report of balances is the case the
property excepts; that the sum exists is `Finite`, an invariant too, because an order id
may be any of infinitely many.

### The connector

`OpenedOnce` alone is not inductive: between the claim and
the call of the node nothing in it says that this order was not called yet. The
invariant adds `ClaimedUnopened` (while the worker is between the two, the order's
count is zero and the coordinator has it claimed), and `Types` adds to the type
invariant that the worker holds an order at the places where the code holds one. The
claim gives the first half: an order that is still to be claimed was never asked for.

`OwnChannel` and `UncertainStaysReserved` are parts of `Traced`. The code finds an
order's channel as one with the merchant that is not older than the order; that this is
the order's own, or a stray one, rests on the coordinator, which lets one order per merchant and
provider be in the way (`OneActive`), and on the channel of every other order with
the merchant being older or stray itself (`OlderFirst`). The rest of `Traced` carries the
finding (`LocatedOwn`) through the worker's copies and the command's (`FoundOwn`, `CopyOwn`,
`ApprovingOwn`) to the journal (`JournalOwn`) and back to the coordinator (`BoundOwn`). What may
pass for an order's channel only grows once the order exists (`PassableGrows`), so that a copy
made early is still within it when it is written.

`BudgetHolds` and `OneUnresolvedAlone` are parts of `Limited`, kept while the worker alone
writes the journal. `Remembered`: what was asked of the node is in the journal and in the
copy the worker will write back. `Room`: from the check to the call, nothing is
unresolved and the order fits beside all that is open. Both are about the orders the journal
took no other channel for (`Kept`). That the check makes room is
`ExposureCovers`: what the code counts (journal entries and listed channels, each
order once, the greater of the two amounts) is at least what is open.

### Sessions

The strengthening has three parts: `Drawn`, ids come from a counter and are unique among what is
pending; `Unspent`, what is pending bought nothing so far; `Remembered`, a request
in progress knows the address of the challenge it read even if that is
consumed meanwhile. `SessionsFromProofs` follows because the step that adds a
session deletes exactly one row, and the row it finds is the one `Remembered` ties
to the proof.

### The settlement proof

`ConfirmedIsRecovered` compares two ways through one graph. For the code's walk the
invariant of the loop is `Walking`: a visited transaction's commitments are spent only by
transactions visited or queued, and its stuck cells are in `pending` (`VisitWalks`). Every
round visits one more transaction, so the queue is empty at the end (`WalkIs`) and an
accepted, confirmed summary has no stuck cell at all (`NothingStuck`). For the
reference the invariant is `ChainInv`: a point is spent by one committed
transaction. So the spender that descent takes is the one the claim names, and every
generation of `Descent` stays within the claim's outputs and the funding
(`DescentWithin`). No bound on the transactions or on the depth of the tree is used.

`ScanNeverGuesses` needs that pages read at different heights fit together. `Passed`
says that none of the entries before the cursor spends the point, in the history as the
indexer lists it now; it survives `Index` because the history only grows at its end
(`HistoryNext`), and `TurnPage` because a page that is not short has exactly `PageSize`
entries (`CutIs`). A short page without a hit then ends a history without one, and
`HistoryIs` says that the history holds every input of every transaction the indexer saw.

`HonestClaimAccepted` rests on `CacheInv`: a cached result is the summary of some
committed transactions. A summary reads nothing but the transactions it is given, so it
is the same when the coordinator computes it later, and its size is within the
limit because the scan's own summary was.

### The vault on the chain

The second half of `VaultBacked` (no more is reserved and deployed than was supplied)
is checked by the type script at every commit (`CommitVault`); the first, that the
cell's capacity is what its data promises, is checked by no script, and holds because
each transaction moves both alike (`MovedInv`).

The other theorems share `CellsInv`. `Shaped`: the live cells are of the form the service's
transactions give them (a receipt is its provider's and wholly available, a
request is the operator's). `Agreed`: the vault's totals are the sums over the receipts
and requests. `Funded`: a deployed request was deployed by its own funding
transaction. For each of the five transactions a lemma says which cells it
makes, one that the sums move with the totals. `ServiceAccepted` is proved by
showing of each transaction that it passes the server's verification, and of a payout
that it does exactly if it fits what the vault has free; `FundingFits` from the totals
being sums, so that a reserved request is within what is reserved. `KeepsPolicy` is
the step simulation of `VaultPolicy`: five lemmas, one per transaction, each giving the
action of the policy that the transaction is under the mapping.

### The ledger

`LedgerProofs` is one induction over `ServiceInv`, which has four parts: `LedgersInv`
(memory and file are well formed, name the transactions of their own receipts, and
have the same intents), `CallsInv` (what an unfinished call read was recorded and is
still), `BuilderInv` and `MinedInv` (what the chain has under a withdrawal's or a claim's
hash pays that withdrawal, together with the chain's own invariants). A handler is
placed by how far it may reach: it `Moves` (positions, reservations, jobs), `Follows`
(requests too, but none is shown open unless its channel is signed) or `Advances`
(intents too, which stay, and stay settled). These compose, so
what is proved of each operator on a ledger gives the passes of the watcher, of the expiry and of
the synchronisation, which are folds, by `FoldWithin`. `SettledSurvives` rests on
`SameIntents(ledger, disk)`: what a crash forgets is never an intent.
`FeesWithinEarned` and `SettledIsMined` need the chain below: a claim settles only what its
transaction paid, and a transaction can only have paid what the receipt's cell has.

`OpenIsSigned` rests on the channel of an open request being past its negotiation
(`Shown`, kept by every handler) and on `BuilderInv`: in vault mode a channel past its
negotiation has the transaction the builder answered with, and a builder works on a
channel that has none yet, alone. Fiber calls the builder of a channel once and waits
for its answer; were two calls out, the failure of the second would fail a channel that
the first had funded.

`ReserveProofs` adds what the ledger holds when it stands alone. `ReservesBacked` is not
inductive, for two reasons. It sums reserved and deployed together: the release of
one reservation could then take from `reserved` what another still locks. `Backed`
therefore says two things: what positions hold as reserved is within the
reservations that lock (`Reserved`, `Failed`), and reserved with deployed is within
those not released. And settling a request gives its deployed CKB back, which is within what is
left for the others only if that reservation was deployed: this is `OpenIsDeployed`,
so both are proved as one invariant, `StandsAlone`. It has the form "with one entry
per request, `Rest`", because the code looks a reservation up by id; `Rest` also has
`Aligned`, each request's reservation being at the same place. A movement of an amount over
the positions takes from each what it has until the amount is met; the lemmas on
`ShiftedAll` say how much it moves in all, and never more than there is. A handler that
fails half way leaves memory changed and the file not, so the invariant is kept for both
(`BothStand`), and a crash goes from the one to the other. The passes of the watcher and of
the expiry are taken with the set of requests they have done so far.

### What is only model-checked

* Liveness: `FeesComeDue`, `UnopenedEnds` (fairness and `ENABLED` are beyond the prover).
* The runs that show a violation, each by a behaviour TLC finds.

## 5. What is left out, and the plan

Left out of the modelled parts: labels, addresses, JSON, HTTP statuses and
logging; the cryptography (a signature is who sent it); the dashboard and the
other handlers that only read; the order in which a node pairs for the first
time (a registered node exists from the start, offline). The checks of a quote
in `connector/policy.rs` are assumed to pass for `Orders`. In `CapacityOpening`
the settlement cache is the choice of any subset of the settled channels at each
question; its own module is `SettlementProof`. There are no foreign channels with an asset of
their own or one-way channels, which `locate_channel` skips, and two candidates for one order are an
error of that order, as in the code.

What the newer modules assume:

* the chain is never rolled back, and in `HonestClaimAccepted` the connector's node and
  the coordinator's see the same chain;
* JoyID's service and signatures answer truly; what a message contains beyond its
  challenge is not modelled;
* a handler of the vault that only reads remote state and then locks is one step, the
  watcher's list of channels included;
  `mark_executor_job` is part of the write it follows; a receipt's out point
  sent by a client is the one of the transaction or absent;
* writing the ledger's file succeeds and is atomic (the code uses
  `tokio::fs::write` without a rename, so a stop in the middle of it can lose
  the file; no property covers that);
* in vault mode a channel is signed only after the funding builder answered, and a
  channel's state only moves forward; Fiber names the state of every channel that has an id
  (`channel_usable` takes one without a state for usable), and by the names it has:
  only `AwaitingChannelReady` and `ChannelReady` contain a word the code looks for;
* a request entered without an intent declares no transaction and no cell; a request's cell
  is made by the service's own transactions; the out point the operator names for a funding is that of
  some channel's funding.

What the vault's service does that a maintainer should know, found while modelling;
the properties are stated around these:

* a channel is shown open ("Merchant receive capacity is active",
  `store/executor_channel.rs:80`) as soon as Fiber calls it `AwaitingChannelReady`: the funding is signed
  by then and need not be confirmed, since `channel_usable` (`fiber/channel.rs:91`)
  looks for the word "ready" and the watcher lists pending channels too
  (`fiber.rs:76`). `OpenIsSigned` says what is left of "open", and the model lets such a channel be
  lost;
* a deposit whose receipt was first found on the chain is entered a second time
  (`store/vault.rs`, `create_deposit` looks for no existing receipt);
* a dashboard recovers a request's cell only if its lock is the merchant lock in its type
  arguments (`store/request_discovery.rs:44`). The cells the server verifies have the operator's lock
  (`store/chain_request.rs:127`), so only requests of a merchant who is the operator are
  recovered; for those, the request is entered a second time when its settlement comes after
  it was found, and an open one is put back to `PendingFiberChannel` when its cell says "deployed";
* a settlement does not look at its intent's status again after the chain answered:
  two calls apply a withdrawal twice if the balance allows, and one transaction may
  settle two intents of one amount;
* with a CKB node, the sync of the vault's totals and the reservation of a settled
  request may both count it, and the error of the second is dropped with its
  fee share (`store/liquidity.rs:168`);
* a shortage half way through a release leaves the request `Released` and the
  positions half moved in memory, to be saved by the next handler that succeeds;
* the retry of a funding refuses a released request as "not retryable"
  (`store/funding_intent.rs:127`), but not a settled one, and the deploy and attach
  routes hand either over again; two handoffs at once may open two channels;
* the builder finds its request by amount, so two requests of one amount can be
  crossed;
* an answer of Fiber that comes late overwrites `ChannelOpen` with `FundingSubmitted` or
  `Failed`; a channel that opened and closed between two polls leaves its request in
  `FundingSubmitted`;
* `ExecuteOpen` in `domain/vault_v2.rs` does not compare the totals, the script
  policy does.

Not modelled, and why. The connector's setup, service and release tools, the deployment
tools and the wallet helpers are one-shot programs over files, processes and
encodings. `connector/cli.rs` pays an invoice: it writes a record before it sends and refuses a
second attempt unless the node says that the first failed (lines 161 to 182); that a failed payment
whose attempts are in flight is not sent again is the Fiber node's promise. The legacy login
(`store/auth.rs`) is a smaller relative of `Sessions` without an expiry of its sessions. The
legacy dashboards and monitoring only read. `store/tx_v2.rs` and
`store/vault_v2_codec.rs` are called by nothing. The funding intent script is used
by no transaction of the service.

The plan, in this order:

1. `CapacityOpening` and `MarketDelivery` composed, in place of the one-value
   coordinator of the first.
2. The file of the ledger with torn writes, and the requests' quotes in
   `connector/policy.rs`.
