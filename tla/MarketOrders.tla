---------------------------- MODULE MarketOrders ----------------------------
(***************************************************************************)
(* The order book of the marketplace coordinator: node heartbeats, offers, *)
(* and the life of a capacity order from its creation to the moment its    *)
(* provider claims the opening.                                            *)
(*                                                                         *)
(* Every handler of the coordinator ends in ONE immediate SQLite           *)
(* transaction, which an error rolls back, so a transaction is one action. *)
(* A handler that reads first, then awaits something (a wallet signature   *)
(* check) or computes outside the transaction, is two actions: ...Begin    *)
(* reads the snapshot, ...Commit is the transaction, and any other handler *)
(* may run between the two.                                                *)
(***************************************************************************)
EXTENDS Integers, FiniteSets, FiniteSetsExt, Functions

CONSTANTS
    Accounts,      \* wallet addresses that sign in
    Merchants,     \* paired nodes with the role "merchant"
    Providers,     \* paired nodes with the role "provider"
    Owner,         \* the account each node was paired by
    Keys,          \* idempotency keys a wallet may choose
    OfferIds,      \* identifiers drawn for offers
    Terms,         \* offer inputs that pass the static range checks
    Capacities,    \* capacities a merchant may ask for
    Reports,       \* what each node's connector may report
    Channels,      \* native channel identifiers
    Outpoints,     \* funding outputs on the chain
    None           \* an absent optional value

CONSTANTS
    QuoteTTL,      \* 600 s in the code
    OnlineWindow,  \* 90 s in the code
    OfferTTL,      \* 86400 s in the code
    OverdueAfter,  \* 86400 s in the code
    PayloadWindow, \* 60 s in the code: accepted age of a signed payload
    LastCreate,    \* bound: no order or offer is created after this time
    MaxClock       \* bound on the clock

Nodes == Merchants \cup Providers
OrderIds == Accounts \X Keys

ASSUME OwnerAssumption == Owner \in [Nodes -> Accounts]
ASSUME RolesAssumption == Merchants \cap Providers = {}
ASSUME NoneAssumption ==
    None \notin Nodes \cup OrderIds \cup Channels \cup Outpoints \cup Nat
ASSUME WindowAssumption ==
    /\ QuoteTTL \in Nat /\ OnlineWindow \in Nat /\ OfferTTL \in Nat
    /\ OverdueAfter \in Nat /\ PayloadWindow \in Nat
    /\ LastCreate \in Nat /\ MaxClock \in Nat
    /\ OnlineWindow < MaxClock
ASSUME InputAssumption ==
    /\ Terms \subseteq [min : Nat, max : Nat, fee : Nat]
    /\ Capacities \subseteq Nat
    /\ \A n \in Nodes : \A r \in Reports[n] :
          /\ r.available \in Nat /\ r.reserve \in Nat
          /\ r.policy # None =>
                r.policy \in [maxOrder : Nat, maxTotal : Nat, minFee : Nat,
                              committed : Nat]

(***************************************************************************)
(* Statuses of an order.  "none" is an order id nobody has used yet.       *)
(***************************************************************************)
Unopened == {"awaiting_quote", "quoted", "accepted"}
Opened == {"approved", "opening", "awaiting_confirmation", "verifying",
           "reconciling"}
Reserving == Unopened \cup Opened
Dead == {"cancelled", "expired", "failed"}
Statuses == {"none", "delivered"} \cup Reserving \cup Dead
FeeStatuses == {"not_due", "due", "overdue", "paid", "waived"}

Policies == [maxOrder : Nat, maxTotal : Nat, minFee : Nat, committed : Nat]
NodeRecs == [lastSeen : Nat, available : Nat, reserve : Nat,
             policy : Policies \cup {None}]
OfferRecs == [state : {"none", "enabled", "disabled"},
              provider : Providers \cup {None},
              min : Nat, max : Nat, fee : Nat, expires : Nat]
OrderRecs ==
    [status : Statuses, provider : Providers \cup {None},
     merchant : Merchants \cup {None}, capacity : Nat, funding : Nat,
     fee : Nat, expires : Nat, signed : BOOLEAN, proof : BOOLEAN,
     channel : Channels \cup {None}, outpoint : Outpoints \cup {None},
     feeStatus : FeeStatuses, deliveredAt : Nat \cup {None}]

FreshNode == [lastSeen |-> 0, available |-> 0, reserve |-> 0, policy |-> None]
NoOffer == [state |-> "none", provider |-> None, min |-> 0, max |-> 0,
            fee |-> 0, expires |-> 0]
NoOrder ==
    [status |-> "none", provider |-> None, merchant |-> None, capacity |-> 0,
     funding |-> 0, fee |-> 0, expires |-> 0, signed |-> FALSE,
     proof |-> FALSE, channel |-> None, outpoint |-> None,
     feeStatus |-> "not_due", deliveredAt |-> None]

VARIABLES
    clock,       \* wall clock of the coordinator
    node,        \* the node records
    offer,       \* the offer records
    order,       \* the order records
    publishing,  \* offers checked outside the transaction, not yet committed
    accepting    \* orders whose acceptance awaits the wallet's signature check

bookVars == <<clock, node, offer, order, publishing, accepting>>

(***************************************************************************)
(* Reservations and funding limits.                                        *)
(***************************************************************************)
Monus(a, b) == IF a > b THEN a - b ELSE 0
Distance(a, b) == IF a > b THEN a - b ELSE b - a

Reserved(p) ==
    LET held == {o \in OrderIds : /\ order[o].provider = p
                                  /\ order[o].status \in Reserving}
    IN  SumFunctionOnSet([o \in OrderIds |-> order[o].funding], held)

\* Mutant: the wallet bound forgets the reservations already made.
AvailableUnreserved(p, reserved) ==
    LET wallet == Monus(node[p].available, 63)
        policy == node[p].policy
    IN  IF policy = None THEN wallet
        ELSE Min({wallet, policy.maxOrder,
                  Monus(policy.maxTotal, policy.committed)})

AvailableFunding(p, reserved) ==
    LET wallet == Monus(Monus(node[p].available, 63), reserved)
        policy == node[p].policy
    IN  IF policy = None THEN wallet
        ELSE Min({wallet, policy.maxOrder,
                  Monus(Monus(policy.maxTotal, policy.committed), reserved)})

Unsettled(o) == /\ order[o].status = "delivered"
                /\ order[o].feeStatus \notin {"paid", "waived"}

\* Mutant: an unpaid delivered order is no longer in the way.
OutstandingReserved(account, p) ==
    \E o \in OrderIds : /\ o[1] = account
                        /\ order[o].provider = p
                        /\ order[o].status \in Reserving

\* An earlier order of the account with this provider still in the way.
Outstanding(account, p) ==
    \E o \in OrderIds : /\ o[1] = account
                        /\ order[o].provider = p
                        /\ order[o].status \in Reserving \/ Unsettled(o)

----------------------------------------------------------------------------
(***************************************************************************)
(* Nodes.                                                                  *)
(***************************************************************************)
\* A signed heartbeat, possibly delayed: `at` is when the connector signed it.
Heartbeat(n) ==
    \E r \in Reports[n] :
    \E at \in Monus(clock, PayloadWindow)..(clock + PayloadWindow) :
        /\ at >= node[n].lastSeen
        /\ node' = [node EXCEPT ![n] =
               [lastSeen |-> at, available |-> r.available,
                reserve |-> r.reserve, policy |-> r.policy]]
        /\ UNCHANGED <<clock, offer, order, publishing, accepting>>

\* Pairing the same node again keeps its id and forgets its last report.
Register(n) ==
    /\ node[n] # FreshNode
    /\ node' = [node EXCEPT ![n] = FreshNode]
    /\ UNCHANGED <<clock, offer, order, publishing, accepting>>

----------------------------------------------------------------------------
(***************************************************************************)
(* Offers.                                                                 *)
(***************************************************************************)
\* The node's policy is read, and the offer built, before the transaction.
PublishBegin(p, id) ==
    \E t \in Terms :
        /\ clock <= LastCreate
        /\ offer[id].state = "none"
        /\ \A w \in publishing : w.id # id
        /\ node[p].policy # None =>
              /\ t.max + node[p].reserve + 1 <= node[p].policy.maxOrder
              /\ t.fee >= node[p].policy.minFee
        /\ publishing' = publishing \cup
              {[id |-> id, provider |-> p, min |-> t.min, max |-> t.max,
                fee |-> t.fee, expires |-> clock + OfferTTL]}
        /\ UNCHANGED <<clock, node, offer, order, accepting>>

\* Mutant: only offers past their life are replaced.
ReplacedOld(f, p) ==
    IF f.provider = p /\ f.expires <= clock
    THEN [f EXCEPT !.state = "disabled"] ELSE f

\* What publishing for node p makes of an offer already there.
Replaced(f, p) ==
    IF f.provider = p THEN [f EXCEPT !.state = "disabled"] ELSE f

PublishCommit(w) ==
    LET p == w.provider
        fits == /\ Distance(clock, node[p].lastSeen) <= OnlineWindow
                /\ node[p].reserve >= 99
                /\ AvailableFunding(p, Reserved(p))
                      >= w.min + node[p].reserve + 1
        new == [state |-> "enabled", provider |-> p, min |-> w.min,
                max |-> w.max, fee |-> w.fee, expires |-> w.expires]
    IN  /\ w \in publishing
        /\ publishing' = publishing \ {w}
        /\ offer' = IF fits
                    THEN [i \in OfferIds |-> IF i = w.id THEN new
                                             ELSE Replaced(offer[i], p)]
                    ELSE offer
        /\ UNCHANGED <<clock, node, order, accepting>>

Disable(id) ==
    /\ offer[id].state = "enabled"
    /\ offer' = [offer EXCEPT ![id].state = "disabled"]
    /\ UNCHANGED <<clock, node, order, publishing, accepting>>

----------------------------------------------------------------------------
(***************************************************************************)
(* Orders.                                                                 *)
(***************************************************************************)
\* Mutant: the id of a released order may be used again.
UnusedOrDead(o) == order[o].status \in {"none"} \cup Dead

\* No order has this id, the digest of the wallet and its idempotency key.
Unused(o) == order[o].status = "none"

\* A repeated request (same wallet, same idempotency key) answers with the
\* order it made the first time, or with an error: neither changes a record.
Create(o, id, m, capacity) ==
    LET f == offer[id]
        p == f.provider
        funding == capacity + node[p].reserve + 1
    IN  /\ clock <= LastCreate
        /\ Unused(o)
        /\ f.state = "enabled" /\ f.expires > clock
        /\ capacity >= f.min /\ capacity <= f.max
        /\ Owner[m] = o[1] /\ Owner[p] # o[1]
        /\ clock - node[p].lastSeen <= OnlineWindow
        /\ clock - node[m].lastSeen <= OnlineWindow
        /\ ~Outstanding(o[1], p)
        /\ node[p].policy # None => f.fee >= node[p].policy.minFee
        /\ AvailableFunding(p, Reserved(p)) >= funding
        /\ node[m].available >= node[m].reserve + 63
        /\ order' = [order EXCEPT ![o] =
               [NoOrder EXCEPT !.status = "awaiting_quote", !.provider = p,
                   !.merchant = m, !.capacity = capacity, !.funding = funding,
                   !.fee = f.fee, !.expires = clock + QuoteTTL]]
        /\ UNCHANGED <<clock, node, offer, publishing, accepting>>

Quote(o) ==
    /\ order[o].status \in {"awaiting_quote", "quoted"}
    /\ order[o].expires > clock
    /\ order' = [order EXCEPT ![o].status = "quoted", ![o].signed = TRUE]
    /\ UNCHANGED <<clock, node, offer, publishing, accepting>>

\* The acceptance reads the order, then awaits the wallet's signature check.
AcceptBegin(o) ==
    /\ order[o].status = "quoted" /\ order[o].expires > clock
    /\ accepting' = accepting \cup {o}
    /\ UNCHANGED <<clock, node, offer, order, publishing>>

\* Mutant: the transaction does not look at the deadline again.
AcceptableLate(o) == order[o].status = "quoted"

\* What the transaction requires of the order as it is by then.
Acceptable(o) == order[o].status = "quoted" /\ order[o].expires > clock

AcceptCommit(o) ==
    /\ o \in accepting
    /\ accepting' = accepting \ {o}
    /\ order' = IF Acceptable(o)
                THEN [order EXCEPT ![o].status = "accepted", ![o].proof = TRUE]
                ELSE order
    /\ UNCHANGED <<clock, node, offer, publishing>>

Cancel(o) ==
    /\ order[o].status \in Unopened
    /\ order' = [order EXCEPT ![o].status = "cancelled"]
    /\ UNCHANGED <<clock, node, offer, publishing, accepting>>

\* The provider claims the opening: from here funding may exist.
Start(o) ==
    /\ order[o].status = "accepted" /\ order[o].expires > clock
    /\ order[o].proof /\ order[o].signed
    /\ order' = [order EXCEPT ![o].status = "opening"]
    /\ UNCHANGED <<clock, node, offer, publishing, accepting>>

Failure(o, beforeFunding) ==
    LET unfunded == /\ beforeFunding /\ order[o].status \in Unopened
                    /\ order[o].outpoint = None /\ order[o].channel = None
    IN  /\ order[o].status \in Reserving \ {"approved"}
        /\ order' = [order EXCEPT ![o].status =
                        IF unfunded THEN "failed" ELSE "reconciling"]
        /\ UNCHANGED <<clock, node, offer, publishing, accepting>>

\* The background pass over every order, one transaction.
\* Mutant: an accepted order is not swept.
ExpiredUnaccepted(r) ==
    r.expires < clock /\ r.status \in {"awaiting_quote", "quoted"}

Expired(r) == r.expires < clock /\ r.status \in Unopened

\* Mutant: the sweep looks only at orders that still reserve funds.
OverdueReserving(r) ==
    /\ r.status \in Reserving /\ r.feeStatus = "due"
    /\ r.deliveredAt # None /\ clock - r.deliveredAt > OverdueAfter

Overdue(r) == /\ r.feeStatus = "due" /\ r.deliveredAt # None
              /\ clock - r.deliveredAt > OverdueAfter

\* Mutant: an expired order is written without its quote.
SweptForgetful(r) ==
    IF Expired(r) THEN [NoOrder EXCEPT !.status = "expired"] ELSE r

Swept(r) ==
    [r EXCEPT !.status = IF Expired(r) THEN "expired" ELSE @,
              !.feeStatus = IF Overdue(r) THEN "overdue" ELSE @]

Expire ==
    /\ \E o \in OrderIds : Expired(order[o]) \/ Overdue(order[o])
    /\ order' = [o \in OrderIds |-> Swept(order[o])]
    /\ UNCHANGED <<clock, node, offer, publishing, accepting>>

----------------------------------------------------------------------------
Advance ==
    /\ clock < MaxClock
    /\ clock' = clock + 1
    /\ UNCHANGED <<node, offer, order, publishing, accepting>>

\* A handler whose await fails, or whose client goes away, changes nothing.
Abandon(o) ==
    /\ o \in accepting
    /\ accepting' = accepting \ {o}
    /\ UNCHANGED <<clock, node, offer, order, publishing>>

\* The coordinator stops and starts: the records survive, the handlers do not.
Restart ==
    /\ publishing' = {} /\ accepting' = {}
    /\ UNCHANGED <<clock, node, offer, order>>

Init ==
    /\ clock = OnlineWindow + 1    \* so that a node never seen is offline
    /\ node = [n \in Nodes |-> FreshNode]
    /\ offer = [i \in OfferIds |-> NoOffer]
    /\ order = [o \in OrderIds |-> NoOrder]
    /\ publishing = {} /\ accepting = {}

OfferStep ==
    \/ \E p \in Providers, id \in OfferIds : PublishBegin(p, id)
    \/ \E w \in publishing : PublishCommit(w)
    \/ \E id \in OfferIds : Disable(id)

OrderStep(o) ==
    \/ \E id \in OfferIds, m \in Merchants, c \in Capacities :
          offer[id].state = "enabled" /\ Create(o, id, m, c)
    \/ Quote(o) \/ AcceptBegin(o) \/ AcceptCommit(o) \/ Abandon(o)
    \/ Cancel(o) \/ Start(o)
    \/ \E b \in BOOLEAN : Failure(o, b)

BookStep ==
    \/ \E n \in Nodes : Heartbeat(n) \/ Register(n)
    \/ OfferStep
    \/ \E o \in OrderIds : OrderStep(o)
    \/ Expire \/ Advance

Next == BookStep \/ Restart

\* The clock runs, and the background task sweeps every ten seconds.
Fairness == WF_bookVars(Advance) /\ WF_bookVars(Expire)
Spec == Init /\ [][Next]_bookVars /\ Fairness

----------------------------------------------------------------------------
(***************************************************************************)
(* Properties.                                                             *)
(***************************************************************************)
\* Every record has the shape its handlers rely on, in particular an order in
\* use names both nodes of its quote.
TypeOK ==
    /\ clock \in Nat
    /\ node \in [Nodes -> NodeRecs]
    /\ offer \in [OfferIds -> OfferRecs]
    /\ \A i \in OfferIds : offer[i].state # "none" => offer[i].provider # None
    /\ order \in [OrderIds -> OrderRecs]
    /\ \A o \in OrderIds :
          order[o].status # "none" => /\ order[o].provider # None
                                      /\ order[o].merchant # None
    /\ publishing \subseteq [id : OfferIds, provider : Providers, min : Nat,
                             max : Nat, fee : Nat, expires : Nat]
    /\ accepting \subseteq OrderIds

\* Whoever asks at the same time, a provider's reservations only ever grow to
\* an amount that its last signed heartbeat can pay for: the wallet keeps 63
\* CKB of change, and the budget still holds what is already committed.
ReservationsFunded ==
    [][\A p \in Providers : Reserved(p)' > Reserved(p) =>
          /\ Reserved(p)' + 63 <= node[p].available
          /\ node[p].policy # None =>
                Reserved(p)' + node[p].policy.committed
                    <= node[p].policy.maxTotal]_bookVars

\* The terms of an order are those its id was first used for, through every
\* retry of the request: the idempotency key answers, it never writes again.
TermsStand ==
    [][\A o \in OrderIds : order[o].status # "none" =>
          /\ order'[o].status # "none"
          /\ \A field \in {"provider", "merchant", "capacity", "funding",
                            "fee", "expires"} :
                order'[o][field] = order[o][field]]_bookVars

\* No order becomes accepted or opening at or after its quote's deadline, or
\* from any state but the one before, however long the wallet's signature
\* check took and whatever happened to the order meanwhile.
DeadlineHolds ==
    [][\A o \in OrderIds :
          /\ order'[o].status = "accepted" /\ order[o].status # "accepted"
                => order[o].status = "quoted" /\ clock < order[o].expires
          /\ order'[o].status = "opening" /\ order[o].status # "opening"
                => /\ order[o].status = "accepted" /\ clock < order[o].expires
                   /\ order[o].signed /\ order[o].proof]_bookVars

\* Two publications that overlap leave one offer enabled, never two offers
\* competing for the same node's wallet.
OneOfferPerNode ==
    \A i, j \in OfferIds :
        /\ offer[i].state = "enabled" /\ offer[j].state = "enabled"
        /\ offer[i].provider = offer[j].provider
        => i = j

InTheWay(o) == order[o].status \in Reserving \/ Unsettled(o)

\* A wallet has at most one order in the way with each provider: reserving
\* its funding, or delivered and not yet paid or waived.
OneOutstanding ==
    \A o, q \in OrderIds :
        /\ o # q /\ o[1] = q[1]
        /\ order[o].provider = order[q].provider
        => ~(InTheWay(o) /\ InTheWay(q))

\* An order nobody opens does not hold its provider's funding for ever: once
\* its deadline can pass within the model's clock, it leaves the states before
\* the opening.
UnopenedEnds ==
    \A o \in OrderIds :
        order[o].status \in Unopened /\ order[o].expires < MaxClock
            ~> order[o].status \notin Unopened
=============================================================================
