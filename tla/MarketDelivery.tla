--------------------------- MODULE MarketDelivery ---------------------------
(***************************************************************************)
(* The whole life of a capacity order at the coordinator: the order book,  *)
(* and on top of it the channel observations both nodes report, the        *)
(* delivery probe, the merchant's verification against the chain, the      *)
(* receipt, and the payment or waiver of the opening fee.                  *)
(*                                                                         *)
(* A report, a verification and a fee payment each read the order, await   *)
(* the chain, and then commit in one transaction that reads the order      *)
(* again.  A request whose client stopped waiting still runs, so requests  *)
(* commit in any order.                                                    *)
(***************************************************************************)
EXTENDS MarketOrders

CONSTANTS
    ChannelOf,   \* the channel each funding output belongs to
    Balances,    \* how a channel's funds may be divided
    Enough,      \* divisions that leave the merchant the quoted capacity
    Invoices,    \* delivery-probe invoices
    FeeTxs,      \* fee transactions
    Pays,        \* the orders a fee transaction's outputs and inputs match
    ObservedFor, \* 90 s in the code: age of an observation at verification
    MaxBlock,    \* bound on the chain's height
    MaxReports,  \* bound on the observations under way at once
    MaxProbes    \* bound on the probe reports under way at once

Sides == {"provider", "merchant"}
\* What the code tells apart of a channel's state: "Closing" is ShuttingDown or
\* Closed, "Pending" every state before ChannelReady.
States == {"Pending", "ChannelReady", "Closing"}
Evidence == [channel : Channels, outpoint : Outpoints, state : States,
             balance : Balances, settlement : {None, "pending", "confirmed"},
             at : Nat]

ASSUME DeliveryAssumption ==
    /\ ChannelOf \in [Outpoints -> Channels]
    /\ Enough \subseteq Balances
    /\ Pays \in [FeeTxs -> SUBSET OrderIds]
    /\ ObservedFor \in Nat /\ MaxBlock \in Nat
    /\ MaxReports \in Nat /\ MaxProbes \in Nat
    /\ None \notin FeeTxs \cup Invoices \cup Evidence \cup {"confirmed"}

VARIABLES
    evidence,     \* [order -> [side -> last stored observation]]
    attestation,  \* the signed payload stored with it
    probe,        \* [order -> [hash, received]]
    probeReport,  \* the last signed probe report: the invoice paid, or not yet
    delivery,     \* the chain height a delivery is anchored at
    receipt,      \* the exportable receipt
    feeTx,        \* the fee transaction credited to an order
    boundPoint,   \* unique_refs: funding outputs already used
    boundFee,     \* unique_refs: fee transactions already used
    reports, probes, verifying, settling,    \* requests under way
    chain,        \* external: the CKB chain
    fiber,        \* external: the native channels
    paid          \* external: invoices paid at the merchant's node

orderData == <<evidence, attestation, probe, probeReport, delivery, receipt,
               feeTx, boundPoint, boundFee>>
requests == <<reports, probes, verifying, settling>>
world == <<chain, fiber, paid>>
deliveryVars == <<orderData, requests, world>>
vars == <<bookVars, deliveryVars>>
book == <<clock, node, offer, publishing, accepting>>

----------------------------------------------------------------------------
(***************************************************************************)
(* External: the chain and the native channels.                            *)
(***************************************************************************)
\* A block, which may commit one fee transaction.
MineBlock ==
    /\ chain.tip < MaxBlock
    /\ \E S \in {{}} \cup {{t} : t \in {u \in FeeTxs : chain.mined[u] = None}} :
          chain' = [chain EXCEPT !.tip = @ + 1,
                       !.mined = [t \in FeeTxs |-> IF t \in S THEN chain.tip + 1
                                                   ELSE @[t]]]
    /\ UNCHANGED <<bookVars, orderData, requests, fiber, paid>>

\* A funding output is committed, later spent, and at last resolved into
\* native wallet outputs.
FundingStep(p) ==
    /\ \/ /\ chain.funding[p] = "absent"
          /\ chain' = [chain EXCEPT !.funding[p] = "live"]
       \/ /\ chain.funding[p] = "live"
          /\ fiber[p].state = "Closing"
          /\ chain' = [chain EXCEPT !.funding[p] = "spent"]
       \/ /\ chain.funding[p] = "spent"
          /\ chain' = [chain EXCEPT !.funding[p] = "settled"]
    /\ UNCHANGED <<bookVars, orderData, requests, fiber, paid>>

ChannelStep(p) ==
    /\ chain.funding[p] # "absent"
    /\ \/ /\ fiber[p].state = "Pending"
          /\ fiber' = [fiber EXCEPT ![p].state = "ChannelReady"]
       \/ /\ fiber[p].state = "ChannelReady"
          /\ \E b \in Balances \ {fiber[p].balance} :
                fiber' = [fiber EXCEPT ![p].balance = b]
       \/ /\ fiber[p].state = "ChannelReady"
          /\ fiber' = [fiber EXCEPT ![p].state = "Closing"]
    /\ UNCHANGED <<bookVars, orderData, requests, chain, paid>>

PayInvoice(h) ==
    /\ h \notin paid
    /\ paid' = paid \cup {h}
    /\ UNCHANGED <<bookVars, orderData, requests, chain, fiber>>

----------------------------------------------------------------------------
(***************************************************************************)
(* Channel observations.                                                   *)
(***************************************************************************)
\* What a connector may say of the settlement: nothing, when it has no answer
\* from the chain; an earlier answer, which its cache may still hold.
SettlementClaims(p) ==
    IF fiber[p].state # "Closing" THEN {None}
    ELSE {None} \cup (IF chain.funding[p] \in {"spent", "settled"}
                      THEN {"pending"} ELSE {})
                \cup (IF chain.funding[p] = "settled"
                      THEN {"confirmed"} ELSE {})

\* The connector observes, signs and posts; the handler reads the order, finds
\* the funding output committed, and goes on to verify the settlement claim.
ReportBegin(o, side, p) ==
    \E claim \in SettlementClaims(p) :
        /\ order[o].status \notin Unopened \cup Dead \cup {"none"}
        /\ chain.funding[p] # "absent"
        /\ Cardinality(reports) < MaxReports
        /\ reports' = reports \cup
              {[order |-> o, side |-> side,
                seen |-> [channel |-> ChannelOf[p], outpoint |-> p,
                          state |-> fiber[p].state,
                          balance |-> fiber[p].balance,
                          settlement |-> claim, at |-> clock]]}
        /\ UNCHANGED <<bookVars, orderData, probes, verifying, settling, world>>

\* Mutant: any settlement claim counts as confirmed.
JudgedEarly(both) ==
    LET known == {s \in Sides : both[s] # None}
    IN  IF \E s \in known : both[s].settlement # None THEN "failed"
        ELSE IF \E s \in known : both[s].state = "Closing"
             THEN "reconciling" ELSE "verifying"

\* Mutant: a closing channel puts the order in a status nobody knows.
JudgedClosing(both) ==
    LET known == {s \in Sides : both[s] # None}
    IN  IF \E s \in known : both[s].settlement = "confirmed" THEN "failed"
        ELSE IF \E s \in known : both[s].state = "Closing"
             THEN "closing" ELSE "verifying"

\* What both stored observations together say of an undelivered order.
Judged(both) ==
    LET known == {s \in Sides : both[s] # None}
    IN  IF \E s \in known : both[s].settlement = "confirmed" THEN "failed"
        ELSE IF \E s \in known : \/ both[s].state = "Closing"
                                 \/ both[s].settlement # None
             THEN "reconciling"
             ELSE "verifying"

\* Mutant: a report judges a delivered order again.
StatusJudged(o, both) == Judged(both)

\* The status a report leaves: a delivery is never taken back.
StatusAfter(o, both) ==
    IF order[o].status = "delivered" THEN "delivered" ELSE Judged(both)

\* Mutant: the identity of the channel may change.
ReportableAnew(o, seen) ==
    order[o].status \notin Dead /\ boundPoint[seen.outpoint] \in {None, o}

\* Mutant: a funding output may serve a second order.
ReportableShared(o, seen) ==
    /\ order[o].status \notin Dead
    /\ order[o].channel \in {None, seen.channel}
    /\ order[o].outpoint \in {None, seen.outpoint}

\* The transaction's checks on the order as it is now.
Reportable(o, seen) ==
    /\ order[o].status \notin Dead
    /\ boundPoint[seen.outpoint] \in {None, o}
    /\ order[o].channel \in {None, seen.channel}
    /\ order[o].outpoint \in {None, seen.outpoint}

ReportCommit(r) ==
    LET o == r.order
        both == [evidence[o] EXCEPT ![r.side] = r.seen]
    IN  /\ r \in reports
        /\ reports' = reports \ {r}
        /\ IF Reportable(o, r.seen)
           THEN /\ evidence' = [evidence EXCEPT ![o] = both]
                /\ attestation' = [attestation EXCEPT ![o][r.side] = r.seen]
                /\ boundPoint' = [boundPoint EXCEPT ![r.seen.outpoint] = o]
                /\ order' = [order EXCEPT
                      ![o].channel = r.seen.channel,
                      ![o].outpoint = r.seen.outpoint,
                      ![o].status = StatusAfter(o, both)]
           ELSE UNCHANGED <<evidence, attestation, boundPoint, order>>
        /\ UNCHANGED <<book, probe, probeReport, delivery, receipt, feeTx,
                       boundFee, probes, verifying, settling, world>>

----------------------------------------------------------------------------
(***************************************************************************)
(* The delivery probe.                                                     *)
(***************************************************************************)
\* The merchant's connector posts its invoice once, and later that it is Paid.
ProbeSend(o, h) ==
    /\ evidence[o]["merchant"] # None
    /\ evidence[o]["merchant"].state = "ChannelReady"
    /\ ~probe[o].received
    /\ probe[o].hash \in {None, h}
    /\ probe[o].hash = None \/ h \in paid
    /\ Cardinality(probes) < MaxProbes
    /\ probes' = probes \cup
          {[order |-> o, hash |-> h, paid |-> h \in paid, at |-> clock]}
    /\ UNCHANGED <<bookVars, orderData, reports, verifying, settling, world>>

ProbeReceive(r) ==
    LET o == r.order
        accepted == /\ Distance(clock, r.at) <= PayloadWindow
                    /\ evidence[o]["merchant"] # None
                    /\ probe[o].hash \in {None, r.hash}
    IN  /\ r \in probes
        /\ probes' = probes \ {r}
        /\ IF accepted
           THEN /\ probe' = [probe EXCEPT ![o] =
                      [hash |-> r.hash,
                       received |-> probe[o].received \/ r.paid]]
                /\ probeReport' = [probeReport EXCEPT ![o] =
                      IF r.paid THEN "Paid" ELSE "Open"]
           ELSE UNCHANGED <<probe, probeReport>>
        /\ UNCHANGED <<bookVars, evidence, attestation, delivery, receipt,
                       feeTx, boundPoint, boundFee, reports, verifying,
                       settling, world>>

----------------------------------------------------------------------------
(***************************************************************************)
(* Verification of delivery.                                               *)
(***************************************************************************)
\* Mutant: the age of the provider's observation is not checked.
ReadyStale(o) ==
    LET p == evidence[o]["provider"]
        m == evidence[o]["merchant"]
    IN  /\ order[o].status = "verifying"
        /\ p # None /\ m # None
        /\ Distance(clock, m.at) <= ObservedFor
        /\ p.state = "ChannelReady" /\ m.state = "ChannelReady"
        /\ p.settlement = None /\ m.settlement = None
        /\ p.channel = m.channel /\ p.outpoint = m.outpoint
        /\ p.balance = m.balance /\ m.balance \in Enough
        /\ probe[o].received

Ready(o) ==
    LET p == evidence[o]["provider"]
        m == evidence[o]["merchant"]
    IN  /\ order[o].status = "verifying"
        /\ p # None /\ m # None
        /\ Distance(clock, p.at) <= ObservedFor
        /\ Distance(clock, m.at) <= ObservedFor
        /\ p.state = "ChannelReady" /\ m.state = "ChannelReady"
        /\ p.settlement = None /\ m.settlement = None
        /\ p.channel = m.channel /\ p.outpoint = m.outpoint
        /\ p.balance = m.balance
        /\ m.balance \in Enough
        /\ probe[o].received

VerifyBegin(o) ==
    /\ order[o].status # "delivered" /\ Ready(o)
    /\ verifying' = verifying \cup
          {[order |-> o, outpoint |-> order[o].outpoint, tip |-> None]}
    /\ UNCHANGED <<bookVars, orderData, reports, probes, settling, world>>

\* The funding output is committed and live, and the height is read.
VerifyChain(r) ==
    /\ r \in verifying /\ r.tip = None
    /\ chain.funding[r.outpoint] = "live"
    /\ verifying' = (verifying \ {r}) \cup {[r EXCEPT !.tip = chain.tip]}
    /\ UNCHANGED <<bookVars, orderData, reports, probes, settling, world>>

VerifyCommit(r) ==
    LET o == r.order
    IN  /\ r \in verifying /\ r.tip # None
        /\ verifying' = verifying \ {r}
        /\ IF Ready(o)
           THEN /\ order' = [order EXCEPT ![o].status = "delivered",
                                          ![o].feeStatus = "due",
                                          ![o].deliveredAt = clock]
                /\ delivery' = [delivery EXCEPT ![o] = r.tip]
                /\ receipt' = [receipt EXCEPT ![o] =
                      [provider |-> attestation[o]["provider"],
                       merchant |-> attestation[o]["merchant"],
                       probe |-> probeReport[o]]]
           ELSE UNCHANGED <<order, delivery, receipt>>
        /\ UNCHANGED <<book, evidence, attestation, probe, probeReport, feeTx,
                       boundPoint, boundFee, reports, probes, settling, world>>

----------------------------------------------------------------------------
(***************************************************************************)
(* The opening fee.                                                        *)
(***************************************************************************)
\* Repeating the payment of a paid order answers with the order as it is.
SettleBegin(o, t) ==
    /\ order[o].status = "delivered" /\ order[o].feeStatus # "paid"
    /\ settling' = settling \cup {[order |-> o, tx |-> t]}
    /\ UNCHANGED <<bookVars, orderData, reports, probes, verifying, world>>

\* The chain's verdict on the transaction, which the handler awaits.
FeeVerified(o, t) ==
    /\ chain.mined[t] # None /\ delivery[o] # None
    /\ chain.mined[t] > delivery[o]
    /\ o \in Pays[t]

\* Mutant: a transaction that paid another order is taken again.
CreditableAgain(o, t) == feeTx[o] \in {None, t}

\* The transaction is nobody else's, and the order has no other.
Creditable(o, t) == boundFee[t] \in {None, o} /\ feeTx[o] \in {None, t}

SettleCommit(s) ==
    LET o == s.order
        t == s.tx
    IN  /\ s \in settling /\ FeeVerified(o, t)
        /\ settling' = settling \ {s}
        /\ IF Creditable(o, t)
           THEN /\ boundFee' = [boundFee EXCEPT ![t] = o]
                /\ feeTx' = [feeTx EXCEPT ![o] = t]
                /\ order' = [order EXCEPT ![o].feeStatus = "paid"]
           ELSE UNCHANGED <<boundFee, feeTx, order>>
        /\ UNCHANGED <<book, evidence, attestation, probe, probeReport,
                       delivery, receipt, boundPoint, reports, probes,
                       verifying, world>>

Waive(o) ==
    /\ order[o].status = "delivered" /\ order[o].feeStatus # "paid"
    /\ order' = [order EXCEPT ![o].feeStatus = "waived"]
    /\ UNCHANGED <<book, orderData, requests, world>>

----------------------------------------------------------------------------
\* A request whose await fails or whose handler stops changes nothing.
Drop ==
    /\ \/ /\ \E r \in reports : reports' = reports \ {r}
          /\ UNCHANGED <<probes, verifying, settling>>
       \/ /\ \E r \in probes : probes' = probes \ {r}
          /\ UNCHANGED <<reports, verifying, settling>>
       \/ /\ \E r \in verifying : verifying' = verifying \ {r}
          /\ UNCHANGED <<reports, probes, settling>>
       \/ /\ \E r \in settling : settling' = settling \ {r}
          /\ UNCHANGED <<reports, probes, verifying>>
    /\ UNCHANGED <<bookVars, orderData, world>>

DeliveryInit ==
    /\ evidence = [o \in OrderIds |-> [s \in Sides |-> None]]
    /\ attestation = [o \in OrderIds |-> [s \in Sides |-> None]]
    /\ probe = [o \in OrderIds |-> [hash |-> None, received |-> FALSE]]
    /\ probeReport = [o \in OrderIds |-> None]
    /\ delivery = [o \in OrderIds |-> None]
    /\ receipt = [o \in OrderIds |-> None]
    /\ feeTx = [o \in OrderIds |-> None]
    /\ boundPoint = [p \in Outpoints |-> None]
    /\ boundFee = [t \in FeeTxs |-> None]
    /\ reports = {} /\ probes = {} /\ verifying = {} /\ settling = {}
    /\ chain = [tip |-> 0, mined |-> [t \in FeeTxs |-> None],
                funding |-> [p \in Outpoints |-> "absent"]]
    /\ fiber \in [Outpoints -> {[state |-> "Pending",
                                 balance |-> b] : b \in Enough}]
    /\ paid = {}

EvidenceStep(o) ==
    \/ \E side \in Sides, p \in Outpoints : ReportBegin(o, side, p)
    \/ \E r \in reports : r.order = o /\ ReportCommit(r)
    \/ \E h \in Invoices : ProbeSend(o, h)
    \/ \E r \in probes : r.order = o /\ ProbeReceive(r)
    \/ VerifyBegin(o)
    \/ \E r \in verifying : r.order = o /\ (VerifyChain(r) \/ VerifyCommit(r))

FeeStep(o) ==
    \/ \E t \in FeeTxs : SettleBegin(o, t)
    \/ \E s \in settling : s.order = o /\ SettleCommit(s)
    \/ Waive(o)

WorldStep ==
    \/ MineBlock
    \/ \E p \in Outpoints : FundingStep(p) \/ ChannelStep(p)
    \/ \E h \in Invoices : PayInvoice(h)

\* The coordinator stops and starts.  Messages not yet received survive it.
MarketRestart ==
    /\ publishing' = {} /\ accepting' = {}
    /\ reports' = {} /\ verifying' = {} /\ settling' = {}
    /\ UNCHANGED <<clock, node, offer, order, orderData, probes, world>>

MarketInit == Init /\ DeliveryInit

MarketNext ==
    \/ BookStep /\ UNCHANGED deliveryVars
    \/ \E o \in OrderIds : EvidenceStep(o) \/ FeeStep(o)
    \/ WorldStep \/ Drop \/ MarketRestart

\* The clock runs, and the background task sweeps every ten seconds.
MarketFairness ==
    /\ WF_vars(Advance /\ UNCHANGED deliveryVars)
    /\ WF_vars(Expire /\ UNCHANGED deliveryVars)

MarketSpec == MarketInit /\ [][MarketNext]_vars /\ MarketFairness

----------------------------------------------------------------------------
(***************************************************************************)
(* Properties.                                                             *)
(***************************************************************************)
Attested == {None} \cup Evidence

DataTypeOK ==
    /\ evidence \in [OrderIds -> [Sides -> Attested]]
    /\ attestation \in [OrderIds -> [Sides -> Attested]]
    /\ probe \in [OrderIds -> [hash : Invoices \cup {None},
                              received : BOOLEAN]]
    /\ probeReport \in [OrderIds -> {None, "Paid", "Open"}]
    /\ delivery \in [OrderIds -> Nat \cup {None}]
    /\ receipt \in [OrderIds ->
          {None} \cup [provider : Attested, merchant : Attested,
                      probe : {None, "Paid", "Open"}]]
    /\ feeTx \in [OrderIds -> FeeTxs \cup {None}]
    /\ boundPoint \in [Outpoints -> OrderIds \cup {None}]
    /\ boundFee \in [FeeTxs -> OrderIds \cup {None}]

RequestTypeOK ==
    /\ reports \subseteq [order : OrderIds, side : Sides, seen : Evidence]
    /\ probes \subseteq [order : OrderIds, hash : Invoices, paid : BOOLEAN,
                         at : Nat]
    /\ verifying \subseteq [order : OrderIds, outpoint : Outpoints \cup {None},
                            tip : Nat \cup {None}]
    /\ settling \subseteq [order : OrderIds, tx : FeeTxs]

WorldTypeOK ==
    /\ chain \in [tip : Nat, mined : [FeeTxs -> Nat \cup {None}],
                  funding : [Outpoints -> {"absent", "live", "spent", "settled"}]]
    /\ fiber \in [Outpoints -> [state : States, balance : Balances]]
    /\ paid \subseteq Invoices

\* Every record the handlers store, every request they hold and the world they
\* ask has its shape; an order in use names both nodes of its quote.
MarketTypeOK == TypeOK /\ DataTypeOK /\ RequestTypeOK /\ WorldTypeOK

\* A funding output serves one order, and the uniqueness table and the orders
\* say the same, whichever reports of whichever orders commit in between.
OutpointsExclusive ==
    /\ \A p \in Outpoints, o \in OrderIds :
          boundPoint[p] = o <=> order[o].outpoint = p
    /\ \A o \in OrderIds : order[o].outpoint # None =>
          order[o].channel = ChannelOf[order[o].outpoint]

\* A fee transaction pays one order, and an order is paid by one transaction,
\* however many payments were being verified at once; the payment was mined
\* after the block its delivery is anchored at.
FeesExclusive ==
    /\ \A t \in FeeTxs, o \in OrderIds : boundFee[t] = o <=> feeTx[o] = t
    /\ \A o \in OrderIds : feeTx[o] # None =>
          /\ order[o].status = "delivered"
          /\ chain.mined[feeTx[o]] # None
          /\ chain.mined[feeTx[o]] > delivery[o]

\* The funding output a verification is asking the chain about stays the
\* order's own: what gets delivered is what was found live.
VerifiedIsDelivered ==
    \A r \in verifying : /\ r.outpoint # None
                         /\ r.outpoint = order[r.order].outpoint

\* Once the opening was claimed, funding may exist: the order gives up its
\* reservation only when the chain shows the channel's funding resolved into
\* wallet outputs, in whatever order the observations arrive.
ReleaseIsSettled ==
    \A o \in OrderIds :
        order[o].status \in Dead /\ order[o].outpoint # None =>
            /\ order[o].status = "failed"
            /\ chain.funding[order[o].outpoint] = "settled"

\* The exported receipt proves the delivery on its own: both signed
\* observations name the order's channel as ready, agree on it and on its
\* balances, and were fresh when the delivery was verified.
ReceiptProves ==
    \A o \in OrderIds :
        order[o].status = "delivered" =>
            LET p == receipt[o].provider
                m == receipt[o].merchant
            IN  /\ p # None /\ m # None
                /\ \A e \in {p, m} :
                      /\ e.outpoint = order[o].outpoint
                      /\ e.state = "ChannelReady" /\ e.settlement = None
                      /\ Distance(order[o].deliveredAt, e.at) <= ObservedFor
                /\ p.balance = m.balance /\ m.balance \in Enough
                /\ probe[o].hash \in paid

\* A probe invoice is never replaced, and a delivery is final: its anchor, its
\* receipt and its channel stay, and a payment, once credited, stays too.
DeliveryFinal ==
    [][\A o \in OrderIds :
          /\ probe[o].hash # None => /\ probe'[o].hash = probe[o].hash
                                     /\ probe[o].received => probe'[o].received
          /\ order[o].status = "delivered" =>
                /\ order'[o].status = "delivered"
                /\ delivery'[o] = delivery[o] /\ receipt'[o] = receipt[o]
                /\ order'[o].outpoint = order[o].outpoint
                /\ order'[o].deliveredAt = order[o].deliveredAt
          /\ order[o].feeStatus = "paid" =>
                /\ order'[o].feeStatus = "paid" /\ feeTx'[o] = feeTx[o]]_vars

\* The order book, seen from outside, keeps the marketplace's promise.
PhaseOf(status) ==
    CASE status = "none" -> "free"
      [] status \in Unopened -> "asked"
      [] status \in Opened -> "committed"
      [] status = "delivered" -> "delivered"
      [] status \in Dead -> "released"
Account(o) == o[1]

Promise == INSTANCE OrderPromise WITH
    Orders <- OrderIds, AccountOf <- Account, NoProvider <- None,
    phase <- [o \in OrderIds |-> PhaseOf(order[o].status)],
    fee <- [o \in OrderIds |-> order[o].feeStatus],
    provider <- [o \in OrderIds |-> order[o].provider]

\* Every step of the coordinator is a step the promise allows: one order in
\* the way per wallet and provider, no release of a committed order but as
\* failed, no fee before delivery, no change of a paid fee.
KeepsPromise == Promise!Spec

DueInTime(o) == IF order[o].feeStatus = "due"
                THEN order[o].deliveredAt + OverdueAfter < MaxClock ELSE FALSE
\* An unpaid fee does not stay "due": within the clock's bound it is paid,
\* waived or marked overdue.
FeesComeDue ==
    \A o \in OrderIds : DueInTime(o) ~> order[o].feeStatus # "due"

\* What the receipt is said to retain: the merchant's signed report that the
\* probe invoice was Paid.
ReceiptHoldsPaidProbe ==
    \A o \in OrderIds :
        order[o].status = "delivered" => receipt[o].probe = "Paid"

\* What the error of the report handler says: a channel is only reported for
\* an order whose provider claimed the opening, which needs the provider's
\* signature and the merchant's approval.
ReportsFollowClaim ==
    \A o \in OrderIds :
        order[o].outpoint # None => order[o].signed /\ order[o].proof
=============================================================================
