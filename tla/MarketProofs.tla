---------------------------- MODULE MarketProofs ----------------------------
(***************************************************************************)
(* What holds of the coordinator for every set of wallets, nodes, keys,    *)
(* offers, funding outputs and fee transactions, and for every value of    *)
(* the time windows.                                                       *)
(***************************************************************************)
EXTENDS MarketDelivery, SumLemmas, TLAPS

(***************************************************************************)
(* Types.                                                                  *)
(***************************************************************************)
LEMMA InitType == Init => TypeOK
  <1> SUFFICES ASSUME Init PROVE TypeOK
      OBVIOUS
  <1>1. FreshNode \in NodeRecs
    BY DEF FreshNode, NodeRecs
  <1>2. NoOffer \in OfferRecs /\ NoOffer.state = "none"
    BY DEF NoOffer, OfferRecs
  <1>3. NoOrder \in OrderRecs /\ NoOrder.status = "none"
    BY DEF NoOrder, OrderRecs, Statuses, FeeStatuses
  <1> QED
    BY <1>1, <1>2, <1>3, WindowAssumption DEF Init, TypeOK

\* Writing one order, in use and of the right shape, keeps the book's shape.
LEMMA WriteType ==
    ASSUME TypeOK, NEW o \in OrderIds, NEW rec \in OrderRecs,
           rec.provider # None, rec.merchant # None,
           order' = [order EXCEPT ![o] = rec],
           UNCHANGED <<clock, node, offer, publishing>>,
           accepting' \subseteq OrderIds
    PROVE  TypeOK'
  BY DEF TypeOK

\* A change of status keeps the shape of an order in use, and both its nodes.
LEMMA StatusType ==
    ASSUME TypeOK, NEW o \in OrderIds, order[o].status # "none",
           NEW status \in Statuses
    PROVE  /\ [order[o] EXCEPT !.status = status] \in OrderRecs
           /\ [order[o] EXCEPT !.status = status].provider # None
           /\ [order[o] EXCEPT !.status = status].merchant # None
  BY DEF TypeOK, OrderRecs

\* A heartbeat, a re-pairing and the clock keep the book's records well-formed.
LEMMA HeartbeatType ==
    ASSUME TypeOK, NEW n \in Nodes, Heartbeat(n) PROVE TypeOK'
  <1>1. PICK r \in Reports[n],
             at \in Monus(clock, PayloadWindow)..(clock + PayloadWindow) :
             /\ node' = [node EXCEPT ![n] =
                   [lastSeen |-> at, available |-> r.available,
                    reserve |-> r.reserve, policy |-> r.policy]]
             /\ UNCHANGED <<clock, offer, order, publishing, accepting>>
    BY DEF Heartbeat
  <1>2. at \in Nat
    BY WindowAssumption DEF TypeOK, Monus
  <1>3. [lastSeen |-> at, available |-> r.available, reserve |-> r.reserve,
         policy |-> r.policy] \in NodeRecs
    BY <1>2, InputAssumption DEF NodeRecs, Policies
  <1> QED
    BY <1>1, <1>3 DEF TypeOK

\* Publishing and disabling offers keep them well-formed.
LEMMA OfferType ==
    ASSUME TypeOK, OfferStep PROVE TypeOK'
  <1>1. ASSUME NEW p \in Providers, NEW id \in OfferIds, PublishBegin(p, id)
        PROVE  TypeOK'
    BY <1>1, InputAssumption, WindowAssumption DEF TypeOK, PublishBegin
  <1>2. ASSUME NEW w \in publishing, PublishCommit(w)
        PROVE  TypeOK'
    <2> DEFINE new == [state |-> "enabled", provider |-> w.provider,
                       min |-> w.min, max |-> w.max, fee |-> w.fee,
                       expires |-> w.expires]
    <2>1. new \in OfferRecs /\ new.provider # None
      BY NoneAssumption DEF TypeOK, OfferRecs, Nodes
    <2>2. \A i \in OfferIds :
             /\ Replaced(offer[i], w.provider) \in OfferRecs
             /\ Replaced(offer[i], w.provider).state # "none" =>
                   Replaced(offer[i], w.provider).provider # None
      <3> TAKE i \in OfferIds
      <3>1. CASE offer[i].provider = w.provider
        BY <3>1, NoneAssumption DEF TypeOK, OfferRecs, Replaced, Nodes
      <3>2. CASE offer[i].provider # w.provider
        BY <3>2 DEF TypeOK, Replaced
      <3> QED
        BY <3>1, <3>2
    <2>3. \/ offer' = offer
          \/ offer' = [i \in OfferIds |->
                IF i = w.id THEN new ELSE Replaced(offer[i], w.provider)]
      BY <1>2 DEF PublishCommit
    <2>4. /\ publishing' \subseteq publishing
          /\ UNCHANGED <<clock, node, order, accepting>>
      BY <1>2 DEF PublishCommit
    <2> HIDE DEF new
    <2>5. /\ offer' \in [OfferIds -> OfferRecs]
          /\ \A i \in OfferIds : offer'[i].state # "none" =>
                                   offer'[i].provider # None
      BY <2>1, <2>2, <2>3 DEF TypeOK
    <2> QED
      BY <2>4, <2>5 DEF TypeOK
  <1>3. ASSUME NEW id \in OfferIds, Disable(id)
        PROVE  TypeOK'
    BY <1>3 DEF TypeOK, Disable, OfferRecs
  <1> QED
    BY <1>1, <1>2, <1>3 DEF OfferStep

\* The handlers of an order before its opening keep it well-formed.
LEMMA OrderType ==
    ASSUME TypeOK, NEW o \in OrderIds, OrderStep(o) PROVE TypeOK'
  <1>1. ASSUME NEW id \in OfferIds, NEW m \in Merchants, NEW c \in Capacities,
               offer[id].state = "enabled", Create(o, id, m, c)
        PROVE  TypeOK'
    <2> DEFINE p == offer[id].provider
               new == [NoOrder EXCEPT !.status = "awaiting_quote",
                         !.provider = p, !.merchant = m, !.capacity = c,
                         !.funding = c + node[p].reserve + 1,
                         !.fee = offer[id].fee, !.expires = clock + QuoteTTL]
    <2>1. p \in Providers /\ p # None /\ offer[id].fee \in Nat
      BY <1>1 DEF TypeOK, OfferRecs
    <2>2. node[p].reserve \in Nat /\ c \in Nat /\ clock + QuoteTTL \in Nat
      BY <2>1, InputAssumption, WindowAssumption DEF TypeOK, NodeRecs, Nodes
    <2>3. c + node[p].reserve + 1 \in Nat
      BY <2>2
    <2>4. m # None
      BY NoneAssumption DEF Nodes
    <2>5. /\ new \in OrderRecs
          /\ new.provider # None /\ new.merchant # None
      BY <2>1, <2>2, <2>3, <2>4
      DEF NoOrder, OrderRecs, Statuses, Reserving, Unopened, FeeStatuses
    <2>6. /\ order' = [order EXCEPT ![o] = new]
          /\ UNCHANGED <<clock, node, offer, publishing, accepting>>
      BY <1>1 DEF Create
    <2> HIDE DEF new
    <2> QED
      BY <2>5, <2>6 DEF TypeOK
  <1>2. CASE Quote(o)
    <2> DEFINE new == [order[o] EXCEPT !.status = "quoted", !.signed = TRUE]
    <2>1. new \in OrderRecs /\ new.provider # None /\ new.merchant # None
      BY ZenonT(30), <1>2
         DEF Quote, TypeOK, OrderRecs, Statuses, Reserving, Unopened
    <2>2. /\ order' = [order EXCEPT ![o] = new]
          /\ UNCHANGED <<clock, node, offer, publishing, accepting>>
      BY <1>2 DEF Quote, TypeOK, OrderRecs
    <2> HIDE DEF new
    <2>3. accepting' \subseteq OrderIds
      BY <2>2 DEF TypeOK
    <2> QED
      BY <2>1, <2>2, <2>3, WriteType
  <1>3. CASE AcceptBegin(o)
    BY <1>3 DEF TypeOK, AcceptBegin
  <1>4. CASE AcceptCommit(o)
    <2>1. CASE Acceptable(o)
      <3> DEFINE new == [order[o] EXCEPT !.status = "accepted", !.proof = TRUE]
      <3>1. new \in OrderRecs /\ new.provider # None /\ new.merchant # None
        BY ZenonT(30), <2>1
           DEF Acceptable, TypeOK, OrderRecs, Statuses, Reserving, Unopened
      <3>2. /\ order' = [order EXCEPT ![o] = new]
            /\ UNCHANGED <<clock, node, offer, publishing>>
        BY <1>4, <2>1 DEF AcceptCommit, TypeOK, OrderRecs
      <3> HIDE DEF new
      <3>3. accepting' \subseteq OrderIds
        BY <1>4 DEF AcceptCommit, TypeOK
      <3> QED
        BY <3>1, <3>2, <3>3, WriteType
    <2>2. CASE ~Acceptable(o)
      BY <1>4, <2>2 DEF TypeOK, AcceptCommit
    <2> QED
      BY <2>1, <2>2
  <1>5. CASE Abandon(o)
    BY <1>5 DEF TypeOK, Abandon
  <1>6. CASE Cancel(o)
    BY <1>6 DEF TypeOK, Cancel, OrderRecs, Statuses, Unopened, Dead
  <1>7. CASE Start(o)
    BY <1>7 DEF TypeOK, Start, OrderRecs, Statuses, Reserving, Opened
  <1>8. ASSUME NEW b \in BOOLEAN, Failure(o, b)
        PROVE  TypeOK'
    <2>1. PICK status \in {"failed", "reconciling"} :
             order' = [order EXCEPT ![o].status = status]
      BY <1>8 DEF Failure
    <2>2. /\ order[o].status # "none"
          /\ UNCHANGED <<clock, node, offer, publishing, accepting>>
      BY <1>8 DEF Failure, Reserving, Unopened, Opened
    <2>3. status \in Statuses
      BY <2>1 DEF Statuses, Reserving, Opened, Dead
    <2> DEFINE new == [order[o] EXCEPT !.status = status]
    <2>4. new \in OrderRecs /\ new.provider # None /\ new.merchant # None
      BY <2>2, <2>3, StatusType
    <2>5. order' = [order EXCEPT ![o] = new]
      BY <2>1
    <2> HIDE DEF new
    <2>6. accepting' \subseteq OrderIds
      BY <2>2 DEF TypeOK
    <2> QED
      BY <2>2, <2>4, <2>5, <2>6, WriteType
  <1> QED
    BY <1>1, <1>2, <1>3, <1>4, <1>5, <1>6, <1>7, <1>8 DEF OrderStep

\* What the sweep makes of one record of the right shape.
LEMMA SweptType ==
    ASSUME TypeOK, NEW o \in OrderIds
    PROVE  /\ Swept(order[o]) \in OrderRecs
           /\ Swept(order[o]).status =
                 IF Expired(order[o]) THEN "expired" ELSE order[o].status
           /\ Swept(order[o]).provider = order[o].provider
           /\ Swept(order[o]).merchant = order[o].merchant
  <1> DEFINE status == IF Expired(order[o]) THEN "expired" ELSE order[o].status
             fee == IF Overdue(order[o]) THEN "overdue" ELSE order[o].feeStatus
  <1>1. order[o] \in OrderRecs
    BY DEF TypeOK
  <1>2. status \in Statuses /\ fee \in FeeStatuses
    BY <1>1 DEF OrderRecs, Statuses, Dead, FeeStatuses
  <1>3. Swept(order[o]) = [order[o] EXCEPT !.status = status, !.feeStatus = fee]
    BY <1>1 DEF Swept, OrderRecs
  <1>4. status = IF Expired(order[o]) THEN "expired" ELSE order[o].status
    OBVIOUS
  <1> HIDE DEF status, fee
  <1> QED
    BY <1>1, <1>2, <1>3, <1>4 DEF OrderRecs

\* The expiry pass keeps the orders well-formed.
LEMMA ExpireType == ASSUME TypeOK, Expire PROVE TypeOK'
  <1>1. ASSUME NEW o \in OrderIds, Swept(order[o]).status # "none"
        PROVE  order[o].status # "none"
    BY <1>1, SweptType DEF Expired, Unopened
  <1>2. order' = [o \in OrderIds |-> Swept(order[o])]
    BY DEF Expire
  <1>3. \A o \in OrderIds :
           /\ order'[o] \in OrderRecs
           /\ order'[o].status # "none" => /\ order'[o].provider # None
                                           /\ order'[o].merchant # None
    BY <1>1, <1>2, SweptType DEF TypeOK
  <1> QED
    BY <1>2, <1>3 DEF TypeOK, Expire

\* Every step of the book keeps its records well-formed.
LEMMA BookType == ASSUME TypeOK, BookStep PROVE TypeOK'
  <1>1. ASSUME NEW n \in Nodes, Heartbeat(n) PROVE TypeOK'
    BY <1>1, HeartbeatType
  <1>2. ASSUME NEW n \in Nodes, Register(n) PROVE TypeOK'
    BY <1>2 DEF TypeOK, Register, FreshNode, NodeRecs
  <1>3. ASSUME OfferStep PROVE TypeOK'
    BY <1>3, OfferType
  <1>4. ASSUME NEW o \in OrderIds, OrderStep(o) PROVE TypeOK'
    BY <1>4, OrderType
  <1>5. ASSUME Expire PROVE TypeOK'
    BY <1>5, ExpireType
  <1>6. ASSUME Advance PROVE TypeOK'
    BY <1>6 DEF TypeOK, Advance
  <1> QED
    BY <1>1, <1>2, <1>3, <1>4, <1>5, <1>6 DEF BookStep

----------------------------------------------------------------------------
(***************************************************************************)
(* The delivery's types.  A report is only ever begun for an order in use, *)
(* and an order in use stays in use: without that conjunct a report could  *)
(* give a status to an order that has no provider.                         *)
(***************************************************************************)
ReportsUsed == \A r \in reports : order[r.order].status # "none"
TypeInv == MarketTypeOK /\ ReportsUsed

\* The initial marketplace satisfies the type invariant.
LEMMA MarketInitType == MarketInit => TypeInv
  <1> SUFFICES ASSUME MarketInit PROVE TypeInv
      OBVIOUS
  <1>1. TypeOK
    BY InitType DEF MarketInit
  <1>2. DataTypeOK
    BY DEF MarketInit, DeliveryInit, DataTypeOK, Attested, Sides
  <1>3. RequestTypeOK /\ ReportsUsed
    BY DEF MarketInit, DeliveryInit, RequestTypeOK, ReportsUsed
  <1>4. fiber \in [Outpoints -> [state : States, balance : Balances]]
    BY DeliveryAssumption DEF MarketInit, DeliveryInit, States
  <1>5. chain \in [tip : Nat, mined : [FeeTxs -> Nat \cup {None}],
                   funding : [Outpoints -> {"absent", "live", "spent",
                                            "settled"}]]
    BY DEF MarketInit, DeliveryInit
  <1> QED
    BY <1>1, <1>2, <1>3, <1>4, <1>5
    DEF MarketInit, DeliveryInit, TypeInv, MarketTypeOK, WorldTypeOK

\* A request is always made for an order the handler has found.
LEMMA ReportBeginType ==
    ASSUME TypeInv, NEW o \in OrderIds, NEW side \in Sides,
           NEW p \in Outpoints, ReportBegin(o, side, p)
    PROVE  TypeInv'
  <1>1. PICK claim \in SettlementClaims(p) :
           /\ order[o].status # "none"
           /\ reports' = reports \cup
                 {[order |-> o, side |-> side,
                   seen |-> [channel |-> ChannelOf[p], outpoint |-> p,
                             state |-> fiber[p].state,
                             balance |-> fiber[p].balance,
                             settlement |-> claim, at |-> clock]]}
    BY DEF ReportBegin
  <1>2. claim \in {None, "pending", "confirmed"}
    BY <1>1 DEF SettlementClaims
  <1>3. [channel |-> ChannelOf[p], outpoint |-> p, state |-> fiber[p].state,
         balance |-> fiber[p].balance, settlement |-> claim, at |-> clock]
            \in Evidence
    BY <1>2, DeliveryAssumption
    DEF Evidence, TypeInv, MarketTypeOK, WorldTypeOK, TypeOK
  <1>4. UNCHANGED <<bookVars, orderData, probes, verifying, settling, world>>
    BY DEF ReportBegin
  <1>5. TypeOK' /\ DataTypeOK' /\ WorldTypeOK'
    BY <1>4 DEF TypeInv, MarketTypeOK, TypeOK, DataTypeOK, WorldTypeOK,
                bookVars, orderData, world
  <1>6. RequestTypeOK' /\ ReportsUsed'
    BY <1>1, <1>3, <1>4 DEF TypeInv, MarketTypeOK, RequestTypeOK, ReportsUsed,
                            bookVars
  <1> QED
    BY <1>5, <1>6 DEF TypeInv, MarketTypeOK

\* What two observations say is a status an opened order may have.
LEMMA StatusAfterType ==
    ASSUME NEW o, NEW both
    PROVE  /\ StatusAfter(o, both) \in
                 {"delivered", "failed", "reconciling", "verifying"}
           /\ order[o].status # "delivered" =>
                 StatusAfter(o, both) # "delivered"
           /\ order[o].status = "delivered" =>
                 StatusAfter(o, both) = "delivered"
  BY DEF StatusAfter, Judged

\* Storing an observation keeps every record well-formed.
LEMMA ReportCommitType ==
    ASSUME TypeInv, NEW r \in reports, ReportCommit(r)
    PROVE  TypeInv'
  <1> DEFINE o == r.order
             both == [evidence[o] EXCEPT ![r.side] = r.seen]
             status == StatusAfter(o, both)
             new == [order[o] EXCEPT !.channel = r.seen.channel,
                                     !.outpoint = r.seen.outpoint,
                                     !.status = status]
  <1>1. /\ r \in [order : OrderIds, side : Sides, seen : Evidence]
        /\ order[o].status # "none"
    BY DEF TypeInv, MarketTypeOK, RequestTypeOK, ReportsUsed
  <1>2. /\ reports' = reports \ {r}
        /\ UNCHANGED <<book, probe, probeReport, delivery, receipt, feeTx,
                       boundFee, probes, verifying, settling, world>>
    BY DEF ReportCommit
  <1>3. CASE UNCHANGED <<evidence, attestation, boundPoint, order>>
    BY <1>2, <1>3 DEF TypeInv, MarketTypeOK, TypeOK, DataTypeOK, RequestTypeOK,
                      WorldTypeOK, ReportsUsed, book, world
  <1>4. CASE /\ evidence' = [evidence EXCEPT ![o] = both]
             /\ attestation' = [attestation EXCEPT ![o][r.side] = r.seen]
             /\ boundPoint' = [boundPoint EXCEPT ![r.seen.outpoint] = o]
             /\ order' = [order EXCEPT ![o].channel = r.seen.channel,
                                       ![o].outpoint = r.seen.outpoint,
                                       ![o].status = status]
    <2>1. /\ r.seen.channel \in Channels /\ r.seen.outpoint \in Outpoints
          /\ r.seen \in Attested /\ r.side \in Sides /\ o \in OrderIds
      BY <1>1 DEF Evidence, Attested
    <2>2. status \in Statuses /\ status # "none"
      BY StatusAfterType DEF Statuses, Reserving, Opened, Dead
    <2>3. order[o] \in OrderRecs
      BY <2>1 DEF TypeInv, MarketTypeOK, TypeOK
    <2> HIDE DEF status
    <2>4. /\ new \in OrderRecs /\ new.status = status
          /\ new.provider = order[o].provider
          /\ new.merchant = order[o].merchant
      BY <2>1, <2>2, <2>3 DEF OrderRecs
    <2>5. new.provider # None /\ new.merchant # None
      BY <1>1, <2>1, <2>4 DEF TypeInv, MarketTypeOK, TypeOK
    <2>6. order' = [order EXCEPT ![o] = new]
      BY <1>4, <2>1, <2>3 DEF TypeInv, MarketTypeOK, TypeOK, OrderRecs
    <2> HIDE DEF new
    <2>7. TypeOK'
      <3>1. UNCHANGED <<clock, node, offer, publishing, accepting>>
        BY <1>2 DEF book
      <3>2. accepting' \subseteq OrderIds
        BY <3>1 DEF TypeInv, MarketTypeOK, TypeOK
      <3> QED
        BY <2>1, <2>4, <2>5, <2>6, <3>1, <3>2, WriteType
        DEF TypeInv, MarketTypeOK
    <2>8. DataTypeOK'
      <3>1. evidence[o] \in [Sides -> Attested]
        BY <2>1 DEF TypeInv, MarketTypeOK, DataTypeOK
      <3>2. both \in [Sides -> Attested]
        BY <2>1, <3>1
      <3> HIDE DEF both
      <3>3. evidence' \in [OrderIds -> [Sides -> Attested]]
        BY <1>4, <2>1, <3>2 DEF TypeInv, MarketTypeOK, DataTypeOK
      <3>4. attestation' \in [OrderIds -> [Sides -> Attested]]
        BY <1>4, <2>1 DEF TypeInv, MarketTypeOK, DataTypeOK
      <3>5. boundPoint' \in [Outpoints -> OrderIds \cup {None}]
        BY <1>4, <2>1 DEF TypeInv, MarketTypeOK, DataTypeOK
      <3> QED
        BY <1>2, <3>3, <3>4, <3>5 DEF TypeInv, MarketTypeOK, DataTypeOK
    <2>9. RequestTypeOK' /\ WorldTypeOK'
      BY <1>2 DEF TypeInv, MarketTypeOK, RequestTypeOK, WorldTypeOK, world
    <2>10. ReportsUsed'
      BY <1>2, <2>1, <2>2, <2>4, <2>6
      DEF TypeInv, MarketTypeOK, TypeOK, RequestTypeOK, ReportsUsed
    <2> QED
      BY <2>7, <2>8, <2>9, <2>10 DEF TypeInv, MarketTypeOK
  <1> QED
    BY <1>3, <1>4 DEF ReportCommit

\* Posting and storing a probe report keep every record well-formed.
LEMMA ProbeType ==
    ASSUME TypeInv,
           \/ \E o \in OrderIds, h \in Invoices : ProbeSend(o, h)
           \/ \E r \in probes : ProbeReceive(r)
    PROVE  TypeInv'
  <1>1. ASSUME NEW o \in OrderIds, NEW h \in Invoices, ProbeSend(o, h)
        PROVE  TypeInv'
    <2>1. [order |-> o, hash |-> h, paid |-> h \in paid, at |-> clock]
             \in [order : OrderIds, hash : Invoices, paid : BOOLEAN, at : Nat]
      BY DEF TypeInv, MarketTypeOK, TypeOK
    <2> QED
      BY <1>1, <2>1 DEF ProbeSend, TypeInv, MarketTypeOK, TypeOK, DataTypeOK,
        RequestTypeOK, WorldTypeOK, ReportsUsed, bookVars, orderData, world
  <1>2. ASSUME NEW r \in probes, ProbeReceive(r) PROVE TypeInv'
    <2>1. r \in [order : OrderIds, hash : Invoices, paid : BOOLEAN, at : Nat]
      BY DEF TypeInv, MarketTypeOK, RequestTypeOK
    <2>2. /\ probe' \in [OrderIds -> [hash : Invoices \cup {None},
                                      received : BOOLEAN]]
          /\ probeReport' \in [OrderIds -> {None, "Paid", "Open"}]
      <3>1. CASE UNCHANGED <<probe, probeReport>>
        BY <3>1 DEF TypeInv, MarketTypeOK, DataTypeOK
      <3>2. CASE /\ probe' = [probe EXCEPT ![r.order] =
                        [hash |-> r.hash,
                         received |-> probe[r.order].received \/ r.paid]]
                 /\ probeReport' = [probeReport EXCEPT ![r.order] =
                        IF r.paid THEN "Paid" ELSE "Open"]
        <4> DEFINE got == probe[r.order].received \/ r.paid
        <4>1. got \in BOOLEAN
          OBVIOUS
        <4>2. probe' = [probe EXCEPT ![r.order] =
                          [hash |-> r.hash, received |-> got]]
          BY <3>2
        <4> HIDE DEF got
        <4> QED
          BY <2>1, <3>2, <4>1, <4>2 DEF TypeInv, MarketTypeOK, DataTypeOK
      <3> QED
        BY <1>2, <3>1, <3>2 DEF ProbeReceive
    <2> QED
      BY <1>2, <2>2 DEF ProbeReceive, TypeInv, MarketTypeOK, TypeOK,
        DataTypeOK, RequestTypeOK, WorldTypeOK, ReportsUsed, bookVars, world
  <1> QED
    BY <1>1, <1>2

\* Recording a delivery keeps every record well-formed.
LEMMA VerifyCommitType ==
    ASSUME TypeInv, NEW r \in verifying, VerifyCommit(r)
    PROVE  TypeInv'
  <1> DEFINE o == r.order
             new == [order[o] EXCEPT !.status = "delivered",
                                     !.feeStatus = "due",
                                     !.deliveredAt = clock]
  <1>1. /\ o \in OrderIds /\ r.tip \in Nat
        /\ verifying' \subseteq verifying
        /\ UNCHANGED <<book, evidence, attestation, probe, probeReport, feeTx,
                       boundPoint, boundFee, reports, probes, settling, world>>
    BY DEF VerifyCommit, TypeInv, MarketTypeOK, RequestTypeOK
  <1>2. RequestTypeOK' /\ WorldTypeOK'
    BY <1>1 DEF TypeInv, MarketTypeOK, RequestTypeOK, WorldTypeOK, world
  <1>3. CASE ~Ready(o)
    BY <1>1, <1>2, <1>3 DEF VerifyCommit, TypeInv, MarketTypeOK, TypeOK,
                            DataTypeOK, ReportsUsed, book
  <1>4. CASE Ready(o)
    <2>1. /\ order' = [order EXCEPT ![o].status = "delivered",
                                    ![o].feeStatus = "due",
                                    ![o].deliveredAt = clock]
          /\ delivery' = [delivery EXCEPT ![o] = r.tip]
          /\ receipt' = [receipt EXCEPT ![o] =
                [provider |-> attestation[o]["provider"],
                 merchant |-> attestation[o]["merchant"],
                 probe |-> probeReport[o]]]
      BY <1>4 DEF VerifyCommit
    <2>2. order[o] \in OrderRecs /\ clock \in Nat /\ order[o].status # "none"
      BY <1>1, <1>4 DEF TypeInv, MarketTypeOK, TypeOK, Ready
    <2>3. /\ new \in OrderRecs /\ new.status = "delivered"
          /\ new.provider = order[o].provider
          /\ new.merchant = order[o].merchant
      BY <2>2 DEF OrderRecs, Statuses, FeeStatuses
    <2>4. new.provider # None /\ new.merchant # None
      BY <1>1, <2>2, <2>3 DEF TypeInv, MarketTypeOK, TypeOK
    <2>5. order' = [order EXCEPT ![o] = new]
      BY <1>1, <2>1, <2>2 DEF TypeInv, MarketTypeOK, TypeOK, OrderRecs
    <2> HIDE DEF new
    <2>6. TypeOK'
      <3>1. UNCHANGED <<clock, node, offer, publishing, accepting>>
        BY <1>1 DEF book
      <3>2. accepting' \subseteq OrderIds
        BY <3>1 DEF TypeInv, MarketTypeOK, TypeOK
      <3> QED
        BY <1>1, <2>3, <2>4, <2>5, <3>1, <3>2, WriteType
        DEF TypeInv, MarketTypeOK
    <2>7. DataTypeOK'
      <3>1. [provider |-> attestation[o]["provider"],
             merchant |-> attestation[o]["merchant"],
             probe |-> probeReport[o]]
               \in [provider : Attested, merchant : Attested,
                    probe : {None, "Paid", "Open"}]
        BY <1>1 DEF TypeInv, MarketTypeOK, DataTypeOK, Sides
      <3> QED
        BY <1>1, <2>1, <3>1 DEF TypeInv, MarketTypeOK, DataTypeOK
    <2>8. ReportsUsed'
      BY <1>1, <2>3, <2>5
      DEF TypeInv, MarketTypeOK, TypeOK, RequestTypeOK, ReportsUsed
    <2> QED
      BY <1>2, <2>6, <2>7, <2>8 DEF TypeInv, MarketTypeOK
  <1> QED
    BY <1>3, <1>4

\* Asking for a verification and its chain query keep the requests well-formed.
LEMMA VerifyType ==
    ASSUME TypeInv,
           \/ \E o \in OrderIds : VerifyBegin(o)
           \/ \E r \in verifying : VerifyChain(r) \/ VerifyCommit(r)
    PROVE  TypeInv'
  <1>1. ASSUME NEW o \in OrderIds, VerifyBegin(o) PROVE TypeInv'
    <2>1. [order |-> o, outpoint |-> order[o].outpoint, tip |-> None]
             \in [order : OrderIds, outpoint : Outpoints \cup {None},
                  tip : Nat \cup {None}]
      BY DEF TypeInv, MarketTypeOK, TypeOK, OrderRecs
    <2> QED
      BY <1>1, <2>1 DEF VerifyBegin, TypeInv, MarketTypeOK, TypeOK, DataTypeOK,
        RequestTypeOK, WorldTypeOK, ReportsUsed, bookVars, orderData, world
  <1>2. ASSUME NEW r \in verifying, VerifyChain(r) PROVE TypeInv'
    <2>1. /\ r \in [order : OrderIds, outpoint : Outpoints \cup {None},
                     tip : Nat \cup {None}]
          /\ chain.tip \in Nat
      BY DEF TypeInv, MarketTypeOK, RequestTypeOK, WorldTypeOK
    <2>2. [r EXCEPT !.tip = chain.tip]
             \in [order : OrderIds, outpoint : Outpoints \cup {None},
                  tip : Nat \cup {None}]
      BY <2>1
    <2> QED
      BY <1>2, <2>2 DEF VerifyChain, TypeInv, MarketTypeOK, TypeOK, DataTypeOK,
        RequestTypeOK, WorldTypeOK, ReportsUsed, bookVars, orderData, world
  <1>3. ASSUME NEW r \in verifying, VerifyCommit(r) PROVE TypeInv'
    BY <1>3, VerifyCommitType
  <1> QED
    BY <1>1, <1>2, <1>3

\* The payment and the waiver of a fee keep every record well-formed.
LEMMA FeeType ==
    ASSUME TypeInv,
           \/ \E o \in OrderIds : Waive(o) \/ \E t \in FeeTxs : SettleBegin(o, t)
           \/ \E s \in settling : SettleCommit(s)
    PROVE  TypeInv'
  <1>1. ASSUME NEW o \in OrderIds, NEW fee \in FeeStatuses,
               order' = [order EXCEPT ![o].feeStatus = fee]
        PROVE  /\ order' \in [OrderIds -> OrderRecs]
               /\ \A q \in OrderIds :
                     /\ order'[q].status = order[q].status
                     /\ order'[q].provider = order[q].provider
                     /\ order'[q].merchant = order[q].merchant
    BY SMTT(30), <1>1 DEF TypeInv, MarketTypeOK, TypeOK, OrderRecs
  <1>2. ASSUME NEW o \in OrderIds, Waive(o) PROVE TypeInv'
    <2>1. /\ order' = [order EXCEPT ![o].feeStatus = "waived"]
          /\ UNCHANGED <<book, orderData, requests, world>>
      BY <1>2 DEF Waive
    <2>2. /\ order' \in [OrderIds -> OrderRecs]
          /\ \A q \in OrderIds :
                /\ order'[q].status = order[q].status
                /\ order'[q].provider = order[q].provider
                /\ order'[q].merchant = order[q].merchant
      BY <1>1, <2>1 DEF FeeStatuses
    <2> QED
      BY <2>1, <2>2 DEF TypeInv, MarketTypeOK, TypeOK, DataTypeOK,
        RequestTypeOK, WorldTypeOK, ReportsUsed, book, orderData, requests,
        world
  <1>3. ASSUME NEW o \in OrderIds, NEW t \in FeeTxs, SettleBegin(o, t)
        PROVE  TypeInv'
    BY <1>3 DEF SettleBegin, TypeInv, MarketTypeOK, TypeOK, DataTypeOK,
      RequestTypeOK, WorldTypeOK, ReportsUsed, bookVars, orderData, world
  <1>4. ASSUME NEW s \in settling, SettleCommit(s) PROVE TypeInv'
    <2>1. /\ s.order \in OrderIds /\ s.tx \in FeeTxs
          /\ settling' \subseteq settling
          /\ UNCHANGED <<book, evidence, attestation, probe, probeReport,
                         delivery, receipt, boundPoint, reports, probes,
                         verifying, world>>
      BY <1>4 DEF SettleCommit, TypeInv, MarketTypeOK, RequestTypeOK
    <2>2. CASE UNCHANGED <<boundFee, feeTx, order>>
      BY <2>1, <2>2 DEF TypeInv, MarketTypeOK, TypeOK, DataTypeOK,
        RequestTypeOK, WorldTypeOK, ReportsUsed, book, world
    <2>3. CASE /\ boundFee' = [boundFee EXCEPT ![s.tx] = s.order]
               /\ feeTx' = [feeTx EXCEPT ![s.order] = s.tx]
               /\ order' = [order EXCEPT ![s.order].feeStatus = "paid"]
      <3>1. /\ order' \in [OrderIds -> OrderRecs]
            /\ \A q \in OrderIds :
                  /\ order'[q].status = order[q].status
                  /\ order'[q].provider = order[q].provider
                  /\ order'[q].merchant = order[q].merchant
        BY <1>1, <2>1, <2>3 DEF FeeStatuses
      <3> QED
        BY <2>1, <2>3, <3>1 DEF TypeInv, MarketTypeOK, TypeOK, DataTypeOK,
          RequestTypeOK, WorldTypeOK, ReportsUsed, book, world
    <2> QED
      BY <1>4, <2>2, <2>3 DEF SettleCommit
  <1> QED
    BY <1>2, <1>3, <1>4

\* The chain, the channels and the invoices keep their shapes.
LEMMA WorldType ==
    ASSUME TypeInv, WorldStep PROVE TypeInv'
  <1>1. /\ UNCHANGED <<bookVars, orderData, requests>>
        /\ WorldTypeOK'
    <2>1. ASSUME MineBlock
          PROVE  WorldTypeOK' /\ UNCHANGED <<bookVars, orderData, requests>>
      <3>1. PICK S :
               chain' = [chain EXCEPT !.tip = @ + 1,
                            !.mined = [t \in FeeTxs |->
                                IF t \in S THEN chain.tip + 1 ELSE @[t]]]
        BY <2>1 DEF MineBlock
      <3> DEFINE mined == [t \in FeeTxs |-> IF t \in S THEN chain.tip + 1
                                            ELSE chain.mined[t]]
      <3>2. chain.tip + 1 \in Nat /\ mined \in [FeeTxs -> Nat \cup {None}]
        BY DEF TypeInv, MarketTypeOK, WorldTypeOK
      <3>3. chain' = [chain EXCEPT !.tip = chain.tip + 1, !.mined = mined]
        BY <3>1 DEF TypeInv, MarketTypeOK, WorldTypeOK
      <3> HIDE DEF mined
      <3>4. chain' \in [tip : Nat, mined : [FeeTxs -> Nat \cup {None}],
                        funding : [Outpoints -> {"absent", "live", "spent",
                                                 "settled"}]]
        BY <3>2, <3>3 DEF TypeInv, MarketTypeOK, WorldTypeOK
      <3> QED
        BY <2>1, <3>4 DEF MineBlock, TypeInv, MarketTypeOK, WorldTypeOK
    <2>2. ASSUME NEW p \in Outpoints, FundingStep(p)
          PROVE  WorldTypeOK' /\ UNCHANGED <<bookVars, orderData, requests>>
      BY <2>2 DEF FundingStep, TypeInv, MarketTypeOK, WorldTypeOK
    <2>3. ASSUME NEW p \in Outpoints, ChannelStep(p)
          PROVE  WorldTypeOK' /\ UNCHANGED <<bookVars, orderData, requests>>
      BY <2>3 DEF ChannelStep, TypeInv, MarketTypeOK, WorldTypeOK, States
    <2>4. ASSUME NEW h \in Invoices, PayInvoice(h)
          PROVE  WorldTypeOK' /\ UNCHANGED <<bookVars, orderData, requests>>
      BY <2>4 DEF PayInvoice, TypeInv, MarketTypeOK, WorldTypeOK
    <2> QED
      BY <2>1, <2>2, <2>3, <2>4 DEF WorldStep
  <1> QED
    BY <1>1 DEF TypeInv, MarketTypeOK, TypeOK, DataTypeOK, RequestTypeOK,
                ReportsUsed, bookVars, orderData, requests

\* A dropped request and a restart keep every record well-formed.
LEMMA StopType ==
    ASSUME TypeInv, Drop \/ MarketRestart PROVE TypeInv'
  <1>1. CASE Drop
    BY <1>1 DEF Drop, TypeInv, MarketTypeOK, TypeOK, DataTypeOK, RequestTypeOK,
                WorldTypeOK, ReportsUsed, bookVars, orderData, world
  <1>2. CASE MarketRestart
    BY <1>2 DEF MarketRestart, TypeInv, MarketTypeOK, TypeOK, DataTypeOK,
                RequestTypeOK, WorldTypeOK, ReportsUsed, orderData, world
  <1> QED
    BY <1>1, <1>2

----------------------------------------------------------------------------
(***************************************************************************)
(* What every step but Create leaves alone: the provider of an order, and  *)
(* whether it is used, and no order comes into a wallet's way.             *)
(***************************************************************************)
Quiet ==
    \A o \in OrderIds :
        /\ order'[o].provider = order[o].provider
        /\ order[o].status # "none" => order'[o].status # "none"
        /\ InTheWay(o)' => InTheWay(o)

\* Writing an order that was in the way, whatever becomes of it.
LEMMA WriteQuiet ==
    ASSUME TypeOK, NEW o \in OrderIds, NEW rec,
           order[o].status \in Reserving \cup {"delivered"},
           order[o].status = "delivered" =>
              /\ rec.status = "delivered"
              /\ rec.feeStatus \in {"paid", "waived", order[o].feeStatus},
           rec.status # "none", rec.provider = order[o].provider,
           order' = [order EXCEPT ![o] = rec]
    PROVE  Quiet
  <1> SUFFICES ASSUME NEW q \in OrderIds
               PROVE  /\ order'[q].provider = order[q].provider
                      /\ order[q].status # "none" => order'[q].status # "none"
                      /\ InTheWay(q)' => InTheWay(q)
      BY DEF Quiet
  <1>1. CASE q = o
    BY <1>1 DEF TypeOK, InTheWay, Unsettled, Reserving, Unopened, Opened
  <1>2. CASE q # o
    BY <1>2 DEF TypeOK, InTheWay, Unsettled
  <1> QED
    BY <1>1, <1>2

\* A step that changes no order is quiet.
LEMMA SameQuiet ==
    ASSUME UNCHANGED order PROVE Quiet
  BY DEF Quiet, InTheWay, Unsettled

\* A handler of an existing order, other than its creation, is quiet.
LEMMA OrderQuiet ==
    ASSUME TypeOK, NEW o \in OrderIds, OrderStep(o)
    PROVE  \/ Quiet
           \/ \E id \in OfferIds, m \in Merchants, c \in Capacities :
                 Create(o, id, m, c)
  <1>1. ASSUME NEW rec, order[o].status \in Reserving, rec.status # "none",
               rec.provider = order[o].provider,
               order' = [order EXCEPT ![o] = rec]
        PROVE  Quiet
    BY <1>1, WriteQuiet DEF Reserving, Unopened, Opened
  <1>2. CASE Quote(o)
    <2>1. order' = [order EXCEPT ![o] = [order[o] EXCEPT !.status = "quoted",
                                                         !.signed = TRUE]]
      BY <1>2 DEF Quote, TypeOK, OrderRecs
    <2>2. order[o].status \in Reserving
      BY <1>2 DEF Quote, Reserving, Unopened
    <2> QED
      BY <1>1, <2>1, <2>2 DEF TypeOK, OrderRecs
  <1>3. CASE AcceptCommit(o) /\ Acceptable(o)
    <2>1. order' = [order EXCEPT ![o] = [order[o] EXCEPT !.status = "accepted",
                                                         !.proof = TRUE]]
      BY <1>3 DEF AcceptCommit, TypeOK, OrderRecs
    <2>2. order[o].status \in Reserving
      BY <1>3 DEF Acceptable, Reserving, Unopened
    <2> QED
      BY <1>1, <2>1, <2>2 DEF TypeOK, OrderRecs
  <1>4. ASSUME NEW status \in Statuses \ {"none"},
               order[o].status \in Reserving,
               order' = [order EXCEPT ![o].status = status]
        PROVE  Quiet
    <2>1. order' = [order EXCEPT ![o] = [order[o] EXCEPT !.status = status]]
      BY <1>4
    <2> QED
      BY ZenonT(30), <1>1, <1>4, <2>1 DEF TypeOK, OrderRecs
  <1>5. CASE Cancel(o)
    BY <1>4, <1>5 DEF Cancel, Statuses, Dead, Reserving
  <1>6. CASE Start(o)
    BY <1>4, <1>6 DEF Start, Statuses, Reserving, Opened, Unopened
  <1>7. ASSUME NEW b \in BOOLEAN, Failure(o, b) PROVE Quiet
    <2>1. PICK status \in {"failed", "reconciling"} :
             order' = [order EXCEPT ![o].status = status]
      BY <1>7 DEF Failure
    <2>2. status \in Statuses \ {"none"} /\ order[o].status \in Reserving
      BY <1>7 DEF Failure, Statuses, Dead, Reserving, Opened
    <2> QED
      BY <1>4, <2>1, <2>2
  <1>8. CASE \/ AcceptBegin(o) \/ Abandon(o)
             \/ AcceptCommit(o) /\ ~Acceptable(o)
    BY <1>8, SameQuiet DEF AcceptBegin, Abandon, AcceptCommit
  <1> QED
    BY <1>2, <1>3, <1>5, <1>6, <1>7, <1>8 DEF OrderStep

\* The expiry pass is quiet.
LEMMA ExpireQuiet == ASSUME TypeOK, Expire PROVE Quiet
  <1> SUFFICES ASSUME NEW o \in OrderIds
               PROVE  /\ order'[o].provider = order[o].provider
                      /\ order[o].status # "none" => order'[o].status # "none"
                      /\ InTheWay(o)' => InTheWay(o)
      BY DEF Quiet
  <1>1. order'[o] = Swept(order[o])
    BY DEF Expire
  <1>2. order[o] \in OrderRecs
    BY DEF TypeOK
  <1>3. /\ Swept(order[o]).feeStatus =
              IF Overdue(order[o]) THEN "overdue" ELSE order[o].feeStatus
        /\ Overdue(order[o]) => order[o].feeStatus = "due"
    BY <1>2 DEF Swept, Overdue, OrderRecs
  <1> QED
    BY <1>1, <1>3, SweptType
    DEF InTheWay, Unsettled, Expired, Reserving, Unopened, Opened

\* Observations, probes and verifications are quiet.
LEMMA EvidenceQuiet ==
    ASSUME TypeInv, NEW o \in OrderIds, EvidenceStep(o)
    PROVE  Quiet
  <1>1. ASSUME NEW r \in reports, ReportCommit(r) PROVE Quiet
    <2> DEFINE q == r.order
               both == [evidence[q] EXCEPT ![r.side] = r.seen]
               status == StatusAfter(q, both)
               new == [order[q] EXCEPT !.channel = r.seen.channel,
                                       !.outpoint = r.seen.outpoint,
                                       !.status = status]
    <2>1. q \in OrderIds /\ order[q].status # "none" /\ order[q] \in OrderRecs
      BY DEF TypeInv, MarketTypeOK, TypeOK, RequestTypeOK, ReportsUsed
    <2>2. CASE Reportable(q, r.seen)
      <3>1. order' = [order EXCEPT ![q].channel = r.seen.channel,
                                   ![q].outpoint = r.seen.outpoint,
                                   ![q].status = status]
        BY <1>1, <2>2 DEF ReportCommit
      <3>2. /\ status # "none"
            /\ order[q].status = "delivered" => status = "delivered"
        BY StatusAfterType
      <3> HIDE DEF status
      <3>3. /\ order' = [order EXCEPT ![q] = new]
            /\ new.status = status /\ new.provider = order[q].provider
            /\ new.feeStatus = order[q].feeStatus
        BY <2>1, <3>1 DEF TypeInv, MarketTypeOK, TypeOK, OrderRecs
      <3>4. order[q].status \in Reserving \cup {"delivered"}
        BY <2>1, <2>2 DEF Reportable, OrderRecs, Statuses
      <3> HIDE DEF new
      <3> QED
        BY <2>1, <3>2, <3>3, <3>4, WriteQuiet DEF TypeInv, MarketTypeOK
    <2>3. CASE ~Reportable(q, r.seen)
      BY <1>1, <2>3, SameQuiet DEF ReportCommit
    <2> QED
      BY <2>2, <2>3
  <1>2. ASSUME NEW r \in verifying, VerifyCommit(r) PROVE Quiet
    <2> DEFINE q == r.order
               new == [order[q] EXCEPT !.status = "delivered",
                                       !.feeStatus = "due",
                                       !.deliveredAt = clock]
    <2>1. q \in OrderIds /\ order[q] \in OrderRecs
      BY DEF TypeInv, MarketTypeOK, TypeOK, RequestTypeOK
    <2>2. CASE Ready(q)
      <3>1. order' = [order EXCEPT ![q].status = "delivered",
                                   ![q].feeStatus = "due",
                                   ![q].deliveredAt = clock]
        BY <1>2, <2>2 DEF VerifyCommit
      <3>2. /\ order' = [order EXCEPT ![q] = new]
            /\ new.status = "delivered" /\ new.provider = order[q].provider
        BY <2>1, <3>1 DEF TypeInv, MarketTypeOK, TypeOK, OrderRecs
      <3>3. order[q].status = "verifying"
        BY <2>2 DEF Ready
      <3> HIDE DEF new
      <3> QED
        BY <2>1, <3>2, <3>3, WriteQuiet
        DEF TypeInv, MarketTypeOK, Reserving, Opened
    <2>3. CASE ~Ready(q)
      BY <1>2, <2>3, SameQuiet DEF VerifyCommit
    <2> QED
      BY <2>2, <2>3
  <1>3. ASSUME NEW side \in Sides, NEW p \in Outpoints, ReportBegin(o, side, p)
        PROVE  Quiet
    BY <1>3, SameQuiet DEF ReportBegin, bookVars
  <1>4. ASSUME NEW h \in Invoices, ProbeSend(o, h) PROVE Quiet
    BY <1>4, SameQuiet DEF ProbeSend, bookVars
  <1>5. ASSUME NEW r \in probes, ProbeReceive(r) PROVE Quiet
    BY <1>5, SameQuiet DEF ProbeReceive, bookVars
  <1>6. ASSUME VerifyBegin(o) PROVE Quiet
    BY <1>6, SameQuiet DEF VerifyBegin, bookVars
  <1>7. ASSUME NEW r \in verifying, VerifyChain(r) PROVE Quiet
    BY <1>7, SameQuiet DEF VerifyChain, bookVars
  <1> QED
    BY <1>1, <1>2, <1>3, <1>4, <1>5, <1>6, <1>7 DEF EvidenceStep

\* Paying and waiving fees is quiet.
LEMMA FeeQuiet ==
    ASSUME TypeInv, NEW o \in OrderIds, FeeStep(o)
    PROVE  Quiet
  <1>1. ASSUME NEW q \in OrderIds, NEW fee \in {"paid", "waived"},
               order' = [order EXCEPT ![q].feeStatus = fee]
        PROVE  Quiet
    <2>1. \A x \in OrderIds :
             /\ order'[x].status = order[x].status
             /\ order'[x].provider = order[x].provider
             /\ order'[x].feeStatus \in {"paid", "waived", order[x].feeStatus}
      BY <1>1 DEF TypeInv, MarketTypeOK, TypeOK, OrderRecs
    <2> QED
      BY <2>1 DEF Quiet, InTheWay, Unsettled
  <1>2. ASSUME NEW s \in settling, SettleCommit(s) PROVE Quiet
    <2>1. s.order \in OrderIds
      BY DEF TypeInv, MarketTypeOK, RequestTypeOK
    <2> QED
      BY <1>1, <1>2, <2>1, SameQuiet DEF SettleCommit
  <1>3. ASSUME NEW t \in FeeTxs, SettleBegin(o, t) PROVE Quiet
    BY <1>3, SameQuiet DEF SettleBegin, bookVars
  <1>4. ASSUME Waive(o) PROVE Quiet
    BY <1>1, <1>4 DEF Waive
  <1> QED
    BY <1>2, <1>3, <1>4 DEF FeeStep

\* A step of the coordinator either is quiet or creates one order.
LEMMA NextQuiet ==
    ASSUME TypeInv, [MarketNext]_vars
    PROVE  \/ Quiet
           \/ \E o \in OrderIds, id \in OfferIds, m \in Merchants,
                 c \in Capacities : Create(o, id, m, c)
  <1>1. CASE BookStep
    <2>1. ASSUME NEW n \in Nodes, Heartbeat(n) \/ Register(n) PROVE Quiet
      BY <2>1, SameQuiet DEF Heartbeat, Register
    <2>2. ASSUME OfferStep PROVE Quiet
      BY <2>2, SameQuiet DEF OfferStep, PublishBegin, PublishCommit, Disable
    <2>3. ASSUME Advance PROVE Quiet
      BY <2>3, SameQuiet DEF Advance
    <2>4. ASSUME Expire PROVE Quiet
      BY <2>4, ExpireQuiet DEF TypeInv, MarketTypeOK
    <2>5. ASSUME NEW o \in OrderIds, OrderStep(o)
          PROVE  \/ Quiet
                 \/ \E id \in OfferIds, m \in Merchants, c \in Capacities :
                       Create(o, id, m, c)
      BY <2>5, OrderQuiet DEF TypeInv, MarketTypeOK
    <2> QED
      BY <1>1, <2>1, <2>2, <2>3, <2>4, <2>5 DEF BookStep
  <1>2. ASSUME NEW o \in OrderIds, EvidenceStep(o) \/ FeeStep(o) PROVE Quiet
    BY <1>2, EvidenceQuiet, FeeQuiet
  <1>3. CASE WorldStep \/ Drop \/ MarketRestart \/ UNCHANGED vars
    BY <1>3, SameQuiet DEF WorldStep, MineBlock, FundingStep, ChannelStep,
      PayInvoice, Drop, MarketRestart, vars, bookVars
  <1> QED
    BY <1>1, <1>2, <1>3 DEF MarketNext

----------------------------------------------------------------------------
\* Every step of the marketplace keeps the type invariant.
LEMMA NextType == ASSUME TypeInv, [MarketNext]_vars PROVE TypeInv'
  <1>1. CASE BookStep /\ UNCHANGED deliveryVars
    <2>1. TypeOK'
      BY <1>1, BookType DEF TypeInv, MarketTypeOK
    <2>2. DataTypeOK' /\ RequestTypeOK' /\ WorldTypeOK'
      BY <1>1 DEF TypeInv, MarketTypeOK, DataTypeOK, RequestTypeOK, WorldTypeOK,
                  deliveryVars, orderData, requests, world
    <2>3. ReportsUsed'
      <3>1. reports' = reports /\ \A r \in reports : r.order \in OrderIds
        BY <1>1 DEF deliveryVars, requests, TypeInv, MarketTypeOK, RequestTypeOK
      <3>2. CASE Quiet
        BY <3>1, <3>2 DEF Quiet, TypeInv, ReportsUsed
      <3>3. CASE \E o \in OrderIds, id \in OfferIds, m \in Merchants,
                   c \in Capacities : Create(o, id, m, c)
        BY <3>1, <3>3 DEF Create, Unused, TypeInv, MarketTypeOK, TypeOK,
                          ReportsUsed
      <3> QED
        BY <1>1, <3>2, <3>3, NextQuiet DEF MarketNext
    <2> QED
      BY <2>1, <2>2, <2>3 DEF TypeInv, MarketTypeOK
  <1>2. ASSUME NEW o \in OrderIds, EvidenceStep(o) PROVE TypeInv'
    <2>1. ASSUME NEW side \in Sides, NEW p \in Outpoints,
                 ReportBegin(o, side, p)
          PROVE  TypeInv'
      BY <2>1, ReportBeginType
    <2>2. ASSUME NEW r \in reports, ReportCommit(r) PROVE TypeInv'
      BY <2>2, ReportCommitType
    <2> QED
      BY <1>2, <2>1, <2>2, ProbeType, VerifyType DEF EvidenceStep
  <1>3. ASSUME NEW o \in OrderIds, FeeStep(o) PROVE TypeInv'
    BY <1>3, FeeType DEF FeeStep
  <1>4. CASE WorldStep
    BY <1>4, WorldType
  <1>5. CASE Drop \/ MarketRestart
    BY <1>5, StopType
  <1>6. CASE UNCHANGED vars
    BY <1>6 DEF TypeInv, MarketTypeOK, TypeOK, DataTypeOK, RequestTypeOK,
                WorldTypeOK, ReportsUsed, vars, bookVars, deliveryVars,
                orderData, requests, world
  <1> QED
    BY <1>1, <1>2, <1>3, <1>4, <1>5, <1>6 DEF MarketNext

\* A new order is the wallet's only one in the way with its provider.
LEMMA CreateOutstanding ==
    ASSUME TypeOK, OneOutstanding, NEW o \in OrderIds, NEW id \in OfferIds,
           NEW m \in Merchants, NEW c \in Capacities, Create(o, id, m, c)
    PROVE  OneOutstanding'
  <1> DEFINE p == offer[id].provider
             new == order'[o]
  <1>1. /\ ~Outstanding(o[1], p)
        /\ order'[o].provider = p
        /\ \A q \in OrderIds \ {o} : order'[q] = order[q]
    BY DEF Create, TypeOK, NoOrder
  <1>2. \A q \in OrderIds \ {o} :
           /\ InTheWay(q)' <=> InTheWay(q)
           /\ order'[q].provider = order[q].provider
    BY <1>1 DEF InTheWay, Unsettled
  <1>3. \A q \in OrderIds \ {o} :
           q[1] = o[1] /\ order[q].provider = p => ~InTheWay(q)
    BY <1>1 DEF Outstanding, InTheWay
  <1> SUFFICES ASSUME NEW x \in OrderIds, NEW y \in OrderIds, x # y,
                      x[1] = y[1], order'[x].provider = order'[y].provider
               PROVE  ~(InTheWay(x)' /\ InTheWay(y)')
      BY DEF OneOutstanding
  <1>4. CASE x = o
    BY <1>1, <1>2, <1>3, <1>4
  <1>5. CASE y = o
    BY <1>1, <1>2, <1>3, <1>5
  <1>6. CASE x # o /\ y # o
    BY <1>2, <1>6 DEF OneOutstanding
  <1> QED
    BY <1>4, <1>5, <1>6

\* A quiet step keeps one order in the way per wallet and provider.
LEMMA QuietOutstanding ==
    ASSUME OneOutstanding, Quiet PROVE OneOutstanding'
  BY DEF OneOutstanding, Quiet

----------------------------------------------------------------------------
(***************************************************************************)
(* Theorems.                                                               *)
(***************************************************************************)
\* Whatever the wallets, nodes, connectors and chain do, every record and
\* every pending request keeps its shape, and an order in use names both the
\* provider and the merchant of its quote.
THEOREM TypesHold == MarketSpec => []MarketTypeOK
  <1>1. MarketInit => TypeInv
    BY MarketInitType
  <1>2. TypeInv /\ [MarketNext]_vars => TypeInv'
    BY NextType
  <1>3. TypeInv => MarketTypeOK
    BY DEF TypeInv
  <1> QED
    BY <1>1, <1>2, <1>3, PTL DEF MarketSpec

\* However many keys a wallet uses and however its requests interleave with
\* reports, verifications, payments, sweeps and restarts, at most one of its
\* orders with a provider is unfinished or unpaid.
THEOREM OneOutstandingHolds == MarketSpec => []OneOutstanding
  <1>1. MarketInit => TypeInv /\ OneOutstanding
    <2>1. MarketInit => OneOutstanding
      BY DEF MarketInit, Init, NoOrder, OneOutstanding, InTheWay, Unsettled,
             Reserving, Unopened, Opened
    <2> QED
      BY <2>1, MarketInitType
  <1>2. TypeInv /\ OneOutstanding /\ [MarketNext]_vars
           => TypeInv' /\ OneOutstanding'
    <2> SUFFICES ASSUME TypeInv, OneOutstanding, [MarketNext]_vars
                 PROVE  TypeInv' /\ OneOutstanding'
        OBVIOUS
    <2>1. CASE Quiet
      BY <2>1, NextType, QuietOutstanding
    <2>2. CASE \E o \in OrderIds, id \in OfferIds, m \in Merchants,
                 c \in Capacities : Create(o, id, m, c)
      BY <2>2, NextType, CreateOutstanding DEF TypeInv, MarketTypeOK
    <2> QED
      BY <2>1, <2>2, NextQuiet
  <1> QED
    BY <1>1, <1>2, PTL DEF MarketSpec

----------------------------------------------------------------------------
(***************************************************************************)
(* The delivery and its fee, however many reports, verifications and       *)
(* payments are under way at once.                                         *)
(*                                                                         *)
(* The four properties need each other: a verification relies on the       *)
(* channel an order is bound to, a receipt on what was verified, and a     *)
(* payment on the delivery being final.  Linked is their conjunction with  *)
(* what ties the records and the pending requests together.                *)
(***************************************************************************)
\* An order nobody made is bound to nothing, and a delivered one to a channel.
Fresh ==
    \A o \in OrderIds :
        /\ order[o].status = "none" =>
              /\ order[o].outpoint = None /\ order[o].channel = None
              /\ order[o].deliveredAt = None
        /\ order[o].status = "delivered" => order[o].outpoint # None
\* An observation names the channel of its funding output.
Reported == \A r \in reports : r.seen.channel = ChannelOf[r.seen.outpoint]
\* The stored observations are those that were signed, of the order's output.
Observed ==
    \A o \in OrderIds : \A s \in Sides :
        /\ attestation[o][s] = evidence[o][s]
        /\ evidence[o][s] # None =>
              evidence[o][s].outpoint = order[o].outpoint
\* Only a delivered order has a delivery.
Anchored ==
    \A o \in OrderIds : delivery[o] # None => order[o].status = "delivered"
\* A probe counts as received only when its invoice was paid.
Probed ==
    /\ \A r \in probes : r.paid => r.hash \in paid
    /\ \A o \in OrderIds : probe[o].received => probe[o].hash \in paid

Records == Fresh /\ OutpointsExclusive /\ Observed /\ Anchored
             /\ FeesExclusive /\ ReceiptProves
Pending == Reported /\ VerifiedIsDelivered
Linked == Records /\ Pending /\ Probed

LEMMA MarketInitLinked == MarketInit => Linked
  <1> SUFFICES ASSUME MarketInit PROVE Linked
      OBVIOUS
  <1>1. /\ \A o \in OrderIds : order[o] = NoOrder
        /\ reports = {} /\ probes = {} /\ verifying = {}
        /\ None \notin OrderIds /\ None \notin Outpoints /\ None \notin FeeTxs
    BY NoneAssumption, DeliveryAssumption DEF MarketInit, Init, DeliveryInit
  <1>2. Fresh /\ OutpointsExclusive /\ ReceiptProves
    BY <1>1 DEF MarketInit, DeliveryInit, Fresh, OutpointsExclusive,
                ReceiptProves, NoOrder
  <1>3. Observed /\ Anchored /\ FeesExclusive
    BY <1>1 DEF MarketInit, DeliveryInit, Observed, Anchored, FeesExclusive
  <1>4. Reported /\ VerifiedIsDelivered /\ Probed
    BY <1>1 DEF MarketInit, DeliveryInit, Reported, VerifiedIsDelivered, Probed
  <1> QED
    BY <1>2, <1>3, <1>4 DEF Linked, Records, Pending

----------------------------------------------------------------------------
(***************************************************************************)
(* What a step leaves of an order's binding: most steps leave all of it.   *)
(***************************************************************************)
Same(old, new) ==
    /\ new.outpoint = old.outpoint /\ new.channel = old.channel
    /\ new.deliveredAt = old.deliveredAt
    /\ new.status = "delivered" <=> old.status = "delivered"
    /\ new.status = "none" => old.status = "none"
Stays == \A o \in OrderIds : Same(order[o], order'[o])

LEMMA WriteStays ==
    ASSUME TypeOK, NEW o \in OrderIds, NEW rec, Same(order[o], rec),
           order' = [order EXCEPT ![o] = rec]
    PROVE  Stays
  BY DEF TypeOK, Stays, Same

LEMMA SameStays == ASSUME UNCHANGED order PROVE Stays
  BY DEF Stays, Same

LEMMA OrderStays ==
    ASSUME TypeOK, Fresh, NEW o \in OrderIds, OrderStep(o)
    PROVE  Stays
  <1>0. order[o] \in OrderRecs
    BY DEF TypeOK
  <1>1. ASSUME NEW status \in Statuses \ {"none", "delivered"},
               order[o].status # "delivered",
               order' = [order EXCEPT ![o].status = status]
        PROVE  Stays
    <2>1. order' = [order EXCEPT ![o] = [order[o] EXCEPT !.status = status]]
      BY <1>1
    <2>2. Same(order[o], [order[o] EXCEPT !.status = status])
      BY <1>0, <1>1 DEF Same, OrderRecs
    <2> QED
      BY <2>1, <2>2, WriteStays
  <1>2. ASSUME NEW id \in OfferIds, NEW m \in Merchants, NEW c \in Capacities,
               Create(o, id, m, c)
        PROVE  Stays
    <2>1. /\ order[o].status = "none"
          /\ \A x \in OrderIds \ {o} : order'[x] = order[x]
          /\ order'[o].status = "awaiting_quote"
          /\ order'[o].outpoint = None /\ order'[o].channel = None
          /\ order'[o].deliveredAt = None
      BY <1>2 DEF Create, Unused, TypeOK, NoOrder
    <2> QED
      BY <2>1 DEF Fresh, Stays, Same
  <1>3. CASE Quote(o)
    <2>1. order' = [order EXCEPT ![o] = [order[o] EXCEPT !.status = "quoted",
                                                         !.signed = TRUE]]
      BY <1>0, <1>3 DEF Quote, TypeOK, OrderRecs
    <2>2. Same(order[o], [order[o] EXCEPT !.status = "quoted",
                                          !.signed = TRUE])
      BY <1>0, <1>3 DEF Same, OrderRecs, Quote
    <2> QED
      BY <2>1, <2>2, WriteStays
  <1>4. CASE AcceptCommit(o) /\ Acceptable(o)
    <2>1. order' = [order EXCEPT ![o] = [order[o] EXCEPT !.status = "accepted",
                                                         !.proof = TRUE]]
      BY <1>0, <1>4 DEF AcceptCommit, TypeOK, OrderRecs
    <2>2. Same(order[o], [order[o] EXCEPT !.status = "accepted",
                                          !.proof = TRUE])
      BY <1>0, <1>4 DEF Same, OrderRecs, Acceptable
    <2> QED
      BY <2>1, <2>2, WriteStays
  <1>5. CASE Cancel(o)
    BY <1>1, <1>5 DEF Cancel, Unopened, Statuses, Dead
  <1>6. CASE Start(o)
    BY <1>1, <1>6 DEF Start, Statuses, Reserving, Opened
  <1>7. ASSUME NEW b \in BOOLEAN, Failure(o, b) PROVE Stays
    <2>1. PICK status \in {"failed", "reconciling"} :
             order' = [order EXCEPT ![o].status = status]
      BY <1>7 DEF Failure
    <2> QED
      BY <1>1, <1>7, <2>1 DEF Failure, Statuses, Dead, Reserving, Unopened,
                              Opened
  <1>8. CASE \/ AcceptBegin(o) \/ Abandon(o)
             \/ AcceptCommit(o) /\ ~Acceptable(o)
    BY <1>8, SameStays DEF AcceptBegin, Abandon, AcceptCommit
  <1> QED
    BY <1>2, <1>3, <1>4, <1>5, <1>6, <1>7, <1>8 DEF OrderStep

LEMMA ExpireStays == ASSUME TypeOK, Expire PROVE Stays
  <1> SUFFICES ASSUME NEW o \in OrderIds PROVE Same(order[o], order'[o])
      BY DEF Stays
  <1>1. order'[o] = Swept(order[o]) /\ order[o] \in OrderRecs
    BY DEF Expire, TypeOK
  <1>2. Swept(order[o]).status =
           IF Expired(order[o]) THEN "expired" ELSE order[o].status
    BY SweptType
  <1>3. /\ Swept(order[o]).outpoint = order[o].outpoint
        /\ Swept(order[o]).channel = order[o].channel
        /\ Swept(order[o]).deliveredAt = order[o].deliveredAt
    BY <1>1 DEF Swept, OrderRecs
  <1> QED
    BY <1>1, <1>2, <1>3 DEF Same, Expired, Unopened

LEMMA BookStays == ASSUME TypeOK, Fresh, BookStep PROVE Stays
  <1>1. ASSUME NEW n \in Nodes, Heartbeat(n) \/ Register(n) PROVE Stays
    BY <1>1, SameStays DEF Heartbeat, Register
  <1>2. ASSUME OfferStep PROVE Stays
    BY <1>2, SameStays DEF OfferStep, PublishBegin, PublishCommit, Disable
  <1>3. ASSUME Advance PROVE Stays
    BY <1>3, SameStays DEF Advance
  <1> QED
    BY <1>1, <1>2, <1>3, OrderStays, ExpireStays DEF BookStep

----------------------------------------------------------------------------
(***************************************************************************)
(* Steps that leave the stored records alone.                              *)
(***************************************************************************)
LEMMA StaysRecords ==
    ASSUME TypeInv, Records, Stays,
           UNCHANGED <<evidence, attestation, delivery, receipt, feeTx,
                       boundPoint, boundFee>>,
           \A t \in FeeTxs : chain.mined[t] # None =>
                                chain'.mined[t] = chain.mined[t],
           paid \subseteq paid',
           \A o \in OrderIds : probe[o].hash # None =>
                                  probe'[o].hash = probe[o].hash
    PROVE  Records'
  <1>1. Fresh'
    BY DEF Records, Fresh, Stays, Same
  <1>2. OutpointsExclusive'
    BY DEF Records, OutpointsExclusive, Stays, Same
  <1>3. Observed' /\ Anchored'
    BY DEF Records, Observed, Anchored, Stays, Same
  <1>4. FeesExclusive'
    <2>1. \A o \in OrderIds : feeTx[o] # None => feeTx[o] \in FeeTxs
      BY DEF TypeInv, MarketTypeOK, DataTypeOK
    <2> QED
      BY <2>1 DEF Records, FeesExclusive, Stays, Same
  <1>5. ReceiptProves'
    <2>1. None \notin paid
      BY DeliveryAssumption DEF TypeInv, MarketTypeOK, WorldTypeOK
    <2> QED
      BY <2>1 DEF Records, ReceiptProves, Stays, Same
  <1> QED
    BY <1>1, <1>2, <1>3, <1>4, <1>5 DEF Records

\* What is pending keeps its ties when the orders keep their bindings.
LEMMA StaysPending ==
    ASSUME TypeInv, Pending, Stays,
           reports' \subseteq reports, verifying' \subseteq verifying
    PROVE  Pending'
  <1>1. \A r \in verifying : r.order \in OrderIds
    BY DEF TypeInv, MarketTypeOK, RequestTypeOK
  <1> QED
    BY <1>1 DEF Pending, Reported, VerifiedIsDelivered, Stays, Same

LEMMA StaysProbed ==
    ASSUME Probed, UNCHANGED probe, probes' \subseteq probes,
           paid \subseteq paid'
    PROVE  Probed'
  BY DEF Probed

\* The book, the world, a dropped request, a restart and a stutter.
LEMMA OutsideLinked ==
    ASSUME TypeInv, Linked,
           \/ BookStep /\ UNCHANGED deliveryVars
           \/ WorldStep \/ Drop \/ MarketRestart \/ UNCHANGED vars
    PROVE  Linked'
  <1>1. Stays
    <2>1. CASE BookStep
      BY <2>1, BookStays DEF TypeInv, MarketTypeOK, Linked, Records
    <2>2. CASE WorldStep \/ Drop \/ MarketRestart \/ UNCHANGED vars
      BY <2>2, SameStays DEF WorldStep, MineBlock, FundingStep, ChannelStep,
        PayInvoice, Drop, MarketRestart, vars, bookVars
    <2> QED
      BY <2>1, <2>2
  <1>2. /\ UNCHANGED orderData
        /\ reports' \subseteq reports /\ verifying' \subseteq verifying
        /\ probes' \subseteq probes
    BY DEF WorldStep, MineBlock, FundingStep, ChannelStep, PayInvoice, Drop,
           MarketRestart, vars, deliveryVars, requests
  <1>3. /\ paid \subseteq paid'
        /\ \A t \in FeeTxs : chain.mined[t] # None =>
                                chain'.mined[t] = chain.mined[t]
    <2>1. CASE WorldStep
      <3>1. ASSUME MineBlock
            PROVE  \A t \in FeeTxs : chain.mined[t] # None =>
                                        chain'.mined[t] = chain.mined[t]
        <4>1. PICK S \in {{}} \cup {{t} : t \in {u \in FeeTxs :
                                                   chain.mined[u] = None}} :
                 chain' = [chain EXCEPT !.tip = @ + 1,
                              !.mined = [t \in FeeTxs |->
                                  IF t \in S THEN chain.tip + 1 ELSE @[t]]]
          BY <3>1 DEF MineBlock
        <4> DEFINE mined == [t \in FeeTxs |-> IF t \in S THEN chain.tip + 1
                                              ELSE chain.mined[t]]
        <4>2. chain' = [chain EXCEPT !.tip = chain.tip + 1, !.mined = mined]
          BY <4>1 DEF TypeInv, MarketTypeOK, WorldTypeOK
        <4>3. \A t \in FeeTxs : chain.mined[t] # None =>
                                   mined[t] = chain.mined[t]
          BY <4>1
        <4> HIDE DEF mined
        <4>4. chain'.mined = mined
          BY <4>2 DEF TypeInv, MarketTypeOK, WorldTypeOK
        <4> QED
          BY <4>3, <4>4
      <3>2. ASSUME NEW p \in Outpoints, FundingStep(p)
            PROVE  chain'.mined = chain.mined
        BY <3>2 DEF FundingStep, TypeInv, MarketTypeOK, WorldTypeOK
      <3>3. ASSUME NEW p \in Outpoints, ChannelStep(p) PROVE UNCHANGED chain
        BY <3>3 DEF ChannelStep
      <3>4. ASSUME NEW h \in Invoices, PayInvoice(h) PROVE UNCHANGED chain
        BY <3>4 DEF PayInvoice
      <3>5. paid \subseteq paid'
        BY <2>1 DEF WorldStep, MineBlock, FundingStep, ChannelStep, PayInvoice
      <3> QED
        BY <2>1, <3>1, <3>2, <3>3, <3>4, <3>5 DEF WorldStep
    <2>2. CASE ~WorldStep
      BY <2>2 DEF Drop, MarketRestart, vars, deliveryVars, world
    <2> QED
      BY <2>1, <2>2
  <1>4. Records'
    BY <1>1, <1>2, <1>3, StaysRecords DEF Linked, orderData
  <1>5. Pending'
    BY <1>1, <1>2, StaysPending DEF Linked
  <1>6. Probed'
    BY <1>2, <1>3, StaysProbed DEF Linked, orderData
  <1> QED
    BY <1>4, <1>5, <1>6 DEF Linked

\* Observing, posting a probe and storing it bind no order.
LEMMA ObserveLinked ==
    ASSUME TypeInv, Linked, NEW o \in OrderIds,
           \/ \E side \in Sides, p \in Outpoints : ReportBegin(o, side, p)
           \/ \E h \in Invoices : ProbeSend(o, h)
           \/ \E r \in probes : ProbeReceive(r)
    PROVE  Linked'
  <1>1. ASSUME NEW side \in Sides, NEW p \in Outpoints,
               ReportBegin(o, side, p)
        PROVE  Linked'
    <2>1. PICK claim \in SettlementClaims(p) :
             reports' = reports \cup
                {[order |-> o, side |-> side,
                  seen |-> [channel |-> ChannelOf[p], outpoint |-> p,
                            state |-> fiber[p].state,
                            balance |-> fiber[p].balance,
                            settlement |-> claim, at |-> clock]]}
      BY <1>1 DEF ReportBegin
    <2>2. UNCHANGED <<order, orderData, probes, verifying, chain, paid>>
      BY <1>1 DEF ReportBegin, bookVars, world
    <2>3. Records'
      BY <2>2, SameStays, StaysRecords DEF Linked, orderData
    <2>4. Reported' /\ VerifiedIsDelivered'
      BY <2>1, <2>2 DEF Linked, Pending, Reported, VerifiedIsDelivered
    <2>5. Probed'
      BY <2>2, StaysProbed DEF Linked, orderData
    <2> QED
      BY <2>3, <2>4, <2>5 DEF Linked, Pending
  <1>2. ASSUME NEW h \in Invoices, ProbeSend(o, h) PROVE Linked'
    <2>1. /\ probes' = probes \cup
                {[order |-> o, hash |-> h, paid |-> h \in paid, at |-> clock]}
          /\ UNCHANGED <<order, orderData, reports, verifying, chain, paid>>
      BY <1>2 DEF ProbeSend, bookVars, world
    <2>2. Records'
      BY <2>1, SameStays, StaysRecords DEF Linked, orderData
    <2>3. Pending'
      BY <2>1, SameStays, StaysPending DEF Linked
    <2>4. Probed'
      <3> DEFINE new == [order |-> o, hash |-> h, paid |-> h \in paid,
                         at |-> clock]
      <3>1. new.paid => new.hash \in paid
        OBVIOUS
      <3>2. probes' = probes \cup {new} /\ UNCHANGED <<probe, paid>>
        BY <2>1 DEF orderData
      <3> HIDE DEF new
      <3> QED
        BY <3>1, <3>2 DEF Linked, Probed
    <2> QED
      BY <2>2, <2>3, <2>4 DEF Linked
  <1>3. ASSUME NEW r \in probes, ProbeReceive(r) PROVE Linked'
    <2>1. /\ probes' = probes \ {r}
          /\ UNCHANGED <<order, evidence, attestation, delivery, receipt,
                         feeTx, boundPoint, boundFee, reports, verifying,
                         chain, paid>>
      BY <1>3 DEF ProbeReceive, bookVars, world
    <2>2. \A x \in OrderIds :
             /\ probe[x].hash # None => probe'[x].hash = probe[x].hash
             /\ probe'[x].received => probe'[x].hash \in paid
      <3>1. CASE UNCHANGED probe
        BY <3>1 DEF Linked, Probed
      <3>2. CASE /\ probe[r.order].hash \in {None, r.hash}
                 /\ probe' = [probe EXCEPT ![r.order] =
                       [hash |-> r.hash,
                        received |-> probe[r.order].received \/ r.paid]]
        <4>1. r.order \in OrderIds
          BY DEF TypeInv, MarketTypeOK, RequestTypeOK
        <4>2. None \notin paid
          BY DeliveryAssumption DEF TypeInv, MarketTypeOK, WorldTypeOK
        <4>3. r.paid => r.hash \in paid
          BY DEF Linked, Probed
        <4>4. probe[r.order].received => r.hash \in paid
          BY <3>2, <4>1, <4>2 DEF Linked, Probed
        <4>5. \A x \in OrderIds \ {r.order} : probe'[x] = probe[x]
          BY <3>2 DEF TypeInv, MarketTypeOK, DataTypeOK
        <4>6. /\ probe'[r.order].hash = r.hash
              /\ probe'[r.order].received
                    <=> probe[r.order].received \/ r.paid
          BY <3>2, <4>1 DEF TypeInv, MarketTypeOK, DataTypeOK
        <4> QED
          BY <3>2, <4>3, <4>4, <4>5, <4>6 DEF Linked, Probed
      <3> QED
        BY <1>3, <3>1, <3>2 DEF ProbeReceive
    <2>3. Records'
      BY <2>1, <2>2, SameStays, StaysRecords DEF Linked
    <2>4. Pending'
      BY <2>1, SameStays, StaysPending DEF Linked
    <2>5. Probed'
      BY <2>1, <2>2 DEF Linked, Probed
    <2> QED
      BY <2>3, <2>4, <2>5 DEF Linked
  <1> QED
    BY <1>1, <1>2, <1>3

----------------------------------------------------------------------------
(***************************************************************************)
(* The three transactions that store something, and what begins them.      *)
(***************************************************************************)
\* A report binds its order to the output it names, or finds it bound so.
LEMMA ReportLinked ==
    ASSUME TypeInv, Linked, NEW r \in reports, ReportCommit(r),
           Reportable(r.order, r.seen)
    PROVE  Linked'
  <1> DEFINE o == r.order
             p == r.seen.outpoint
             both == [evidence[o] EXCEPT ![r.side] = r.seen]
             status == StatusAfter(o, both)
  <1>1. /\ o \in OrderIds /\ r.side \in Sides /\ r.seen \in Evidence
        /\ p \in Outpoints /\ p # None /\ r.seen.channel \in Channels
        /\ order[o].status # "none" /\ order[o] \in OrderRecs
    BY NoneAssumption DEF TypeInv, MarketTypeOK, TypeOK, RequestTypeOK,
                          ReportsUsed, Evidence
  <1>2. /\ evidence' = [evidence EXCEPT ![o] = both]
        /\ attestation' = [attestation EXCEPT ![o][r.side] = r.seen]
        /\ boundPoint' = [boundPoint EXCEPT ![p] = o]
        /\ order' = [order EXCEPT ![o].channel = r.seen.channel,
                                  ![o].outpoint = p, ![o].status = status]
        /\ reports' = reports \ {r}
        /\ UNCHANGED <<probe, delivery, receipt, feeTx, boundFee, probes,
                       verifying, chain, paid>>
    BY DEF ReportCommit, world
  <1>3. /\ status \in {"delivered", "failed", "reconciling", "verifying"}
        /\ status = "delivered" <=> order[o].status = "delivered"
    BY StatusAfterType
  <1> HIDE DEF status
  <1>4. /\ order'[o].outpoint = p /\ order'[o].channel = r.seen.channel
        /\ order'[o].status = status
        /\ order'[o].deliveredAt = order[o].deliveredAt
        /\ \A x \in OrderIds \ {o} : order'[x] = order[x]
    BY <1>1, <1>2 DEF TypeInv, MarketTypeOK, TypeOK, OrderRecs
  <1>5. /\ boundPoint[p] \in {None, o} /\ order[o].outpoint \in {None, p}
        /\ r.seen.channel = ChannelOf[p]
    BY DEF Reportable, Linked, Pending, Reported
  <1>6. Fresh'
    BY <1>1, <1>3, <1>4 DEF Linked, Records, Fresh
  <1>7. OutpointsExclusive'
    <2>1. /\ boundPoint'[p] = o
          /\ \A q \in Outpoints \ {p} : boundPoint'[q] = boundPoint[q]
      BY <1>1, <1>2 DEF TypeInv, MarketTypeOK, DataTypeOK
    <2>2. None \notin OrderIds /\ None \notin Outpoints
      BY NoneAssumption
    <2>3. \A x \in OrderIds \ {o} : order[x].outpoint # p
      BY <1>1, <1>5, <2>2 DEF Linked, Records, OutpointsExclusive
    <2>4. \A q \in Outpoints \ {p} : boundPoint[q] # o
      BY <1>1, <1>5, <2>2 DEF Linked, Records, OutpointsExclusive
    <2> QED
      BY <1>1, <1>4, <1>5, <2>1, <2>3, <2>4
      DEF Linked, Records, OutpointsExclusive
  <1>8. Observed'
    <2>1. /\ evidence'[o][r.side] = r.seen
          /\ attestation'[o][r.side] = r.seen
          /\ \A s \in Sides \ {r.side} :
                /\ evidence'[o][s] = evidence[o][s]
                /\ attestation'[o][s] = attestation[o][s]
          /\ \A x \in OrderIds \ {o} : /\ evidence'[x] = evidence[x]
                                       /\ attestation'[x] = attestation[x]
      BY <1>1, <1>2 DEF TypeInv, MarketTypeOK, DataTypeOK
    <2>2. \A s \in Sides : evidence[o][s] # None =>
                              evidence[o][s].outpoint = p
      <3> SUFFICES ASSUME NEW s \in Sides, evidence[o][s] # None
                   PROVE  evidence[o][s].outpoint = p
          OBVIOUS
      <3>1. evidence[o][s] \in Evidence
        BY <1>1 DEF TypeInv, MarketTypeOK, DataTypeOK, Attested
      <3>2. evidence[o][s].outpoint # None
        BY <3>1, NoneAssumption DEF Evidence
      <3> QED
        BY <1>1, <1>5, <3>2 DEF Linked, Records, Observed
    <2> QED
      BY <1>1, <1>4, <2>1, <2>2 DEF Linked, Records, Observed
  <1>9. Anchored'
    BY <1>1, <1>2, <1>3, <1>4 DEF Linked, Records, Anchored
  <1>10. FeesExclusive'
    BY <1>1, <1>2, <1>3, <1>4 DEF Linked, Records, FeesExclusive
  <1>11. ReceiptProves'
    <2>1. order[o].status = "delivered" => order'[o].outpoint = order[o].outpoint
      BY <1>1, <1>4, <1>5 DEF Linked, Records, Fresh
    <2>2. UNCHANGED <<receipt, probe, paid>>
      BY <1>2
    <2> QED
      BY <1>3, <1>4, <2>1, <2>2 DEF Linked, Records, ReceiptProves
  <1>12. Pending'
    <2>1. \A v \in verifying : v.order \in OrderIds
      BY DEF TypeInv, MarketTypeOK, RequestTypeOK
    <2>2. \A v \in verifying : v.order = o => v.outpoint = p
      BY <1>5 DEF Linked, Pending, VerifiedIsDelivered
    <2> QED
      BY <1>2, <1>4, <2>1, <2>2
      DEF Linked, Pending, Reported, VerifiedIsDelivered
  <1>13. Probed'
    BY <1>2 DEF Linked, Probed
  <1> QED
    BY <1>6, <1>7, <1>8, <1>9, <1>10, <1>11, <1>12, <1>13 DEF Linked, Records

\* A verification that still finds the order ready delivers it.
LEMMA DeliverLinked ==
    ASSUME TypeInv, Linked, NEW r \in verifying, VerifyCommit(r),
           Ready(r.order)
    PROVE  Linked'
  <1> DEFINE o == r.order
             stored == [provider |-> attestation[o]["provider"],
                        merchant |-> attestation[o]["merchant"],
                        probe |-> probeReport[o]]
  <1>1. o \in OrderIds /\ order[o] \in OrderRecs /\ order[o].status = "verifying"
    BY DEF TypeInv, MarketTypeOK, TypeOK, RequestTypeOK, Ready
  <1>2. /\ order' = [order EXCEPT ![o].status = "delivered",
                                  ![o].feeStatus = "due",
                                  ![o].deliveredAt = clock]
        /\ delivery' = [delivery EXCEPT ![o] = r.tip]
        /\ receipt' = [receipt EXCEPT ![o] = stored]
        /\ verifying' = verifying \ {r}
        /\ UNCHANGED <<evidence, attestation, probe, feeTx, boundPoint,
                       boundFee, reports, probes, chain, paid>>
    BY DEF VerifyCommit, world
  <1>3. /\ order'[o].outpoint = order[o].outpoint
        /\ order'[o].channel = order[o].channel
        /\ order'[o].status = "delivered" /\ order'[o].deliveredAt = clock
        /\ \A x \in OrderIds \ {o} : order'[x] = order[x]
    BY <1>1, <1>2 DEF TypeInv, MarketTypeOK, TypeOK, OrderRecs
  <1>4. ASSUME NEW s \in Sides
        PROVE  /\ evidence[o][s] # None /\ attestation[o][s] = evidence[o][s]
               /\ evidence[o][s].outpoint = order[o].outpoint
               /\ evidence[o][s].outpoint # None
               /\ evidence[o][s].state = "ChannelReady"
               /\ evidence[o][s].settlement = None
               /\ Distance(clock, evidence[o][s].at) <= ObservedFor
    <2>1. evidence[o][s] # None /\ evidence[o][s].state = "ChannelReady"
          /\ evidence[o][s].settlement = None
          /\ Distance(clock, evidence[o][s].at) <= ObservedFor
      BY DEF Ready, Sides
    <2>2. evidence[o][s] \in Evidence
      BY <1>1, <2>1 DEF TypeInv, MarketTypeOK, DataTypeOK, Attested
    <2>3. evidence[o][s].outpoint # None
      BY <2>2, NoneAssumption DEF Evidence
    <2> QED
      BY <1>1, <2>1, <2>3 DEF Linked, Records, Observed
  <1>5. feeTx[o] = None /\ delivery[o] = None
    BY <1>1 DEF Linked, Records, FeesExclusive, Anchored
  <1>6. Fresh'
    BY <1>1, <1>3, <1>4 DEF Linked, Records, Fresh, Sides
  <1>7. OutpointsExclusive'
    <2>1. UNCHANGED boundPoint
      BY <1>2
    <2> QED
      BY <1>1, <1>3, <2>1 DEF Linked, Records, OutpointsExclusive
  <1>8. Observed'
    <2>1. UNCHANGED <<evidence, attestation>>
      BY <1>2
    <2> QED
      BY <1>1, <1>3, <2>1 DEF Linked, Records, Observed
  <1>9. \A x \in OrderIds \ {o} : /\ delivery'[x] = delivery[x]
                                  /\ receipt'[x] = receipt[x]
    BY <1>2 DEF TypeInv, MarketTypeOK, DataTypeOK
  <1>10. Anchored'
    BY <1>1, <1>3, <1>9 DEF Linked, Records, Anchored
  <1>11. FeesExclusive'
    BY ZenonT(30), <1>1, <1>2, <1>3, <1>5, <1>9 DEF Linked, Records, FeesExclusive
  <1>12. ReceiptProves'
    <2>1. receipt'[o] = stored
      BY <1>1, <1>2 DEF TypeInv, MarketTypeOK, DataTypeOK
    <2>2. /\ stored.provider = evidence[o]["provider"]
          /\ stored.merchant = evidence[o]["merchant"]
      BY <1>4 DEF Sides
    <2> HIDE DEF stored
    <2>3. /\ evidence[o]["provider"].balance = evidence[o]["merchant"].balance
          /\ evidence[o]["merchant"].balance \in Enough
          /\ probe[o].hash \in paid
      BY <1>1 DEF Ready, Linked, Probed
    <2>4. ASSUME NEW x \in OrderIds, order'[x].status = "delivered"
          PROVE  LET a == receipt'[x].provider
                     b == receipt'[x].merchant
                 IN  /\ a # None /\ b # None
                     /\ \A e \in {a, b} :
                           /\ e.outpoint = order'[x].outpoint
                           /\ e.state = "ChannelReady" /\ e.settlement = None
                           /\ Distance(order'[x].deliveredAt, e.at)
                                 <= ObservedFor
                     /\ a.balance = b.balance /\ b.balance \in Enough
                     /\ probe'[x].hash \in paid'
      <3>1. CASE x = o
        BY ZenonT(30), <1>2, <1>3, <1>4, <2>1, <2>2, <2>3, <3>1 DEF Sides
      <3>2. CASE x # o
        <4>1. UNCHANGED <<probe, paid>>
          BY <1>2
        <4> QED
          BY <1>3, <1>9, <2>4, <3>2, <4>1 DEF Linked, Records, ReceiptProves
      <3> QED
        BY <3>1, <3>2
    <2> QED
      BY <2>4 DEF ReceiptProves
  <1>13. Pending'
    <2>1. \A v \in verifying : v.order \in OrderIds
      BY DEF TypeInv, MarketTypeOK, RequestTypeOK
    <2> QED
      BY <1>2, <1>3, <2>1 DEF Linked, Pending, Reported, VerifiedIsDelivered
  <1>14. Probed'
    BY <1>2 DEF Linked, Probed
  <1> QED
    BY <1>6, <1>7, <1>8, <1>10, <1>11, <1>12, <1>13, <1>14 DEF Linked, Records

LEMMA VerifyLinked ==
    ASSUME TypeInv, Linked, NEW o \in OrderIds,
           VerifyBegin(o) \/ \E r \in verifying : VerifyChain(r) \/ VerifyCommit(r)
    PROVE  Linked'
  <1>1. ASSUME UNCHANGED <<order, orderData, reports, probes, chain, paid>>,
               VerifiedIsDelivered'
        PROVE  Linked'
    <2>1. Records'
      BY <1>1, SameStays, StaysRecords DEF Linked, orderData
    <2>2. Reported'
      BY <1>1 DEF Linked, Pending, Reported
    <2>3. Probed'
      BY <1>1 DEF Linked, Probed, orderData
    <2> QED
      BY <1>1, <2>1, <2>2, <2>3 DEF Linked, Pending
  <1>2. CASE VerifyBegin(o)
    <2>1. evidence[o]["provider"] # None /\ evidence[o]["provider"] \in Evidence
      BY <1>2 DEF VerifyBegin, Ready, TypeInv, MarketTypeOK, DataTypeOK,
                  Attested, Sides
    <2>2. order[o].outpoint # None
      BY <2>1, NoneAssumption DEF Evidence, Linked, Records, Observed, Sides
    <2>3. VerifiedIsDelivered'
      BY <1>2, <2>2 DEF VerifyBegin, bookVars, Linked, Pending,
                        VerifiedIsDelivered
    <2> QED
      BY <1>1, <1>2, <2>3 DEF VerifyBegin, bookVars, world
  <1>3. ASSUME NEW r \in verifying, VerifyChain(r) PROVE Linked'
    <2>1. r \in [order : OrderIds, outpoint : Outpoints \cup {None},
                 tip : Nat \cup {None}]
      BY DEF TypeInv, MarketTypeOK, RequestTypeOK
    <2>2. /\ [r EXCEPT !.tip = chain.tip].order = r.order
          /\ [r EXCEPT !.tip = chain.tip].outpoint = r.outpoint
      BY <2>1
    <2>3. VerifiedIsDelivered'
      BY ZenonT(30), <1>3, <2>2 DEF VerifyChain, bookVars, Linked, Pending,
                        VerifiedIsDelivered
    <2> QED
      BY <1>1, <1>3, <2>3 DEF VerifyChain, bookVars, world
  <1>4. ASSUME NEW r \in verifying, VerifyCommit(r), ~Ready(r.order)
        PROVE  Linked'
    <2>1. UNCHANGED <<order, orderData, reports, probes, chain, paid>>
      BY <1>4 DEF VerifyCommit, orderData, world
    <2>2. VerifiedIsDelivered'
      BY <1>4, <2>1 DEF VerifyCommit, Linked, Pending, VerifiedIsDelivered
    <2> QED
      BY <1>1, <2>1, <2>2
  <1> QED
    BY <1>2, <1>3, <1>4, DeliverLinked

\* A refused report changes nothing but the requests.
LEMMA RefusedLinked ==
    ASSUME TypeInv, Linked, NEW r \in reports, ReportCommit(r),
           ~Reportable(r.order, r.seen)
    PROVE  Linked'
  <1>1. UNCHANGED <<order, orderData, probes, verifying, chain, paid>>
    BY DEF ReportCommit, orderData, world
  <1>2. reports' = reports \ {r}
    BY DEF ReportCommit
  <1>3. Records'
    BY <1>1, SameStays, StaysRecords DEF Linked, orderData
  <1>4. Pending'
    BY <1>1, <1>2, SameStays, StaysPending DEF Linked
  <1>5. Probed'
    BY <1>1 DEF Linked, Probed, orderData
  <1> QED
    BY <1>3, <1>4, <1>5 DEF Linked

\* A payment is credited to a delivered order, and moves nothing else.
LEMMA FeeLinked ==
    ASSUME TypeInv, Linked, NEW o \in OrderIds, FeeStep(o)
    PROVE  Linked'
  <1>1. ASSUME NEW x \in OrderIds, NEW fee,
               order' = [order EXCEPT ![x].feeStatus = fee]
        PROVE  Stays
    <2>1. order' = [order EXCEPT ![x] = [order[x] EXCEPT !.feeStatus = fee]]
      BY <1>1
    <2>2. Same(order[x], [order[x] EXCEPT !.feeStatus = fee])
      BY DEF TypeInv, MarketTypeOK, TypeOK, OrderRecs, Same
    <2> QED
      BY <2>1, <2>2, WriteStays DEF TypeInv, MarketTypeOK
  <1>2. ASSUME Stays, UNCHANGED <<orderData, reports, probes, verifying,
                                  chain, paid>>
        PROVE  Linked'
    <2>1. Records'
      BY <1>2, StaysRecords DEF Linked, orderData
    <2>2. Pending'
      BY <1>2, StaysPending DEF Linked
    <2>3. Probed'
      BY <1>2 DEF Linked, Probed, orderData
    <2> QED
      BY <2>1, <2>2, <2>3 DEF Linked
  <1>3. CASE Waive(o)
    BY <1>1, <1>2, <1>3 DEF Waive, requests, world
  <1>4. ASSUME NEW t \in FeeTxs, SettleBegin(o, t) PROVE Linked'
    BY <1>2, <1>4, SameStays DEF SettleBegin, bookVars, world
  <1>5. ASSUME NEW s \in settling, SettleCommit(s) PROVE Linked'
    <2> DEFINE x == s.order
               t == s.tx
    <2>1. x \in OrderIds /\ t \in FeeTxs /\ FeeVerified(x, t) /\ t # None
      BY <1>5, DeliveryAssumption
      DEF SettleCommit, TypeInv, MarketTypeOK, RequestTypeOK
    <2>2. CASE ~Creditable(x, t)
      BY <1>2, <1>5, <2>2, SameStays DEF SettleCommit, orderData, world
    <2>3. CASE Creditable(x, t)
      <3>1. /\ boundFee' = [boundFee EXCEPT ![t] = x]
            /\ feeTx' = [feeTx EXCEPT ![x] = t]
            /\ order' = [order EXCEPT ![x].feeStatus = "paid"]
            /\ UNCHANGED <<evidence, attestation, probe, delivery, receipt,
                           boundPoint, reports, probes, verifying, chain,
                           paid>>
        BY <1>5, <2>3 DEF SettleCommit, world
      <3>2. Stays
        BY <1>1, <2>1, <3>1
      <3>3. Fresh' /\ OutpointsExclusive' /\ Observed' /\ Anchored'
        BY <3>1, <3>2 DEF Linked, Records, Fresh, OutpointsExclusive,
                          Observed, Anchored, Stays, Same
      <3>4. FeesExclusive'
        <4>1. /\ boundFee'[t] = x /\ feeTx'[x] = t
              /\ \A u \in FeeTxs \ {t} : boundFee'[u] = boundFee[u]
              /\ \A y \in OrderIds \ {x} : feeTx'[y] = feeTx[y]
          BY <2>1, <3>1 DEF TypeInv, MarketTypeOK, DataTypeOK
        <4>2. None \notin OrderIds /\ None \notin FeeTxs
          BY NoneAssumption, DeliveryAssumption
        <4>3. /\ \A y \in OrderIds \ {x} : feeTx[y] # t
              /\ \A u \in FeeTxs \ {t} : boundFee[u] # x
          BY <2>1, <2>3, <4>2 DEF Creditable, Linked, Records, FeesExclusive
        <4>4. /\ order[x].status = "delivered"
              /\ chain.mined[t] # None /\ chain.mined[t] > delivery[x]
          BY <2>1 DEF FeeVerified, Linked, Records, Anchored
        <4>5. \A y \in OrderIds : order[y].status = "delivered" =>
                                     order'[y].status = "delivered"
          BY <3>2 DEF Stays, Same
        <4> QED
          BY <2>1, <3>1, <4>1, <4>3, <4>4, <4>5
          DEF Linked, Records, FeesExclusive
      <3>5. ReceiptProves'
        BY <3>1, <3>2 DEF Linked, Records, ReceiptProves, Stays, Same
      <3>6. Pending'
        BY <3>1, <3>2, StaysPending DEF Linked
      <3>7. Probed'
        BY <3>1 DEF Linked, Probed
      <3> QED
        BY <3>3, <3>4, <3>5, <3>6, <3>7 DEF Linked, Records
    <2> QED
      BY <2>2, <2>3
  <1> QED
    BY <1>3, <1>4, <1>5 DEF FeeStep

LEMMA NextLinked ==
    ASSUME TypeInv, Linked, [MarketNext]_vars PROVE Linked'
  <1>1. ASSUME NEW o \in OrderIds, EvidenceStep(o) PROVE Linked'
    BY <1>1, ObserveLinked, ReportLinked, RefusedLinked, VerifyLinked
    DEF EvidenceStep
  <1>2. ASSUME NEW o \in OrderIds, FeeStep(o) PROVE Linked'
    BY <1>2, FeeLinked
  <1> QED
    BY <1>1, <1>2, OutsideLinked DEF MarketNext

LEMMA SpecLinked == MarketSpec => []Linked
  <1>1. MarketInit => TypeInv /\ Linked
    BY MarketInitType, MarketInitLinked
  <1>2. TypeInv /\ Linked /\ [MarketNext]_vars => TypeInv' /\ Linked'
    BY NextType, NextLinked
  <1> QED
    BY <1>1, <1>2, PTL DEF MarketSpec

----------------------------------------------------------------------------
(***************************************************************************)
(* Theorems.                                                               *)
(***************************************************************************)
\* However many reports of however many orders are under way, a funding output
\* serves one order, and the table of used references says which
\* (evidence::report, db::bind_outpoint).
THEOREM OutpointsExclusiveHolds == MarketSpec => []OutpointsExclusive
  <1>1. Linked => OutpointsExclusive
    BY DEF Linked, Records
  <1> QED
    BY <1>1, SpecLinked, PTL

\* However many payments are verified at once, a fee transaction pays one order
\* and an order is paid once, after its delivery (payments::settle).
THEOREM FeesExclusiveHolds == MarketSpec => []FeesExclusive
  <1>1. Linked => FeesExclusive
    BY DEF Linked, Records
  <1> QED
    BY <1>1, SpecLinked, PTL

\* The output a verification found live is the order's when it is delivered
\* (evidence::verify_delivery).
THEOREM VerifiedIsDeliveredHolds == MarketSpec => []VerifiedIsDelivered
  <1>1. Linked => VerifiedIsDelivered
    BY DEF Linked, Pending
  <1> QED
    BY <1>1, SpecLinked, PTL

\* A receipt proves its delivery, at the delivery and ever after
\* (evidence::verify_delivery, receipts::save).
THEOREM ReceiptProvesHolds == MarketSpec => []ReceiptProves
  <1>1. Linked => ReceiptProves
    BY DEF Linked, Records
  <1> QED
    BY <1>1, SpecLinked, PTL

----------------------------------------------------------------------------
(***************************************************************************)
(* The life of an order: what any step of the coordinator may make of an   *)
(* order, and what follows from it, for its terms, its deadline, the       *)
(* provider's funds, the release of a claimed order, and the promise of    *)
(* OrderPromise.                                                           *)
(***************************************************************************)

(***************************************************************************)
(* What ties an order's status to the rest of the state.                   *)
(***************************************************************************)
\* A fee is owed for what is delivered, and a paid one was credited.
Billed ==
    \A o \in OrderIds :
        /\ order[o].status = "delivered" <=> order[o].feeStatus # "not_due"
        /\ order[o].feeStatus = "paid" => feeTx[o] # None
\* An order whose opening nobody claimed has no channel.
Unbound ==
    \A o \in OrderIds :
        order[o].status \in Unopened => /\ order[o].outpoint = None
                                        /\ order[o].channel = None
\* An observation under way is of an order whose opening was claimed.
Claimed ==
    \A r \in reports : order[r.order].status \notin Unopened
\* A connector claims a settlement only when the chain shows it.
Settled(seen) == seen.settlement = "confirmed" =>
                     chain.funding[seen.outpoint] = "settled"
SettledSeen ==
    /\ \A r \in reports : Settled(r.seen)
    /\ \A o \in OrderIds : \A s \in Sides :
          evidence[o][s] # None => Settled(evidence[o][s])

Ruled == Billed /\ Unbound /\ Claimed /\ SettledSeen /\ ReleaseIsSettled

(***************************************************************************)
(* What a step may make of an order.                                       *)
(***************************************************************************)
SameTerms(old, new) ==
    /\ new.provider = old.provider /\ new.merchant = old.merchant
    /\ new.capacity = old.capacity /\ new.funding = old.funding
    /\ new.fee = old.fee /\ new.expires = old.expires
SameChannel(old, new) ==
    new.outpoint = old.outpoint /\ new.channel = old.channel
SameBill(old, new) ==
    new.feeStatus = old.feeStatus /\ new.deliveredAt = old.deliveredAt

\* A change of status that concerns neither the channel nor the fee.
Turn(old, new) ==
    \/ new.status = old.status
    \/ old.status = "awaiting_quote" /\ new.status = "quoted"
    \/ old.status = "quoted" /\ new.status = "accepted" /\ clock < old.expires
    \/ /\ old.status = "accepted" /\ new.status = "opening"
       /\ clock < old.expires /\ old.signed /\ old.proof
    \/ old.status \in Unopened /\ new.status \in Dead
    \/ old.status \in Reserving /\ new.status = "reconciling"
\* What both observations make of a claimed order.
Judge(old, new) ==
    /\ old.status \in Opened
    /\ new.status \in {"failed", "reconciling", "verifying"}
    /\ new.status = "failed" => chain.funding[new.outpoint] = "settled"
Deliver(old, new) ==
    /\ old.status = "verifying" /\ new.status = "delivered"
    /\ new.feeStatus = "due"
Bill(old, new) ==
    /\ old.status = "delivered" /\ new.status = "delivered"
    /\ new.deliveredAt = old.deliveredAt
    /\ \/ old.feeStatus = "due" /\ new.feeStatus = "overdue"
       \/ old.feeStatus # "paid" /\ new.feeStatus = "waived"
       \/ new.feeStatus = "paid" /\ \E s \in settling : SettleCommit(s)

Life(old, new) ==
    /\ SameTerms(old, new)
    /\ \/ Turn(old, new) /\ SameChannel(old, new) /\ SameBill(old, new)
       \/ Judge(old, new) /\ SameBill(old, new)
       \/ Deliver(old, new) /\ SameChannel(old, new)
       \/ Bill(old, new) /\ SameChannel(old, new)
Lives == \A o \in OrderIds : Life(order[o], order'[o])
Created == \E o \in OrderIds, id \in OfferIds, m \in Merchants,
              c \in Capacities : Create(o, id, m, c)

LEMMA WriteLives ==
    ASSUME TypeOK, NEW o \in OrderIds, NEW rec, Life(order[o], rec),
           order' = [order EXCEPT ![o] = rec]
    PROVE  Lives
  <1> SUFFICES ASSUME NEW x \in OrderIds PROVE Life(order[x], order'[x])
      BY DEF Lives
  <1>1. order'[x] = IF x = o THEN rec ELSE order[x]
    BY DEF TypeOK
  <1>2. Life(order[x], order[x])
    BY DEF Life, SameTerms, Turn, SameChannel, SameBill
  <1> QED
    BY <1>1, <1>2

LEMMA SameLives == ASSUME UNCHANGED order PROVE Lives
  BY DEF Lives, Life, SameTerms, Turn, SameChannel, SameBill

LEMMA OrderLives ==
    ASSUME TypeOK, NEW o \in OrderIds, OrderStep(o)
    PROVE  Lives \/ Created
  <1>0. order[o] \in OrderRecs
    BY DEF TypeOK
  <1>1. ASSUME NEW status, order' = [order EXCEPT ![o].status = status],
               \/ order[o].status \in Unopened /\ status \in Dead
               \/ order[o].status \in Reserving /\ status = "reconciling"
               \/ /\ order[o].status = "accepted" /\ status = "opening"
                  /\ clock < order[o].expires
                  /\ order[o].signed /\ order[o].proof
        PROVE  Lives
    <2> DEFINE new == [order[o] EXCEPT !.status = status]
    <2>1. order' = [order EXCEPT ![o] = new]
      BY <1>1
    <2>2. /\ SameTerms(order[o], new) /\ SameChannel(order[o], new)
          /\ SameBill(order[o], new) /\ new.status = status
      BY <1>0 DEF OrderRecs, SameTerms, SameChannel, SameBill
    <2> HIDE DEF new
    <2> QED
      BY <1>1, <2>1, <2>2, WriteLives DEF Life, Turn
  <1>2. CASE Quote(o)
    <2> DEFINE new == [order[o] EXCEPT !.status = "quoted", !.signed = TRUE]
    <2>1. order' = [order EXCEPT ![o] = new]
      BY <1>0, <1>2 DEF Quote, TypeOK, OrderRecs
    <2>2. Life(order[o], new)
      BY <1>0, <1>2 DEF Quote, OrderRecs, Life, Turn, SameTerms, SameChannel,
                        SameBill
    <2> QED
      BY <2>1, <2>2, WriteLives
  <1>3. CASE AcceptCommit(o) /\ Acceptable(o)
    <2> DEFINE new == [order[o] EXCEPT !.status = "accepted", !.proof = TRUE]
    <2>1. order' = [order EXCEPT ![o] = new]
      BY <1>0, <1>3 DEF AcceptCommit, TypeOK, OrderRecs
    <2>2. clock < order[o].expires
      BY <1>0, <1>3 DEF Acceptable, TypeOK, OrderRecs
    <2>3. Life(order[o], new)
      BY <1>0, <1>3, <2>2 DEF Acceptable, OrderRecs, Life, Turn, SameTerms,
                              SameChannel, SameBill
    <2> QED
      BY <2>1, <2>3, WriteLives
  <1>4. CASE Cancel(o)
    BY <1>1, <1>4 DEF Cancel, Dead
  <1>5. CASE Start(o)
    <2>1. clock < order[o].expires
      BY <1>0, <1>5 DEF Start, TypeOK, OrderRecs
    <2> QED
      BY <1>1, <1>5, <2>1 DEF Start
  <1>6. ASSUME NEW b \in BOOLEAN, Failure(o, b) PROVE Lives
    <2>1. PICK status :
             /\ order' = [order EXCEPT ![o].status = status]
             /\ \/ order[o].status \in Unopened /\ status = "failed"
                \/ order[o].status \in Reserving /\ status = "reconciling"
      BY <1>6 DEF Failure
    <2> QED
      BY <1>1, <2>1 DEF Dead
  <1>7. CASE \/ AcceptBegin(o) \/ Abandon(o)
             \/ AcceptCommit(o) /\ ~Acceptable(o)
    BY <1>7, SameLives DEF AcceptBegin, Abandon, AcceptCommit
  <1> QED
    BY <1>2, <1>3, <1>4, <1>5, <1>6, <1>7 DEF OrderStep, Created

\* The sweep either releases an order or marks its fee overdue: never both.
LEMMA ExpireLives == ASSUME TypeOK, Billed, Expire PROVE Lives
  <1> SUFFICES ASSUME NEW o \in OrderIds PROVE Life(order[o], order'[o])
      BY DEF Lives
  <1> DEFINE status == IF Expired(order[o]) THEN "expired" ELSE order[o].status
             fee == IF Overdue(order[o]) THEN "overdue" ELSE order[o].feeStatus
             new == [order[o] EXCEPT !.status = status, !.feeStatus = fee]
  <1>1. order[o] \in OrderRecs
    BY DEF TypeOK
  <1>2. order'[o] = new
    BY <1>1 DEF Expire, Swept, OrderRecs
  <1> HIDE DEF status, fee
  <1>3. /\ SameTerms(order[o], new) /\ SameChannel(order[o], new)
        /\ new.deliveredAt = order[o].deliveredAt
        /\ new.status = status /\ new.feeStatus = fee
    BY <1>1 DEF OrderRecs, SameTerms, SameChannel
  <1> HIDE DEF new
  <1>4. Overdue(order[o]) =>
           order[o].status = "delivered" /\ order[o].feeStatus = "due"
    BY DEF Overdue, Billed
  <1>5. Expired(order[o]) => order[o].status \in Unopened
    BY DEF Expired
  <1>6. CASE Overdue(order[o])
    BY <1>2, <1>3, <1>4, <1>5, <1>6 DEF status, fee, Life, Bill, Unopened
  <1>7. CASE ~Overdue(order[o])
    BY <1>2, <1>3, <1>5, <1>7 DEF status, fee, Life, Turn, SameBill, Dead
  <1> QED
    BY <1>6, <1>7

\* A report that is taken judges a claimed order, or leaves a delivered one.
LEMMA ReportLives ==
    ASSUME TypeInv, Linked, Ruled, NEW r \in reports, ReportCommit(r)
    PROVE  Lives
  <1> DEFINE o == r.order
             both == [evidence[o] EXCEPT ![r.side] = r.seen]
             status == StatusAfter(o, both)
             new == [order[o] EXCEPT !.channel = r.seen.channel,
                                     !.outpoint = r.seen.outpoint,
                                     !.status = status]
  <1>1. /\ o \in OrderIds /\ order[o] \in OrderRecs
        /\ order[o].status \notin Unopened \cup {"none"}
    BY DEF TypeInv, MarketTypeOK, TypeOK, RequestTypeOK, ReportsUsed, Ruled,
           Claimed
  <1>2. CASE ~Reportable(o, r.seen)
    BY <1>2, SameLives DEF ReportCommit
  <1>3. CASE Reportable(o, r.seen)
    <2>1. order' = [order EXCEPT ![o].channel = r.seen.channel,
                                 ![o].outpoint = r.seen.outpoint,
                                 ![o].status = status]
      BY <1>3 DEF ReportCommit
    <2>2. /\ status \in {"delivered", "failed", "reconciling", "verifying"}
          /\ status = "delivered" <=> order[o].status = "delivered"
      BY StatusAfterType
    <2>3. order[o].status \in Opened \cup {"delivered"}
      BY <1>1, <1>3 DEF Reportable, OrderRecs, Statuses, Reserving
    <2>4. order[o].status = "delivered" =>
             /\ r.seen.outpoint = order[o].outpoint
             /\ r.seen.channel = order[o].channel
      BY <1>1, <1>3 DEF Reportable, Linked, Records, Fresh, Pending, Reported,
                        OutpointsExclusive
    <2>5. status = "failed" => chain.funding[r.seen.outpoint] = "settled"
      <3> SUFFICES ASSUME status = "failed"
                   PROVE  chain.funding[r.seen.outpoint] = "settled"
          OBVIOUS
      <3>1. PICK s \in Sides : /\ both[s] # None
                               /\ both[s].settlement = "confirmed"
        BY DEF StatusAfter, Judged
      <3>2. /\ r.side \in Sides /\ Settled(r.seen)
            /\ evidence[o] \in [Sides -> Attested]
        BY <1>1 DEF TypeInv, MarketTypeOK, RequestTypeOK, DataTypeOK, Ruled,
                    SettledSeen
      <3>3. CASE s = r.side
        BY <3>1, <3>2, <3>3 DEF Settled
      <3>4. CASE s # r.side
        <4>1. evidence[o][s] = both[s] /\ evidence[o][s] \in Evidence
          BY <3>1, <3>2, <3>4 DEF Attested
        <4>2. Settled(evidence[o][s])
          BY <1>1, <3>1, <4>1 DEF Ruled, SettledSeen
        <4>3. /\ evidence[o][s].outpoint = order[o].outpoint
              /\ evidence[o][s].outpoint # None
          BY <1>1, <3>1, <4>1, NoneAssumption
          DEF Evidence, Linked, Records, Observed
        <4>4. r.seen.outpoint = evidence[o][s].outpoint
          BY <1>3, <4>3 DEF Reportable
        <4> QED
          BY <3>1, <4>1, <4>2, <4>4 DEF Settled
      <3> QED
        BY <3>3, <3>4
    <2> HIDE DEF status
    <2>6. order' = [order EXCEPT ![o] = new]
      BY <1>1, <2>1 DEF TypeInv, MarketTypeOK, TypeOK, OrderRecs
    <2>7. /\ SameTerms(order[o], new) /\ SameBill(order[o], new)
          /\ new.status = status /\ new.channel = r.seen.channel
          /\ new.outpoint = r.seen.outpoint
      BY <1>1 DEF OrderRecs, SameTerms, SameBill
    <2> HIDE DEF new
    <2>8. Life(order[o], new)
      <3>1. CASE order[o].status = "delivered"
        BY <2>2, <2>4, <2>7, <3>1 DEF Life, Turn, SameChannel
      <3>2. CASE order[o].status # "delivered"
        BY <2>2, <2>3, <2>7, <2>5, <3>2 DEF Life, Judge
      <3> QED
        BY <3>1, <3>2
    <2> QED
      BY <1>1, <2>6, <2>8, WriteLives DEF TypeInv, MarketTypeOK
  <1> QED
    BY <1>2, <1>3

LEMMA DeliverLives ==
    ASSUME TypeInv, NEW r \in verifying, VerifyCommit(r)
    PROVE  Lives
  <1> DEFINE o == r.order
             new == [order[o] EXCEPT !.status = "delivered",
                                     !.feeStatus = "due",
                                     !.deliveredAt = clock]
  <1>1. o \in OrderIds /\ order[o] \in OrderRecs
    BY DEF TypeInv, MarketTypeOK, TypeOK, RequestTypeOK
  <1>2. CASE ~Ready(o)
    BY <1>2, SameLives DEF VerifyCommit
  <1>3. CASE Ready(o)
    <2>1. order' = [order EXCEPT ![o].status = "delivered",
                                 ![o].feeStatus = "due",
                                 ![o].deliveredAt = clock]
      BY <1>3 DEF VerifyCommit
    <2>2. order' = [order EXCEPT ![o] = new]
      BY <1>1, <2>1 DEF TypeInv, MarketTypeOK, TypeOK, OrderRecs
    <2>3. Life(order[o], new)
      BY <1>1, <1>3 DEF Ready, OrderRecs, Life, Deliver, SameTerms, SameChannel
    <2> QED
      BY <1>1, <2>2, <2>3, WriteLives DEF TypeInv, MarketTypeOK
  <1> QED
    BY <1>2, <1>3

\* Only the fee of a delivered order is paid or waived.
LEMMA FeeLives ==
    ASSUME TypeInv, Linked, NEW o \in OrderIds, FeeStep(o)
    PROVE  Lives
  <1>1. ASSUME NEW x \in OrderIds, NEW fee, order[x].status = "delivered",
               order' = [order EXCEPT ![x].feeStatus = fee],
               \/ order[x].feeStatus # "paid" /\ fee = "waived"
               \/ fee = "paid" /\ \E s \in settling : SettleCommit(s)
        PROVE  Lives
    <2> DEFINE new == [order[x] EXCEPT !.feeStatus = fee]
    <2>1. order' = [order EXCEPT ![x] = new]
      BY <1>1
    <2>2. order[x] \in OrderRecs
      BY DEF TypeInv, MarketTypeOK, TypeOK
    <2>3. Life(order[x], new)
      BY <1>1, <2>2 DEF OrderRecs, Life, Bill, SameTerms, SameChannel
    <2> QED
      BY <2>1, <2>3, WriteLives DEF TypeInv, MarketTypeOK
  <1>2. CASE Waive(o)
    BY <1>1, <1>2 DEF Waive
  <1>3. ASSUME NEW t \in FeeTxs, SettleBegin(o, t) PROVE Lives
    BY <1>3, SameLives DEF SettleBegin, bookVars
  <1>4. ASSUME NEW s \in settling, SettleCommit(s) PROVE Lives
    <2>1. CASE ~Creditable(s.order, s.tx)
      BY <1>4, <2>1, SameLives DEF SettleCommit
    <2>2. CASE Creditable(s.order, s.tx)
      <3>1. s.order \in OrderIds /\ order[s.order].status = "delivered"
        BY <1>4 DEF SettleCommit, FeeVerified, Linked, Records, Anchored,
                    TypeInv, MarketTypeOK, RequestTypeOK
      <3>2. order' = [order EXCEPT ![s.order].feeStatus = "paid"]
        BY <1>4, <2>2 DEF SettleCommit
      <3> QED
        BY <1>1, <1>4, <3>1, <3>2
    <2> QED
      BY <2>1, <2>2
  <1> QED
    BY <1>2, <1>3, <1>4 DEF FeeStep

\* A step creates one order, or makes of each order what Life allows.
LEMMA NextLives ==
    ASSUME TypeInv, Linked, Ruled, [MarketNext]_vars
    PROVE  Lives \/ Created
  <1>1. CASE BookStep
    <2>1. ASSUME NEW n \in Nodes, Heartbeat(n) \/ Register(n) PROVE Lives
      BY <2>1, SameLives DEF Heartbeat, Register
    <2>2. ASSUME OfferStep PROVE Lives
      BY <2>2, SameLives DEF OfferStep, PublishBegin, PublishCommit, Disable
    <2>3. ASSUME Advance PROVE Lives
      BY <2>3, SameLives DEF Advance
    <2> QED
      BY <1>1, <2>1, <2>2, <2>3, OrderLives, ExpireLives
      DEF BookStep, TypeInv, MarketTypeOK, Ruled
  <1>2. ASSUME NEW o \in OrderIds, EvidenceStep(o) PROVE Lives
    <2>1. ASSUME NEW side \in Sides, NEW p \in Outpoints,
                 ReportBegin(o, side, p)
          PROVE  Lives
      BY <2>1, SameLives DEF ReportBegin, bookVars
    <2>2. ASSUME NEW h \in Invoices, ProbeSend(o, h) PROVE Lives
      BY <2>2, SameLives DEF ProbeSend, bookVars
    <2>3. ASSUME NEW r \in probes, ProbeReceive(r) PROVE Lives
      BY <2>3, SameLives DEF ProbeReceive, bookVars
    <2>4. ASSUME VerifyBegin(o) \/ \E r \in verifying : VerifyChain(r)
          PROVE  Lives
      BY <2>4, SameLives DEF VerifyBegin, VerifyChain, bookVars
    <2> QED
      BY <1>2, <2>1, <2>2, <2>3, <2>4, ReportLives, DeliverLives
      DEF EvidenceStep, Ruled
  <1>3. CASE WorldStep \/ Drop \/ MarketRestart \/ UNCHANGED vars
    BY <1>3, SameLives DEF WorldStep, MineBlock, FundingStep, ChannelStep,
      PayInvoice, Drop, MarketRestart, vars, bookVars
  <1> QED
    BY <1>1, <1>2, <1>3, FeeLives DEF MarketNext

----------------------------------------------------------------------------
(***************************************************************************)
(* Ruled is kept by every step.                                            *)
(***************************************************************************)
LEMMA MarketInitRuled == MarketInit => Ruled
  <1> SUFFICES ASSUME MarketInit PROVE Ruled
      OBVIOUS
  <1>1. /\ \A o \in OrderIds : order[o] = NoOrder
        /\ reports = {} /\ evidence = [o \in OrderIds |-> [s \in Sides |-> None]]
    BY DEF MarketInit, Init, DeliveryInit
  <1> QED
    BY <1>1 DEF Ruled, Billed, Unbound, Claimed, SettledSeen,
                ReleaseIsSettled, NoOrder, Dead, Unopened

\* A new order, and the others as they were.
LEMMA CreateNew ==
    ASSUME TypeOK, NEW o \in OrderIds, NEW id \in OfferIds,
           NEW m \in Merchants, NEW c \in Capacities, Create(o, id, m, c)
    PROVE  /\ order[o].status = "none"
           /\ order'[o].status = "awaiting_quote"
           /\ order'[o].outpoint = None /\ order'[o].channel = None
           /\ order'[o].feeStatus = "not_due"
           /\ order'[o].provider = offer[id].provider
           /\ order'[o].funding = c + node[offer[id].provider].reserve + 1
           /\ \A x \in OrderIds \ {o} : order'[x] = order[x]
  BY DEF Create, Unused, TypeOK, NoOrder

\* What a step does to the fee transaction credited to an order.
LEMMA NextCredit ==
    ASSUME TypeInv, Linked, [MarketNext]_vars, NEW o \in OrderIds
    PROVE  /\ feeTx'[o] = feeTx[o] \/ (feeTx'[o] # None /\ feeTx[o] = None)
           /\ \A s \in settling : SettleCommit(s) =>
                 order'[o] = order[o] \/ feeTx'[o] # None
  <1>1. ASSUME NEW s \in settling, SettleCommit(s)
        PROVE  /\ feeTx'[o] = feeTx[o] \/ (feeTx'[o] # None /\ feeTx[o] = None)
               /\ order'[o] = order[o] \/ feeTx'[o] # None
    <2>1. /\ s.order \in OrderIds /\ s.tx # None
          /\ feeTx \in [OrderIds -> FeeTxs \cup {None}]
      BY DeliveryAssumption DEF TypeInv, MarketTypeOK, RequestTypeOK, DataTypeOK
    <2>2. CASE ~Creditable(s.order, s.tx)
      BY <1>1, <2>2 DEF SettleCommit
    <2>3. CASE Creditable(s.order, s.tx)
      <3>1. /\ feeTx' = [feeTx EXCEPT ![s.order] = s.tx]
            /\ order' = [order EXCEPT ![s.order].feeStatus = "paid"]
        BY <1>1, <2>3 DEF SettleCommit
      <3>2. feeTx[s.order] \in {None, s.tx}
        BY <2>3 DEF Creditable
      <3>3. CASE o = s.order
        BY <2>1, <3>1, <3>2, <3>3
      <3>4. CASE o # s.order
        BY <2>1, <3>1, <3>4 DEF TypeInv, MarketTypeOK, TypeOK
      <3> QED
        BY <3>3, <3>4
    <2> QED
      BY <2>2, <2>3
  <1>2. UNCHANGED feeTx \/ \E s \in settling : SettleCommit(s)
    <2>1. ASSUME NEW x \in OrderIds, EvidenceStep(x) \/ FeeStep(x)
          PROVE  UNCHANGED feeTx \/ \E s \in settling : SettleCommit(s)
      BY <2>1 DEF EvidenceStep, ReportBegin, ReportCommit, ProbeSend,
        ProbeReceive, VerifyBegin, VerifyChain, VerifyCommit, FeeStep,
        SettleBegin, Waive, orderData
    <2>2. CASE \/ BookStep /\ UNCHANGED deliveryVars
               \/ WorldStep \/ Drop \/ MarketRestart \/ UNCHANGED vars
      BY <2>2 DEF WorldStep, MineBlock, FundingStep, ChannelStep, PayInvoice,
        Drop, MarketRestart, vars, deliveryVars, orderData
    <2> QED
      BY <2>1, <2>2 DEF MarketNext
  <1> QED
    BY <1>1, <1>2

LEMMA NextRuledOrders ==
    ASSUME TypeInv, Linked, Ruled, [MarketNext]_vars
    PROVE  Billed' /\ Unbound'
  <1>1. CASE Lives
    <2>1. ASSUME NEW o \in OrderIds
          PROVE  order'[o].status = "delivered"
                    <=> order'[o].feeStatus # "not_due"
      BY <1>1, <2>1 DEF Lives, Life, Turn, Judge, Deliver, Bill, SameBill,
                        Ruled, Billed, Dead, Reserving, Unopened, Opened
    <2>2. ASSUME NEW o \in OrderIds, order'[o].feeStatus = "paid"
          PROVE  feeTx'[o] # None
      <3>1. CASE order[o].feeStatus = "paid"
        BY <3>1, NextCredit DEF Ruled, Billed
      <3>2. CASE order[o].feeStatus # "paid"
        <4>1. \E s \in settling : SettleCommit(s)
          BY <1>1, <2>2, <3>2 DEF Lives, Life, Deliver, Bill, SameBill
        <4> QED
          BY <2>2, <3>2, <4>1, NextCredit
      <3> QED
        BY <3>1, <3>2
    <2>3. ASSUME NEW o \in OrderIds, order'[o].status \in Unopened
          PROVE  order'[o].outpoint = None /\ order'[o].channel = None
      BY <1>1, <2>3 DEF Lives, Life, Turn, Judge, Deliver, Bill, SameChannel,
                        Ruled, Unbound, Dead, Unopened
    <2> QED
      BY <2>1, <2>2, <2>3 DEF Billed, Unbound
  <1>2. CASE Created
    <2>1. PICK o \in OrderIds, id \in OfferIds, m \in Merchants,
               c \in Capacities : Create(o, id, m, c)
      BY <1>2 DEF Created
    <2>2. \A x \in OrderIds : feeTx[x] # None => feeTx'[x] # None
      BY NextCredit
    <2> QED
      BY <2>1, <2>2, CreateNew
      DEF Ruled, Billed, Unbound, TypeInv, MarketTypeOK
  <1> QED
    BY <1>1, <1>2, NextLives

\* Once an order's opening is claimed, no step makes it unclaimed again.
LEMMA StaysClaimed ==
    ASSUME TypeInv, Linked, Ruled, [MarketNext]_vars, NEW o \in OrderIds,
           order[o].status \notin Unopened \cup {"none"}
    PROVE  order'[o].status \notin Unopened \cup {"none"}
  <1>1. CASE Lives
    BY <1>1 DEF Lives, Life, Turn, Judge, Deliver, Bill, Dead, Unopened
  <1>2. CASE Created
    BY <1>2, CreateNew DEF Created, TypeInv, MarketTypeOK
  <1> QED
    BY <1>1, <1>2, NextLives

\* A funding output once resolved stays so.
LEMMA StaysSettled ==
    ASSUME TypeInv, [MarketNext]_vars, NEW p \in Outpoints,
           chain.funding[p] = "settled"
    PROVE  chain'.funding[p] = "settled"
  <1>1. CASE MineBlock
    <2>1. PICK mined :
             chain' = [chain EXCEPT !.tip = chain.tip + 1, !.mined = mined]
      BY <1>1 DEF MineBlock, TypeInv, MarketTypeOK, WorldTypeOK
    <2> QED
      BY <2>1 DEF TypeInv, MarketTypeOK, WorldTypeOK
  <1>2. ASSUME NEW q \in Outpoints, FundingStep(q)
        PROVE  chain'.funding[p] = "settled"
    BY <1>2 DEF FundingStep, TypeInv, MarketTypeOK, WorldTypeOK
  <1>3. CASE UNCHANGED chain
    BY <1>3
  <1>4. CASE \/ BookStep /\ UNCHANGED deliveryVars
             \/ Drop \/ MarketRestart \/ UNCHANGED vars
             \/ \E q \in Outpoints : ChannelStep(q)
             \/ \E h \in Invoices : PayInvoice(h)
    BY <1>3, <1>4 DEF Drop, MarketRestart, vars, deliveryVars, world,
                      ChannelStep, PayInvoice
  <1>5. ASSUME NEW o \in OrderIds, EvidenceStep(o) \/ FeeStep(o)
        PROVE  UNCHANGED chain
    BY <1>5 DEF EvidenceStep, FeeStep, ReportBegin, ReportCommit, ProbeSend,
      ProbeReceive, VerifyBegin, VerifyChain, VerifyCommit, SettleBegin,
      SettleCommit, Waive, world
  <1> QED
    BY <1>1, <1>2, <1>3, <1>4, <1>5 DEF MarketNext, WorldStep

\* A report that begins names a claimed order, and what the chain shows.
LEMMA NextReports ==
    ASSUME TypeInv, [MarketNext]_vars, NEW r \in reports'
    PROVE  \/ r \in reports
           \/ /\ r.order \in OrderIds
              /\ order[r.order].status \notin Unopened \cup {"none"}
              /\ Settled(r.seen)
  <1>1. ASSUME NEW o \in OrderIds, NEW side \in Sides, NEW p \in Outpoints,
               ReportBegin(o, side, p), r \notin reports
        PROVE  /\ r.order \in OrderIds
               /\ order[r.order].status \notin Unopened \cup {"none"}
               /\ Settled(r.seen)
    <2>1. PICK claim \in SettlementClaims(p) :
             /\ order[o].status \notin Unopened \cup Dead \cup {"none"}
             /\ reports' = reports \cup
                  {[order |-> o, side |-> side,
                    seen |-> [channel |-> ChannelOf[p], outpoint |-> p,
                              state |-> fiber[p].state,
                              balance |-> fiber[p].balance,
                              settlement |-> claim, at |-> clock]]}
      BY <1>1 DEF ReportBegin
    <2>2. /\ r.order = o /\ r.seen.outpoint = p /\ r.seen.settlement = claim
      BY <1>1, <2>1
    <2>3. claim = "confirmed" => chain.funding[p] = "settled"
      BY <2>1, DeliveryAssumption DEF SettlementClaims
    <2> QED
      BY <2>1, <2>2, <2>3 DEF Settled
  <1>2. CASE reports' \subseteq reports
    BY <1>2
  <1>3. ASSUME NEW o \in OrderIds, EvidenceStep(o)
        PROVE  \/ reports' \subseteq reports
               \/ \E side \in Sides, p \in Outpoints : ReportBegin(o, side, p)
    BY <1>3 DEF EvidenceStep, ReportCommit, ProbeSend, ProbeReceive,
                VerifyBegin, VerifyChain, VerifyCommit
  <1>4. CASE \/ BookStep /\ UNCHANGED deliveryVars
             \/ \E o \in OrderIds : FeeStep(o)
             \/ WorldStep \/ Drop \/ MarketRestart \/ UNCHANGED vars
    BY <1>2, <1>4 DEF FeeStep, SettleBegin, SettleCommit, Waive, WorldStep,
      MineBlock, FundingStep, ChannelStep, PayInvoice, Drop, MarketRestart,
      vars, deliveryVars, requests
  <1> QED
    BY <1>1, <1>2, <1>3, <1>4 DEF MarketNext

\* What is stored was stored before, or is the observation of a report.
LEMMA NextEvidence ==
    ASSUME TypeInv, [MarketNext]_vars, NEW o \in OrderIds, NEW s \in Sides
    PROVE  \/ evidence'[o][s] = evidence[o][s]
           \/ \E r \in reports : evidence'[o][s] = r.seen
  <1>1. ASSUME NEW r \in reports, ReportCommit(r)
        PROVE  \/ evidence'[o][s] = evidence[o][s]
               \/ evidence'[o][s] = r.seen
    <2> DEFINE both == [evidence[r.order] EXCEPT ![r.side] = r.seen]
    <2>1. \/ evidence' = evidence
          \/ evidence' = [evidence EXCEPT ![r.order] = both]
      BY <1>1 DEF ReportCommit
    <2>2. /\ evidence \in [OrderIds -> [Sides -> Attested]]
          /\ r.order \in OrderIds /\ r.side \in Sides
      BY DEF TypeInv, MarketTypeOK, DataTypeOK, RequestTypeOK
    <2>3. both[s] = IF s = r.side THEN r.seen ELSE evidence[r.order][s]
      BY <2>2
    <2> HIDE DEF both
    <2> QED
      BY <2>1, <2>2, <2>3
  <1>2. CASE UNCHANGED evidence
    BY <1>2
  <1>3. ASSUME NEW x \in OrderIds, EvidenceStep(x) \/ FeeStep(x)
        PROVE  UNCHANGED evidence \/ \E r \in reports : ReportCommit(r)
    BY <1>3 DEF EvidenceStep, ReportBegin, ProbeSend, ProbeReceive,
      VerifyBegin, VerifyChain, VerifyCommit, FeeStep, SettleBegin,
      SettleCommit, Waive, orderData
  <1>4. CASE \/ BookStep /\ UNCHANGED deliveryVars
             \/ WorldStep \/ Drop \/ MarketRestart \/ UNCHANGED vars
    BY <1>2, <1>4 DEF WorldStep, MineBlock, FundingStep, ChannelStep,
      PayInvoice, Drop, MarketRestart, vars, deliveryVars, orderData
  <1> QED
    BY <1>1, <1>2, <1>3, <1>4 DEF MarketNext

LEMMA NextRuled ==
    ASSUME TypeInv, Linked, Ruled, [MarketNext]_vars
    PROVE  Ruled'
  <1>1. TypeInv'
    BY NextType
  <1>2. ASSUME NEW e \in Evidence, Settled(e) PROVE Settled(e)'
    BY <1>2, StaysSettled DEF Settled, Evidence
  <1>3. \A r \in reports : Settled(r.seen) /\ r.seen \in Evidence
    BY DEF Ruled, SettledSeen, TypeInv, MarketTypeOK, RequestTypeOK
  <1>4. SettledSeen'
    <2>1. ASSUME NEW r \in reports' PROVE Settled(r.seen)'
      <3>1. r.seen \in Evidence
        BY <1>1 DEF TypeInv, MarketTypeOK, RequestTypeOK
      <3> QED
        BY <1>2, <1>3, <3>1, NextReports
    <2>2. ASSUME NEW o \in OrderIds, NEW s \in Sides, evidence'[o][s] # None
          PROVE  Settled(evidence[o][s])'
      <3>1. evidence'[o][s] \in Evidence
        BY <1>1, <2>2 DEF TypeInv, MarketTypeOK, DataTypeOK, Attested
      <3>2. CASE evidence'[o][s] = evidence[o][s]
        <4>1. Settled(evidence[o][s]) /\ evidence[o][s] \in Evidence
          BY <2>2, <3>1, <3>2 DEF Ruled, SettledSeen
        <4> QED
          BY <3>2, <4>1, StaysSettled DEF Settled, Evidence
      <3>3. CASE \E r \in reports : evidence'[o][s] = r.seen
        <4>1. PICK r \in reports : evidence'[o][s] = r.seen
          BY <3>3
        <4> QED
          BY <1>3, <4>1, StaysSettled DEF Settled, Evidence
      <3> QED
        BY <3>2, <3>3, NextEvidence
    <2> QED
      BY <2>1, <2>2 DEF SettledSeen
  <1>5. Claimed'
    <2> SUFFICES ASSUME NEW r \in reports'
                 PROVE  order'[r.order].status \notin Unopened
        BY DEF Claimed
    <2>1. r.order \in OrderIds /\ order[r.order].status \notin Unopened
                                                           \cup {"none"}
      BY NextReports DEF Ruled, Claimed, TypeInv, MarketTypeOK, RequestTypeOK,
                         ReportsUsed
    <2> QED
      BY <2>1, StaysClaimed
  <1>6. ReleaseIsSettled'
    <2> SUFFICES ASSUME NEW o \in OrderIds, order'[o].status \in Dead,
                        order'[o].outpoint # None
                 PROVE  /\ order'[o].status = "failed"
                        /\ chain'.funding[order'[o].outpoint] = "settled"
        BY DEF ReleaseIsSettled
    <2>1. order'[o].outpoint \in Outpoints
      BY <1>1 DEF TypeInv, MarketTypeOK, TypeOK, OrderRecs
    <2>2. CASE Lives
      <3>1. \/ /\ order[o].status = order'[o].status
               /\ order[o].outpoint = order'[o].outpoint
            \/ Judge(order[o], order'[o]) /\ order'[o].status = "failed"
        BY <2>2 DEF Lives, Life, Turn, Judge, Deliver, Bill, SameChannel, Dead,
                    Unopened, Ruled, Unbound
      <3>2. /\ order'[o].status = "failed"
            /\ chain.funding[order'[o].outpoint] = "settled"
        BY <3>1 DEF Judge, Ruled, ReleaseIsSettled
      <3> QED
        BY <2>1, <3>2, StaysSettled
    <2>3. CASE Created
      <3>1. order'[o] = order[o]
        BY <2>3, CreateNew DEF Created, Dead, TypeInv, MarketTypeOK
      <3>2. /\ order'[o].status = "failed"
            /\ chain.funding[order'[o].outpoint] = "settled"
        BY <3>1 DEF Ruled, ReleaseIsSettled
      <3> QED
        BY <2>1, <3>2, StaysSettled
    <2> QED
      BY <2>2, <2>3, NextLives
  <1> QED
    BY <1>4, <1>5, <1>6, NextRuledOrders DEF Ruled

LEMMA SpecRuled == MarketSpec => [](TypeInv /\ Linked /\ Ruled)
  <1>1. MarketInit => TypeInv /\ Linked /\ Ruled
    BY MarketInitType, MarketInitLinked, MarketInitRuled
  <1>2. TypeInv /\ Linked /\ Ruled /\ [MarketNext]_vars
           => TypeInv' /\ Linked' /\ Ruled'
    BY NextType, NextLinked, NextRuled
  <1> QED
    BY <1>1, <1>2, PTL DEF MarketSpec

----------------------------------------------------------------------------
(***************************************************************************)
(* What else a delivery holds on to.                                       *)
(***************************************************************************)
\* A probe invoice is never replaced, nor its receipt forgotten.
ProbeStands(o) ==
    probe[o].hash # None => /\ probe'[o].hash = probe[o].hash
                            /\ probe[o].received => probe'[o].received

LEMMA NextProbe ==
    ASSUME TypeInv, [MarketNext]_vars, NEW o \in OrderIds
    PROVE  ProbeStands(o)
  <1>1. ASSUME NEW r \in probes, ProbeReceive(r) PROVE ProbeStands(o)
    <2> DEFINE new == [hash |-> r.hash,
                       received |-> probe[r.order].received \/ r.paid]
    <2>1. r.order \in OrderIds
      BY DEF TypeInv, MarketTypeOK, RequestTypeOK
    <2>2. \/ UNCHANGED probe
          \/ /\ probe' = [probe EXCEPT ![r.order] = new]
             /\ probe[r.order].hash \in {None, r.hash}
      BY <1>1 DEF ProbeReceive
    <2>3. new.hash = r.hash /\ (probe[r.order].received => new.received)
      OBVIOUS
    <2> HIDE DEF new
    <2>4. \/ UNCHANGED probe
          \/ /\ probe'[o] = IF o = r.order THEN new ELSE probe[o]
             /\ probe[r.order].hash \in {None, r.hash}
      BY <2>1, <2>2 DEF TypeInv, MarketTypeOK, DataTypeOK
    <2> QED
      BY <2>3, <2>4 DEF ProbeStands
  <1>2. CASE UNCHANGED probe
    BY <1>2 DEF ProbeStands
  <1>3. ASSUME NEW x \in OrderIds, EvidenceStep(x) \/ FeeStep(x)
        PROVE  UNCHANGED probe \/ \E r \in probes : ProbeReceive(r)
    BY <1>3 DEF EvidenceStep, ReportBegin, ReportCommit, ProbeSend,
      VerifyBegin, VerifyChain, VerifyCommit, FeeStep, SettleBegin,
      SettleCommit, Waive, orderData
  <1>4. CASE \/ BookStep /\ UNCHANGED deliveryVars
             \/ WorldStep \/ Drop \/ MarketRestart \/ UNCHANGED vars
    BY <1>2, <1>4 DEF WorldStep, MineBlock, FundingStep, ChannelStep,
      PayInvoice, Drop, MarketRestart, vars, deliveryVars, orderData
  <1> QED
    BY <1>1, <1>2, <1>3, <1>4 DEF MarketNext

\* A delivered order's anchor and receipt are written no more.
LEMMA NextDelivery ==
    ASSUME TypeInv, [MarketNext]_vars, NEW o \in OrderIds,
           order[o].status = "delivered"
    PROVE  delivery'[o] = delivery[o] /\ receipt'[o] = receipt[o]
  <1>1. ASSUME NEW r \in verifying, VerifyCommit(r)
        PROVE  delivery'[o] = delivery[o] /\ receipt'[o] = receipt[o]
    <2>1. CASE ~Ready(r.order)
      BY <1>1, <2>1 DEF VerifyCommit
    <2>2. CASE Ready(r.order)
      <3> DEFINE stored == [provider |-> attestation[r.order]["provider"],
                            merchant |-> attestation[r.order]["merchant"],
                            probe |-> probeReport[r.order]]
      <3>1. /\ delivery' = [delivery EXCEPT ![r.order] = r.tip]
            /\ receipt' = [receipt EXCEPT ![r.order] = stored]
        BY <1>1, <2>2 DEF VerifyCommit
      <3>2. r.order # o
        BY <2>2 DEF Ready
      <3> HIDE DEF stored
      <3> QED
        BY <3>1, <3>2 DEF TypeInv, MarketTypeOK, DataTypeOK
    <2> QED
      BY <2>1, <2>2
  <1>2. CASE UNCHANGED <<delivery, receipt>>
    BY <1>2
  <1>3. ASSUME NEW x \in OrderIds, EvidenceStep(x) \/ FeeStep(x)
        PROVE  \/ UNCHANGED <<delivery, receipt>>
               \/ \E r \in verifying : VerifyCommit(r)
    BY <1>3 DEF EvidenceStep, ReportBegin, ReportCommit, ProbeSend,
      ProbeReceive, VerifyBegin, VerifyChain, FeeStep, SettleBegin,
      SettleCommit, Waive, orderData
  <1>4. CASE \/ BookStep /\ UNCHANGED deliveryVars
             \/ WorldStep \/ Drop \/ MarketRestart \/ UNCHANGED vars
    BY <1>2, <1>4 DEF WorldStep, MineBlock, FundingStep, ChannelStep,
      PayInvoice, Drop, MarketRestart, vars, deliveryVars, orderData
  <1> QED
    BY <1>1, <1>2, <1>3, <1>4 DEF MarketNext

----------------------------------------------------------------------------
(***************************************************************************)
(* Offers: publishing for a node disables every other offer of that node.  *)
(***************************************************************************)
LEMMA OfferStepOne ==
    ASSUME TypeOK, OneOfferPerNode, OfferStep PROVE OneOfferPerNode'
  <1>1. ASSUME NEW w \in publishing, PublishCommit(w) PROVE OneOfferPerNode'
    <2> DEFINE new == [state |-> "enabled", provider |-> w.provider,
                       min |-> w.min, max |-> w.max, fee |-> w.fee,
                       expires |-> w.expires]
    <2>1. \/ offer' = offer
          \/ offer' = [i \in OfferIds |->
                IF i = w.id THEN new ELSE Replaced(offer[i], w.provider)]
      BY <1>1 DEF PublishCommit
    <2>2. new.provider = w.provider
      OBVIOUS
    <2>3. \A i \in OfferIds :
             /\ Replaced(offer[i], w.provider).provider = offer[i].provider
             /\ Replaced(offer[i], w.provider).state = "enabled" =>
                   /\ offer[i].state = "enabled"
                   /\ offer[i].provider # w.provider
      BY DEF TypeOK, OfferRecs, Replaced
    <2> HIDE DEF new
    <2> QED
      BY <2>1, <2>2, <2>3 DEF OneOfferPerNode
  <1>2. ASSUME NEW id \in OfferIds, Disable(id) PROVE OneOfferPerNode'
    <2>1. \A i \in OfferIds :
             /\ offer'[i].provider = offer[i].provider
             /\ offer'[i].state = "enabled" => offer[i].state = "enabled"
      BY <1>2 DEF Disable, TypeOK, OfferRecs
    <2> QED
      BY <2>1 DEF OneOfferPerNode
  <1>3. ASSUME NEW p \in Providers, NEW id \in OfferIds, PublishBegin(p, id)
        PROVE  OneOfferPerNode'
    BY <1>3 DEF PublishBegin, OneOfferPerNode
  <1> QED
    BY <1>1, <1>2, <1>3 DEF OfferStep

LEMMA BookOne ==
    ASSUME TypeOK, OneOfferPerNode, BookStep PROVE OneOfferPerNode'
  <1>1. CASE OfferStep
    BY <1>1, OfferStepOne
  <1>2. CASE UNCHANGED offer
    BY <1>2 DEF OneOfferPerNode
  <1>3. BookStep => OfferStep \/ UNCHANGED offer
    <2>1. ASSUME NEW o \in OrderIds, OrderStep(o) PROVE UNCHANGED offer
      BY ZenonT(30), <2>1
         DEF OrderStep, Create, Quote, AcceptBegin, AcceptCommit, Abandon, Cancel,
             Start, Failure
    <2> QED
      BY <2>1 DEF BookStep, Heartbeat, Register, Expire, Advance
  <1> QED
    BY <1>1, <1>2, <1>3

LEMMA InitOne == Init => OneOfferPerNode
  BY DEF Init, NoOffer, OneOfferPerNode

----------------------------------------------------------------------------
(***************************************************************************)
(* Reservations.  Only finitely many orders were ever made, whatever the   *)
(* wallets and keys that might make one: a reservation is a finite sum.    *)
(***************************************************************************)
Used == {o \in OrderIds : order[o].status # "none"}
Finite == IsFiniteSet(Used)
Held(p) == {o \in OrderIds : /\ order[o].provider = p
                             /\ order[o].status \in Reserving}
Fundings == [o \in OrderIds |-> order[o].funding]

LEMMA ReservedIs == \A p : Reserved(p) = SumFunctionOnSet(Fundings, Held(p))
  BY DEF Reserved, Fundings, Held

LEMMA NextFinite ==
    ASSUME TypeInv, Linked, Ruled, Finite, [MarketNext]_vars
    PROVE  Finite'
  <1>1. CASE Lives
    <2>1. Used' \subseteq Used
      BY <1>1 DEF Used, Lives, Life, Turn, Judge, Deliver, Bill, Dead,
                  Reserving, Unopened, Opened
    <2> QED
      BY <2>1, FS_Subset DEF Finite
  <1>2. CASE Created
    <2>1. PICK o \in OrderIds, id \in OfferIds, m \in Merchants,
               c \in Capacities : Create(o, id, m, c)
      BY <1>2 DEF Created
    <2>2. Used' \subseteq Used \cup {o}
      BY <2>1, CreateNew DEF Used, TypeInv, MarketTypeOK
    <2> QED
      BY <2>2, FS_AddElement, FS_Subset DEF Finite
  <1> QED
    BY <1>1, <1>2, NextLives

LEMMA HeldFinite ==
    ASSUME TypeOK, Finite, NEW p
    PROVE  /\ IsFiniteSet(Held(p)) /\ \A o \in Held(p) : Fundings[o] \in Nat
           /\ Reserved(p) \in Nat
  <1>1. Held(p) \subseteq Used
    BY DEF Held, Used, Reserving, Unopened, Opened
  <1>2. IsFiniteSet(Held(p)) /\ \A o \in Held(p) : Fundings[o] \in Nat
    BY <1>1, FS_Subset DEF Finite, Held, Fundings, TypeOK, OrderRecs
  <1> QED
    BY <1>2, SumNat, ReservedIs

\* A step that makes no order reserves nothing more.
LEMMA LivesReserved ==
    ASSUME TypeOK, Finite, Lives, NEW p
    PROVE  Reserved(p)' \in Nat /\ Reserved(p)' <= Reserved(p)
  <1>1. Held(p)' \subseteq Held(p)
    BY DEF Held, Lives, Life, SameTerms, Turn, Judge, Deliver, Bill, Dead,
           Reserving, Unopened, Opened
  <1>2. IsFiniteSet(Held(p)) /\ \A o \in Held(p) : Fundings[o] \in Nat
    BY HeldFinite
  <1>3. IsFiniteSet(Held(p)') /\ \A o \in Held(p)' : Fundings'[o] = Fundings[o]
    <2>1. \A o \in Held(p)' : Fundings'[o] = Fundings[o]
      BY DEF Held, Fundings, Lives, Life, SameTerms
    <2> QED
      BY <1>1, <1>2, <2>1, FS_Subset
  <1>4. SumFunctionOnSet(Fundings', Held(p)')
           = SumFunctionOnSet(Fundings, Held(p)')
    BY <1>3, SumSame
  <1>5. SumFunctionOnSet(Fundings, Held(p)')
           <= SumFunctionOnSet(Fundings, Held(p))
    BY <1>1, <1>2, SumPart
  <1>6. Reserved(p)' = SumFunctionOnSet(Fundings', Held(p)')
    BY DEF Reserved, Fundings, Held
  <1>7. SumFunctionOnSet(Fundings, Held(p)') \in Nat
    BY <1>1, <1>2, FS_Subset, SumNat
  <1> QED
    BY <1>4, <1>5, <1>6, <1>7, ReservedIs

\* A new order adds its funding to what its provider has reserved.
LEMMA CreateReserved ==
    ASSUME TypeOK, Finite, NEW o \in OrderIds, NEW id \in OfferIds,
           NEW m \in Merchants, NEW c \in Capacities, Create(o, id, m, c),
           NEW p
    PROVE  IF p = offer[id].provider
           THEN Reserved(p)' = order'[o].funding + Reserved(p)
           ELSE Reserved(p)' = Reserved(p)
  <1>1. IsFiniteSet(Held(p)) /\ \A x \in Held(p) : Fundings[x] \in Nat
    BY HeldFinite
  <1>2. o \notin Held(p) /\ \A x \in Held(p) : Fundings'[x] = Fundings[x]
    BY CreateNew DEF Held, Fundings, Reserving, Unopened, Opened
  <1>3. SumFunctionOnSet(Fundings', Held(p))
           = SumFunctionOnSet(Fundings, Held(p))
    BY <1>1, <1>2, SumSame
  <1>4. Reserved(p)' = SumFunctionOnSet(Fundings', Held(p)')
    BY DEF Reserved, Fundings, Held
  <1>5. CASE p # offer[id].provider
    <2>1. Held(p)' = Held(p)
      BY <1>5, CreateNew DEF Held, Reserving, Unopened, Opened
    <2> QED
      BY <1>3, <1>4, <1>5, <2>1, ReservedIs
  <1>6. CASE p = offer[id].provider
    <2>1. Held(p)' = Held(p) \cup {o}
      BY <1>6, CreateNew DEF Held, Reserving, Unopened, Opened
    <2>2. Fundings'[o] = order'[o].funding /\ order'[o].funding \in Nat
      <3>1. TypeOK'
        BY OrderType DEF OrderStep, Create
      <3> QED
        BY <3>1 DEF Fundings, TypeOK, OrderRecs
    <2>3. \A x \in Held(p) \cup {o} : Fundings'[x] \in Int
      BY <1>1, <1>2, <2>2
    <2>4. SumFunctionOnSet(Fundings', Held(p) \cup {o})
             = Fundings'[o] + SumFunctionOnSet(Fundings', Held(p))
      BY <1>1, <1>2, <2>3, SumAdd
    <2> QED
      BY <1>3, <1>4, <1>6, <2>1, <2>2, <2>4, ReservedIs
  <1> QED
    BY <1>5, <1>6

\* What AvailableFunding leaves room for.
LEMMA FundingRoom ==
    ASSUME TypeOK, NEW p \in Providers, NEW r \in Nat, NEW n \in Nat, n > 0,
           AvailableFunding(p, r) >= n
    PROVE  /\ r + n + 63 <= node[p].available
           /\ node[p].policy # None =>
                 r + n + node[p].policy.committed <= node[p].policy.maxTotal
  <1> DEFINE policy == node[p].policy
             a == Monus(Monus(node[p].available, 63), r)
             b == policy.maxOrder
             c == Monus(Monus(policy.maxTotal, policy.committed), r)
  <1>1. /\ node[p].available \in Nat
        /\ policy # None => policy \in Policies
    BY DEF TypeOK, NodeRecs, Nodes
  <1>2. a \in Nat /\ (a >= n => r + n + 63 <= node[p].available)
    BY <1>1 DEF Monus
  <1>3. CASE policy = None
    BY <1>2, <1>3 DEF AvailableFunding
  <1>4. CASE policy # None
    <2>1. /\ b \in Nat /\ c \in Nat
          /\ c >= n => r + n + policy.committed <= policy.maxTotal
      BY <1>1, <1>4 DEF Monus, Policies
    <2>2. AvailableFunding(p, r) = Min({a, b, c})
      BY <1>4 DEF AvailableFunding
    <2> HIDE DEF a, b, c
    <2>3. \E x \in {a, b, c} : \A y \in {a, b, c} : x <= y
      <3>1. (a <= b /\ a <= c) \/ (b <= a /\ b <= c) \/ (c <= a /\ c <= b)
        BY <1>2, <2>1
      <3> QED
        BY <1>2, <2>1, <3>1
    <2>4. Min({a, b, c}) \in {a, b, c}
          /\ \A y \in {a, b, c} : Min({a, b, c}) <= y
      BY <2>3 DEF Min
    <2>5. a >= n /\ c >= n
      BY <1>2, <2>1, <2>2, <2>4
    <2> QED
      BY <1>2, <2>1, <2>5
  <1> QED
    BY <1>3, <1>4

----------------------------------------------------------------------------
(***************************************************************************)
(* Theorems.                                                               *)
(***************************************************************************)
\* A provider's reservation of an order whose opening was claimed is released
\* only after the chain resolved the funding (evidence::report).
THEOREM ReleaseIsSettledHolds == MarketSpec => []ReleaseIsSettled
  <1>1. Ruled => ReleaseIsSettled
    BY DEF Ruled
  <1> QED
    BY <1>1, SpecRuled, PTL

\* An order keeps the terms its id was first used for, through every retry,
\* report, payment, sweep and restart (orders::create).
THEOREM TermsStandHolds == MarketSpec => TermsStand
  <1> DEFINE Stand ==
        \A o \in OrderIds : order[o].status # "none" =>
          /\ order'[o].status # "none"
          /\ \A field \in {"provider", "merchant", "capacity", "funding",
                            "fee", "expires"} :
                order'[o][field] = order[o][field]
  <1>1. TypeInv /\ Linked /\ Ruled /\ [MarketNext]_vars => [Stand]_bookVars
    <2> SUFFICES ASSUME TypeInv, Linked, Ruled, [MarketNext]_vars,
                        NEW o \in OrderIds, order[o].status # "none"
                 PROVE  /\ order'[o].status # "none"
                        /\ SameTerms(order[o], order'[o])
        BY DEF SameTerms
    <2>1. CASE Lives
      BY <2>1 DEF Lives, Life, Turn, Judge, Deliver, Bill, Dead, Reserving
    <2>2. CASE Created
      BY <2>2, CreateNew DEF Created, SameTerms, TypeInv, MarketTypeOK
    <2> QED
      BY <2>1, <2>2, NextLives
  <1>2. TermsStand <=> [][Stand]_bookVars
    BY DEF TermsStand
  <1> QED
    BY <1>1, <1>2, SpecRuled, PTL DEF MarketSpec

\* No order is accepted or begins to open at or after its deadline, however
\* long the signature check took (orders::accept,
\* connector_api::start).
THEOREM DeadlineHoldsAlways == MarketSpec => DeadlineHolds
  <1> DEFINE InTime ==
        \A o \in OrderIds :
          /\ order'[o].status = "accepted" /\ order[o].status # "accepted"
                => order[o].status = "quoted" /\ clock < order[o].expires
          /\ order'[o].status = "opening" /\ order[o].status # "opening"
                => /\ order[o].status = "accepted" /\ clock < order[o].expires
                   /\ order[o].signed /\ order[o].proof
  <1>1. TypeInv /\ Linked /\ Ruled /\ [MarketNext]_vars => [InTime]_bookVars
    <2> SUFFICES ASSUME TypeInv, Linked, Ruled, [MarketNext]_vars
                 PROVE  InTime
        OBVIOUS
    <2>1. CASE Lives
      BY <2>1 DEF Lives, Life, Turn, Judge, Deliver, Bill, Dead
    <2>2. CASE Created
      <3>1. \A o \in OrderIds : \/ order'[o] = order[o]
                                \/ order'[o].status = "awaiting_quote"
        BY <2>2, CreateNew DEF Created, TypeInv, MarketTypeOK
      <3> QED
        BY <3>1
    <2> QED
      BY <2>1, <2>2, NextLives
  <1>2. DeadlineHolds <=> [][InTime]_bookVars
    BY DEF DeadlineHolds
  <1> QED
    BY <1>1, <1>2, SpecRuled, PTL DEF MarketSpec

\* A delivery, its anchor, its receipt and a credited payment are final, and a
\* probe invoice is never replaced (evidence::verify_delivery,
\* payments::settle, connector_api::probe).
THEOREM DeliveryFinalHolds == MarketSpec => DeliveryFinal
  <1> DEFINE Final ==
        \A o \in OrderIds :
          /\ probe[o].hash # None => /\ probe'[o].hash = probe[o].hash
                                     /\ probe[o].received => probe'[o].received
          /\ order[o].status = "delivered" =>
                /\ order'[o].status = "delivered"
                /\ delivery'[o] = delivery[o] /\ receipt'[o] = receipt[o]
                /\ order'[o].outpoint = order[o].outpoint
                /\ order'[o].deliveredAt = order[o].deliveredAt
          /\ order[o].feeStatus = "paid" =>
                /\ order'[o].feeStatus = "paid" /\ feeTx'[o] = feeTx[o]
  <1>1. TypeInv /\ Linked /\ Ruled /\ [MarketNext]_vars => [Final]_vars
    <2> SUFFICES ASSUME TypeInv, Linked, Ruled, [MarketNext]_vars,
                        NEW o \in OrderIds
                 PROVE  /\ ProbeStands(o)
                        /\ order[o].status = "delivered" =>
                              /\ order'[o].status = "delivered"
                              /\ delivery'[o] = delivery[o]
                              /\ receipt'[o] = receipt[o]
                              /\ order'[o].outpoint = order[o].outpoint
                              /\ order'[o].deliveredAt = order[o].deliveredAt
                        /\ order[o].feeStatus = "paid" =>
                              /\ order'[o].feeStatus = "paid"
                              /\ feeTx'[o] = feeTx[o]
        BY DEF ProbeStands
    <2>1. ASSUME order[o].status = "delivered"
          PROVE  /\ order'[o].status = "delivered"
                 /\ order'[o].outpoint = order[o].outpoint
                 /\ order'[o].deliveredAt = order[o].deliveredAt
                 /\ order[o].feeStatus = "paid" => order'[o].feeStatus = "paid"
      <3>1. CASE Lives
        BY <2>1, <3>1 DEF Lives, Life, Turn, Judge, Deliver, Bill,
                          SameChannel, SameBill, Reserving, Unopened, Opened
      <3>2. CASE Created
        BY <2>1, <3>2, CreateNew DEF Created, TypeInv, MarketTypeOK
      <3> QED
        BY <3>1, <3>2, NextLives
    <2>2. order[o].feeStatus = "paid" => order[o].status = "delivered"
                                         /\ feeTx'[o] = feeTx[o]
      BY NextCredit DEF Ruled, Billed
    <2> QED
      BY <2>1, <2>2, NextProbe, NextDelivery
  <1>2. DeliveryFinal <=> [][Final]_vars
    BY DEF DeliveryFinal
  <1> QED
    BY <1>1, <1>2, SpecRuled, PTL DEF MarketSpec

\* However many orders are made at once, a provider's reservations grow only
\* to an amount its last signed heartbeat can pay for (orders::create,
\* model::available_funding).
THEOREM ReservationsFundedHolds == MarketSpec => ReservationsFunded
  <1> DEFINE Inv == TypeInv /\ Linked /\ Ruled /\ Finite
             Funded ==
        \A p \in Providers : Reserved(p)' > Reserved(p) =>
          /\ Reserved(p)' + 63 <= node[p].available
          /\ node[p].policy # None =>
                Reserved(p)' + node[p].policy.committed
                    <= node[p].policy.maxTotal
  <1>1. MarketInit => Inv
    <2>1. MarketInit => Finite
      <3> SUFFICES ASSUME MarketInit PROVE Finite
          OBVIOUS
      <3>1. Used = {}
        BY DEF MarketInit, Init, NoOrder, Used
      <3> QED
        BY <3>1, FS_EmptySet DEF Finite
    <2> QED
      BY <2>1, MarketInitType, MarketInitLinked, MarketInitRuled
  <1>2. Inv /\ [MarketNext]_vars => Inv'
    BY NextType, NextLinked, NextRuled, NextFinite
  <1>3. Inv /\ [MarketNext]_vars => [Funded]_bookVars
    <2> SUFFICES ASSUME Inv, [MarketNext]_vars, NEW p \in Providers,
                        Reserved(p)' > Reserved(p)
                 PROVE  /\ Reserved(p)' + 63 <= node[p].available
                        /\ node[p].policy # None =>
                              Reserved(p)' + node[p].policy.committed
                                  <= node[p].policy.maxTotal
        OBVIOUS
    <2>1. TypeOK /\ Finite
      BY DEF TypeInv, MarketTypeOK
    <2>2. Reserved(p) \in Nat
      BY <2>1, HeldFinite
    <2>3. ~Lives
      BY <2>1, <2>2, LivesReserved
    <2>4. PICK o \in OrderIds, id \in OfferIds, m \in Merchants,
               c \in Capacities : Create(o, id, m, c)
      BY <2>3, NextLives DEF Created
    <2>5. /\ p = offer[id].provider
          /\ Reserved(p)' = order'[o].funding + Reserved(p)
      BY <2>1, <2>2, <2>4, CreateReserved
    <2>6. /\ order'[o].funding = c + node[p].reserve + 1
          /\ AvailableFunding(p, Reserved(p)) >= c + node[p].reserve + 1
      <3> DEFINE q == offer[id].provider
      <3>1. AvailableFunding(q, Reserved(q)) >= c + node[q].reserve + 1
        BY <2>4 DEF Create
      <3>2. order'[o].funding = c + node[q].reserve + 1
        BY <2>1, <2>4, CreateNew
      <3>3. q = p
        BY <2>5
      <3> HIDE DEF q
      <3> QED
        BY <3>1, <3>2, <3>3
    <2>7. c + node[p].reserve + 1 \in Nat /\ c + node[p].reserve + 1 > 0
      BY <2>1, InputAssumption DEF TypeOK, NodeRecs, Nodes
    <2>8. /\ Reserved(p) + order'[o].funding + 63 <= node[p].available
          /\ node[p].policy # None =>
                Reserved(p) + order'[o].funding + node[p].policy.committed
                    <= node[p].policy.maxTotal
      BY <2>1, <2>2, <2>6, <2>7, FundingRoom
    <2>9. order'[o].funding + Reserved(p) = Reserved(p) + order'[o].funding
      BY <2>2, <2>6, <2>7
    <2> QED
      BY <2>5, <2>8, <2>9
  <1>4. ReservationsFunded <=> [][Funded]_bookVars
    BY DEF ReservationsFunded
  <1> HIDE DEF Inv, Funded
  <1> QED
    BY <1>1, <1>2, <1>3, <1>4, PTL DEF MarketSpec

\* Overlapping publications leave a node one enabled offer (offers::create).
THEOREM OneOfferPerNodeHolds == MarketSpec => []OneOfferPerNode
  <1>1. MarketInit => TypeInv /\ OneOfferPerNode
    BY MarketInitType, InitOne DEF MarketInit
  <1>2. TypeInv /\ OneOfferPerNode /\ [MarketNext]_vars
           => TypeInv' /\ OneOfferPerNode'
    <2> SUFFICES ASSUME TypeInv, OneOfferPerNode, [MarketNext]_vars
                 PROVE  OneOfferPerNode'
        BY NextType
    <2>1. CASE BookStep
      BY <2>1, BookOne DEF TypeInv, MarketTypeOK
    <2>2. CASE UNCHANGED offer
      BY <2>2 DEF OneOfferPerNode
    <2>3. BookStep \/ UNCHANGED offer
      <3>1. ASSUME NEW o \in OrderIds, EvidenceStep(o) PROVE UNCHANGED offer
        BY <3>1 DEF EvidenceStep, ReportBegin, ReportCommit, ProbeSend,
          ProbeReceive, VerifyBegin, VerifyChain, VerifyCommit, book, bookVars
      <3>2. ASSUME NEW o \in OrderIds, FeeStep(o) PROVE UNCHANGED offer
        BY <3>2 DEF FeeStep, SettleBegin, SettleCommit, Waive, book, bookVars
      <3>3. CASE WorldStep \/ Drop \/ MarketRestart \/ UNCHANGED vars
        BY <3>3 DEF WorldStep, MineBlock, FundingStep, ChannelStep, PayInvoice,
          Drop, MarketRestart, vars, bookVars
      <3> QED
        BY <3>1, <3>2, <3>3 DEF MarketNext
    <2> QED
      BY <2>1, <2>2, <2>3
  <1> QED
    BY <1>1, <1>2, PTL DEF MarketSpec

\* The order book alone keeps its records' shape.
THEOREM BookTypesHold == Spec => []TypeOK
  <1>1. TypeOK /\ [Next]_bookVars => TypeOK'
    BY BookType DEF Next, Restart, bookVars, TypeOK
  <1> QED
    BY <1>1, InitType, PTL DEF Spec

----------------------------------------------------------------------------
(***************************************************************************)
(* The coordinator implements OrderPromise.                                *)
(***************************************************************************)
LEMMA PhaseValue ==
    \A status \in Statuses :
        /\ PhaseOf(status) = "free" <=> status = "none"
        /\ PhaseOf(status) = "asked" <=> status \in Unopened
        /\ PhaseOf(status) = "committed" <=> status \in Opened
        /\ PhaseOf(status) = "delivered" <=> status = "delivered"
        /\ PhaseOf(status) = "released" <=> status \in Dead
  BY DEF PhaseOf, Statuses, Reserving, Unopened, Opened, Dead

LEMMA PromiseInit == MarketInit => Promise!Init
  <1> SUFFICES ASSUME MarketInit PROVE Promise!Init
      OBVIOUS
  <1>1. \A o \in OrderIds : order[o] = NoOrder
    BY DEF MarketInit, Init
  <1>2. PhaseOf("none") = "free"
    BY PhaseValue DEF Statuses
  <1> QED
    BY <1>1, <1>2 DEF Promise!Init, NoOrder

\* Each step is, for every order, one of the promise's or none at all.
LEMMA PromiseNext ==
    ASSUME TypeInv, Linked, Ruled, [MarketNext]_vars
    PROVE  Promise!Next
  <1>1. TypeInv'
    BY NextType
  <1>2. \A o \in OrderIds :
           /\ order[o] \in OrderRecs /\ order'[o] \in OrderRecs
           /\ order[o].status \in Statuses /\ order'[o].status \in Statuses
           /\ order[o].feeStatus \in FeeStatuses
    BY <1>1 DEF TypeInv, MarketTypeOK, TypeOK, OrderRecs
  <1> SUFFICES ASSUME NEW o \in OrderIds
               PROVE  Promise!Step(o) \/ Promise!Same(o)
      BY DEF Promise!Next
  <1> DEFINE old == order[o]
             new == order'[o]
  <1>3. CASE Lives
    <2>1. Life(old, new) /\ new.provider = old.provider
      BY <1>3 DEF Lives, Life, SameTerms
    <2>2. CASE PhaseOf(new.status) = PhaseOf(old.status)
               /\ new.feeStatus = old.feeStatus
      BY <2>1, <2>2 DEF Promise!Same
    <2>3. CASE Turn(old, new) /\ SameBill(old, new)
               /\ PhaseOf(new.status) # PhaseOf(old.status)
      <3>1. \/ old.status \in Unopened /\ new.status \in Dead
            \/ old.status \in Unopened /\ new.status \in Opened
        BY <1>2, <2>3, PhaseValue DEF Turn, Reserving, Unopened, Opened
      <3> QED
        BY <1>2, <2>1, <2>3, <3>1, PhaseValue
        DEF SameBill, Promise!Step, Promise!Move
    <2>4. CASE Judge(old, new) /\ SameBill(old, new)
               /\ PhaseOf(new.status) # PhaseOf(old.status)
      <3>1. old.status \in Opened /\ new.status \in Dead
        BY <1>2, <2>4, PhaseValue DEF Judge, Opened, Dead
      <3> QED
        BY <1>2, <2>1, <2>4, <3>1, PhaseValue
        DEF SameBill, Promise!Step, Promise!Move
    <2>5. CASE Deliver(old, new)
      <3>1. old.feeStatus = "not_due" /\ old.status \in Opened
        BY <2>5 DEF Deliver, Ruled, Billed, Opened
      <3> QED
        BY <1>2, <2>1, <2>5, <3>1, PhaseValue
        DEF Deliver, Promise!Step, Promise!Deliver
    <2>6. CASE Bill(old, new) /\ new.feeStatus # old.feeStatus
      <3>1. /\ old.feeStatus \in {"due", "overdue", "waived", "paid"}
            /\ old.status = "delivered" /\ new.status = "delivered"
        BY <1>2, <2>6 DEF Bill, Ruled, Billed, FeeStatuses
      <3>2. \/ old.feeStatus = "due" /\ new.feeStatus = "overdue"
            \/ /\ old.feeStatus \in {"due", "overdue"}
               /\ new.feeStatus = "waived"
            \/ /\ old.feeStatus \in {"due", "overdue", "waived"}
               /\ new.feeStatus = "paid"
        BY <2>6, <3>1 DEF Bill
      <3> QED
        BY <1>2, <2>1, <3>1, <3>2, PhaseValue DEF Promise!Step, Promise!FeeMove
    <2>7. CASE Bill(old, new) /\ new.feeStatus = old.feeStatus
      BY <2>2, <2>7 DEF Bill
    <2> QED
      BY <2>1, <2>2, <2>3, <2>4, <2>5, <2>6, <2>7 DEF Life, SameBill
  <1>4. CASE Created
    <2>1. PICK x \in OrderIds, id \in OfferIds, m \in Merchants,
               c \in Capacities : Create(x, id, m, c)
      BY <1>4 DEF Created
    <2>2. CASE x # o
      <3>1. order'[o] = order[o]
        BY <2>1, <2>2, CreateNew DEF TypeInv, MarketTypeOK
      <3> QED
        BY <3>1 DEF Promise!Same
    <2>3. CASE x = o
      <3>1. /\ old.status = "none" /\ new.status = "awaiting_quote"
            /\ new.feeStatus = "not_due" /\ new.provider = offer[id].provider
        BY <2>1, <2>3, CreateNew DEF TypeInv, MarketTypeOK
      <3>2. offer[id].provider \in Providers
        BY <2>1 DEF Create, TypeInv, MarketTypeOK, TypeOK, OfferRecs
      <3>3. old.feeStatus = "not_due"
        BY <3>1 DEF Ruled, Billed
      <3>4. ASSUME NEW q \in OrderIds, Account(q) = Account(o),
                   order[q].provider = offer[id].provider
            PROVE  ~Promise!InTheWay(q)
        <4>1. ~InTheWay(q)
          BY <2>1, <2>3, <3>4 DEF Create, Outstanding, InTheWay, Account
        <4> QED
          BY <1>2, <4>1, PhaseValue
          DEF InTheWay, Unsettled, Reserving, Promise!InTheWay
      <3>5. Promise!Ask(o)
        BY <1>2, <3>1, <3>2, <3>3, <3>4, PhaseValue
        DEF Promise!Ask, Unopened
      <3> QED
        BY <3>5 DEF Promise!Step
    <2> QED
      BY <2>2, <2>3
  <1> QED
    BY <1>3, <1>4, NextLives

\* Seen as phases, fees and providers, the coordinator does only what
\* OrderPromise allows.
THEOREM KeepsPromiseHolds == MarketSpec => KeepsPromise
  <1>1. TypeInv /\ Linked /\ Ruled /\ [MarketNext]_vars => Promise!Next
    BY PromiseNext
  <1>2. MarketInit => Promise!Init
    BY PromiseInit
  <1> QED
    BY <1>1, <1>2, SpecRuled, PTL DEF MarketSpec, KeepsPromise, Promise!Spec
=============================================================================
