-------------------------- MODULE MCMarketDelivery --------------------------
(* Small instances of the whole order life. *)
EXTENDS MarketDelivery, TLC

CONSTANTS a1, a2, ap, m1, m2, p1, f1, x1, x2, c1, c2, h1, t1, t2
CONSTANT MaxBusy   \* bound: requests under way, or orders and payments begun

MCOwner == (m1 :> a1) @@ (m2 :> a2) @@ (p1 :> ap)
MCOwnerOne == (m1 :> a1) @@ (p1 :> ap)
MCTerms == {}
NoReports == [n \in {m1, m2, p1} |-> {}]

MCChannelOf == (x1 :> c1) @@ (x2 :> c2)
MCChannelOne == (x1 :> c1)
MCEnough == {"opened"}

NodesOnline ==
    node = [n \in Nodes |->
        [lastSeen |-> clock, available |-> 463, reserve |-> 99,
         policy |-> None]]

Published ==
    offer = [i \in OfferIds |->
        [state |-> "enabled", provider |-> p1, min |-> 100, max |-> 100,
         fee |-> 61, expires |-> clock + OfferTTL]]

NothingStored ==
    /\ evidence = [o \in OrderIds |-> [s \in Sides |-> None]]
    /\ attestation = evidence
    /\ probe = [o \in OrderIds |-> [hash |-> None, received |-> FALSE]]
    /\ probeReport = [o \in OrderIds |-> None]
    /\ delivery = [o \in OrderIds |-> None]
    /\ receipt = [o \in OrderIds |-> None]
    /\ boundPoint = [p \in Outpoints |-> None]

NothingUnderWay ==
    /\ publishing = {} /\ accepting = {}
    /\ reports = {} /\ probes = {} /\ verifying = {} /\ settling = {}
    /\ feeTx = [o \in OrderIds |-> None]
    /\ boundFee = [t \in FeeTxs |-> None]

ChainWith(points) ==
    chain = [tip |-> 0, mined |-> [t \in FeeTxs |-> None],
             funding |-> [p \in Outpoints |->
                 IF p \in points THEN "live" ELSE "absent"]]
ChannelsAre(state) ==
    fiber = [p \in Outpoints |-> [state |-> state, balance |-> "opened"]]

\* A reachable beginning: every node has just reported room for two orders,
\* the provider's offer is published; both nodes have an older channel, and
\* an invoice paid before.
MCInit ==
    /\ clock = OnlineWindow + 1 /\ NodesOnline /\ Published
    /\ order = [o \in OrderIds |-> NoOrder]
    /\ NothingStored /\ NothingUnderWay
    /\ ChainWith(Outpoints) /\ ChannelsAre("ChannelReady") /\ paid = Invoices

\* Every fee transaction pays any order of the same terms.
MCPays == [t \in FeeTxs |-> OrderIds]

UnderWay == Cardinality(accepting) + Cardinality(reports) + Cardinality(probes)
            + Cardinality(verifying) + Cardinality(settling)

\* No node is paired again: the order book's own run has that.
MCNext == MarketNext /\ UNCHANGED node /\ UnderWay' <= MaxBusy
MCSpec == MCInit /\ [][MCNext]_vars /\ MarketFairness

\* Later: the first order of a wallet was quoted, accepted and claimed.
Claimed(m) ==
    [NoOrder EXCEPT !.status = "opening", !.provider = p1, !.merchant = m,
        !.capacity = 100, !.funding = 200, !.fee = 61,
        !.expires = OnlineWindow + 1 + QuoteTTL, !.signed = TRUE, !.proof = TRUE]
First(m) == <<Owner[m], 1>>

\* Later still: the first order of every wallet was delivered, its fee is due.
PointOf(m) == IF m = m1 THEN x1 ELSE x2
Seen(p, t) == [channel |-> ChannelOf[p], outpoint |-> p,
               state |-> "ChannelReady", balance |-> "opened",
               settlement |-> None, at |-> t]
Delivered(m) ==
    [Claimed(m) EXCEPT !.status = "delivered", !.feeStatus = "due",
        !.deliveredAt = OnlineWindow + 1, !.outpoint = PointOf(m),
        !.channel = ChannelOf[PointOf(m)]]

DeliveredInit ==
    LET Is(o) == \E m \in Merchants : o = First(m)
        M(o) == CHOOSE m \in Merchants : o = First(m)
    IN
    /\ clock = OnlineWindow + 1 /\ NodesOnline /\ Published
    /\ order = [o \in OrderIds |-> IF Is(o) THEN Delivered(M(o)) ELSE NoOrder]
    /\ evidence = [o \in OrderIds |-> [s \in Sides |->
          IF Is(o) THEN Seen(PointOf(M(o)), clock) ELSE None]]
    /\ attestation = evidence
    /\ probe = [o \in OrderIds |->
          [hash |-> IF Is(o) THEN h1 ELSE None, received |-> Is(o)]]
    /\ probeReport = [o \in OrderIds |-> IF Is(o) THEN "Paid" ELSE None]
    /\ delivery = [o \in OrderIds |-> IF Is(o) THEN 0 ELSE None]
    /\ receipt = [o \in OrderIds |->
          IF Is(o) THEN [provider |-> Seen(PointOf(M(o)), clock),
                         merchant |-> Seen(PointOf(M(o)), clock),
                         probe |-> "Paid"] ELSE None]
    /\ boundPoint = [p \in Outpoints |->
          First(CHOOSE m \in Merchants : PointOf(m) = p)]
    /\ NothingUnderWay
    /\ ChainWith(Outpoints) /\ ChannelsAre("ChannelReady") /\ paid = {h1}

Busy == Cardinality({o \in OrderIds : order[o].status # "none" /\ o[2] # 1})
        + Cardinality(settling)
        + Cardinality({t \in FeeTxs : boundFee[t] # None})
\* Meanwhile no node is paired again and no channel changes.
DeliveredNext == MarketNext /\ Busy' <= MaxBusy /\ UNCHANGED <<node, fiber>>
DeliveredSpec == DeliveredInit /\ [][DeliveredNext]_vars /\ MarketFairness
=============================================================================
