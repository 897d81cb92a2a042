--------------------------- MODULE MCMarketOrders ---------------------------
(* Small instances of the order book. *)
EXTENDS MarketOrders, TLC

CONSTANTS a1, a2, ap, m1, m2, p1, k1, f1, f2,
          MaxUsed  \* bound: offers and orders of one behaviour

\* The wallet m1 and m2 belong to, and the provider's.
MCOwner == (m1 :> a1) @@ (m2 :> a2) @@ (p1 :> ap)
MCOwnerOne == (m1 :> a1) @@ (p1 :> ap)

Policy(each, total, fee, committed) ==
    [maxOrder |-> each, maxTotal |-> total, minFee |-> fee,
     committed |-> committed]

MerchantReport == [available |-> 162, reserve |-> 99, policy |-> None]
\* A wallet for two orders of 100 CKB, with a budget for one or for both.
Budget == [available |-> 463, reserve |-> 99, policy |-> Policy(200, 400, 61, 100)]
Roomy == [available |-> 463, reserve |-> 99, policy |-> Policy(200, 400, 61, 0)]

MCReports == (m1 :> {MerchantReport}) @@ (m2 :> {MerchantReport})
             @@ (p1 :> {Budget, Roomy})
MCReportsOne == (m1 :> {MerchantReport}) @@ (p1 :> {Roomy})
MCTerms == {[min |-> 100, max |-> 100, fee |-> 61]}

Used == Cardinality({o \in OrderIds : order[o].status # "none"})
        + Cardinality({i \in OfferIds : offer[i].state # "none"}
                      \cup {w.id : w \in publishing})

\* Two rival orders on one offer, or one order among two rival offers.
MCNext == Next /\ Used' <= MaxUsed
MCSpec == Init /\ [][MCNext]_bookVars /\ Fairness
OfferSymmetry == Permutations(OfferIds)
=============================================================================
