--------------------------- MODULE MCClaimedOrders ---------------------------
(* Small instances that begin, reachably, when the first order of some      *)
(* wallets was claimed and the funding of their channels is committed.  A   *)
(* scene says whose orders, and bounds what happens to them.                *)
EXTENDS MCMarketDelivery

CONSTANT Scenes   \* the instances a run explores

VARIABLE scene    \* the instance of this behaviour; it never changes

\* Closing channels whose observations overtake each other; verifications
\* between two funding outputs; observations that age and balances that move;
\* two orders whose reports name one funding output.
Reorder == [merchants |-> {m1}, points |-> {x1}, balances |-> {"opened"},
            reports |-> 2, probes |-> 1, last |-> 2]
Switch == [merchants |-> {m1}, points |-> {x1, x2}, balances |-> {"opened"},
           reports |-> 1, probes |-> 1, last |-> 2]
Aging == [merchants |-> {m1}, points |-> {x1},
          balances |-> {"opened", "drained"},
          reports |-> 1, probes |-> 1, last |-> 3]
Contested == [merchants |-> {m1, m2}, points |-> {x1}, balances |-> {"opened"},
              reports |-> 2, probes |-> 1, last |-> 2]
AllScenes == {Reorder, Switch, Aging, Contested}
\* Two probe reports on their way at once.
ProbeScene == {[Reorder EXCEPT !.probes = 2, !.reports = 1]}

Within(s) ==
    /\ clock <= s.last
    /\ Cardinality(reports) <= s.reports /\ Cardinality(probes) <= s.probes
    /\ s.probes = 0 => paid = {}
    /\ \A p \in Outpoints : /\ fiber[p].balance \in s.balances
                            /\ p \notin s.points => chain.funding[p] = "absent"

OpeningInit ==
    /\ scene \in Scenes
    /\ clock = OnlineWindow + 1 /\ Published
    /\ node = [n \in Nodes |-> FreshNode]    \* paired again since
    /\ order = [o \in OrderIds |->
          IF \E m \in scene.merchants : o = First(m)
          THEN Claimed(CHOOSE m \in scene.merchants : o = First(m))
          ELSE NoOrder]
    /\ NothingStored /\ NothingUnderWay
    /\ ChainWith(scene.points) /\ ChannelsAre("Pending") /\ paid = {}

OpeningNext == MarketNext /\ UNCHANGED scene /\ Within(scene)'
OpeningSpec == OpeningInit /\ [][OpeningNext]_<<vars, scene>>
=============================================================================
