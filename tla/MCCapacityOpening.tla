------------------------- MODULE MCCapacityOpening -------------------------
(* Small instances of the provider's connector. *)
EXTENDS CapacityOpening, TLC

CONSTANTS o1, o2, f1, ma, mb

\* Two merchants, or one merchant twice; the foreign channel is the first one's.
PeersApart == (o1 :> ma) @@ (o2 :> mb) @@ (f1 :> ma)
PeersSame == (o1 :> ma) @@ (o2 :> ma) @@ (f1 :> ma)
Equal == [c \in Channels |-> IF c \in Orders THEN 2 ELSE 0]

Setting(peer, total, auto, approvals, reports, outside, stops) ==
    [peer |-> [c \in Channels |-> peer[c]], total |-> total, auto |-> auto,
     approvals |-> approvals, reports |-> reports, outside |-> outside,
     crashes |-> stops]

\* A limit for one opening; for both; one merchant's channels; approval by hand;
\* a channel opened with the merchant outside LiquidLane.
Alone == {Setting(PeersApart, 3, TRUE, {}, {}, {}, 1),
          Setting(PeersApart, 4, TRUE, {}, {}, {}, 1),
          Setting(PeersSame, 4, TRUE, {}, {}, {}, 1),
          Setting(PeersApart, 4, FALSE, {o1, o2}, {}, {}, 1),
          Setting(PeersSame, 3, TRUE, {}, {o1}, {f1}, 0)}
\* The approval by command of an order the worker opens by itself.
Beside == {Setting(PeersApart, 4, TRUE, {o1}, {}, {}, 0)}
=============================================================================
