--------------------------- MODULE MCVaultExecutor ---------------------------
EXTENDS VaultExecutor, TLC

CONSTANTS p1, p2, w1, c1, r1, r2

MCLpLock == [p \in Positions |-> "lp"]
\* The second merchant is the operator.
MCMerchantLock == (r1 :> "merchant" @@ r2 :> "operator")
MCReceiptOf == (c1 :> p1)
MCWithdrawnFrom == (w1 :> p1)

Setting(rpc, fiberNode, vaultMode, builder, limits) ==
    [rpc |-> rpc, fiber |-> fiberNode, vaultMode |-> vaultMode,
     builder |-> builder, bound |-> limits]
\* One provider and one merchant, 1 CKB at a time, one of everything.
Smallest ==
    [providers |-> {p1}, merchants |-> {r1}, supplied |-> {1}, moved |-> {1},
     positions |-> 1, requests |-> 1, payouts |-> 0, calls |-> 1,
     crashes |-> 0, again |-> TRUE, handoffs |-> 1, attempts |-> 1, channels |-> 1]

\* The chain without Fiber, with the operator as merchant: its request is found
\* again on the chain.
Chain == [Smallest EXCEPT !.merchants = {r2}, !.positions = 2, !.payouts = 2,
                          !.calls = 2, !.handoffs = 0, !.again = FALSE]
\* The ledger alone: two providers, requests of more than one of them has, and
\* two calls at once.
Shared == [Smallest EXCEPT !.providers = {p1, p2}, !.merchants = {r1, r2},
                           !.moved = {1, 2}, !.positions = 2, !.requests = 2,
                           !.again = FALSE]
Racing == [Shared EXCEPT !.moved = {2}, !.calls = 2]
\* Fiber without the chain: two handoffs at once, two attempts, a request of two
\* providers, and two channels that Fiber funds itself.
AtOnce == [Smallest EXCEPT !.handoffs = 2]
Retried == [Smallest EXCEPT !.attempts = 2]
Divided == [Smallest EXCEPT !.providers = {p1, p2}, !.positions = 2, !.moved = {2}]
Again == [Smallest EXCEPT !.channels = 2]
\* The vault funds a merchant's channel on the chain; and the operator's own.
Funding == [Smallest EXCEPT !.again = FALSE]
Found == [Funding EXCEPT !.merchants = {r2}, !.calls = 0]
\* A restart: of the ledger alone, and with channels that Fiber funds itself.
Restarted == [Smallest EXCEPT !.crashes = 1, !.payouts = 1, !.handoffs = 0,
                              !.again = FALSE]
Crashing == [Smallest EXCEPT !.crashes = 1]

MCConfigs ==
    {Setting(TRUE, FALSE, TRUE, FALSE, Chain),
     Setting(FALSE, FALSE, TRUE, FALSE, Shared),
     Setting(FALSE, FALSE, TRUE, FALSE, Racing),
     Setting(FALSE, TRUE, TRUE, TRUE, AtOnce),
     Setting(FALSE, TRUE, TRUE, TRUE, Retried),
     Setting(FALSE, TRUE, TRUE, TRUE, Divided),
     Setting(FALSE, TRUE, FALSE, FALSE, Again),
     Setting(FALSE, TRUE, TRUE, FALSE, Smallest),
     Setting(TRUE, TRUE, TRUE, TRUE, Funding),
     Setting(TRUE, TRUE, TRUE, TRUE, Found),
     Setting(FALSE, FALSE, TRUE, FALSE, Restarted),
     Setting(FALSE, TRUE, FALSE, FALSE, Crashing)}
=============================================================================
