---------------------------- MODULE MCVaultChain ----------------------------
(* Two providers, two requests of one merchant, one fee claim. *)
EXTENDS VaultChain, TLC

CONSTANTS p1, p2, w1, w2, c1, r1, r2

MCLpLock == (p1 :> "lp1") @@ (p2 :> "lp2")
MCMerchantLock == (r1 :> "merchant") @@ (r2 :> "merchant")
MCReceiptOf == (c1 :> p1)
MCWithdrawnFrom == (w1 :> p1) @@ (w2 :> p2)
=============================================================================
