----------------------------- MODULE MCSessions -----------------------------
(***************************************************************************)
(* A small instance of Sessions: one wallet whose address is its key's     *)
(* hash and one JoyID wallet, two requests at once, two codes.             *)
(***************************************************************************)
EXTENDS Sessions, TLC

CONSTANTS native, joyid, k1, k2, n1, x1, x2

MCNative == native :> k1
MCRoles == {"provider"}
Symmetry == Permutations({x1, x2})
=============================================================================
