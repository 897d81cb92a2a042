------------------------- MODULE MCSettlementProof -------------------------
(***************************************************************************)
(* A channel that closes by agreement, or by force into two commitments    *)
(* that are swept together or one by one, through a further commitment,    *)
(* into wallets or into a cell nobody recognises.  Two unrelated           *)
(* transactions share the commitments' lock and fill the indexer's pages.  *)
(***************************************************************************)
EXTENDS SettlementProof

Made(kind, lock) == [kind |-> kind, lock |-> lock]
Wallet == Made("wallet", "w")
Commitment == Made("commitment", "c")

MCOutputs ==
    [open |-> <<Made("funding", "f")>>,
     close |-> <<Wallet, Wallet>>,
     force |-> <<Commitment, Commitment, Wallet>>,
     sweep |-> <<Wallet>>,
     step |-> <<Commitment, Wallet>>,
     rest |-> <<Wallet>>,
     last |-> <<Wallet>>,
     lost |-> <<Made("other", "o")>>,
     busy |-> <<Made("other", "c")>>,
     more |-> <<Made("other", "c")>>]

MCInputs ==
    [open |-> {},
     close |-> {<<"open", 1>>},
     force |-> {<<"open", 1>>},
     sweep |-> {<<"force", 1>>, <<"force", 2>>},
     step |-> {<<"force", 1>>},
     rest |-> {<<"force", 2>>},
     last |-> {<<"step", 1>>},
     lost |-> {<<"step", 1>>},
     busy |-> {},
     more |-> {<<"busy", 1>>}]

MCTxs == DOMAIN MCOutputs
=============================================================================
