--------------------------- MODULE MCTxSequence ---------------------------
(***************************************************************************)
(* TLC instance of TxSequence with two tasks.  (MCNodeParts has one.)      *)
(* SeqMod = 3 makes the wrap happen after two frames; EpochMax leaves room *)
(* for several boots and wraps.                                            *)
(***************************************************************************)
EXTENDS TxSequence
=============================================================================
