----------------------------- MODULE MCNodeLife -----------------------------
(***************************************************************************)
(* TLC instance of NodeLife: two default peers, one of which enrols, and   *)
(* another board that does, in a registry with a slot to spare once or not *)
(* at all; three key pairs, so that two attempts at saving one may be cut  *)
(* short; two watchdog resets, one of them early in boot, halt the node.   *)
(***************************************************************************)
EXTENDS NodeLife

CONSTANTS d1, d2, n

MCDefaults == <<d1, d2>>
=============================================================================
