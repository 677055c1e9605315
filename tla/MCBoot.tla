------------------------------- MODULE MCBoot -------------------------------
(***************************************************************************)
(* TLC instance of Boot by itself, with the limit of the code.  (NodeLife  *)
(* has it in a smaller instance.)                                          *)
(***************************************************************************)
EXTENDS Boot
=============================================================================
