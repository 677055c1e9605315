----------------------------- MODULE MCPeerTable -----------------------------
(***************************************************************************)
(* TLC instance of PeerTable in which only the mesh task looks for next   *)
(* hops: a registry and an LRU of one among five boards.  (MCMeshParts has *)
(* both tasks.)                                                            *)
(***************************************************************************)
EXTENDS PeerTable
=============================================================================
