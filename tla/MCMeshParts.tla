----------------------------- MODULE MCMeshParts -----------------------------
(***************************************************************************)
(* One TLC instance of how nodes join the mesh (Enrollment), how frames    *)
(* find their way through it (Routing) and of the ESP-NOW table of one     *)
(* node in it (PeerTable).  Routing takes every leaf to be enrolled, and   *)
(* PeerTable leaves open which next hop is chosen, so the three share no   *)
(* state, and in a behaviour one of them moves.                            *)
(*                                                                         *)
(* The node that joins is wiped and restarted at any NVS write, with room  *)
(* for two masters, one or none in its registry and a JOIN_ACK that may    *)
(* name two.  The mesh has one relay that hears the master, and two leaves *)
(* behind it that hear each other.  The table has a registry and an LRU of *)
(* one among five boards, one of them the master, so that boards wander    *)
(* between the owners of the table while two tasks look for a next hop.    *)
(***************************************************************************)
EXTENDS Routing, PeerTable, Enrollment
CONSTANTS a, b, c

VARIABLE part   \* the part that moves

PartsInit ==
    /\ part \in {"joining", "mesh", "table"}
    /\ Init /\ TableInit /\ JoinInit
    /\ part = "joining" \/ \A n \in Joiners : others[n] = Defaults

PartsNext ==
    /\ UNCHANGED part
    /\ \/ part = "joining" /\ JoinNext /\ UNCHANGED <<vars, tableVars>>
       \/ part = "mesh" /\ Next /\ UNCHANGED <<tableVars, joinVars>>
       \/ part = "table" /\ TableNext /\ UNCHANGED <<vars, joinVars>>

PartsSpec == PartsInit /\ [][PartsNext]_<<part, vars, tableVars, joinVars>>

-----------------------------------------------------------------------------
MCLinks ==
    {l \in Nodes \X Nodes :
        {l[1], l[2]} \in {{Master, a}, {a, b}, {a, c}, {b, c}}}
MCTraffic == {<<c, "REPORT">>, <<c, "DATA">>}
=============================================================================
