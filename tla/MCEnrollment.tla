---------------------------- MODULE MCEnrollment ----------------------------
(***************************************************************************)
(* TLC instances of Enrollment for what needs fairness: two nodes with a   *)
(* relay queue of one, so that it overflows, the registry of the first     *)
(* with room for both masters and that of the second with less; and one    *)
(* node that is wiped.                                                     *)
(***************************************************************************)
EXTENDS Enrollment
CONSTANT Crowded   \* the nodes that begin with more than the default peers

RetryInit ==
    /\ JoinInit
    /\ \A n \in Joiners : others[n] > Defaults <=> n \in Crowded

RetrySpec == RetryInit /\ [][JoinNext]_joinVars /\ Fairness
=============================================================================
