---------------------------- MODULE MCMeshTasks ----------------------------
(***************************************************************************)
(* TLC instances of MeshTasks: a queue of two and three frames.            *)
(***************************************************************************)
EXTENDS MeshTasks

CONSTANTS a, b, c

Beacon(m, n) == [origin |-> m, num |-> n]
Data == Beacon(NoMac, 0)

Board(p, d, k, s) == [pin |-> p, dual |-> d, known |-> k, secondary |-> s]

\* A new production board that hears its master and another one; and a
\* development board in dual mode with a master of its own, which hears a
\* second and a third one, the third with a lower boot epoch.
MCScenarios == {
    [board |-> Board(a, TRUE, NoMac, NoMac),
     radio |-> <<Beacon(a, 1), Beacon(b, 1), Beacon(a, 2)>>],
    [board |-> Board(NoMac, TRUE, a, NoMac),
     radio |-> <<Beacon(b, 2), Beacon(c, 1), Data>>]}

\* An enrolled production board in dual mode whose JOIN_ACK named a secondary
\* master; the primary falls silent.
MCSecondaryScenarios == {
    [board |-> Board(a, TRUE, a, b),
     radio |-> <<Beacon(a, 1), Beacon(b, 2), Beacon(b, 3)>>]}
=============================================================================
