------------------------------ MODULE MCPeers ------------------------------
(***************************************************************************)
(* Instances of Peers for TLC: connections of two addresses.               *)
(***************************************************************************)
EXTENDS Peers, TLC

CONSTANTS c1, c2, c3

\* The passing run stops where two updates overlap: what it checks says nothing of
\* what follows.
Orderly == ~ raced

Symmetry == Permutations({c1, c2, c3})
=============================================================================
