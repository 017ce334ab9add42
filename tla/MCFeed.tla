------------------------------- MODULE MCFeed ------------------------------
(* Feed on small instances; the bounds are in the .cfg files.              *)
EXTENDS Feed, TLC

CONSTANTS f1, f2, d1

ClientSymmetry == Permutations(Client)
FlowSymmetry == Permutations({f1, f2})
Symmetry == ClientSymmetry \cup FlowSymmetry
=============================================================================
