---------------------------- MODULE MCConverger -----------------------------
(***************************************************************************)
(* Instances of Converger for TLC: on the grids of MCGrids, with peers that *)
(* are interchangeable.                                                    *)
(***************************************************************************)
EXTENDS Converger, MCGrids

Symmetry == Permutations(Peers)
=============================================================================
