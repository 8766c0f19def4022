------------------------------- MODULE MCTurn -------------------------------
(***************************************************************************)
(* Turn for TLC.  The turns of a run are interchangeable.                  *)
(***************************************************************************)
EXTENDS Turn, TLC

Symmetry == Permutations(Turns)

=============================================================================
