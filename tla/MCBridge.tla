------------------------------ MODULE MCBridge ------------------------------
(***************************************************************************)
(* BridgeServer for TLC.  The turns of a run are interchangeable.          *)
(***************************************************************************)
EXTENDS BridgeServer, TLC

Symmetry == Permutations(Turns)

=============================================================================
