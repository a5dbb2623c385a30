---------------------------- MODULE MCSnapshots ----------------------------
(* A chain of three blocks.                                                *)
EXTENDS Snapshots, TLC

CONSTANTS g, a, b1

MCBlock == {g, a, b1}

MCParent == (a :> g) @@ (b1 :> a)

=============================================================================
