---------------------------- MODULE MCBlockFetch ----------------------------
(***************************************************************************)
(* Two blocks and three peers that may all have them, with windows of one *)
(* block to begin with, so that windows fill, grow and run out.            *)
(***************************************************************************)
EXTENDS BlockFetch

CONSTANTS p1, p2, p3

\* Headers come along one chain.
HeadersInOrder == {SetToSortSeq(S, <) : S \in SUBSET Block \ {{}}}
=============================================================================
