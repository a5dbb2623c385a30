----------------------------- MODULE MCSynchro -----------------------------
(***************************************************************************)
(* A chain of five blocks copied in groups of two (a range of several      *)
(* groups, a last group that is shorter, ranges of one block), by a        *)
(* service that loads two balances first.                                  *)
(***************************************************************************)
EXTENDS Service

CONSTANTS g1, g2

TwoBalances == <<g1, g2>>
=============================================================================
