------------------------------ MODULE MCCandy ------------------------------
(***************************************************************************)
(* Three requests of one address, which compete for the candy account's    *)
(* nonce: two clients ask for SYS and race for a row, the third names a    *)
(* token the service does not know.                                        *)
(***************************************************************************)
EXTENDS Candy

CONSTANTS q1, q2, q3, alice

OneAddress == [t \in WriteTask |-> alice]
TwoTokens == [t \in WriteTask |-> IF t = q3 THEN "empty" ELSE "s"]
=============================================================================
