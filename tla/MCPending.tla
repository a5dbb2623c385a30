----------------------------- MODULE MCPending -----------------------------
(***************************************************************************)
(* One address with two nonces; another transaction of the first pays a    *)
(* higher fee and is dear, the second is sent twice.                       *)
(***************************************************************************)
EXTENDS Pending

CONSTANTS alice, a0, a0x, a1, a1again

TxHash == [t \in Tx |-> IF t = a1again THEN a1 ELSE t]
TxFrom == [t \in Tx |-> alice]
TxNonce == [t \in Tx |-> IF t \in {a0, a0x} THEN 0 ELSE 1]
TxFee == [t \in Tx |-> IF t = a0x THEN 2 ELSE 1]
TxCost == [t \in Tx |-> IF t = a0x THEN 5 ELSE 2]
AddressFunds == [a \in Address |-> 6]
=============================================================================
