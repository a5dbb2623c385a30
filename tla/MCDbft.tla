------------------------------- MODULE MCDbft -------------------------------
EXTENDS Dbft

CONSTANTS n1, n2, n3

TwoValidators == <<n1, n2>>
ThreeValidators == <<n1, n2, n3>>
=============================================================================
