------------------------------ MODULE MCPeers ------------------------------
(* Three nodes, one of which may be of another chain, and the streams of two *)
(* packages between them.                                                    *)
EXTENDS Peers, PackageStream

CONSTANTS a, b, c3

MCKind == [n \in Node |-> IF n = b THEN "validators" ELSE "random"]
MCStatic == (a :> {b, c3}) @@ (b :> {a}) @@ (c3 :> {})
MCNeeded == (a :> 2) @@ (b :> 1) @@ (c3 :> 0)
MCChains == {[n \in Node |-> "g"], [n \in Node |-> IF n = c3 THEN "f" ELSE "g"]}

Lengths == [id : {1, 2}, body : 0..1, data : 0..2]

\* reader.ts 52-116: however the socket cuts the stream, the reader finds the
\* packages.  No step of a connection bears on it, so that it is enough to look
\* at it while there is none.
PackagesSurvive ==
    DOMAIN conn = {} => \A x, y \in Lengths :
        x.id = 1 /\ y.id = 2 =>
            \A cuts \in SUBSET (1..(Len(Stream(<<x, y>>)) - 1)) : Unbroken(<<x, y>>, cuts)
=============================================================================
