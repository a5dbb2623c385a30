---------------------------- MODULE MCChainSync ----------------------------
EXTENDS ChainSync

\* Two branches; the third block of one is bad.  The block mined here may compete
\* with the second of the other, and the peer goes on from it.
MCParent == "a1" :> "g" @@ "a2" :> "a1" @@ "m2" :> "a1" @@ "m3" :> "m2"
            @@ "b1" :> "g" @@ "b2" :> "b1" @@ "b3" :> "b2"
MCHeight == "g" :> 0 @@ "a1" :> 1 @@ "a2" :> 2 @@ "m2" :> 2 @@ "m3" :> 3
            @@ "b1" :> 1 @@ "b2" :> 2 @@ "b3" :> 3
MCTips == "p" :> <<"a1", "a2", "m3">> @@ "q" :> <<"b3">>
=============================================================================
