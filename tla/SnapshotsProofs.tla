-------------------------- MODULE SnapshotsProofs --------------------------
(***************************************************************************)
(* Proofs about the storage manager and its snapshots, for any tree of     *)
(* blocks, any number of clients, views and restarts, and any order of     *)
(* the parties' awaits.                                                    *)
(***************************************************************************)
EXTENDS Snapshots, FiniteSetTheorems, TLAPS

\* A request that makes a view is at one of these awaits.
Making == {"found", "walk", "near", "redo", "drop", "open"}

At(p, b, places) == req[p].block = b /\ req[p].at \in places

\* Who has asked for b's view or has it, and will release it.
Claims(b) ==
    {p \in Party : At(p, b, Making \cup {"wait", "hold"})}
    \cup (IF chain.cur = b THEN {"cur"} ELSE {})
    \cup (IF b \in mork.refs THEN {"ref"} ELSE {})
    \cup (IF b \in mork.got THEN {"got"} ELSE {})
    \cup (IF b = Genesis THEN {"genesis"} ELSE {})

Ready(b) == st.views[b] # None /\ st.views[b].ready

Counted(b, n) == st.entry[b] # None /\ st.entry[b] >= n

\* A view counts those who will release it, and is forgotten only when there is nobody.
ClaimsAreCounted ==
    \A b \in Block :
        IF st.views[b] = None THEN Claims(b) = {}
        ELSE Cardinality(Claims(b)) <= st.views[b].ref

\* Whoever has a view, has one that is ready; the genesis is held for good.
HeldAreReady == \A b \in Block : Holders(b) # {} \/ b = Genesis => Ready(b)

\* While a view is made nobody else makes it, and those who wait for it are told.
MakersAreAlone ==
    \A p \in Party, b \in Block : At(p, b, Making \cup {"wait"}) =>
        /\ ~st.views[b].ready /\ ~st.views[b].dead
        /\ \A q \in Party : At(p, b, Making) /\ At(q, b, Making) => p = q

\* An entry counts the view, once it is opened, and those being closed; a view
\* that is made anew has none of these.
EntriesAreCounted ==
    \A b \in Block \ st.miscounted :
        /\ Ready(b) => st.dump[b] # <<>> /\ Counted(b, st.closing[b] + 1)
        /\ st.closing[b] > 0 => st.dump[b] # <<>> /\ Counted(b, st.closing[b])
        /\ \A p \in Party :
              /\ At(p, b, {"open"}) => Counted(b, st.closing[b] + 1)
              /\ At(p, b, {"walk", "near", "redo", "drop"}) => st.closing[b] = 0

\* What a request has left leads from the block it has come to to its own.
WalksLead ==
    \A p \in Party, b \in Block : At(p, b, {"walk", "near"}) =>
        Path[b] = Path[req[p].from] \o req[p].left

\* The logs that are left make the dump its block's.
RedoLeads ==
    \A p \in Party, b \in Block :
        At(p, b, {"redo"}) /\ b \notin st.spoilt /\ st.dump[b] # <<>> =>
            Path[b] = st.dump[b] \o req[p].left

IInv ==
    /\ TypeOK /\ Genesis \notin st.miscounted
    /\ ClaimsAreCounted /\ HeldAreReady /\ MakersAreAlone /\ EntriesAreCounted
    /\ WalksLead /\ RedoLeads /\ DumpIsItsBlock

----------------------------------------------------------------------------
\* Paths

\* g is the path of every block of S, a set of blocks with all their ancestors.
Paths(S, g) ==
    /\ S \subseteq Block
    /\ \A b \in S \ {Genesis} : Parent[b] \in S
    /\ \A b \in S : g[b] = IF b = Genesis THEN <<b>> ELSE Append(g[Parent[b]], b)

\* Some set of blocks that is not empty has one whose parent is not in it.
LEMMA First ==
    ASSUME NEW S \in SUBSET Block, Genesis \notin S, S # {}
    PROVE  \E b \in S : b # Genesis /\ Parent[b] \in Block \ S
<1>1. S \in SUBSET (Block \ {Genesis})
  OBVIOUS
<1>2. PICK b \in S : Parent[b] \notin S
  BY <1>1, SnapshotsAssumption, Zenon DEF SnapshotsAssumption
<1>3. b # Genesis /\ Parent[b] \in Block
  BY <1>1, SnapshotsAssumption
<1>4. QED
  BY <1>2, <1>3

\* There is one path to a block.
LEMMA PathsAgree ==
    ASSUME NEW S, NEW g, Paths(S, g), NEW T, NEW h, Paths(T, h)
    PROVE  \A b \in S \cap T : g[b] = h[b]
<1> DEFINE Bad == {b \in S \cap T : g[b] # h[b]}
<1> SUFFICES ASSUME Bad # {} PROVE FALSE
  OBVIOUS
<1>1. Genesis \notin Bad
  BY DEF Paths
<1>2. Bad \in SUBSET Block
  BY DEF Paths
<1>3. PICK b \in Bad : b # Genesis /\ Parent[b] \notin Bad
  <2> HIDE DEF Bad
  <2>1. QED
    BY <1>1, <1>2, First
<1>4. Parent[b] \in S \cap T
  BY <1>3 DEF Paths
<1>5. g[Parent[b]] = h[Parent[b]]
  BY <1>3, <1>4
<1>6. QED
  BY <1>3, <1>5 DEF Paths

\* The path of a block is that of its parent and the block.
LEMMA PathIs ==
    \A b \in Block : Path[b] = IF b = Genesis THEN <<b>> ELSE Append(Path[Parent[b]], b)
<1> DEFINE Known == {b \in Block : \E S, g : Paths(S, g) /\ b \in S}
           Of(b) == CHOOSE x : \E S, g : Paths(S, g) /\ b \in S /\ x = g[b]
           f == [b \in Block |-> Of(b)]
<1>1. ASSUME NEW S, NEW g, Paths(S, g), NEW b \in S PROVE f[b] = g[b] /\ b \in Known
  <2>1. b \in Block
    BY <1>1 DEF Paths
  <2>2. \E x : \E T, h : Paths(T, h) /\ b \in T /\ x = h[b]
    BY <1>1
  <2>3. PICK T, h : Paths(T, h) /\ b \in T /\ Of(b) = h[b]
    BY <2>2, Zenon
  <2>4. h[b] = g[b]
    BY <1>1, <2>3, PathsAgree
  <2>5. QED
    BY <1>1, <2>1, <2>3, <2>4
<1> HIDE DEF f
<1>2. Paths(Known, f)
  <2>1. ASSUME NEW b \in Known
        PROVE  /\ b # Genesis => Parent[b] \in Known
               /\ f[b] = IF b = Genesis THEN <<b>> ELSE Append(f[Parent[b]], b)
    <3>1. PICK S, g : Paths(S, g) /\ b \in S
      OBVIOUS
    <3>2. f[b] = g[b] /\ b \in Known
      BY <1>1, <3>1
    <3>3. b # Genesis => Parent[b] \in S
      BY <3>1 DEF Paths
    <3>4. b # Genesis => f[Parent[b]] = g[Parent[b]] /\ Parent[b] \in Known
      BY <1>1, <3>1, <3>3
    <3>5. g[b] = IF b = Genesis THEN <<b>> ELSE Append(g[Parent[b]], b)
      BY <3>1 DEF Paths
    <3>6. QED
      BY <3>2, <3>4, <3>5
  <2>2. Known \subseteq Block
    OBVIOUS
  <2> HIDE DEF Known
  <2>3. QED
    BY <2>1, <2>2 DEF Paths
<1>3. Known = Block
  <2>1. Genesis \in Known
    <3>1. Paths({Genesis}, [b \in {Genesis} |-> <<b>>])
      BY SnapshotsAssumption DEF Paths
    <3>2. QED
      BY <1>1, <3>1
  <2>2. SUFFICES ASSUME Block \ Known # {} PROVE FALSE
    OBVIOUS
  <2>3. PICK b \in Block \ Known : b # Genesis /\ Parent[b] \in Block \ (Block \ Known)
    <3>1. Block \ Known \in SUBSET Block /\ Genesis \notin Block \ Known
      BY <2>1
    <3> HIDE DEF Known
    <3>2. QED
      BY <2>2, <3>1, First
  <2> DEFINE more == Known \cup {b}
             h == [x \in more |-> IF x = b THEN Append(f[Parent[b]], b) ELSE f[x]]
  <2>4. Paths(more, h)
    <3>1. Known \subseteq Block
      OBVIOUS
    <3> HIDE DEF Known
    <3>2. QED
      BY <1>2, <2>3, <3>1 DEF Paths
  <2>5. b \in Known
    BY <1>1, <2>4
  <2>6. QED
    BY <2>3, <2>5
<1>4. f = [b \in Block |-> IF b = Genesis THEN <<b>> ELSE Append(f[Parent[b]], b)]
  <2> HIDE DEF Known
  <2>1. Paths(Block, f)
    BY <1>2, <1>3
  <2>2. \A b \in Block : f[b] = IF b = Genesis THEN <<b>> ELSE Append(f[Parent[b]], b)
    BY <2>1 DEF Paths
  <2>3. f = [b \in Block |-> f[b]]
    BY DEF f
  <2>4. QED
    BY <2>2, <2>3
<1>5. Path = [b \in Block |-> IF b = Genesis THEN <<b>> ELSE Append(Path[Parent[b]], b)]
  BY <1>4, Zenon DEF Path
<1>6. QED
  BY <1>5

\* A path is a sequence of blocks that ends with its own.
LEMMA PathType == \A b \in Block : Path[b] \in Seq(Block) /\ Path[b] # <<>>
<1> DEFINE Bad == {b \in Block : ~(Path[b] \in Seq(Block) /\ Path[b] # <<>>)}
<1> SUFFICES ASSUME Bad # {} PROVE FALSE
  OBVIOUS
<1>1. Genesis \notin Bad
  <2>1. Genesis \in Block
    BY SnapshotsAssumption
  <2>2. Path[Genesis] = <<Genesis>>
    BY <2>1, PathIs
  <2>3. <<Genesis>> \in Seq(Block) /\ <<Genesis>> # <<>>
    BY <2>1
  <2>4. QED
    BY <2>2, <2>3
<1>2. PICK b \in Bad : b # Genesis /\ Parent[b] \in Block \ Bad
  <2>1. Bad \in SUBSET Block
    OBVIOUS
  <2> HIDE DEF Bad
  <2>2. QED
    BY <1>1, <2>1, First
<1>3. Path[b] = Append(Path[Parent[b]], b)
  BY <1>2, PathIs
<1>4. Path[Parent[b]] \in Seq(Block)
  BY <1>2
<1>5. Append(Path[Parent[b]], b) \in Seq(Block) /\ Append(Path[Parent[b]], b) # <<>>
  BY <1>4
<1>6. QED
  BY <1>3, <1>5

----------------------------------------------------------------------------
\* Claims

Tags == Party \cup {"cur", "ref", "got", "genesis"}

\* There are finitely many who can claim a view.
LEMMA Countable ==
    ASSUME NEW C \in SUBSET Tags
    PROVE  /\ IsFiniteSet(C) /\ Cardinality(C) \in Nat
           /\ Cardinality(C) = 0 <=> C = {}
<1> DEFINE own == {"chain", "mork", "pool", "cur", "ref", "got", "genesis"}
<1>1. IsFiniteSet(own)
  <2>1. own = ({"chain", "mork", "pool"} \cup {"cur", "ref"}) \cup {"got", "genesis"}
    OBVIOUS
  <2>2. ASSUME NEW x, NEW y PROVE IsFiniteSet({x, y})
    <3>1. {x, y} = {x} \cup {y} /\ IsFiniteSet({x}) /\ IsFiniteSet({y})
      BY FS_Singleton
    <3>2. QED
      BY <3>1, FS_Union
  <2>3. ASSUME NEW x, NEW y, NEW z, NEW a, NEW b PROVE IsFiniteSet({x, y, z} \cup {a, b})
    <3>1. {x, y, z} = {x, y} \cup {z, z}
      OBVIOUS
    <3>2. IsFiniteSet({x, y}) /\ IsFiniteSet({z, z}) /\ IsFiniteSet({a, b})
      BY <2>2
    <3>3. IsFiniteSet({x, y} \cup {z, z})
      BY <3>2, FS_Union
    <3>4. IsFiniteSet(({x, y} \cup {z, z}) \cup {a, b})
      BY <3>2, <3>3, FS_Union
    <3>5. QED
      BY <3>1, <3>4
  <2>4. IsFiniteSet({"got", "genesis"})
    BY <2>2
  <2> HIDE DEF own
  <2>5. QED
    BY <2>1, <2>3, <2>4, FS_Union
<1>2. Tags = User \cup own
  BY DEF Tags, Party
<1>3. IsFiniteSet(User)
  BY SnapshotsAssumption
<1>4. IsFiniteSet(Tags)
  BY <1>1, <1>2, <1>3, FS_Union
<1>5. QED
  BY <1>4, FS_Subset, FS_CardinalityType, FS_EmptySet

\* Some of them are no more than all of them.
LEMMA NoMore ==
    ASSUME NEW C \in SUBSET Tags, NEW D \in SUBSET Tags, C \subseteq D
    PROVE  Cardinality(C) <= Cardinality(D)
BY Countable, FS_Subset

\* One more.
LEMMA OneMore ==
    ASSUME NEW C \in SUBSET Tags, NEW D \in SUBSET Tags, NEW x \in Tags, C \subseteq D \cup {x}
    PROVE  Cardinality(C) <= Cardinality(D) + 1
<1>1. D \cup {x} \in SUBSET Tags /\ IsFiniteSet(D)
  BY Countable
<1>2. Cardinality(C) <= Cardinality(D \cup {x})
  BY <1>1, NoMore
<1>3. Cardinality(D \cup {x}) = IF x \in D THEN Cardinality(D) ELSE Cardinality(D) + 1
  BY <1>1, FS_AddElement
<1>4. Cardinality(D) \in Nat /\ Cardinality(C) \in Nat
  BY Countable
<1>5. QED
  BY <1>2, <1>3, <1>4

\* One less.
LEMMA OneLess ==
    ASSUME NEW C \in SUBSET Tags, NEW D \in SUBSET Tags, NEW x \in D, C \subseteq D \ {x}
    PROVE  Cardinality(C) + 1 <= Cardinality(D)
<1>1. D \ {x} \in SUBSET Tags /\ IsFiniteSet(D)
  BY Countable
<1>2. Cardinality(C) <= Cardinality(D \ {x})
  BY <1>1, NoMore
<1>3. Cardinality(D \ {x}) = Cardinality(D) - 1
  BY <1>1, FS_RemoveElement
<1>4. Cardinality(D) \in Nat /\ Cardinality(C) \in Nat
  BY Countable
<1>5. QED
  BY <1>2, <1>3, <1>4

\* One in another's place.
LEMMA OneElse ==
    ASSUME NEW C \in SUBSET Tags, NEW D \in SUBSET Tags, NEW x \in D, NEW y \in Tags,
           C \subseteq (D \ {x}) \cup {y}
    PROVE  Cardinality(C) <= Cardinality(D)
<1>1. D \ {x} \in SUBSET Tags
  OBVIOUS
<1>2. Cardinality(D \ {x}) + 1 <= Cardinality(D)
  BY <1>1, OneLess
<1>3. Cardinality(C) <= Cardinality(D \ {x}) + 1
  BY <1>1, OneMore
<1>4. Cardinality(D) \in Nat /\ Cardinality(C) \in Nat /\ Cardinality(D \ {x}) \in Nat
  BY <1>1, Countable
<1>5. QED
  BY <1>2, <1>3, <1>4

\* The node's parties are no clients, and its places no parties.
LEMMA OwnParties ==
    /\ {"chain", "mork", "pool"} \subseteq Party
    /\ {"cur", "ref", "got", "genesis"} \cap Party = {}
BY SnapshotsAssumption DEF Party, Own

\* Those who claim a view are some of all that may.
LEMMA ClaimsType == \A b : Claims(b) \in SUBSET Tags /\ Claims(b)' \in SUBSET Tags
BY DEF Claims, Tags

----------------------------------------------------------------------------
\* A request is made

Unheld == /\ chain'.cur = chain.cur /\ mork'.refs = mork.refs /\ mork'.got = mork.got

\* What AskView does to the requests and the views.
AskEffect(p, b) ==
    /\ req[p].at = "idle"
    /\ \A q \in Party \ {p} : req'[q] = req[q]
    /\ req'[p].block = b /\ req'[p].from = b /\ req'[p].left = <<>>
    /\ req'[p].at = IF st.views[b] = None
                    THEN IF st.dump[b] # <<>> THEN "found" ELSE "walk"
                    ELSE IF st.views[b].ready THEN "hold"
                    ELSE IF st.views[b].dead THEN "lost" ELSE "wait"
    /\ \A c \in Block \ {b} : st'.views[c] = st.views[c]
    /\ st'.views[b] = IF st.views[b] = None THEN NewView
                      ELSE [st.views[b] EXCEPT !.ref = @ + 1]
    /\ st'.dump = st.dump /\ st'.entry = st.entry /\ st'.closing = st.closing
    /\ st'.spoilt = st.spoilt /\ st'.miscounted = st.miscounted /\ st'.log = st.log

\* The effect, request by request and view by view.
LEMMA Asks ==
    ASSUME IInv, NEW p \in Party, NEW b \in Block, AskView(p, b)
    PROVE  AskEffect(p, b)
<1>1. /\ st.views \in [Block -> View \cup {None}]
      /\ DOMAIN st = {"dump", "log", "spoilt", "miscounted", "entry", "views", "closing"}
      /\ DOMAIN req = Party
  BY DEF IInv, TypeOK
<1>2. PICK at : /\ req' = [req EXCEPT ![p] = Asked(at, b)]
                /\ at = IF st.views[b] = None
                        THEN IF st.dump[b] # <<>> THEN "found" ELSE "walk"
                        ELSE IF st.views[b].ready THEN "hold"
                        ELSE IF st.views[b].dead THEN "lost" ELSE "wait"
  BY Zenon DEF AskView
<1>3. PICK v : /\ st' = [st EXCEPT !.views[b] = v]
               /\ v = IF st.views[b] = None THEN NewView
                      ELSE [st.views[b] EXCEPT !.ref = @ + 1]
  BY Zenon DEF AskView
<1>4. req'[p] = Asked(at, b) /\ \A q \in Party \ {p} : req'[q] = req[q]
  BY <1>1, <1>2
<1>5. /\ st'.views[b] = v /\ \A c \in Block \ {b} : st'.views[c] = st.views[c]
      /\ st'.dump = st.dump /\ st'.entry = st.entry /\ st'.closing = st.closing
      /\ st'.spoilt = st.spoilt /\ st'.miscounted = st.miscounted /\ st'.log = st.log
  BY <1>1, <1>3
<1>6. req[p].at = "idle"
  BY DEF AskView
<1>7. /\ req'[p].block = b /\ req'[p].from = b /\ req'[p].left = <<>>
      /\ req'[p].at = at
  BY <1>4 DEF Asked
<1>8. QED
  BY <1>2, <1>3, <1>4, <1>5, <1>6, <1>7 DEF AskEffect

\* One more party claims the view it asks for.
LEMMA AskedClaims ==
    ASSUME IInv, NEW p \in Party, NEW b \in Block, AskView(p, b), Unheld
    PROVE  ClaimsAreCounted'
<1>0. AskEffect(p, b)
  BY Asks
<1>1. ASSUME NEW c \in Block \ {b} PROVE Claims(c)' = Claims(c)
  <2>1. {q \in Party : At(q, c, Making \cup {"wait", "hold"})}' =
           {q \in Party : At(q, c, Making \cup {"wait", "hold"})}
    BY <1>0 DEF AskEffect, At, Making
  <2>2. QED
    BY <2>1 DEF Unheld, Claims
<1>2. Claims(b)' \subseteq Claims(b) \cup {p}
  <2>1. {q \in Party : At(q, b, Making \cup {"wait", "hold"})}' \subseteq
           {q \in Party : At(q, b, Making \cup {"wait", "hold"})} \cup {p}
    BY <1>0 DEF AskEffect, At
  <2>2. QED
    BY <2>1 DEF Unheld, Claims
<1>3. ASSUME NEW c \in Block
      PROVE  IF st.views[c] = None THEN Claims(c) = {}
             ELSE st.views[c] \in View /\ Cardinality(Claims(c)) <= st.views[c].ref
  BY DEF IInv, ClaimsAreCounted, TypeOK
<1>4. ASSUME NEW c \in Block
      PROVE  IF st'.views[c] = None THEN Claims(c)' = {}
             ELSE Cardinality(Claims(c)') <= st'.views[c].ref
  <2>1. CASE c # b
    <3>1. st'.views[c] = st.views[c]
      BY <1>0, <2>1 DEF AskEffect
    <3>2. QED
      BY <1>1, <1>3, <2>1, <3>1
  <2>2. CASE c = b /\ st.views[b] = None
    <3>1. Claims(b) = {} /\ Cardinality({}) = 0
      BY <1>3, <2>2, FS_EmptySet
    <3>2. Cardinality(Claims(b)') <= Cardinality({}) + 1
      BY <1>2, <3>1, ClaimsType, OneMore DEF Tags
    <3>3. st'.views[b] = NewView
      BY <1>0, <2>2 DEF AskEffect
    <3>4. NewView \in View /\ NewView.ref = 1
      BY DEF NewView, View
    <3>5. NewView # None
      BY <3>4, SnapshotsAssumption
    <3>6. QED
      BY <2>2, <3>1, <3>2, <3>3, <3>4, <3>5
  <2>3. CASE c = b /\ st.views[b] # None
    <3>1. st.views[b] \in View /\ Cardinality(Claims(b)) <= st.views[b].ref
      BY <1>3, <2>3
    <3>2. st'.views[b] = [st.views[b] EXCEPT !.ref = @ + 1]
      BY <1>0, <2>3 DEF AskEffect
    <3>3. st'.views[b] \in View /\ st'.views[b].ref = st.views[b].ref + 1
      BY <3>1, <3>2 DEF View
    <3>4. st'.views[b] # None
      BY <3>3, SnapshotsAssumption
    <3>5. Cardinality(Claims(b)') <= Cardinality(Claims(b)) + 1
      BY <1>2, ClaimsType, OneMore DEF Tags
    <3>6. /\ Cardinality(Claims(b)') \in Nat /\ Cardinality(Claims(b)) \in Nat
          /\ st.views[b].ref \in Nat
      BY <3>1, ClaimsType, Countable DEF View
    <3>7. QED
      BY <2>3, <3>1, <3>3, <3>4, <3>5, <3>6
  <2>4. QED
    BY <2>1, <2>2, <2>3
<1>5. QED
  BY <1>4 DEF ClaimsAreCounted

\* What is ready stays so, and whoever gets a view at once gets a ready one.
LEMMA AskedHolders ==
    ASSUME IInv, NEW p \in Party, NEW b \in Block, AskView(p, b), Unheld
    PROVE  HeldAreReady' /\ \A c \in Block : Ready(c)' <=> Ready(c)
<1>0. AskEffect(p, b)
  BY Asks
<1>1. ASSUME NEW c \in Block PROVE Ready(c)' <=> Ready(c)
  <2>1. CASE c # b
    BY <1>0, <2>1 DEF AskEffect, Ready
  <2>2. CASE c = b /\ st.views[b] = None
    BY <1>0, <2>2 DEF AskEffect, Ready, NewView
  <2>3. CASE c = b /\ st.views[b] # None
    <3>1. st.views[b] \in View
      BY <2>3 DEF IInv, TypeOK
    <3>2. st'.views[b] = [st.views[b] EXCEPT !.ref = @ + 1]
      BY <1>0, <2>3 DEF AskEffect
    <3>3. st'.views[b] \in View /\ st'.views[b].ready = st.views[b].ready
      BY <3>1, <3>2 DEF View
    <3>4. st'.views[b] # None
      BY <3>3, SnapshotsAssumption
    <3>5. QED
      BY <2>3, <3>3, <3>4 DEF Ready
  <2>4. QED
    BY <2>1, <2>2, <2>3
<1>2. ASSUME NEW c \in Block, Holders(c)' # {} \/ c = Genesis PROVE Ready(c)
  <2>1. CASE Holders(c) # {} \/ c = Genesis
    BY <2>1 DEF IInv, HeldAreReady
  <2>2. CASE ~(Holders(c) # {} \/ c = Genesis)
    <3>1. \A q \in Party : ~(req[q].block = c /\ req[q].at = "hold")
      BY <2>2 DEF Holders
    <3>2. PICK q \in Party : req'[q].block = c /\ req'[q].at = "hold"
      BY <1>2, <2>2 DEF Holders, Unheld
    <3>3. q = p
      BY <1>0, <3>1, <3>2 DEF AskEffect
    <3>4. QED
      BY <1>0, <3>2, <3>3 DEF AskEffect, Ready
  <2>3. QED
    BY <2>1, <2>2
<1>3. QED
  BY <1>1, <1>2 DEF HeldAreReady

\* A view that is not there is made by the one who asks first.
LEMMA AskedMakers ==
    ASSUME IInv, NEW p \in Party, NEW b \in Block, AskView(p, b), Unheld
    PROVE  MakersAreAlone'
<1>0. AskEffect(p, b)
  BY Asks
<1>1. ASSUME NEW r \in Party, At(r, b, Making \cup {"wait"}) PROVE st.views[b] # None
  BY <1>1 DEF IInv, ClaimsAreCounted, Claims, At
<1>2. ASSUME st.views[b] # None
      PROVE  st'.views[b].ready = st.views[b].ready /\ st'.views[b].dead = st.views[b].dead
  <2>1. st.views[b] \in View /\ st'.views[b] = [st.views[b] EXCEPT !.ref = @ + 1]
    BY <1>0, <1>2 DEF AskEffect, IInv, TypeOK
  <2>2. QED
    BY <2>1 DEF View
<1>3. ASSUME NEW q \in Party, NEW c \in Block, At(q, c, Making \cup {"wait"})'
      PROVE  ~st'.views[c].ready /\ ~st'.views[c].dead
  <2>1. CASE q # p
    <3>1. At(q, c, Making \cup {"wait"})
      BY <1>0, <1>3, <2>1 DEF AskEffect, At
    <3>2. ~st.views[c].ready /\ ~st.views[c].dead
      BY <3>1 DEF IInv, MakersAreAlone
    <3>3. CASE c = b
      BY <1>1, <1>2, <3>1, <3>2, <3>3
    <3>4. CASE c # b
      BY <1>0, <3>2, <3>4 DEF AskEffect
    <3>5. QED
      BY <3>3, <3>4
  <2>2. CASE q = p
    <3>1. c = b
      BY <1>0, <1>3, <2>2 DEF AskEffect, At
    <3>2. CASE st.views[b] = None
      BY <1>0, <3>1, <3>2 DEF AskEffect, NewView
    <3>3. CASE st.views[b] # None
      BY <1>0, <1>2, <1>3, <2>2, <3>1, <3>3 DEF AskEffect, At, Making
    <3>4. QED
      BY <3>2, <3>3
  <2>3. QED
    BY <2>1, <2>2
<1>4. ASSUME At(p, b, Making)' PROVE st.views[b] = None
  BY <1>0, <1>4 DEF AskEffect, At, Making
<1>5. ASSUME NEW q \in Party, NEW c \in Block, At(q, c, Making)', q # p PROVE At(q, c, Making)
  BY <1>0, <1>5 DEF AskEffect, At
<1>6. ASSUME NEW q \in Party, NEW c \in Block, NEW r \in Party, At(q, c, Making)', At(r, c, Making)'
      PROVE  q = r
  <2>1. ASSUME NEW x \in Party, At(x, c, Making), At(p, c, Making)' PROVE FALSE
    <3>1. c = b
      BY <1>0, <2>1 DEF AskEffect, At
    <3>2. st.views[b] = None
      BY <1>4, <2>1, <3>1
    <3>3. At(x, b, Making \cup {"wait"})
      BY <2>1, <3>1 DEF At
    <3>4. QED
      BY <1>1, <3>2, <3>3
  <2>2. CASE q # p /\ r # p
    <3>1. At(q, c, Making) /\ At(r, c, Making)
      BY <1>5, <1>6, <2>2
    <3>2. At(q, c, Making \cup {"wait"})
      BY <3>1 DEF At
    <3>3. QED
      BY <3>1, <3>2 DEF IInv, MakersAreAlone
  <2>3. QED
    BY <1>5, <1>6, <2>1, <2>2
<1>7. QED
  BY <1>3, <1>6, Zenon DEF MakersAreAlone

\* A dump that is made anew belongs to a block with nothing left to close.
LEMMA AskedEntries ==
    ASSUME IInv, NEW p \in Party, NEW b \in Block, AskView(p, b), Unheld
    PROVE  EntriesAreCounted'
<1>0. AskEffect(p, b)
  BY Asks
<1>1. \A c \in Block : Ready(c)' <=> Ready(c)
  BY AskedHolders
<1>2. ASSUME NEW c \in Block \ st.miscounted
      PROVE  /\ Ready(c) => st.dump[c] # <<>> /\ Counted(c, st.closing[c] + 1)
             /\ st.closing[c] > 0 => st.dump[c] # <<>> /\ Counted(c, st.closing[c])
             /\ \A q \in Party :
                   /\ At(q, c, {"open"}) => Counted(c, st.closing[c] + 1)
                   /\ At(q, c, {"walk", "near", "redo", "drop"}) => st.closing[c] = 0
             /\ st.closing[c] \in Nat
  BY DEF IInv, EntriesAreCounted, TypeOK
<1>3. ASSUME NEW c \in Block \ st.miscounted, NEW q \in Party
      PROVE  /\ At(q, c, {"open"})' => At(q, c, {"open"})
             /\ At(q, c, {"walk", "near", "redo", "drop"})' => st.closing[c] = 0
  <2>1. CASE q # p
    BY <1>0, <1>2, <2>1 DEF AskEffect, At
  <2>2. CASE q = p
    BY <1>0, <1>2, <2>2 DEF AskEffect, At
  <2>3. QED
    BY <2>1, <2>2
<1>4. QED
  BY <1>0, <1>1, <1>2, <1>3 DEF AskEffect, EntriesAreCounted, Counted

\* A request that has just been made has all of its way before it.
LEMMA AskedDumps ==
    ASSUME IInv, NEW p \in Party, NEW b \in Block, AskView(p, b), Unheld
    PROVE  WalksLead' /\ RedoLeads' /\ DumpIsItsBlock'
<1>0. AskEffect(p, b)
  BY Asks
<1>1. ASSUME NEW q \in Party, NEW c \in Block, At(q, c, {"walk", "near"})'
      PROVE  Path[c] = Path[req'[q].from] \o req'[q].left
  <2>1. CASE q # p
    <3>1. req'[q] = req[q] /\ At(q, c, {"walk", "near"})
      BY <1>0, <1>1, <2>1 DEF AskEffect, At
    <3>2. Path[c] = Path[req[q].from] \o req[q].left
      BY <3>1 DEF IInv, WalksLead
    <3>3. QED
      BY <3>1, <3>2
  <2>2. CASE q = p
    <3>1. c = b /\ req'[q].from = b /\ req'[q].left = <<>>
      BY <1>0, <1>1, <2>2 DEF AskEffect, At
    <3>2. Path[b] \in Seq(Block)
      BY PathType
    <3>3. QED
      BY <3>1, <3>2
  <2>3. QED
    BY <2>1, <2>2
<1>2. ASSUME NEW q \in Party, NEW c \in Block
      PROVE  /\ At(q, c, {"redo"})' => At(q, c, {"redo"}) /\ req'[q] = req[q]
             /\ At(q, c, {"redo", "drop"})' <=> At(q, c, {"redo", "drop"})
  <2>1. CASE q # p
    BY <1>0, <2>1 DEF AskEffect, At
  <2>2. CASE q = p
    BY <1>0, <2>2 DEF AskEffect, At
  <2>3. QED
    BY <2>1, <2>2
<1>3. ASSUME NEW c \in Block PROVE Rebuilding(c)' = Rebuilding(c)
  BY <1>2 DEF Rebuilding, At
<1>4. ASSUME NEW q \in Party, NEW c \in Block, At(q, c, {"redo"})', c \notin st'.spoilt,
             st'.dump[c] # <<>>
      PROVE  Path[c] = st'.dump[c] \o req'[q].left
  <2>1. At(q, c, {"redo"}) /\ req'[q] = req[q]
    BY <1>2, <1>4
  <2>2. st'.dump = st.dump /\ st'.spoilt = st.spoilt
    BY <1>0 DEF AskEffect
  <2>3. Path[c] = st.dump[c] \o req[q].left
    BY <1>4, <2>1, <2>2 DEF IInv, RedoLeads
  <2>4. QED
    BY <2>1, <2>2, <2>3
<1>5. ASSUME NEW c \in Block, st'.dump[c] # <<>>, Rebuilding(c)' = {}, c \notin st'.spoilt
      PROVE  st'.dump[c] = Path[c]
  BY <1>0, <1>3, <1>5 DEF AskEffect, IInv, DumpIsItsBlock
<1>6. QED
  BY <1>1, <1>4, <1>5 DEF WalksLead, RedoLeads, DumpIsItsBlock

\* What a step has to keep besides the types.
Safe ==
    /\ Genesis \notin st.miscounted
    /\ ClaimsAreCounted /\ HeldAreReady /\ MakersAreAlone /\ EntriesAreCounted
    /\ WalksLead /\ RedoLeads /\ DumpIsItsBlock

\* A request for a view keeps all that.
LEMMA AskedSafe ==
    ASSUME IInv, NEW p \in Party, NEW b \in Block, AskView(p, b), Unheld
    PROVE  Safe'
<1>1. st'.miscounted = st.miscounted
  BY Asks DEF AskEffect
<1>2. QED
  BY <1>1, AskedClaims, AskedHolders, AskedMakers, AskedEntries, AskedDumps DEF Safe, IInv

----------------------------------------------------------------------------
\* Views are released

\* Views of released are given back, dumps of gone recycled.
ReleaseEffect(released, gone) ==
    /\ \A c \in Block :
          LET last == c \in released /\ st.views[c] # None /\ st.views[c].ref = 1 IN
          /\ st'.views[c] = IF last THEN None
                            ELSE IF c \in released /\ st.views[c] # None
                                 THEN [st.views[c] EXCEPT !.ref = @ - 1]
                            ELSE st.views[c]
          /\ st'.closing[c] = IF last THEN st.closing[c] + 1 ELSE st.closing[c]
          /\ st'.dump[c] = IF c \in gone THEN <<>> ELSE st.dump[c]
          /\ st'.entry[c] = IF c \in gone THEN None ELSE st.entry[c]
    /\ st'.spoilt = st.spoilt /\ st'.miscounted = st.miscounted

\* A release, by parties that have a view or were refused it: every view that is
\* given back has lost a claim, and no other has got one.
Releasing(released, gone) ==
    /\ ReleaseEffect(released, gone)
    /\ \A c \in released : Ready(c)
    /\ \A c \in Block : Cardinality(Claims(c)') + (IF c \in released THEN 1 ELSE 0)
                         <= Cardinality(Claims(c))
    /\ \A c \in Block : Holders(c)' # {} => Holders(c) # {}
    /\ \A p \in Party : \/ req'[p] = req[p]
                        \/ req[p].at \in {"hold", "refused"} /\ req'[p].at = "idle"

Stores == [dump : [Block -> Files], log : SUBSET Block, spoilt : SUBSET Block,
           miscounted : SUBSET Block, entry : [Block -> Nat \cup {None}],
           views : [Block -> View \cup {None}], closing : [Block -> Nat]]

\* ReleaseViews, view by view.
LEMMA Releases ==
    ASSUME TypeOK, NEW released \in SUBSET Block, NEW s, s = ReleaseViews(st, released)
    PROVE  /\ s \in Stores
           /\ \A c \in Block :
                 LET last == c \in released /\ st.views[c] # None /\ st.views[c].ref = 1 IN
                 /\ s.views[c] = IF last THEN None
                                 ELSE IF c \in released /\ st.views[c] # None
                                      THEN [st.views[c] EXCEPT !.ref = @ - 1]
                                 ELSE st.views[c]
                 /\ s.closing[c] = IF last THEN st.closing[c] + 1 ELSE st.closing[c]
           /\ s.dump = st.dump /\ s.entry = st.entry
           /\ s.spoilt = st.spoilt /\ s.miscounted = st.miscounted
<1>1. st \in Stores
  BY DEF TypeOK, Stores
<1> DEFINE held == {b \in released : st.views[b] # None}
           last == {b \in held : st.views[b].ref = 1}
           vs == [b \in Block |-> IF b \in last THEN None
                                  ELSE IF b \in held THEN [st.views[b] EXCEPT !.ref = @ - 1]
                                  ELSE st.views[b]]
           cl == [b \in Block |-> IF b \in last THEN st.closing[b] + 1 ELSE st.closing[b]]
<1>2. s = [st EXCEPT !.views = vs, !.closing = cl]
  BY DEF ReleaseViews
<1>3. /\ \A b : b \in held <=> b \in released /\ st.views[b] # None
      /\ \A b : b \in last <=> b \in held /\ st.views[b].ref = 1
  OBVIOUS
<1> HIDE DEF held, last
<1>4. \A c \in Block : /\ vs[c] = IF c \in last THEN None
                                   ELSE IF c \in held THEN [st.views[c] EXCEPT !.ref = @ - 1]
                                   ELSE st.views[c]
                       /\ cl[c] = IF c \in last THEN st.closing[c] + 1 ELSE st.closing[c]
  OBVIOUS
<1>5. vs \in [Block -> View \cup {None}]
  <2>1. ASSUME NEW c \in Block PROVE vs[c] \in View \cup {None}
    <3>1. CASE c \in held /\ c \notin last
      <4>1. st.views[c] \in View /\ st.views[c].ref # 1
        BY <1>1, <1>3, <3>1 DEF Stores
      <4>2. [st.views[c] EXCEPT !.ref = @ - 1] \in View
        BY <4>1 DEF View
      <4>3. QED
        BY <1>4, <3>1, <4>2
    <3>2. CASE ~(c \in held /\ c \notin last)
      BY <1>1, <1>4, <3>2 DEF Stores
    <3>3. QED
      BY <3>1, <3>2
  <2>2. vs = [c \in Block |-> vs[c]]
    OBVIOUS
  <2> HIDE DEF vs
  <2>3. QED
    BY <2>1, <2>2
<1>6. cl \in [Block -> Nat]
  BY <1>1 DEF Stores
<1> HIDE DEF vs, cl
<1>7. /\ s.views = vs /\ s.closing = cl /\ s.dump = st.dump /\ s.entry = st.entry
      /\ s.spoilt = st.spoilt /\ s.miscounted = st.miscounted
  BY <1>1, <1>2 DEF Stores
<1>8. s \in Stores
  BY <1>1, <1>2, <1>5, <1>6 DEF Stores
<1>9. QED
  BY <1>3, <1>4, <1>7, <1>8

\* A party that is at work on a view has not released one.
LEMMA ReleasedRequests ==
    ASSUME NEW released, NEW gone, Releasing(released, gone), NEW p \in Party, NEW c,
           NEW places \in SUBSET (Making \cup {"wait"}), At(p, c, places)'
    PROVE  At(p, c, places) /\ req'[p] = req[p]
BY DEF Releasing, At, Making

\* The counts follow the claims.
LEMMA ReleasedClaims ==
    ASSUME IInv, NEW released, NEW gone, Releasing(released, gone)
    PROVE  ClaimsAreCounted'
<1> SUFFICES ASSUME NEW c \in Block
             PROVE  IF st'.views[c] = None THEN Claims(c)' = {}
                    ELSE Cardinality(Claims(c)') <= st'.views[c].ref
  BY DEF ClaimsAreCounted
<1>1. /\ Cardinality(Claims(c)') \in Nat /\ Cardinality(Claims(c)) \in Nat
      /\ Cardinality(Claims(c)') = 0 => Claims(c)' = {}
      /\ Claims(c) = {} => Cardinality(Claims(c)) = 0
  BY ClaimsType, Countable
<1>2. IF st.views[c] = None THEN Claims(c) = {}
      ELSE st.views[c] \in View /\ Cardinality(Claims(c)) <= st.views[c].ref
  BY DEF IInv, ClaimsAreCounted, TypeOK
<1>3. Cardinality(Claims(c)') + (IF c \in released THEN 1 ELSE 0) <= Cardinality(Claims(c))
  BY DEF Releasing
<1>4. CASE c \notin released
  <2>1. st'.views[c] = st.views[c]
    BY <1>4 DEF Releasing, ReleaseEffect
  <2>2. Cardinality(Claims(c)') <= Cardinality(Claims(c))
    BY <1>1, <1>3, <1>4
  <2>3. QED
    BY <1>1, <1>2, <2>1, <2>2 DEF View
<1>5. CASE c \in released
  <2>1. st.views[c] # None /\ st.views[c] \in View
    BY <1>2, <1>5 DEF Releasing, Ready
  <2>2. Cardinality(Claims(c)') + 1 <= st.views[c].ref /\ st.views[c].ref \in Nat
    BY <1>1, <1>2, <1>3, <1>5, <2>1 DEF View
  <2>3. CASE st.views[c].ref = 1
    <3>1. st'.views[c] = None
      BY <1>5, <2>1, <2>3 DEF Releasing, ReleaseEffect
    <3>2. QED
      BY <1>1, <2>2, <2>3, <3>1
  <2>4. CASE st.views[c].ref # 1
    <3>1. st'.views[c] = [st.views[c] EXCEPT !.ref = @ - 1]
      BY <1>5, <2>1, <2>4 DEF Releasing, ReleaseEffect
    <3>2. st'.views[c] \in View /\ st'.views[c].ref = st.views[c].ref - 1
      BY <1>1, <2>1, <2>2, <2>4, <3>1 DEF View
    <3>3. st'.views[c] # None
      BY <3>2, SnapshotsAssumption
    <3>4. QED
      BY <1>1, <2>2, <3>2, <3>3
  <2>5. QED
    BY <2>3, <2>4
<1>6. QED
  BY <1>4, <1>5

\* Nobody's view is taken away.
LEMMA ReleasedHolders ==
    ASSUME IInv, NEW released, NEW gone, Releasing(released, gone)
    PROVE  HeldAreReady'
<1> SUFFICES ASSUME NEW c \in Block, Holders(c)' # {} \/ c = Genesis
             PROVE  Ready(c)'
  BY DEF HeldAreReady
<1>1. Holders(c) # {} \/ c = Genesis
  BY DEF Releasing
<1>2. Ready(c)
  BY <1>1 DEF IInv, HeldAreReady
<1>3. Claims(c)' # {}
  BY DEF Claims, Holders, At
<1>4. st'.views[c] # None
  BY <1>3, ReleasedClaims DEF ClaimsAreCounted
<1>5. CASE st'.views[c] = st.views[c]
  BY <1>2, <1>5 DEF Ready
<1>6. CASE st'.views[c] = [st.views[c] EXCEPT !.ref = @ - 1]
  <2>1. st.views[c] \in View
    BY <1>2 DEF Ready, IInv, TypeOK
  <2>2. st'.views[c].ready = st.views[c].ready
    BY <1>6, <2>1 DEF View
  <2>3. QED
    BY <1>2, <1>4, <2>2 DEF Ready
<1>7. QED
  BY <1>4, <1>5, <1>6 DEF Releasing, ReleaseEffect

\* A view that is being made is not released by anyone.
LEMMA ReleasedMakers ==
    ASSUME IInv, NEW released, NEW gone, Releasing(released, gone)
    PROVE  /\ MakersAreAlone'
           /\ \A p \in Party, c \in Block :
                 At(p, c, Making \cup {"wait"})' => c \notin released
<1>1. ASSUME NEW p \in Party, NEW c \in Block, At(p, c, Making \cup {"wait"})'
      PROVE  /\ c \notin released /\ ~st'.views[c].ready /\ ~st'.views[c].dead
  <2>1. At(p, c, Making \cup {"wait"})
    BY <1>1, ReleasedRequests
  <2>2. ~st.views[c].ready /\ ~st.views[c].dead
    BY <2>1 DEF IInv, MakersAreAlone
  <2>3. c \notin released
    BY <2>2 DEF Releasing, Ready
  <2>4. st'.views[c] = st.views[c]
    BY <2>3 DEF Releasing, ReleaseEffect
  <2>5. QED
    BY <2>2, <2>3, <2>4
<1>2. ASSUME NEW p \in Party, NEW q \in Party, NEW c \in Block, At(p, c, Making)', At(q, c, Making)'
      PROVE  p = q
  <2>1. At(p, c, Making) /\ At(q, c, Making)
    BY <1>2, ReleasedRequests
  <2>2. At(p, c, Making \cup {"wait"})
    BY <2>1 DEF At
  <2>3. QED
    BY <2>1, <2>2 DEF IInv, MakersAreAlone
<1>3. QED
  BY <1>1, <1>2 DEF MakersAreAlone

\* The last release moves a count from the view to what is being closed, and
\* what is recycled had no count.
LEMMA ReleasedEntries ==
    ASSUME IInv, NEW released, NEW gone, Releasing(released, gone),
           \A c \in gone : st.entry[c] = 0
    PROVE  EntriesAreCounted'
<1> SUFFICES ASSUME NEW c \in Block \ st'.miscounted
             PROVE  /\ Ready(c)' => st'.dump[c] # <<>> /\ Counted(c, st.closing[c] + 1)'
                    /\ st'.closing[c] > 0 => st'.dump[c] # <<>> /\ Counted(c, st.closing[c])'
                    /\ \A p \in Party :
                          /\ At(p, c, {"open"})' => Counted(c, st.closing[c] + 1)'
                          /\ At(p, c, {"walk", "near", "redo", "drop"})' => st'.closing[c] = 0
  BY DEF EntriesAreCounted
<1>1. st.closing[c] \in Nat /\ st.entry[c] \in Nat \cup {None} /\ c \notin st.miscounted
  BY DEF IInv, TypeOK, Releasing, ReleaseEffect
<1>2. /\ Ready(c) => st.dump[c] # <<>> /\ Counted(c, st.closing[c] + 1)
      /\ st.closing[c] > 0 => st.dump[c] # <<>> /\ Counted(c, st.closing[c])
      /\ \A p \in Party :
            /\ At(p, c, {"open"}) => Counted(c, st.closing[c] + 1)
            /\ At(p, c, {"walk", "near", "redo", "drop"}) => st.closing[c] = 0
  BY <1>1 DEF IInv, EntriesAreCounted
<1>3. c \notin gone => st'.dump[c] = st.dump[c] /\ st'.entry[c] = st.entry[c]
  BY DEF Releasing, ReleaseEffect
<1>4. CASE c \in released /\ st.views[c].ref = 1
  <2>1. Ready(c) /\ st'.views[c] = None /\ st'.closing[c] = st.closing[c] + 1
    BY <1>4 DEF Releasing, ReleaseEffect, Ready
  <2>2. st.dump[c] # <<>> /\ Counted(c, st.closing[c] + 1)
    BY <1>2, <2>1
  <2>3. c \notin gone
    BY <1>1, <2>2 DEF Counted
  <2>4. ASSUME NEW p \in Party PROVE ~At(p, c, Making \cup {"wait"})'
    BY <1>4, ReleasedMakers
  <2>5. QED
    BY <1>1, <1>3, <2>1, <2>2, <2>3, <2>4 DEF Ready, Counted, At, Making
<1>5. CASE ~(c \in released /\ st.views[c].ref = 1)
  <2>1. st'.closing[c] = st.closing[c]
    BY <1>5 DEF Releasing, ReleaseEffect
  <2>2. Ready(c)' => Ready(c)
    <3>1. CASE c \in released
      BY <3>1 DEF Releasing
    <3>2. CASE c \notin released
      BY <3>2 DEF Releasing, ReleaseEffect, Ready
    <3>3. QED
      BY <3>1, <3>2
  <2>3. ASSUME NEW n \in Nat, n > 0, Counted(c, n) PROVE c \notin gone
    BY <1>1, <2>3 DEF Counted
  <2>4. ASSUME NEW n \in Nat, n > 0, Counted(c, n)
        PROVE  st'.dump[c] = st.dump[c] /\ st'.entry[c] = st.entry[c]
    BY <1>3, <2>3, <2>4
  <2>5. Ready(c)' => st'.dump[c] # <<>> /\ Counted(c, st.closing[c] + 1)'
    BY <1>1, <1>2, <2>1, <2>2, <2>4 DEF Counted
  <2>6. st'.closing[c] > 0 => st'.dump[c] # <<>> /\ Counted(c, st.closing[c])'
    BY <1>1, <1>2, <2>1, <2>4 DEF Counted
  <2>7. ASSUME NEW p \in Party, At(p, c, {"open"})' PROVE Counted(c, st.closing[c] + 1)'
    <3>1. At(p, c, {"open"})
      BY <2>7, ReleasedRequests DEF Making
    <3>2. Counted(c, st.closing[c] + 1)
      BY <1>2, <3>1
    <3>3. QED
      BY <1>1, <2>1, <2>4, <3>2 DEF Counted
  <2>8. ASSUME NEW p \in Party, At(p, c, {"walk", "near", "redo", "drop"})'
        PROVE  st'.closing[c] = 0
    <3>1. At(p, c, {"walk", "near", "redo", "drop"})
      BY <2>8, ReleasedRequests DEF Making
    <3>2. QED
      BY <1>2, <2>1, <3>1
  <2>9. QED
    BY <2>5, <2>6, <2>7, <2>8
<1>6. QED
  BY <1>4, <1>5

\* No dump is changed but those that are recycled.
LEMMA ReleasedDumps ==
    ASSUME IInv, NEW released, NEW gone, Releasing(released, gone)
    PROVE  WalksLead' /\ RedoLeads' /\ DumpIsItsBlock'
<1>1. ASSUME NEW p \in Party, NEW c \in Block, At(p, c, {"walk", "near"})'
      PROVE  Path[c] = Path[req'[p].from] \o req'[p].left
  <2>1. At(p, c, {"walk", "near"}) /\ req'[p] = req[p]
    BY <1>1, ReleasedRequests DEF Making
  <2>2. QED
    BY <2>1 DEF IInv, WalksLead
<1>2. ASSUME NEW c \in Block, st'.dump[c] # <<>>, c \notin st'.spoilt
      PROVE  st'.dump[c] = st.dump[c] /\ c \notin st.spoilt
  BY <1>2 DEF Releasing, ReleaseEffect
<1>3. ASSUME NEW p \in Party, NEW c \in Block, At(p, c, {"redo"})', st'.dump[c] # <<>>,
             c \notin st'.spoilt
      PROVE  Path[c] = st'.dump[c] \o req'[p].left
  <2>1. At(p, c, {"redo"}) /\ req'[p] = req[p]
    BY <1>3, ReleasedRequests DEF Making
  <2>2. QED
    BY <1>2, <1>3, <2>1 DEF IInv, RedoLeads
<1>4. ASSUME NEW c \in Block, st'.dump[c] # <<>>, Rebuilding(c)' = {}, c \notin st'.spoilt
      PROVE  st'.dump[c] = Path[c]
  <2>1. ASSUME NEW p \in Rebuilding(c) PROVE FALSE
    <3>1. p \in Party /\ req[p].block = c /\ req[p].at \in {"redo", "drop"}
      BY DEF Rebuilding
    <3>2. req'[p] = req[p]
      BY <3>1 DEF Releasing
    <3>3. p \in Rebuilding(c)'
      BY <3>1, <3>2 DEF Rebuilding
    <3>4. QED
      BY <1>4, <3>3
  <2>2. QED
    BY <1>2, <1>4, <2>1 DEF IInv, DumpIsItsBlock
<1>5. QED
  BY <1>1, <1>3, <1>4 DEF WalksLead, RedoLeads, DumpIsItsBlock

\* A release keeps all that.
LEMMA ReleasedSafe ==
    ASSUME IInv, NEW released, NEW gone, Releasing(released, gone),
           \A c \in gone : st.entry[c] = 0
    PROVE  Safe'
<1>1. Genesis \notin st'.miscounted
  BY DEF Releasing, ReleaseEffect, IInv
<1>2. QED
  BY <1>1, ReleasedClaims, ReleasedHolders, ReleasedMakers, ReleasedEntries, ReleasedDumps DEF Safe

\* One view is given back, or none.
LEMMA ReleasesOne ==
    ASSUME TypeOK, NEW b \in Block, NEW done \in BOOLEAN,
           st' = IF done THEN ReleaseView(st, b) ELSE st
    PROVE  ReleaseEffect(IF done THEN {b} ELSE {}, {}) /\ st' \in Stores
<1>1. CASE done
  <2>1. st' = ReleaseViews(st, {b})
    BY <1>1 DEF ReleaseView
  <2>2. QED
    BY <1>1, <2>1, Releases DEF ReleaseEffect
<1>2. CASE ~done
  BY <1>2 DEF ReleaseEffect, TypeOK, Stores
<1>3. QED
  BY <1>1, <1>2

\* A party that has its view, or was refused it, has done with it.
LEMMA DoneSafe ==
    ASSUME IInv, NEW p \in Party, req[p].at \in {"hold", "refused"}, Unheld,
           req' = [req EXCEPT ![p] = Idle],
           st' = IF req[p].at = "hold" THEN ReleaseView(st, req[p].block) ELSE st
    PROVE  Safe' /\ st' \in Stores
<1> DEFINE b == req[p].block
           released == IF req[p].at = "hold" THEN {b} ELSE {}
<1>1. b \in Block /\ TypeOK
  BY DEF IInv, TypeOK
<1>2. ReleaseEffect(released, {}) /\ st' \in Stores
  BY <1>1, ReleasesOne
<1>3. /\ DOMAIN req = Party /\ req'[p] = Idle /\ \A q \in Party \ {p} : req'[q] = req[q]
  BY DEF IInv, TypeOK
<1>4. ASSUME NEW c, NEW places \in SUBSET (Making \cup {"wait", "hold"})
      PROVE  {q \in Party : At(q, c, places)}' = {q \in Party : At(q, c, places)} \ {p}
  <2>1. "idle" \notin places
    BY <1>4 DEF Making
  <2>2. ASSUME NEW q \in Party PROVE At(q, c, places)' <=> At(q, c, places) /\ q # p
    BY <1>3, <2>1 DEF At, Idle
  <2>3. QED
    BY <2>2 DEF At
<1>5. p \in Party /\ p \notin {"cur", "ref", "got", "genesis"}
  BY OwnParties
<1>6. ASSUME NEW c \in Block PROVE Claims(c)' \subseteq Claims(c) \ {p}
  BY <1>4, <1>5 DEF Unheld, Claims
<1>7. ASSUME req[p].at = "hold" PROVE p \in Claims(b) /\ Ready(b)
  BY <1>1, <1>7 DEF Claims, At, IInv, HeldAreReady, Holders
<1>8. ASSUME NEW c \in Block
      PROVE  Cardinality(Claims(c)') + (IF c \in released THEN 1 ELSE 0)
                 <= Cardinality(Claims(c))
  <2>1. CASE c \in released
    <3>1. Cardinality(Claims(c)') + 1 <= Cardinality(Claims(c))
      BY <1>6, <1>7, <2>1, ClaimsType, OneLess
    <3>2. QED
      BY <2>1, <3>1
  <2>2. CASE c \notin released
    <3>1. Cardinality(Claims(c)') <= Cardinality(Claims(c))
      BY <1>6, ClaimsType, NoMore
    <3>2. Cardinality(Claims(c)') \in Nat
      BY ClaimsType, Countable
    <3>3. QED
      BY <2>2, <3>1, <3>2
  <2>3. QED
    BY <2>1, <2>2
<1>9. ASSUME NEW c \in Block, Holders(c)' # {} PROVE Holders(c) # {}
  <2>1. {q \in Party : req'[q].block = c /\ req'[q].at = "hold"}
           \subseteq {q \in Party : req[q].block = c /\ req[q].at = "hold"}
    BY <1>3 DEF Idle
  <2>2. Holders(c)' \subseteq Holders(c)
    BY <2>1 DEF Holders, Unheld
  <2>3. QED
    BY <1>9, <2>2
<1>10. \A q \in Party : \/ req'[q] = req[q]
                        \/ req[q].at \in {"hold", "refused"} /\ req'[q].at = "idle"
  BY <1>3 DEF Idle
<1>11. \A c \in released : Ready(c)
  BY <1>7
<1>12. Releasing(released, {})
  <2> HIDE DEF released
  <2>1. QED
    BY <1>2, <1>8, <1>9, <1>10, <1>11 DEF Releasing
<1>13. Safe'
  <2> HIDE DEF released
  <2>1. QED
    BY <1>12, ReleasedSafe
<1>14. QED
  BY <1>2, <1>13

\* The pool has the new tip's view, and gives the old one's back.
LEMMA PoolSafe ==
    ASSUME IInv, PoolDone
    PROVE  Safe' /\ st' \in Stores
<1> DEFINE b == req["pool"].block
           old == chain.cur
           swap == req["pool"].at = "hold"
           released == IF swap /\ old # None THEN {old} ELSE {}
<1>1. b \in Block /\ TypeOK /\ "pool" \in Party /\ old \in Block \cup {None} /\ None \notin Block
  BY OwnParties, SnapshotsAssumption DEF PoolDone, IInv, TypeOK
<1>2. ReleaseEffect(released, {}) /\ st' \in Stores
  <2>1. CASE swap /\ old # None
    <3>1. st' = IF TRUE THEN ReleaseView(st, old) ELSE st
      BY <2>1 DEF PoolDone
    <3>2. old \in Block
      BY <1>1, <2>1
    <3>3. QED
      BY <1>1, <2>1, <3>1, <3>2, ReleasesOne
  <2>2. CASE ~(swap /\ old # None)
    <3>1. st' = IF FALSE THEN ReleaseView(st, b) ELSE st
      BY <2>2 DEF PoolDone
    <3>2. QED
      BY <1>1, <2>2, <3>1, ReleasesOne
  <2>3. QED
    BY <2>1, <2>2
<1>3. /\ req'["pool"] = Idle /\ \A q \in Party \ {"pool"} : req'[q] = req[q]
      /\ chain'.cur = IF swap THEN b ELSE old
      /\ mork' = mork
  BY <1>1 DEF PoolDone, TypeOK
<1>4. ASSUME NEW c, NEW q \in Party
      PROVE  At(q, c, Making \cup {"wait", "hold"})' <=>
                 At(q, c, Making \cup {"wait", "hold"}) /\ q # "pool"
  BY <1>3 DEF At, Idle, Making
<1>5. ASSUME NEW c
      PROVE  {q \in Party : At(q, c, Making \cup {"wait", "hold"})}' =
                 {q \in Party : At(q, c, Making \cup {"wait", "hold"})} \ {"pool"}
  BY <1>4 DEF At
<1>6. {"cur", "ref", "got", "genesis"} \cap Party = {}
  BY OwnParties
<1>7. ASSUME NEW c \in Block
      PROVE  Cardinality(Claims(c)') + (IF c \in released THEN 1 ELSE 0)
                 <= Cardinality(Claims(c))
  <2>1. CASE swap
    <3>1. /\ "pool" \in Claims(b)
          /\ old = c => "cur" \in Claims(c)
      BY <1>1, <2>1 DEF Claims, At
    <3>2. Claims(c)' \subseteq (Claims(c) \ {"pool", "cur"}) \cup (IF c = b THEN {"cur"} ELSE {})
      BY <1>3, <1>5, <1>6, <2>1 DEF Claims
    <3>3. "cur" \in Tags /\ "cur" # "pool"
      BY DEF Tags
    <3>4. CASE c = b /\ c # old
      <4>1. Claims(c)' \subseteq (Claims(c) \ {"pool"}) \cup {"cur"}
        BY <3>2, <3>4
      <4>2. Cardinality(Claims(c)') <= Cardinality(Claims(c))
        BY <3>1, <3>3, <3>4, <4>1, ClaimsType, OneElse
      <4>3. Cardinality(Claims(c)') \in Nat
        BY ClaimsType, Countable
      <4>4. QED
        BY <3>4, <4>2, <4>3
    <3>5. CASE c = b /\ c = old
      <4>1. Claims(c)' \subseteq Claims(c) \ {"pool"}
        BY <3>1, <3>2, <3>3, <3>5
      <4>2. Cardinality(Claims(c)') + 1 <= Cardinality(Claims(c))
        BY <3>1, <3>5, <4>1, ClaimsType, OneLess
      <4>3. c \in released
        BY <1>1, <2>1, <3>5
      <4>4. QED
        BY <4>2, <4>3
    <3>6. CASE c # b /\ c = old
      <4>1. Claims(c)' \subseteq Claims(c) \ {"cur"}
        BY <3>2, <3>6
      <4>2. Cardinality(Claims(c)') + 1 <= Cardinality(Claims(c))
        BY <3>1, <3>6, <4>1, ClaimsType, OneLess
      <4>3. c \in released
        BY <1>1, <2>1, <3>6
      <4>4. QED
        BY <4>2, <4>3
    <3>7. CASE c # b /\ c # old
      <4>1. Claims(c)' \subseteq Claims(c)
        BY <3>2, <3>7
      <4>2. Cardinality(Claims(c)') <= Cardinality(Claims(c))
        BY <4>1, ClaimsType, NoMore
      <4>3. Cardinality(Claims(c)') \in Nat
        BY ClaimsType, Countable
      <4>4. QED
        BY <3>7, <4>2, <4>3
    <3>8. QED
      BY <3>4, <3>5, <3>6, <3>7
  <2>2. CASE ~swap
    <3>1. Claims(c)' \subseteq Claims(c)
      BY <1>3, <1>5, <2>2 DEF Claims
    <3>2. Cardinality(Claims(c)') <= Cardinality(Claims(c))
      BY <3>1, ClaimsType, NoMore
    <3>3. Cardinality(Claims(c)') \in Nat
      BY ClaimsType, Countable
    <3>4. QED
      BY <2>2, <3>2, <3>3
  <2>3. QED
    BY <2>1, <2>2
<1>8. ASSUME NEW c \in Block, Holders(c)' # {} PROVE Holders(c) # {}
  <2>1. CASE swap /\ c = b
    BY <1>1, <2>1 DEF Holders
  <2>2. CASE ~(swap /\ c = b)
    <3>1. {q \in Party : req'[q].block = c /\ req'[q].at = "hold"}
             \subseteq {q \in Party : req[q].block = c /\ req[q].at = "hold"}
      BY <1>3 DEF Idle
    <3>2. chain'.cur = c => chain.cur = c
      BY <1>3, <2>2
    <3>3. Holders(c)' \subseteq Holders(c)
      BY <1>3, <3>1, <3>2 DEF Holders
    <3>4. QED
      BY <1>8, <3>3
  <2>3. QED
    BY <2>1, <2>2
<1>9. \A q \in Party : \/ req'[q] = req[q]
                       \/ req[q].at \in {"hold", "refused"} /\ req'[q].at = "idle"
  BY <1>3 DEF Idle, PoolDone
<1>10. \A c \in released : Ready(c)
  BY <1>1 DEF Holders, IInv, HeldAreReady
<1> HIDE DEF released
<1>11. Releasing(released, {})
  BY <1>2, <1>7, <1>8, <1>9, <1>10 DEF Releasing
<1>12. QED
  BY <1>2, <1>11, ReleasedSafe

\* The mork loop puts the view it asked for among those it got.
LEMMA MorkGetsSafe ==
    ASSUME IInv, MorkGets
    PROVE  Safe'
<1> DEFINE b == req["mork"].block
           more == req["mork"].at = "hold"
<1>1. b \in Block /\ TypeOK /\ "mork" \in Party
  BY OwnParties DEF MorkGets, IInv, TypeOK
<1>2. ReleaseEffect({}, {})
  BY DEF ReleaseEffect, MorkGets
<1>3. /\ req'["mork"] = Idle /\ \A q \in Party \ {"mork"} : req'[q] = req[q]
      /\ chain' = chain /\ mork'.refs = mork.refs
      /\ mork'.got = IF more THEN mork.got \cup {b} ELSE mork.got
  BY <1>1 DEF MorkGets, TypeOK
<1>4. ASSUME NEW c, NEW q \in Party
      PROVE  At(q, c, Making \cup {"wait", "hold"})' <=>
                 At(q, c, Making \cup {"wait", "hold"}) /\ q # "mork"
  BY <1>3 DEF At, Idle, Making
<1>5. ASSUME NEW c
      PROVE  {q \in Party : At(q, c, Making \cup {"wait", "hold"})}' =
                 {q \in Party : At(q, c, Making \cup {"wait", "hold"})} \ {"mork"}
  BY <1>4 DEF At
<1>6. {"cur", "ref", "got", "genesis"} \cap Party = {}
  BY OwnParties
<1>7. ASSUME NEW c \in Block
      PROVE  Cardinality(Claims(c)') <= Cardinality(Claims(c))
  <2>1. CASE more /\ c = b
    <3>1. "mork" \in Claims(b) /\ "got" \in Tags
      BY <1>1, <2>1 DEF Claims, At, Tags
    <3>2. Claims(c)' \subseteq (Claims(c) \ {"mork"}) \cup {"got"}
      BY <1>1, <1>3, <1>5, <1>6, <2>1 DEF Claims
    <3>3. QED
      BY <2>1, <3>1, <3>2, ClaimsType, OneElse
  <2>2. CASE ~(more /\ c = b)
    <3>1. c \in mork'.got => c \in mork.got
      BY <1>3, <2>2
    <3>2. Claims(c)' \subseteq Claims(c)
      BY <1>3, <1>5, <3>1 DEF Claims
    <3>3. QED
      BY <3>2, ClaimsType, NoMore
  <2>3. QED
    BY <2>1, <2>2
<1>8. ASSUME NEW c \in Block, Holders(c)' # {} PROVE Holders(c) # {}
  <2>1. CASE more /\ c = b
    BY <1>1, <2>1 DEF Holders
  <2>2. CASE ~(more /\ c = b)
    <3>1. {q \in Party : req'[q].block = c /\ req'[q].at = "hold"}
             \subseteq {q \in Party : req[q].block = c /\ req[q].at = "hold"}
      BY <1>3 DEF Idle
    <3>2. c \in mork'.got => c \in mork.got
      BY <1>3, <2>2
    <3>3. Holders(c)' \subseteq Holders(c)
      BY <1>3, <3>1, <3>2 DEF Holders
    <3>4. QED
      BY <1>8, <3>3
  <2>3. QED
    BY <2>1, <2>2
<1>9. \A q \in Party : \/ req'[q] = req[q]
                       \/ req[q].at \in {"hold", "refused"} /\ req'[q].at = "idle"
  BY <1>3 DEF Idle, MorkGets
<1>10. ASSUME NEW c \in Block
       PROVE  Cardinality(Claims(c)') + (IF c \in {} THEN 1 ELSE 0) <= Cardinality(Claims(c))
  <2>1. Cardinality(Claims(c)') \in Nat
    BY ClaimsType, Countable
  <2>2. QED
    BY <1>7, <2>1
<1>11. Releasing({}, {})
  BY <1>2, <1>8, <1>9, <1>10 DEF Releasing
<1>12. QED
  BY <1>11, ReleasedSafe

\* At the end of a round the views got are kept, those out of use given back, and
\* the dumps without a count removed.
LEMMA MorkEndsSafe ==
    ASSUME IInv, MorkEnds
    PROVE  Safe' /\ st' \in Stores
<1> DEFINE out == mork.refs \ mork.morking
<1>1. TypeOK /\ st \in Stores /\ mork.refs \in SUBSET Block /\ mork.got \in SUBSET Block
  BY DEF IInv, TypeOK, Stores
<1>2. PICK s : s = ReleaseViews(st, out) /\ st' = Recycle(s)
  BY DEF MorkEnds
<1>3. /\ s \in Stores
      /\ \A c \in Block :
            LET last == c \in out /\ st.views[c] # None /\ st.views[c].ref = 1 IN
            /\ s.views[c] = IF last THEN None
                            ELSE IF c \in out /\ st.views[c] # None
                                 THEN [st.views[c] EXCEPT !.ref = @ - 1]
                            ELSE st.views[c]
            /\ s.closing[c] = IF last THEN st.closing[c] + 1 ELSE st.closing[c]
      /\ s.dump = st.dump /\ s.entry = st.entry
      /\ s.spoilt = st.spoilt /\ s.miscounted = st.miscounted
  <2>1. out \in SUBSET Block
    BY <1>1
  <2> HIDE DEF out
  <2>2. QED
    BY <1>1, <1>2, <2>1, Releases
<1> HIDE DEF out
<1>4. PICK gone : gone = {c \in Block : s.entry[c] = 0 /\ s.dump[c] # <<>>}
  OBVIOUS
<1>5. PICK d, e : /\ d = [c \in Block |-> IF c \in gone THEN <<>> ELSE s.dump[c]]
                  /\ e = [c \in Block |-> IF c \in gone THEN None ELSE s.entry[c]]
                  /\ st' = [s EXCEPT !.dump = d, !.entry = e]
  BY <1>2, <1>4, Zenon DEF Recycle
<1>6. /\ st'.dump = d /\ st'.entry = e /\ st'.views = s.views /\ st'.closing = s.closing
      /\ st'.spoilt = s.spoilt /\ st'.miscounted = s.miscounted
  BY <1>3, <1>5 DEF Stores
<1>7. st' \in Stores
  <2>1. d \in [Block -> Files] /\ e \in [Block -> Nat \cup {None}]
    BY <1>3, <1>5 DEF Stores, Files
  <2>2. QED
    BY <1>3, <1>5, <2>1 DEF Stores
<1>8. ReleaseEffect(out, gone)
  BY <1>3, <1>5, <1>6 DEF ReleaseEffect
<1>9. \A c \in gone : st.entry[c] = 0
  BY <1>3, <1>4
<1>10. /\ mork'.refs = (mork.refs \ out) \cup mork.got /\ mork'.got = {}
       /\ req' = req /\ chain' = chain
  BY <1>1 DEF MorkEnds, out, IInv, TypeOK
<1>11. /\ out \subseteq mork.refs
  BY DEF out
<1>12. {"cur", "ref", "got", "genesis"} \cap Party = {} /\ "ref" \in Tags
  BY OwnParties DEF Tags
<1>13. ASSUME NEW c \in Block
       PROVE  Claims(c)' = (Claims(c) \ {"ref", "got"}) \cup
                  (IF c \in mork'.refs THEN {"ref"} ELSE {})
  <2>1. {q \in Party : At(q, c, Making \cup {"wait", "hold"})}' =
           {q \in Party : At(q, c, Making \cup {"wait", "hold"})}
    BY <1>10 DEF At
  <2>2. QED
    BY <1>10, <1>12, <2>1 DEF Claims
<1>14. ASSUME NEW c \in Block
       PROVE  /\ c \in mork.got => "got" \in Claims(c)
              /\ c \in mork.refs => "ref" \in Claims(c)
  BY DEF Claims
<1>15. ASSUME NEW c \in Block
       PROVE  Cardinality(Claims(c)') + (IF c \in out THEN 1 ELSE 0)
                 <= Cardinality(Claims(c))
  <2>0. Cardinality(Claims(c)') \in Nat
    BY ClaimsType, Countable
  <2>1. CASE c \in out /\ c \in mork.got
    <3>1. Claims(c)' \subseteq Claims(c) \ {"got"} /\ "got" \in Claims(c)
      BY <1>11, <1>13, <1>14, <2>1
    <3>2. Cardinality(Claims(c)') + 1 <= Cardinality(Claims(c))
      BY <3>1, ClaimsType, OneLess
    <3>3. QED
      BY <2>1, <3>2
  <2>2. CASE c \in out /\ c \notin mork.got
    <3>1. Claims(c)' \subseteq Claims(c) \ {"ref"} /\ "ref" \in Claims(c)
      BY <1>10, <1>11, <1>13, <1>14, <2>2
    <3>2. Cardinality(Claims(c)') + 1 <= Cardinality(Claims(c))
      BY <3>1, ClaimsType, OneLess
    <3>3. QED
      BY <2>2, <3>2
  <2>3. CASE c \notin out /\ c \in mork.got
    <3>1. Claims(c)' \subseteq (Claims(c) \ {"got"}) \cup {"ref"} /\ "got" \in Claims(c)
      BY <1>13, <1>14, <2>3
    <3>2. Cardinality(Claims(c)') <= Cardinality(Claims(c))
      BY <1>12, <3>1, ClaimsType, OneElse
    <3>3. QED
      BY <2>0, <2>3, <3>2
  <2>4. CASE c \notin out /\ c \notin mork.got
    <3>1. Claims(c)' \subseteq Claims(c)
      BY <1>10, <1>13, <1>14, <2>4
    <3>2. Cardinality(Claims(c)') <= Cardinality(Claims(c))
      BY <3>1, ClaimsType, NoMore
    <3>3. QED
      BY <2>0, <2>4, <3>2
  <2>5. QED
    BY <2>1, <2>2, <2>3, <2>4
<1>16. ASSUME NEW c \in Block, Holders(c)' # {} PROVE Holders(c) # {}
  BY <1>10, <1>16 DEF Holders
<1>17. \A c \in out : Ready(c)
  BY <1>1, <1>11 DEF Holders, IInv, HeldAreReady
<1>18. Releasing(out, gone)
  BY <1>8, <1>10, <1>15, <1>16, <1>17 DEF Releasing
<1>19. QED
  BY <1>7, <1>9, <1>18, ReleasedSafe

----------------------------------------------------------------------------
\* Views are made

\* What a party that makes a view knows of it.
LEMMA MakerFacts ==
    ASSUME IInv, NEW p \in Party, NEW b \in Block, At(p, b, Making)
    PROVE  /\ st.views[b] # None /\ st.views[b] \in View
           /\ ~st.views[b].ready /\ ~st.views[b].dead
           /\ b # Genesis /\ Holders(b) = {} /\ ~Ready(b)
           /\ \A q \in Party : At(q, b, Making) => q = p
<1>1. At(p, b, Making \cup {"wait"})
  BY DEF At
<1>2. st.views[b] # None
  BY <1>1 DEF IInv, ClaimsAreCounted, Claims, At
<1>3. st.views[b] \in View
  BY <1>2 DEF IInv, TypeOK
<1>4. /\ ~st.views[b].ready /\ ~st.views[b].dead
      /\ \A q \in Party : At(q, b, Making) => q = p
  BY <1>1 DEF IInv, MakersAreAlone
<1>5. ~Ready(b)
  BY <1>4 DEF Ready
<1>6. b # Genesis /\ Holders(b) = {}
  BY <1>5 DEF IInv, HeldAreReady
<1>7. QED
  BY <1>2, <1>3, <1>4, <1>5, <1>6

\* A maker goes on to its next await.
Moves(p, b) ==
    /\ At(p, b, Making) /\ At(p, b, Making)'
    /\ \A q \in Party \ {p} : req'[q] = req[q]
    /\ st'.views = st.views /\ st'.closing = st.closing /\ st'.miscounted = st.miscounted
    /\ Unheld

\* Its going on changes nobody's claim.
LEMMA MovedViews ==
    ASSUME IInv, NEW p \in Party, NEW b \in Block, Moves(p, b)
    PROVE  /\ Genesis \notin st'.miscounted
           /\ ClaimsAreCounted' /\ HeldAreReady' /\ MakersAreAlone'
<1>1. ASSUME NEW q \in Party, NEW c \in Block
      PROVE  /\ At(q, c, Making)' <=> At(q, c, Making)
             /\ At(q, c, {"wait"})' <=> At(q, c, {"wait"})
             /\ At(q, c, {"hold"})' <=> At(q, c, {"hold"})
  <2>1. CASE q # p
    BY <2>1 DEF Moves, At
  <2>2. CASE q = p
    BY <2>2 DEF Moves, At, Making
  <2>3. QED
    BY <2>1, <2>2
<1>2. ASSUME NEW q \in Party, NEW c \in Block
      PROVE  /\ At(q, c, Making \cup {"wait"})' <=> At(q, c, Making \cup {"wait"})
             /\ At(q, c, Making \cup {"wait", "hold"})' <=> At(q, c, Making \cup {"wait", "hold"})
  BY <1>1 DEF At
<1>3. ASSUME NEW c \in Block PROVE Claims(c)' = Claims(c) /\ Holders(c)' = Holders(c)
  <2>1. {q \in Party : At(q, c, Making \cup {"wait", "hold"})}' =
           {q \in Party : At(q, c, Making \cup {"wait", "hold"})}
    BY <1>2 DEF At
  <2>2. {q \in Party : req'[q].block = c /\ req'[q].at = "hold"} =
           {q \in Party : req[q].block = c /\ req[q].at = "hold"}
    BY <1>1 DEF At
  <2>3. QED
    BY <2>1, <2>2 DEF Moves, Unheld, Claims, Holders
<1>4. st'.views = st.views /\ st'.miscounted = st.miscounted
  BY DEF Moves
<1>5. ClaimsAreCounted'
  BY <1>3, <1>4 DEF IInv, ClaimsAreCounted
<1>6. HeldAreReady'
  BY <1>3, <1>4 DEF IInv, HeldAreReady, Ready
<1>7. MakersAreAlone'
  BY <1>1, <1>2, <1>4 DEF IInv, MakersAreAlone
<1>8. QED
  BY <1>4, <1>5, <1>6, <1>7 DEF IInv

\* What the counts of the other blocks say stays true; those of the maker's are its own care.
LEMMA MovedEntries ==
    ASSUME IInv, NEW p \in Party, NEW b \in Block, Moves(p, b),
           \A c \in Block \ {b} : st'.entry[c] = st.entry[c] /\ st'.dump[c] = st.dump[c],
           b \notin st.miscounted =>
               /\ st.closing[b] > 0 => st'.dump[b] # <<>> /\ Counted(b, st.closing[b])'
               /\ At(p, b, {"open"})' => Counted(b, st.closing[b] + 1)'
               /\ At(p, b, {"walk", "near", "redo", "drop"})' => st.closing[b] = 0
    PROVE  EntriesAreCounted'
<1>1. /\ st'.views = st.views /\ st'.closing = st.closing /\ st'.miscounted = st.miscounted
      /\ \A c \in Block : Ready(c)' <=> Ready(c)
  BY DEF Moves, Ready
<1>2. ASSUME NEW c \in Block \ st.miscounted, c # b
      PROVE  /\ Ready(c)' => st'.dump[c] # <<>> /\ Counted(c, st.closing[c] + 1)'
             /\ st'.closing[c] > 0 => st'.dump[c] # <<>> /\ Counted(c, st.closing[c])'
  BY <1>1, <1>2 DEF IInv, EntriesAreCounted, Counted
<1>3. ASSUME NEW c \in Block \ st.miscounted, c # b, NEW q \in Party
      PROVE  /\ At(q, c, {"open"})' => Counted(c, st.closing[c] + 1)'
             /\ At(q, c, {"walk", "near", "redo", "drop"})' => st'.closing[c] = 0
  <2>1. req'[q] = req[q] \/ req'[q].block # c
    BY <1>3 DEF Moves, At
  <2>2. /\ At(q, c, {"open"})' => At(q, c, {"open"})
        /\ At(q, c, {"walk", "near", "redo", "drop"})' => At(q, c, {"walk", "near", "redo", "drop"})
    BY <2>1 DEF At
  <2>3. QED
    BY <1>1, <1>3, <2>2 DEF IInv, EntriesAreCounted, Counted
<1>4. ASSUME b \notin st.miscounted, NEW q \in Party
      PROVE  /\ At(q, b, {"open"})' => Counted(b, st.closing[b] + 1)'
             /\ At(q, b, {"walk", "near", "redo", "drop"})' => st'.closing[b] = 0
  <2>1. CASE q = p
    BY <1>1, <1>4, <2>1 DEF Counted
  <2>2. CASE q # p
    <3>1. ~At(q, b, Making)
      BY <2>2, MakerFacts DEF Moves
    <3>2. req'[q] = req[q]
      BY <2>2 DEF Moves
    <3>3. QED
      BY <3>1, <3>2 DEF At, Making
  <2>3. QED
    BY <2>1, <2>2
<1>5. ~Ready(b)
  BY MakerFacts DEF Moves
<1>6. ASSUME NEW c \in Block \ st'.miscounted
      PROVE  /\ Ready(c)' => st'.dump[c] # <<>> /\ Counted(c, st.closing[c] + 1)'
             /\ st'.closing[c] > 0 => st'.dump[c] # <<>> /\ Counted(c, st.closing[c])'
             /\ \A q \in Party :
                   /\ At(q, c, {"open"})' => Counted(c, st.closing[c] + 1)'
                   /\ At(q, c, {"walk", "near", "redo", "drop"})' => st'.closing[c] = 0
  <2>1. CASE c # b
    BY <1>1, <1>2, <1>3, <2>1
  <2>2. CASE c = b
    BY <1>1, <1>4, <1>5, <2>2 DEF Counted
  <2>3. QED
    BY <2>1, <2>2
<1>7. QED
  BY <1>6 DEF EntriesAreCounted

\* The same of the dumps.
LEMMA MovedDumps ==
    ASSUME IInv, NEW p \in Party, NEW b \in Block, Moves(p, b),
           \A c \in Block \ {b} : st'.dump[c] = st.dump[c] /\ (c \in st.spoilt => c \in st'.spoilt),
           At(p, b, {"walk", "near"})' => Path[b] = Path[req'[p].from] \o req'[p].left,
           b \notin st'.spoilt /\ st'.dump[b] # <<>> =>
               /\ At(p, b, {"redo"})' => Path[b] = st'.dump[b] \o req'[p].left
               /\ At(p, b, {"redo", "drop"})' \/ st'.dump[b] = Path[b]
    PROVE  WalksLead' /\ RedoLeads' /\ DumpIsItsBlock'
<1>1. ASSUME NEW q \in Party, NEW c \in Block, q # p \/ c # b, At(q, c, Making)'
      PROVE  At(q, c, Making) /\ q # p /\ c # b /\ req'[q] = req[q]
  <2>1. q # p
    BY <1>1 DEF Moves, At
  <2>2. req'[q] = req[q]
    BY <2>1 DEF Moves
  <2>3. At(q, c, Making)
    BY <1>1, <2>2 DEF At
  <2>4. c # b
    BY <2>1, <2>3, MakerFacts DEF Moves
  <2>5. QED
    BY <2>1, <2>2, <2>3, <2>4
<1>2. ASSUME NEW q \in Party, NEW c \in Block, At(q, c, {"walk", "near"})'
      PROVE  Path[c] = Path[req'[q].from] \o req'[q].left
  <2>1. CASE q = p /\ c = b
    BY <1>2, <2>1
  <2>2. CASE q # p \/ c # b
    <3>1. At(q, c, Making)'
      BY <1>2 DEF At, Making
    <3>2. req'[q] = req[q]
      BY <1>1, <2>2, <3>1
    <3>3. At(q, c, {"walk", "near"})
      BY <1>2, <3>2 DEF At
    <3>4. QED
      BY <3>2, <3>3 DEF IInv, WalksLead
  <2>3. QED
    BY <2>1, <2>2
<1>3. ASSUME NEW q \in Party, NEW c \in Block, At(q, c, {"redo"})', c \notin st'.spoilt,
             st'.dump[c] # <<>>
      PROVE  Path[c] = st'.dump[c] \o req'[q].left
  <2>1. CASE q = p /\ c = b
    BY <1>3, <2>1
  <2>2. CASE q # p \/ c # b
    <3>1. At(q, c, Making)'
      BY <1>3 DEF At, Making
    <3>2. req'[q] = req[q] /\ c # b
      BY <1>1, <2>2, <3>1
    <3>3. At(q, c, {"redo"})
      BY <1>3, <3>2 DEF At
    <3>4. QED
      BY <1>3, <3>2, <3>3 DEF IInv, RedoLeads
  <2>3. QED
    BY <2>1, <2>2
<1>4. ASSUME NEW c \in Block, st'.dump[c] # <<>>, Rebuilding(c)' = {}, c \notin st'.spoilt
      PROVE  st'.dump[c] = Path[c]
  <2>1. CASE c = b
    <3>1. ~At(p, b, {"redo", "drop"})'
      BY <1>4, <2>1 DEF At, Rebuilding
    <3>2. QED
      BY <1>4, <2>1, <3>1
  <2>2. CASE c # b
    <3>1. ASSUME NEW q \in Rebuilding(c) PROVE FALSE
      <4>1. q \in Party /\ req[q].block = c /\ req[q].at \in {"redo", "drop"}
        BY DEF Rebuilding
      <4>2. q # p
        BY <2>2, <4>1 DEF Moves, At
      <4>3. req'[q] = req[q]
        BY <4>1, <4>2 DEF Moves
      <4>4. q \in Rebuilding(c)'
        BY <4>1, <4>3 DEF Rebuilding
      <4>5. QED
        BY <1>4, <4>4
    <3>2. QED
      BY <1>4, <2>2, <3>1 DEF IInv, DumpIsItsBlock
  <2>3. QED
    BY <2>1, <2>2
<1>5. QED
  BY <1>2, <1>3, <1>4 DEF WalksLead, RedoLeads, DumpIsItsBlock

\* A maker that does what its await promises keeps all that.
LEMMA MovedSafe ==
    ASSUME IInv, NEW p \in Party, NEW b \in Block, Moves(p, b),
           \A c \in Block \ {b} : st'.entry[c] = st.entry[c] /\ st'.dump[c] = st.dump[c]
                                  /\ (c \in st.spoilt => c \in st'.spoilt),
           b \notin st.miscounted =>
               /\ st.closing[b] > 0 => st'.dump[b] # <<>> /\ Counted(b, st.closing[b])'
               /\ At(p, b, {"open"})' => Counted(b, st.closing[b] + 1)'
               /\ At(p, b, {"walk", "near", "redo", "drop"})' => st.closing[b] = 0,
           At(p, b, {"walk", "near"})' => Path[b] = Path[req'[p].from] \o req'[p].left,
           b \notin st'.spoilt /\ st'.dump[b] # <<>> =>
               /\ At(p, b, {"redo"})' => Path[b] = st'.dump[b] \o req'[p].left
               /\ At(p, b, {"redo", "drop"})' \/ st'.dump[b] = Path[b]
    PROVE  Safe'
<1>1. /\ Genesis \notin st'.miscounted
      /\ ClaimsAreCounted' /\ HeldAreReady' /\ MakersAreAlone'
  BY MovedViews
<1>2. EntriesAreCounted'
  BY MovedEntries
<1>3. WalksLead' /\ RedoLeads' /\ DumpIsItsBlock'
  BY MovedDumps
<1>4. QED
  BY <1>1, <1>2, <1>3 DEF Safe

\* A maker fails: its view is forgotten or left dead, and those who waited are told.
Fails(p, b) ==
    /\ At(p, b, Making)
    /\ req'[p].block = b /\ req'[p].at \in {"refused", "thrown"}
    /\ \A q \in Party \ {p} :
          IF At(q, b, {"wait"}) THEN req'[q].block = b /\ req'[q].at \in {"lost", "refused"}
          ELSE req'[q] = req[q]
    /\ \A c \in Block \ {b} : /\ st'.views[c] = st.views[c] /\ st'.entry[c] = st.entry[c]
                              /\ st'.dump[c] = st.dump[c]
    /\ st'.views[b] \in {None, [st.views[b] EXCEPT !.dead = TRUE]}
    /\ st'.closing = st.closing /\ st'.spoilt = st.spoilt /\ st'.miscounted = st.miscounted
    /\ Unheld

\* Of the other blocks' parties none moves; of this one's, none is left.
LEMMA FailedRequests ==
    ASSUME IInv, NEW p \in Party, NEW b \in Block, Fails(p, b), NEW q \in Party, NEW c \in Block,
           req[q].block = c \/ req'[q].block = c
    PROVE  /\ c = b => ~At(q, c, Making \cup {"wait", "hold"})'
           /\ c # b => req'[q] = req[q]
<1>1. CASE q = p
  BY <1>1 DEF Fails, At, Making
<1>2. CASE q # p /\ At(q, b, {"wait"})
  BY <1>2 DEF Fails, At, Making
<1>3. CASE q # p /\ ~At(q, b, {"wait"})
  <2>1. req'[q] = req[q]
    BY <1>3 DEF Fails
  <2>2. ~At(q, b, Making) /\ ~At(q, b, {"hold"})
    BY <1>3, MakerFacts DEF Fails, Holders, At
  <2>3. ~At(q, b, Making \cup {"wait", "hold"})
    BY <1>3, <2>2 DEF At
  <2>4. QED
    BY <2>1, <2>3 DEF At
<1>4. QED
  BY <1>1, <1>2, <1>3

\* A failure leaves nobody with a claim to the view.
LEMMA FailedViews ==
    ASSUME IInv, NEW p \in Party, NEW b \in Block, Fails(p, b)
    PROVE  /\ Genesis \notin st'.miscounted
           /\ ClaimsAreCounted' /\ HeldAreReady' /\ MakersAreAlone'
           /\ ~Ready(b)'
<1>1. ASSUME NEW q \in Party, NEW c \in Block, c # b, NEW places
      PROVE  At(q, c, places)' <=> At(q, c, places)
  BY <1>1, FailedRequests DEF At
<1>2. ASSUME NEW q \in Party PROVE ~At(q, b, Making \cup {"wait", "hold"})'
  BY FailedRequests DEF At
<1>3. ASSUME NEW c \in Block, c # b PROVE Claims(c)' = Claims(c) /\ Holders(c)' = Holders(c)
  <2>1. {q \in Party : At(q, c, Making \cup {"wait", "hold"})}' =
           {q \in Party : At(q, c, Making \cup {"wait", "hold"})}
    BY <1>1, <1>3 DEF At
  <2>2. {q \in Party : req'[q].block = c /\ req'[q].at = "hold"} =
           {q \in Party : req[q].block = c /\ req[q].at = "hold"}
    BY <1>3, FailedRequests
  <2>3. QED
    BY <2>1, <2>2 DEF Fails, Unheld, Claims, Holders
<1>4. /\ st.views[b] # None /\ st.views[b] \in View /\ ~st.views[b].ready
      /\ b # Genesis /\ Holders(b) = {}
  BY MakerFacts DEF Fails
<1>5. Claims(b)' = {} /\ Holders(b)' = {}
  <2>1. {q \in Party : At(q, b, Making \cup {"wait", "hold"})}' = {}
    BY <1>2 DEF At
  <2>2. {q \in Party : req'[q].block = b /\ req'[q].at = "hold"} = {}
    BY <1>2 DEF At
  <2>3. QED
    BY <1>4, <2>1, <2>2 DEF Fails, Unheld, Claims, Holders
<1>6. st'.views[b] = None \/ (st'.views[b].ref \in Nat /\ ~st'.views[b].ready)
  BY <1>4 DEF Fails, View
<1>7. /\ \A c \in Block \ {b} : st'.views[c] = st.views[c]
      /\ st'.miscounted = st.miscounted
  BY DEF Fails
<1>8. ASSUME NEW c \in Block
      PROVE  IF st'.views[c] = None THEN Claims(c)' = {}
             ELSE Cardinality(Claims(c)') <= st'.views[c].ref
  <2>1. CASE c = b
    BY <1>5, <1>6, <2>1, FS_EmptySet
  <2>2. CASE c # b
    BY <1>3, <1>7, <2>2 DEF IInv, ClaimsAreCounted
  <2>3. QED
    BY <2>1, <2>2
<1>9. HeldAreReady'
  BY <1>3, <1>4, <1>5, <1>7 DEF IInv, HeldAreReady, Ready
<1>10. ASSUME NEW q \in Party, NEW c \in Block, At(q, c, Making \cup {"wait"})'
       PROVE  /\ c # b /\ At(q, c, Making \cup {"wait"})
              /\ ~st'.views[c].ready /\ ~st'.views[c].dead
  <2>1. c # b
    BY <1>2, <1>10 DEF At
  <2>2. At(q, c, Making \cup {"wait"})
    BY <1>1, <1>10, <2>1
  <2>3. QED
    BY <1>7, <2>1, <2>2 DEF IInv, MakersAreAlone
<1>11. ASSUME NEW q \in Party, NEW r \in Party, NEW c \in Block, At(q, c, Making)', At(r, c, Making)'
       PROVE  q = r
  <2>1. c # b /\ At(q, c, Making \cup {"wait"})
    BY <1>10, <1>11 DEF At
  <2>2. At(q, c, Making) /\ At(r, c, Making)
    BY <1>1, <1>11, <2>1
  <2>3. QED
    BY <2>1, <2>2 DEF IInv, MakersAreAlone
<1>12. ~Ready(b)'
  BY <1>6 DEF Ready
<1>13. ClaimsAreCounted'
  BY <1>8 DEF ClaimsAreCounted
<1>14. MakersAreAlone'
  BY <1>10, <1>11 DEF MakersAreAlone
<1>15. Genesis \notin st'.miscounted
  BY <1>7 DEF IInv
<1>16. QED
  BY <1>9, <1>12, <1>13, <1>14, <1>15

\* A failure that takes no dump from a storage being closed, and leaves a whole
\* dump or none, keeps all that.
LEMMA FailedSafe ==
    ASSUME IInv, NEW p \in Party, NEW b \in Block, Fails(p, b),
           b \notin st.miscounted /\ st.closing[b] > 0 =>
               st'.dump[b] # <<>> /\ Counted(b, st.closing[b])',
           b \notin st.spoilt /\ st'.dump[b] # <<>> => st'.dump[b] = Path[b]
    PROVE  Safe'
<1>1. /\ Genesis \notin st'.miscounted
      /\ ClaimsAreCounted' /\ HeldAreReady' /\ MakersAreAlone'
      /\ ~Ready(b)'
  BY FailedViews
<1>2. /\ \A c \in Block \ {b} : /\ st'.views[c] = st.views[c] /\ st'.entry[c] = st.entry[c]
                                /\ st'.dump[c] = st.dump[c]
      /\ st'.closing = st.closing /\ st'.spoilt = st.spoilt /\ st'.miscounted = st.miscounted
  BY DEF Fails
<1>3. ASSUME NEW q \in Party, NEW c \in Block, NEW places \in SUBSET Making, At(q, c, places)'
      PROVE  c # b /\ At(q, c, places) /\ req'[q] = req[q]
  <2>1. At(q, c, Making \cup {"wait", "hold"})'
    BY <1>3 DEF At
  <2>2. c # b /\ req'[q] = req[q]
    BY <2>1, FailedRequests DEF At
  <2>3. QED
    BY <1>3, <2>2 DEF At
<1>4. ASSUME NEW c \in Block \ st'.miscounted
      PROVE  /\ Ready(c)' => st'.dump[c] # <<>> /\ Counted(c, st.closing[c] + 1)'
             /\ st'.closing[c] > 0 => st'.dump[c] # <<>> /\ Counted(c, st.closing[c])'
             /\ \A q \in Party :
                   /\ At(q, c, {"open"})' => Counted(c, st.closing[c] + 1)'
                   /\ At(q, c, {"walk", "near", "redo", "drop"})' => st'.closing[c] = 0
  <2>1. CASE c = b
    <3>1. ASSUME NEW q \in Party
          PROVE  ~At(q, c, {"open"})' /\ ~At(q, c, {"walk", "near", "redo", "drop"})'
      BY <1>3, <2>1 DEF Making
    <3>2. QED
      BY <1>1, <1>2, <2>1, <3>1
  <2>2. CASE c # b
    <3>1. Ready(c)' <=> Ready(c)
      BY <1>2, <2>2 DEF Ready
    <3>2. ASSUME NEW q \in Party
          PROVE  /\ At(q, c, {"open"})' => At(q, c, {"open"})
                 /\ At(q, c, {"walk", "near", "redo", "drop"})' =>
                        At(q, c, {"walk", "near", "redo", "drop"})
      BY <1>3 DEF Making
    <3>3. /\ Ready(c) => st.dump[c] # <<>> /\ Counted(c, st.closing[c] + 1)
          /\ st.closing[c] > 0 => st.dump[c] # <<>> /\ Counted(c, st.closing[c])
          /\ \A q \in Party :
                /\ At(q, c, {"open"}) => Counted(c, st.closing[c] + 1)
                /\ At(q, c, {"walk", "near", "redo", "drop"}) => st.closing[c] = 0
      BY <1>2 DEF IInv, EntriesAreCounted
    <3>4. QED
      BY <1>2, <2>2, <3>1, <3>2, <3>3 DEF Counted
  <2>3. QED
    BY <2>1, <2>2
<1>5. EntriesAreCounted'
  BY <1>4 DEF EntriesAreCounted
<1>6. ASSUME NEW q \in Party, NEW c \in Block, At(q, c, {"walk", "near"})'
      PROVE  Path[c] = Path[req'[q].from] \o req'[q].left
  <2>1. At(q, c, {"walk", "near"}) /\ req'[q] = req[q]
    BY <1>3, <1>6 DEF Making
  <2>2. QED
    BY <2>1 DEF IInv, WalksLead
<1>7. ASSUME NEW q \in Party, NEW c \in Block, At(q, c, {"redo"})', c \notin st'.spoilt,
             st'.dump[c] # <<>>
      PROVE  Path[c] = st'.dump[c] \o req'[q].left
  <2>1. At(q, c, {"redo"}) /\ req'[q] = req[q] /\ c # b
    BY <1>3, <1>7 DEF Making
  <2>2. QED
    BY <1>2, <1>7, <2>1 DEF IInv, RedoLeads
<1>8. ASSUME NEW c \in Block, st'.dump[c] # <<>>, Rebuilding(c)' = {}, c \notin st'.spoilt
      PROVE  st'.dump[c] = Path[c]
  <2>1. CASE c = b
    BY <1>2, <1>8, <2>1
  <2>2. CASE c # b
    <3>1. ASSUME NEW q \in Rebuilding(c) PROVE FALSE
      <4>1. q \in Party /\ req[q].block = c /\ req[q].at \in {"redo", "drop"}
        BY DEF Rebuilding
      <4>2. req'[q] = req[q]
        BY <2>2, <4>1, FailedRequests
      <4>3. q \in Rebuilding(c)'
        BY <4>1, <4>2 DEF Rebuilding
      <4>4. QED
        BY <1>8, <4>3
    <3>2. QED
      BY <1>2, <1>8, <2>2, <3>1 DEF IInv, DumpIsItsBlock
  <2>3. QED
    BY <2>1, <2>2
<1>9. WalksLead' /\ RedoLeads' /\ DumpIsItsBlock'
  BY <1>6, <1>7, <1>8 DEF WalksLead, RedoLeads, DumpIsItsBlock
<1>10. QED
  BY <1>1, <1>5, <1>9 DEF Safe

Requests == [Party ->
    [at : {"idle", "found", "walk", "near", "redo", "drop", "open",
           "wait", "hold", "lost", "refused", "thrown"},
     block : Block \cup {None}, from : Block \cup {None}, left : Files]]

\* A maker stops, and those who wait are told, request by request.
LEMMA Told ==
    ASSUME TypeOK, NEW p \in Party, NEW b \in Block, At(p, b, Making),
           NEW at \in {"hold", "refused", "thrown"}, NEW waiters \in {"hold", "refused", "lost"},
           req' = [Waiters(b, waiters) EXCEPT ![p].at = at]
    PROVE  /\ req'[p].block = b /\ req'[p].at = at
           /\ \A q \in Party \ {p} :
                 IF At(q, b, {"wait"}) THEN req'[q].block = b /\ req'[q].at = waiters
                 ELSE req'[q] = req[q]
           /\ req' \in Requests
           /\ \A q \in Party : req'[q].at # "idle" =>
                 req'[q].block \in Block /\ req'[q].from \in Block
<1>1. /\ req \in Requests
      /\ \A q \in Party : req[q].at # "idle" => req[q].block \in Block /\ req[q].from \in Block
  BY DEF TypeOK, Requests
<1>2. PICK w : w = Waiters(b, waiters)
  OBVIOUS
<1>3. ASSUME NEW q \in Party
      PROVE  w[q] = IF At(q, b, {"wait"}) THEN [req[q] EXCEPT !.at = waiters] ELSE req[q]
  BY <1>2 DEF Waiters, At
<1>4. w \in Requests /\ DOMAIN w = Party
  <2>1. ASSUME NEW q \in Party PROVE [req[q] EXCEPT !.at = waiters] \in
           [at : {"idle", "found", "walk", "near", "redo", "drop", "open",
                  "wait", "hold", "lost", "refused", "thrown"},
            block : Block \cup {None}, from : Block \cup {None}, left : Files]
    BY <1>1 DEF Requests
  <2>2. w = [q \in Party |-> w[q]]
    BY <1>2 DEF Waiters
  <2>3. \A q \in Party : w[q] \in
           [at : {"idle", "found", "walk", "near", "redo", "drop", "open",
                  "wait", "hold", "lost", "refused", "thrown"},
            block : Block \cup {None}, from : Block \cup {None}, left : Files]
    BY <1>1, <1>3, <2>1 DEF Requests
  <2>4. QED
    BY <2>2, <2>3 DEF Requests
<1>5. req' = [w EXCEPT ![p].at = at]
  BY <1>2
<1>6. w[p] = req[p] /\ req[p].block = b
  BY <1>3 DEF At, Making
<1>7. req'[p] = [req[p] EXCEPT !.at = at] /\ \A q \in Party \ {p} : req'[q] = w[q]
  BY <1>4, <1>5, <1>6
<1>8. req'[p].block = b /\ req'[p].at = at /\ req'[p].from = req[p].from
  BY <1>1, <1>6, <1>7 DEF Requests
<1>9. ASSUME NEW q \in Party \ {p}
      PROVE  /\ IF At(q, b, {"wait"}) THEN req'[q].block = b /\ req'[q].at = waiters
                ELSE req'[q] = req[q]
             /\ req'[q].at # "idle" => req'[q].block \in Block /\ req'[q].from \in Block
  <2>1. CASE At(q, b, {"wait"})
    <3>1. req'[q] = [req[q] EXCEPT !.at = waiters] /\ req[q].block = b /\ req[q].at = "wait"
      BY <1>3, <1>7, <2>1 DEF At
    <3>2. req'[q].block = b /\ req'[q].at = waiters /\ req'[q].from = req[q].from
      BY <1>1, <3>1 DEF Requests
    <3>3. QED
      BY <1>1, <2>1, <3>1, <3>2
  <2>2. CASE ~At(q, b, {"wait"})
    BY <1>1, <1>3, <1>7, <2>2
  <2>3. QED
    BY <2>1, <2>2
<1>10. req[p].from \in Block
  BY <1>1 DEF At, Making
<1>11. req' \in Requests
  <2>1. PICK r : r = [w[p] EXCEPT !.at = at]
    OBVIOUS
  <2>2. r \in
          [at : {"idle", "found", "walk", "near", "redo", "drop", "open",
                 "wait", "hold", "lost", "refused", "thrown"},
           block : Block \cup {None}, from : Block \cup {None}, left : Files]
    BY <1>4, <2>1 DEF Requests
  <2>3. req' = [w EXCEPT ![p] = r]
    BY <1>5, <2>1
  <2>4. QED
    BY <1>4, <2>2, <2>3 DEF Requests
<1>12. QED
  BY <1>8, <1>9, <1>10, <1>11

\* An exception leaves the dumps and the counts as they are.
LEMMA ThrowSafe ==
    ASSUME IInv, NEW p \in Party, req[p].at \in {"found", "near"}, Throw(p), Unheld
    PROVE  /\ Safe' /\ st' \in Stores /\ req' \in Requests
           /\ \A q \in Party : req'[q].at # "idle" =>
                 req'[q].block \in Block /\ req'[q].from \in Block
<1>1. PICK b \in Block : b = req[p].block
  BY DEF IInv, TypeOK
<1>2. At(p, b, Making) /\ TypeOK /\ st \in Stores
  BY <1>1 DEF At, Making, IInv, TypeOK, Stores
<1>3. req' = [Waiters(b, "lost") EXCEPT ![p].at = "thrown"]
  BY <1>1 DEF Throw
<1>4. st' = [st EXCEPT !.views[b].dead = TRUE]
  BY <1>1 DEF Throw
<1>5. /\ st.views[b] \in View /\ st.views[b] # None
      /\ \A q \in Party : At(q, b, Making) => q = p
  BY <1>2, MakerFacts
<1>6. [st.views[b] EXCEPT !.dead = TRUE] \in View
  BY <1>5 DEF View
<1>7. /\ st'.views = [st.views EXCEPT ![b] = [st.views[b] EXCEPT !.dead = TRUE]]
      /\ st'.dump = st.dump /\ st'.entry = st.entry /\ st'.closing = st.closing
      /\ st'.spoilt = st.spoilt /\ st'.miscounted = st.miscounted /\ st' \in Stores
  BY <1>2, <1>4, <1>6 DEF Stores
<1>8. st'.views[b] = [st.views[b] EXCEPT !.dead = TRUE]
      /\ \A c \in Block \ {b} : st'.views[c] = st.views[c]
  BY <1>2, <1>7 DEF Stores
<1>9. /\ req'[p].block = b /\ req'[p].at = "thrown"
      /\ \A q \in Party \ {p} :
            IF At(q, b, {"wait"}) THEN req'[q].block = b /\ req'[q].at = "lost"
            ELSE req'[q] = req[q]
      /\ req' \in Requests
      /\ \A q \in Party : req'[q].at # "idle" =>
            req'[q].block \in Block /\ req'[q].from \in Block
  BY <1>2, <1>3, Told
<1>10. Fails(p, b)
  BY <1>2, <1>7, <1>8, <1>9 DEF Fails
<1>11. b \notin st.miscounted /\ st.closing[b] > 0 =>
           st'.dump[b] # <<>> /\ Counted(b, st.closing[b])'
  BY <1>7 DEF IInv, EntriesAreCounted, Counted
<1>12. Rebuilding(b) = {}
  BY <1>1, <1>5 DEF Rebuilding, At, Making
<1>13. b \notin st.spoilt /\ st'.dump[b] # <<>> => st'.dump[b] = Path[b]
  BY <1>7, <1>12 DEF IInv, DumpIsItsBlock
<1>14. Safe'
  BY <1>10, <1>11, <1>13, FailedSafe
<1>15. QED
  BY <1>7, <1>9, <1>14

\* A half-made dump is removed; nothing of its block is being closed.
LEMMA DropSafe ==
    ASSUME IInv, NEW p \in Party, Drop(p)
    PROVE  /\ Safe' /\ st' \in Stores /\ req' \in Requests
           /\ \A q \in Party : req'[q].at # "idle" =>
                 req'[q].block \in Block /\ req'[q].from \in Block
<1>1. PICK b \in Block : b = req[p].block
  BY DEF IInv, TypeOK, Drop
<1>2. At(p, b, Making) /\ At(p, b, {"walk", "near", "redo", "drop"}) /\ TypeOK /\ st \in Stores
  BY <1>1 DEF At, Making, IInv, TypeOK, Stores, Drop
<1>3. req' = [Waiters(b, "lost") EXCEPT ![p].at = "refused"]
  BY <1>1 DEF Drop, Refuse
<1>4. PICK s : s = [st EXCEPT !.dump[b] = <<>>] /\ st' = [s EXCEPT !.views[b] = None]
  BY <1>1 DEF Drop, Refuse
<1>a. /\ \A c \in Block \ {b} : s.dump[c] = st.dump[c]
      /\ s.dump[b] = <<>> /\ s.views = st.views
      /\ s.entry = st.entry /\ s.closing = st.closing
      /\ s.spoilt = st.spoilt /\ s.miscounted = st.miscounted
      /\ s \in Stores
  <2>1. <<>> \in Files
    BY DEF Files
  <2>2. PICK d : d = [st.dump EXCEPT ![b] = <<>>] /\ s = [st EXCEPT !.dump = d]
    BY <1>4
  <2>3. /\ d \in [Block -> Files]
        /\ d[b] = <<>> /\ \A c \in Block \ {b} : d[c] = st.dump[c]
    BY <1>2, <2>1, <2>2 DEF Stores
  <2>4. QED
    BY <1>2, <2>2, <2>3 DEF Stores
<1>5. /\ \A c \in Block \ {b} : st'.dump[c] = st.dump[c] /\ st'.views[c] = st.views[c]
      /\ st'.dump[b] = <<>> /\ st'.views[b] = None
      /\ st'.entry = st.entry /\ st'.closing = st.closing
      /\ st'.spoilt = st.spoilt /\ st'.miscounted = st.miscounted
      /\ st' \in Stores
  BY <1>4, <1>a DEF Stores
<1>6. /\ req'[p].block = b /\ req'[p].at = "refused"
      /\ \A q \in Party \ {p} :
            IF At(q, b, {"wait"}) THEN req'[q].block = b /\ req'[q].at = "lost"
            ELSE req'[q] = req[q]
      /\ req' \in Requests
      /\ \A q \in Party : req'[q].at # "idle" =>
            req'[q].block \in Block /\ req'[q].from \in Block
  BY <1>2, <1>3, Told
<1>7. Unheld
  BY DEF Unheld, Drop
<1>8. Fails(p, b)
  BY <1>2, <1>5, <1>6, <1>7 DEF Fails
<1>9. b \notin st.miscounted => st.closing[b] = 0
  BY <1>2 DEF IInv, EntriesAreCounted
<1>10. Safe'
  BY <1>5, <1>8, <1>9, FailedSafe
<1>11. QED
  BY <1>5, <1>6, <1>10

\* The count of a dump that is not there goes with its view.
LEMMA OpenFailsSafe ==
    ASSUME IInv, NEW p \in Party, Open(p), st.dump[req[p].block] = <<>>
    PROVE  /\ Safe' /\ st' \in Stores /\ req' \in Requests
           /\ \A q \in Party : req'[q].at # "idle" =>
                 req'[q].block \in Block /\ req'[q].from \in Block
<1>1. PICK b \in Block : b = req[p].block
  BY DEF IInv, TypeOK, Open
<1>2. At(p, b, Making) /\ At(p, b, {"open"}) /\ TypeOK /\ st \in Stores
  BY <1>1 DEF At, Making, IInv, TypeOK, Stores, Open
<1>3. req' = [Waiters(b, "refused") EXCEPT ![p].at = "refused"]
  BY <1>1 DEF Open
<1>4. PICK e : /\ e \in [Block -> Nat \cup {None}] /\ \A c \in Block \ {b} : e[c] = st.entry[c]
               /\ ReleaseEntry(st, b) = [st EXCEPT !.entry = e]
  <2>1. CASE st.entry[b] = None
    <3>1. ReleaseEntry(st, b) = [st EXCEPT !.entry = st.entry]
      BY <1>2, <2>1 DEF ReleaseEntry, Stores
    <3>2. QED
      BY <1>2, <3>1 DEF Stores
  <2>2. CASE st.entry[b] # None
    <3>1. PICK n : n = IF st.entry[b] > 0 THEN st.entry[b] - 1 ELSE 0
      OBVIOUS
    <3>2. n \in Nat
      BY <1>2, <2>2, <3>1 DEF Stores
    <3>3. ReleaseEntry(st, b) = [st EXCEPT !.entry = [st.entry EXCEPT ![b] = n]]
      BY <1>2, <2>2, <3>1 DEF ReleaseEntry, Stores
    <3>4. QED
      BY <1>2, <3>2, <3>3 DEF Stores
  <2>3. QED
    BY <2>1, <2>2
<1>5. st' = [[st EXCEPT !.entry = e] EXCEPT !.views[b] = None]
  BY <1>1, <1>4 DEF Open
<1>6. /\ \A c \in Block \ {b} : st'.entry[c] = st.entry[c] /\ st'.views[c] = st.views[c]
      /\ st'.views[b] = None
      /\ st'.dump = st.dump /\ st'.closing = st.closing
      /\ st'.spoilt = st.spoilt /\ st'.miscounted = st.miscounted
      /\ st' \in Stores
  BY <1>2, <1>4, <1>5 DEF Stores
<1>7. /\ req'[p].block = b /\ req'[p].at = "refused"
      /\ \A q \in Party \ {p} :
            IF At(q, b, {"wait"}) THEN req'[q].block = b /\ req'[q].at = "refused"
            ELSE req'[q] = req[q]
      /\ req' \in Requests
      /\ \A q \in Party : req'[q].at # "idle" =>
            req'[q].block \in Block /\ req'[q].from \in Block
  BY <1>2, <1>3, Told
<1>8. Unheld
  BY DEF Unheld, Open
<1>9. Fails(p, b)
  BY <1>2, <1>6, <1>7, <1>8 DEF Fails
<1>10. b \notin st.miscounted => ~(st.closing[b] > 0)
  BY <1>1 DEF IInv, EntriesAreCounted
<1>11. Safe'
  BY <1>1, <1>6, <1>9, <1>10, FailedSafe
<1>12. QED
  BY <1>6, <1>7, <1>11

\* A storage that opens: everyone who waited has the view, and it is ready.
LEMMA OpenSafe ==
    ASSUME IInv, NEW p \in Party, Open(p), st.dump[req[p].block] # <<>>
    PROVE  /\ Safe' /\ st' \in Stores /\ req' \in Requests
           /\ \A q \in Party : req'[q].at # "idle" =>
                 req'[q].block \in Block /\ req'[q].from \in Block
<1>1. PICK b \in Block : b = req[p].block
  BY DEF IInv, TypeOK, Open
<1>2. At(p, b, Making) /\ At(p, b, {"open"}) /\ TypeOK /\ st \in Stores /\ Unheld
  BY <1>1 DEF At, Making, IInv, TypeOK, Stores, Open, Unheld
<1>3. req' = [Waiters(b, "hold") EXCEPT ![p].at = "hold"]
  BY <1>1 DEF Open
<1>4. st' = [st EXCEPT !.views[b].ready = TRUE]
  BY <1>1 DEF Open
<1>5. /\ st.views[b] \in View /\ st.views[b] # None /\ ~st.views[b].ready
      /\ \A q \in Party : At(q, b, Making) => q = p
  BY <1>2, MakerFacts
<1>6. PICK v : v = [st.views[b] EXCEPT !.ready = TRUE]
  OBVIOUS
<1>7. v \in View /\ v.ready /\ v.ref = st.views[b].ref /\ v # None
  <2>1. v \in View /\ v.ready /\ v.ref = st.views[b].ref
    BY <1>5, <1>6 DEF View
  <2>2. QED
    BY <2>1, SnapshotsAssumption
<1>8. /\ st'.views = [st.views EXCEPT ![b] = v]
      /\ st'.dump = st.dump /\ st'.entry = st.entry /\ st'.closing = st.closing
      /\ st'.spoilt = st.spoilt /\ st'.miscounted = st.miscounted /\ st' \in Stores
  BY <1>2, <1>4, <1>6, <1>7 DEF Stores
<1>9. st'.views[b] = v /\ \A c \in Block \ {b} : st'.views[c] = st.views[c]
  BY <1>2, <1>8 DEF Stores
<1>10. /\ req'[p].block = b /\ req'[p].at = "hold"
       /\ \A q \in Party \ {p} :
             IF At(q, b, {"wait"}) THEN req'[q].block = b /\ req'[q].at = "hold"
             ELSE req'[q] = req[q]
       /\ req' \in Requests
       /\ \A q \in Party : req'[q].at # "idle" =>
             req'[q].block \in Block /\ req'[q].from \in Block
  BY <1>2, <1>3, Told
<1>11. ASSUME NEW q \in Party, NEW c \in Block
       PROVE  /\ At(q, c, Making \cup {"wait", "hold"})' <=> At(q, c, Making \cup {"wait", "hold"})
              /\ At(q, c, Making \cup {"wait"})' => c # b /\ req'[q] = req[q]
              /\ c # b => (At(q, c, {"hold"})' <=> At(q, c, {"hold"}))
  <2>1. CASE q = p
    BY <1>2, <1>10, <2>1 DEF At, Making
  <2>2. CASE q # p /\ At(q, b, {"wait"})
    BY <1>10, <2>2 DEF At, Making
  <2>3. CASE q # p /\ ~At(q, b, {"wait"})
    <3>1. req'[q] = req[q]
      BY <1>10, <2>3
    <3>2. ~At(q, b, Making)
      BY <1>5, <2>3
    <3>3. ~At(q, b, Making \cup {"wait"})
      BY <2>3, <3>2 DEF At
    <3>4. QED
      BY <3>1, <3>3 DEF At
  <2>4. QED
    BY <2>1, <2>2, <2>3
<1>12. ASSUME NEW c \in Block PROVE Claims(c)' = Claims(c)
  <2>1. {q \in Party : At(q, c, Making \cup {"wait", "hold"})}' =
           {q \in Party : At(q, c, Making \cup {"wait", "hold"})}
    BY <1>11 DEF At
  <2>2. QED
    BY <1>2, <2>1 DEF Unheld, Claims
<1>13. ASSUME NEW c \in Block, c # b PROVE Holders(c)' = Holders(c)
  <2>1. {q \in Party : req'[q].block = c /\ req'[q].at = "hold"} =
           {q \in Party : req[q].block = c /\ req[q].at = "hold"}
    BY <1>11, <1>13 DEF At
  <2>2. QED
    BY <1>2, <2>1 DEF Unheld, Holders
<1>14. ClaimsAreCounted'
  <2>1. ASSUME NEW c \in Block
        PROVE  IF st'.views[c] = None THEN Claims(c)' = {}
               ELSE Cardinality(Claims(c)') <= st'.views[c].ref
    <3>1. IF st.views[c] = None THEN Claims(c) = {}
          ELSE Cardinality(Claims(c)) <= st.views[c].ref
      BY DEF IInv, ClaimsAreCounted
    <3>2. CASE c = b
      BY <1>5, <1>7, <1>9, <1>12, <3>1, <3>2
    <3>3. CASE c # b
      BY <1>9, <1>12, <3>1, <3>3
    <3>4. QED
      BY <3>2, <3>3
  <2>2. QED
    BY <2>1 DEF ClaimsAreCounted
<1>15. Ready(b)' /\ \A c \in Block \ {b} : Ready(c)' <=> Ready(c)
  BY <1>7, <1>9 DEF Ready
<1>16. HeldAreReady'
  BY <1>13, <1>15 DEF IInv, HeldAreReady
<1>17. ASSUME NEW q \in Party, NEW c \in Block, NEW places \in SUBSET (Making \cup {"wait"}),
              At(q, c, places)'
       PROVE  c # b /\ At(q, c, places) /\ req'[q] = req[q]
  <2>1. At(q, c, Making \cup {"wait"})'
    BY <1>17 DEF At
  <2>2. QED
    BY <1>11, <1>17, <2>1 DEF At
<1>18. MakersAreAlone'
  <2>1. ASSUME NEW q \in Party, NEW c \in Block, At(q, c, Making \cup {"wait"})'
        PROVE  ~st'.views[c].ready /\ ~st'.views[c].dead
    <3>1. c # b /\ At(q, c, Making \cup {"wait"})
      BY <1>17, <2>1
    <3>2. QED
      BY <1>9, <3>1 DEF IInv, MakersAreAlone
  <2>2. ASSUME NEW q \in Party, NEW r \in Party, NEW c \in Block, At(q, c, Making)', At(r, c, Making)'
        PROVE  q = r
    <3>1. At(q, c, Making) /\ At(r, c, Making)
      BY <1>17, <2>2
    <3>2. At(q, c, Making \cup {"wait"})
      BY <3>1 DEF At
    <3>3. QED
      BY <3>1, <3>2 DEF IInv, MakersAreAlone
  <2>3. QED
    BY <2>1, <2>2 DEF MakersAreAlone
<1>19. ASSUME NEW c \in Block \ st'.miscounted
       PROVE  /\ Ready(c)' => st'.dump[c] # <<>> /\ Counted(c, st.closing[c] + 1)'
              /\ st'.closing[c] > 0 => st'.dump[c] # <<>> /\ Counted(c, st.closing[c])'
              /\ \A q \in Party :
                    /\ At(q, c, {"open"})' => Counted(c, st.closing[c] + 1)'
                    /\ At(q, c, {"walk", "near", "redo", "drop"})' => st'.closing[c] = 0
  <2>1. /\ Ready(c) => st.dump[c] # <<>> /\ Counted(c, st.closing[c] + 1)
        /\ st.closing[c] > 0 => st.dump[c] # <<>> /\ Counted(c, st.closing[c])
        /\ \A q \in Party :
              /\ At(q, c, {"open"}) => Counted(c, st.closing[c] + 1)
              /\ At(q, c, {"walk", "near", "redo", "drop"}) => st.closing[c] = 0
    BY <1>8 DEF IInv, EntriesAreCounted
  <2>2. ASSUME NEW q \in Party
        PROVE  /\ At(q, c, {"open"})' => At(q, c, {"open"})
               /\ At(q, c, {"walk", "near", "redo", "drop"})' =>
                      At(q, c, {"walk", "near", "redo", "drop"})
    BY <1>17 DEF Making
  <2>3. Ready(c)' => st.dump[c] # <<>> /\ Counted(c, st.closing[c] + 1)
    <3>1. CASE c = b
      BY <1>1, <1>2, <2>1, <3>1
    <3>2. CASE c # b
      BY <1>15, <2>1, <3>2
    <3>3. QED
      BY <3>1, <3>2
  <2>4. QED
    BY <1>8, <2>1, <2>2, <2>3 DEF Counted
<1>20. EntriesAreCounted'
  BY <1>19 DEF EntriesAreCounted
<1>21. ASSUME NEW q \in Party, NEW c \in Block, At(q, c, {"walk", "near"})'
       PROVE  Path[c] = Path[req'[q].from] \o req'[q].left
  <2>1. At(q, c, {"walk", "near"}) /\ req'[q] = req[q]
    BY <1>17, <1>21 DEF Making
  <2>2. QED
    BY <2>1 DEF IInv, WalksLead
<1>22. ASSUME NEW q \in Party, NEW c \in Block, At(q, c, {"redo"})', c \notin st'.spoilt,
              st'.dump[c] # <<>>
       PROVE  Path[c] = st'.dump[c] \o req'[q].left
  <2>1. At(q, c, {"redo"}) /\ req'[q] = req[q]
    BY <1>17, <1>22 DEF Making
  <2>2. QED
    BY <1>8, <1>22, <2>1 DEF IInv, RedoLeads
<1>23. ASSUME NEW c \in Block PROVE Rebuilding(c) \subseteq Rebuilding(c)'
  <2>1. ASSUME NEW q \in Party, req[q].at \in {"redo", "drop"} PROVE req'[q] = req[q]
    <3>1. q # p /\ ~At(q, b, {"wait"})
      BY <1>2, <2>1 DEF At
    <3>2. QED
      BY <1>10, <3>1
  <2>2. QED
    BY <2>1 DEF Rebuilding
<1>24. DumpIsItsBlock'
  BY <1>8, <1>23 DEF IInv, DumpIsItsBlock
<1>25. Genesis \notin st'.miscounted
  BY <1>8 DEF IInv
<1>26. Safe'
  BY <1>14, <1>16, <1>18, <1>20, <1>21, <1>22, <1>24, <1>25 DEF Safe, WalksLead, RedoLeads
<1>27. QED
  BY <1>8, <1>10, <1>26

\* The dump that was found is counted, or the request ends with an exception.
LEMMA FoundSafe ==
    ASSUME IInv, NEW p \in Party, Found(p)
    PROVE  /\ Safe' /\ st' \in Stores /\ req' \in Requests
           /\ \A q \in Party : req'[q].at # "idle" =>
                 req'[q].block \in Block /\ req'[q].from \in Block
<1>1. PICK b \in Block : b = req[p].block
  BY DEF IInv, TypeOK, Found
<1>2. /\ At(p, b, Making) /\ TypeOK /\ st \in Stores /\ req \in Requests /\ Unheld
      /\ req[p].at = "found" /\ req[p].from \in Block
  BY <1>1 DEF At, Making, IInv, TypeOK, Stores, Requests, Found, Unheld
<1>3. CASE st.entry[b] = None
  <2>1. Throw(p)
    BY <1>1, <1>3 DEF Found
  <2>2. QED
    BY <1>2, <2>1, ThrowSafe
<1>4. CASE st.entry[b] # None
  <2>1. st' = [st EXCEPT !.entry[b] = @ + 1] /\ req' = [req EXCEPT ![p].at = "open"]
    BY <1>1, <1>4 DEF Found
  <2>2. st.entry[b] \in Nat
    BY <1>2, <1>4 DEF Stores
  <2>3. st'.entry[b] = st.entry[b] + 1 /\ st'.entry[b] # None
    BY <1>2, <2>1, <2>2, SnapshotsAssumption DEF Stores
  <2>4. /\ \A c \in Block \ {b} : st'.entry[c] = st.entry[c]
        /\ st'.dump = st.dump /\ st'.views = st.views /\ st'.closing = st.closing
        /\ st'.spoilt = st.spoilt /\ st'.miscounted = st.miscounted /\ st' \in Stores
    BY <1>2, <2>1, <2>2 DEF Stores
  <2>5. /\ req'[p].at = "open" /\ req'[p].block = b /\ req'[p].from = req[p].from
        /\ \A q \in Party \ {p} : req'[q] = req[q]
        /\ req' \in Requests
    BY <1>1, <1>2, <2>1 DEF Requests
  <2>6. Moves(p, b)
    BY <1>2, <2>4, <2>5 DEF Moves, At, Making
  <2>7. b \notin st.miscounted =>
           /\ st.closing[b] > 0 => st'.dump[b] # <<>> /\ Counted(b, st.closing[b])'
           /\ At(p, b, {"open"})' => Counted(b, st.closing[b] + 1)'
    <3>1. b \notin st.miscounted /\ st.closing[b] > 0 =>
             st.dump[b] # <<>> /\ Counted(b, st.closing[b])
      BY DEF IInv, EntriesAreCounted
    <3>2. st.closing[b] \in Nat
      BY <1>2 DEF Stores
    <3>3. QED
      BY <2>2, <2>3, <2>4, <3>1, <3>2 DEF Counted
  <2>8. ~At(p, b, {"walk", "near", "redo", "drop"})' /\ ~At(p, b, {"walk", "near"})' /\ ~At(p, b, {"redo"})'
    BY <2>5 DEF At
  <2>9. Rebuilding(b) = {}
    <3>1. \A q \in Party : At(q, b, Making) => q = p
      BY <1>2, MakerFacts
    <3>2. QED
      BY <1>2, <3>1 DEF Rebuilding, At, Making
  <2>10. b \notin st'.spoilt /\ st'.dump[b] # <<>> => st'.dump[b] = Path[b]
    BY <2>4, <2>9 DEF IInv, DumpIsItsBlock
  <2>11. Safe'
    BY <2>4, <2>6, <2>7, <2>8, <2>10, MovedSafe
  <2>12. QED
    BY <1>2, <2>4, <2>5, <2>11 DEF TypeOK
<1>5. QED
  BY <1>3, <1>4

\* Sequences joined one element sooner or later.
LEMMA Regroup ==
    ASSUME NEW S, NEW s \in Seq(S), NEW t \in Seq(S), NEW x \in S
    PROVE  /\ Append(s, x) \o t = s \o (<<x>> \o t)
           /\ t # <<>> => Append(s, Head(t)) \o Tail(t) = s \o t
<1>1. Append(s, x) \o t = s \o (<<x>> \o t)
  OBVIOUS
<1>2. ASSUME t # <<>> PROVE Append(s, Head(t)) \o Tail(t) = s \o t
  <2>0. Tail(t) \in Seq(S) /\ Len(Tail(t)) = Len(t) - 1
    BY <1>2
  <2>1. PICK u : u = Tail(t) /\ u \in Seq(S) /\ Len(u) = Len(t) - 1
    BY <2>0, Zenon
  <2>2. PICK y \in S : y = Head(t) /\ y = t[1]
    BY <1>2
  <2>3. \A i \in 1..Len(u) : u[i] = t[i + 1]
    BY <1>2, <2>1
  <2>4. Append(s, y) \in Seq(S) /\ Len(Append(s, y)) = Len(s) + 1
    BY <2>2
  <2>5. \A i \in 1..Len(s) : Append(s, y)[i] = s[i]
    BY <2>2
  <2>6. Append(s, y)[Len(s) + 1] = y
    BY <2>2
  <2>7. PICK r \in Seq(S) : r = Append(s, y)
    BY <2>4
  <2>8. Len(r \o u) = Len(s \o t)
    BY <2>1, <2>4, <2>7
  <2>9. ASSUME NEW i \in 1..Len(s \o t) PROVE (r \o u)[i] = (s \o t)[i]
    <3>1. CASE i <= Len(s)
      BY <2>1, <2>4, <2>5, <2>7, <3>1
    <3>2. CASE i = Len(s) + 1
      BY <1>2, <2>1, <2>2, <2>4, <2>6, <2>7, <3>2
    <3>3. CASE i > Len(s) + 1
      <4>1. (r \o u)[i] = u[i - Len(s) - 1]
        BY <2>1, <2>4, <2>7, <3>3
      <4>2. (s \o t)[i] = t[i - Len(s)]
        BY <3>3
      <4>3. i - Len(s) - 1 \in 1..Len(u) /\ (i - Len(s) - 1) + 1 = i - Len(s)
        BY <2>1, <3>3
      <4>4. QED
        BY <2>3, <4>1, <4>2, <4>3
    <3>4. i \in Int /\ Len(s) \in Nat
      OBVIOUS
    <3>5. i <= Len(s) \/ i = Len(s) + 1 \/ i > Len(s) + 1
      BY <3>4
    <3>6. QED
      BY <3>1, <3>2, <3>3, <3>5
  <2>10. r \o u = s \o t
    BY <2>1, <2>7, <2>8, <2>9
  <2>11. QED
    BY <2>1, <2>2, <2>7, <2>10
<1>3. QED
  BY <1>1, <1>2

\* The search goes up from parent to parent, and stops at the genesis at the latest.
LEMMA WalkSafe ==
    ASSUME IInv, NEW p \in Party, Walk(p)
    PROVE  /\ Safe' /\ req' \in Requests
           /\ \A q \in Party : req'[q].at # "idle" =>
                 req'[q].block \in Block /\ req'[q].from \in Block
<1>1. PICK b \in Block, h \in Block : b = req[p].block /\ h = req[p].from
  BY DEF IInv, TypeOK, Walk
<1>2. /\ At(p, b, Making) /\ TypeOK /\ st \in Stores /\ req \in Requests /\ Unheld
      /\ req[p].at = "walk" /\ st' = st
  BY <1>1 DEF At, Making, IInv, TypeOK, Stores, Requests, Walk, Unheld
<1>3. PICK left \in Files : left = req[p].left
  BY <1>2 DEF Requests
<1>4. Path[b] = Path[h] \o left
  BY <1>1, <1>2, <1>3 DEF IInv, WalksLead, At
<1>5. PICK r : /\ req' = [req EXCEPT ![p] = r] /\ r.at \in {"walk", "near"}
               /\ r.block = b /\ r.from \in Block /\ r.left \in Files
               /\ r \in [at : {"idle", "found", "walk", "near", "redo", "drop", "open",
                               "wait", "hold", "lost", "refused", "thrown"},
                         block : Block \cup {None}, from : Block \cup {None}, left : Files]
               /\ Path[b] = Path[r.from] \o r.left
  <2>1. CASE st.dump[h] # <<>>
    <3>1. PICK r : r = [req[p] EXCEPT !.at = "near"]
      OBVIOUS
    <3>2. req' = [req EXCEPT ![p] = r]
      BY <1>1, <1>2, <2>1, <3>1 DEF Walk
    <3>3. /\ r.at = "near" /\ r.block = b /\ r.from = h /\ r.left = left
          /\ r \in [at : {"idle", "found", "walk", "near", "redo", "drop", "open",
                          "wait", "hold", "lost", "refused", "thrown"},
                    block : Block \cup {None}, from : Block \cup {None}, left : Files]
      BY <1>1, <1>2, <1>3, <3>1 DEF Requests
    <3>4. QED
      BY <1>4, <3>2, <3>3
  <2>2. CASE st.dump[h] = <<>>
    <3>1. h # Genesis
      <4>1. Ready(Genesis) /\ Genesis \in Block \ st.miscounted
        BY SnapshotsAssumption DEF IInv, HeldAreReady
      <4>2. st.dump[Genesis] # <<>>
        BY <4>1 DEF IInv, EntriesAreCounted
      <4>3. QED
        BY <2>2, <4>2
    <3>2. PICK up \in Block : up = Parent[h]
      BY <3>1, SnapshotsAssumption
    <3>3. Path[h] = Append(Path[up], h) /\ Path[up] \in Seq(Block)
      BY <3>1, <3>2, PathIs, PathType
    <3>4. Path[h] \o left = Path[up] \o (<<h>> \o left)
      <4>1. left \in Seq(Block)
        BY DEF Files
      <4>2. \A s, t \in Seq(Block), x \in Block : Append(s, x) \o t = s \o (<<x>> \o t)
        BY Regroup
      <4>3. PICK s : s = Path[up] /\ s \in Seq(Block) /\ Path[h] = Append(s, h)
        BY <3>3, Zenon
      <4>4. Append(s, h) \o left = s \o (<<h>> \o left)
        BY <4>1, <4>2, <4>3, Zenon
      <4>5. QED
        BY <4>3, <4>4, Zenon
    <3>5. <<h>> \o left \in Files
      BY <1>3 DEF Files
    <3>6. PICK more \in Files : more = <<h>> \o left
      BY <3>5
    <3>7. PICK r : r = [req[p] EXCEPT !.from = up, !.left = more]
      OBVIOUS
    <3>8. req' = [req EXCEPT ![p] = r]
      <4>1. req' = [req EXCEPT ![p].from = up, ![p].left = <<h>> \o @]
        BY <1>1, <1>2, <2>2, <3>2 DEF Walk
      <4>2. DOMAIN req = Party
        BY <1>2 DEF Requests
      <4>3. DOMAIN req[p] = {"at", "block", "from", "left"}
        BY <1>2 DEF Requests
      <4>4. [req EXCEPT ![p].from = up][p] = [req[p] EXCEPT !.from = up]
        BY <4>2
      <4>5. [req[p] EXCEPT !.from = up].left = left
        BY <1>3, <4>3
      <4>6. QED
        BY <1>3, <3>6, <3>7, <4>1, <4>2, <4>3, <4>4, <4>5
    <3>9. /\ r.at = "walk" /\ r.block = b /\ r.from = up /\ r.left = more
          /\ r \in [at : {"idle", "found", "walk", "near", "redo", "drop", "open",
                          "wait", "hold", "lost", "refused", "thrown"},
                    block : Block \cup {None}, from : Block \cup {None}, left : Files]
      BY <1>1, <1>2, <3>7 DEF Requests
    <3>10. QED
      BY <1>4, <3>4, <3>6, <3>8, <3>9
  <2>3. QED
    BY <2>1, <2>2
<1>6. /\ req'[p] = r /\ \A q \in Party \ {p} : req'[q] = req[q]
      /\ req' \in Requests
  BY <1>2, <1>5 DEF Requests
<1>7. Moves(p, b)
  BY <1>2, <1>5, <1>6 DEF Moves, At, Making
<1>8. b \notin st.miscounted =>
         /\ st.closing[b] > 0 => st'.dump[b] # <<>> /\ Counted(b, st.closing[b])'
         /\ st.closing[b] = 0
  BY <1>1, <1>2 DEF IInv, EntriesAreCounted, Counted, At
<1>9. Rebuilding(b) = {}
  <2>1. \A q \in Party : At(q, b, Making) => q = p
    BY <1>2, MakerFacts
  <2>2. QED
    BY <1>2, <2>1 DEF Rebuilding, At, Making
<1>10. b \notin st'.spoilt /\ st'.dump[b] # <<>> => st'.dump[b] = Path[b]
  BY <1>2, <1>9 DEF IInv, DumpIsItsBlock
<1>11. ~At(p, b, {"open"})' /\ ~At(p, b, {"redo"})'
  BY <1>5, <1>6 DEF At
<1>12. Safe'
  BY <1>2, <1>5, <1>6, <1>7, <1>8, <1>10, <1>11, MovedSafe
<1>13. QED
  BY <1>2, <1>5, <1>6, <1>12 DEF TypeOK

\* One block's dump is written: the rest of the store stays.
LEMMA DumpWritten ==
    ASSUME st \in Stores, NEW b \in Block, NEW d \in Files, NEW spoilt \in SUBSET Block,
           st' = [st EXCEPT !.dump[b] = d, !.spoilt = spoilt]
    PROVE  /\ st'.dump[b] = d /\ \A c \in Block \ {b} : st'.dump[c] = st.dump[c]
           /\ st'.entry = st.entry /\ st'.views = st.views /\ st'.closing = st.closing
           /\ st'.spoilt = spoilt /\ st'.miscounted = st.miscounted
           /\ st' \in Stores
<1>1. PICK dump : dump = [st.dump EXCEPT ![b] = d]
  OBVIOUS
<1>2. /\ dump \in [Block -> Files]
      /\ dump[b] = d /\ \A c \in Block \ {b} : dump[c] = st.dump[c]
  BY <1>1 DEF Stores
<1>3. st' = [st EXCEPT !.dump = dump, !.spoilt = spoilt]
  BY <1>1 DEF Stores
<1>4. QED
  BY <1>2, <1>3 DEF Stores

\* The copy of the nearest dump leaves exactly the logs that were found.
LEMMA NearSafe ==
    ASSUME IInv, NEW p \in Party, Near(p)
    PROVE  /\ Safe' /\ st' \in Stores /\ req' \in Requests
           /\ \A q \in Party : req'[q].at # "idle" =>
                 req'[q].block \in Block /\ req'[q].from \in Block
<1>1. PICK b \in Block, h \in Block : b = req[p].block /\ h = req[p].from
  BY DEF IInv, TypeOK, Near
<1>2. /\ At(p, b, Making) /\ TypeOK /\ st \in Stores /\ req \in Requests /\ Unheld
      /\ req[p].at = "near"
  BY <1>1 DEF At, Making, IInv, TypeOK, Stores, Requests, Near, Unheld
<1>3. CASE st.dump[h] = <<>>
  <2>1. Throw(p)
    BY <1>1, <1>3 DEF Near
  <2>2. QED
    BY <1>2, <2>1, ThrowSafe
<1>4. CASE st.dump[h] # <<>>
  <2>1. PICK bad : bad = (h \in st.spoilt \/ Rebuilding(h) # {})
    OBVIOUS
  <2>2. PICK spoilt : spoilt = IF bad THEN st.spoilt \cup {b}
                               ELSE IF h = b THEN st.spoilt ELSE st.spoilt \ {b}
    OBVIOUS
  <2>3. /\ st' = [st EXCEPT !.dump[b] = st.dump[h], !.spoilt = spoilt]
        /\ req' = [req EXCEPT ![p].at = "redo"]
    BY <1>1, <1>4, <2>1, <2>2 DEF Near
  <2>4. st.dump[h] \in Files /\ spoilt \in SUBSET Block
    BY <1>2, <2>2 DEF Stores
  <2>5. /\ st'.dump[b] = st.dump[h] /\ \A c \in Block \ {b} : st'.dump[c] = st.dump[c]
        /\ st'.entry = st.entry /\ st'.views = st.views /\ st'.closing = st.closing
        /\ st'.spoilt = spoilt /\ st'.miscounted = st.miscounted /\ st' \in Stores
    BY <1>2, <2>3, <2>4, DumpWritten
  <2>6. /\ req'[p].at = "redo" /\ req'[p].block = b /\ req'[p].from = req[p].from
        /\ req'[p].left = req[p].left
        /\ \A q \in Party \ {p} : req'[q] = req[q]
        /\ req' \in Requests
    BY <1>1, <1>2, <2>3 DEF Requests
  <2>7. Moves(p, b)
    BY <1>2, <2>5, <2>6 DEF Moves, At, Making
  <2>8. b \notin st.miscounted => st.closing[b] = 0
    BY <1>1, <1>2 DEF IInv, EntriesAreCounted, At
  <2>9. ASSUME b \notin spoilt PROVE Path[b] = st.dump[h] \o req[p].left
    <3>1. ~bad
      BY <2>2, <2>9
    <3>2. st.dump[h] = Path[h]
      BY <1>4, <2>1, <3>1 DEF IInv, DumpIsItsBlock
    <3>3. Path[b] = Path[h] \o req[p].left
      BY <1>1, <1>2 DEF IInv, WalksLead, At
    <3>4. QED
      BY <3>2, <3>3
  <2>10. At(p, b, {"redo", "drop"})' /\ ~At(p, b, {"walk", "near"})' /\ ~At(p, b, {"open"})'
    BY <2>6 DEF At
  <2>11. \A c \in Block \ {b} : c \in st.spoilt => c \in st'.spoilt
    BY <2>2, <2>5
  <2>12. b \notin st'.spoilt => Path[b] = st'.dump[b] \o req'[p].left
    BY <2>5, <2>6, <2>9
  <2>13. ~(b \notin st.miscounted /\ st.closing[b] > 0)
    BY <2>8
  <2>14. Safe'
    BY <2>5, <2>7, <2>8, <2>10, <2>11, <2>12, <2>13, MovedSafe
  <2>15. QED
    BY <1>2, <2>5, <2>6, <2>14 DEF TypeOK
<1>5. QED
  BY <1>3, <1>4

\* Each log applied is one less to apply; the last makes the dump its block's.
LEMMA RedoSafe ==
    ASSUME IInv, NEW p \in Party, Redo(p)
    PROVE  /\ Safe' /\ st' \in Stores /\ req' \in Requests
           /\ \A q \in Party : req'[q].at # "idle" =>
                 req'[q].block \in Block /\ req'[q].from \in Block
<1>1. PICK b \in Block : b = req[p].block
  BY DEF IInv, TypeOK, Redo
<1>2. /\ At(p, b, Making) /\ TypeOK /\ st \in Stores /\ req \in Requests /\ Unheld
      /\ req[p].at = "redo" /\ req[p].from \in Block
  BY <1>1 DEF At, Making, IInv, TypeOK, Stores, Requests, Redo, Unheld
<1>3. PICK left \in Files : left = req[p].left
  BY <1>2 DEF Requests
<1>4. b \notin st.miscounted => st.closing[b] = 0
  BY <1>1, <1>2 DEF IInv, EntriesAreCounted, At
<1>5. b \notin st.spoilt /\ st.dump[b] # <<>> => Path[b] = st.dump[b] \o left
  BY <1>1, <1>2, <1>3 DEF IInv, RedoLeads, At
<1>6. CASE left = <<>>
  <2>1. st' = [st EXCEPT !.entry[b] = 1] /\ req' = [req EXCEPT ![p].at = "open"]
    BY <1>1, <1>3, <1>6 DEF Redo
  <2>2. /\ st'.entry[b] = 1 /\ \A c \in Block \ {b} : st'.entry[c] = st.entry[c]
        /\ st'.dump = st.dump /\ st'.views = st.views /\ st'.closing = st.closing
        /\ st'.spoilt = st.spoilt /\ st'.miscounted = st.miscounted /\ st' \in Stores
    BY <1>2, <2>1 DEF Stores
  <2>3. /\ req'[p].at = "open" /\ req'[p].block = b /\ req'[p].from = req[p].from
        /\ \A q \in Party \ {p} : req'[q] = req[q]
        /\ req' \in Requests
    BY <1>1, <1>2, <2>1 DEF Requests
  <2>4. Moves(p, b)
    BY <1>2, <2>2, <2>3 DEF Moves, At, Making
  <2>5. b \notin st.miscounted => Counted(b, st.closing[b] + 1)'
    <3>1. None # 1
      BY SnapshotsAssumption
    <3>2. QED
      BY <1>4, <2>2, <3>1 DEF Counted
  <2>6. st.dump[b] \in Seq(Block)
    BY <1>2 DEF Stores, Files
  <2>7. b \notin st'.spoilt /\ st'.dump[b] # <<>> => st'.dump[b] = Path[b]
    BY <1>5, <1>6, <2>2, <2>6
  <2>8. ~At(p, b, {"walk", "near", "redo", "drop"})' /\ ~At(p, b, {"walk", "near"})' /\ ~At(p, b, {"redo"})'
    BY <2>3 DEF At
  <2>9. ~(b \notin st.miscounted /\ st.closing[b] > 0)
    BY <1>4
  <2>10. Safe'
    BY <2>2, <2>4, <2>5, <2>7, <2>8, <2>9, MovedSafe
  <2>11. QED
    BY <1>2, <2>2, <2>3, <2>10 DEF TypeOK
<1>7. CASE left # <<>> /\ Head(left) \notin st.log
  <2>1. st' = st /\ req' = [req EXCEPT ![p].at = "drop"]
    BY <1>1, <1>3, <1>7 DEF Redo
  <2>2. /\ req'[p].at = "drop" /\ req'[p].block = b /\ req'[p].from = req[p].from
        /\ \A q \in Party \ {p} : req'[q] = req[q]
        /\ req' \in Requests
    BY <1>1, <1>2, <2>1 DEF Requests
  <2>3. Moves(p, b)
    BY <1>2, <2>1, <2>2 DEF Moves, At, Making
  <2>4. At(p, b, {"redo", "drop"})' /\ ~At(p, b, {"walk", "near"})' /\ ~At(p, b, {"redo"})'
        /\ ~At(p, b, {"open"})'
    BY <2>2 DEF At
  <2>5. ~(b \notin st.miscounted /\ st.closing[b] > 0)
    BY <1>4
  <2>6. Safe'
    BY <1>4, <2>1, <2>3, <2>4, <2>5, MovedSafe
  <2>7. QED
    BY <1>2, <2>1, <2>2, <2>6 DEF TypeOK
<1>8. CASE left # <<>> /\ Head(left) \in st.log
  <2>1. PICK x \in Block, tail \in Files : x = Head(left) /\ tail = Tail(left)
    <3>1. Head(left) \in Block /\ Tail(left) \in Files
      BY <1>8 DEF Files
    <3>2. QED
      BY <3>1
  <2>2. PICK d : d = IF st.dump[b] = <<>> THEN st.dump[b] ELSE Append(st.dump[b], x)
    OBVIOUS
  <2>3. /\ st' = [st EXCEPT !.dump[b] = d] /\ req' = [req EXCEPT ![p].left = tail]
    BY <1>1, <1>3, <1>8, <2>1, <2>2 DEF Redo
  <2>4. d \in Files
    BY <1>2, <2>2 DEF Stores, Files
  <2>5. st' = [st EXCEPT !.dump[b] = d, !.spoilt = st.spoilt]
    BY <1>2, <2>3 DEF Stores
  <2>6. /\ st'.dump[b] = d /\ \A c \in Block \ {b} : st'.dump[c] = st.dump[c]
        /\ st'.entry = st.entry /\ st'.views = st.views /\ st'.closing = st.closing
        /\ st'.spoilt = st.spoilt /\ st'.miscounted = st.miscounted /\ st' \in Stores
    <3>1. st.spoilt \in SUBSET Block
      BY <1>2 DEF Stores
    <3>2. QED
      BY <1>2, <2>4, <2>5, <3>1, DumpWritten
  <2>7. /\ req'[p].at = "redo" /\ req'[p].block = b /\ req'[p].from = req[p].from
        /\ req'[p].left = tail
        /\ \A q \in Party \ {p} : req'[q] = req[q]
        /\ req' \in Requests
    BY <1>1, <1>2, <2>3 DEF Requests
  <2>8. Moves(p, b)
    BY <1>2, <2>6, <2>7 DEF Moves, At, Making
  <2>9. At(p, b, {"redo", "drop"})' /\ ~At(p, b, {"walk", "near"})' /\ ~At(p, b, {"open"})'
    BY <2>7 DEF At
  <2>10. b \notin st'.spoilt /\ st'.dump[b] # <<>> => Path[b] = st'.dump[b] \o req'[p].left
    <3>1. ASSUME b \notin st.spoilt, d # <<>> PROVE Path[b] = d \o tail
      <4>1. st.dump[b] # <<>> /\ d = Append(st.dump[b], x)
        BY <2>2, <3>1
      <4>2. PICK s \in Seq(Block), l \in Seq(Block) : s = st.dump[b] /\ l = left
        BY <1>2 DEF Stores, Files
      <4>3. \A u, v \in Seq(Block) : v # <<>> => Append(u, Head(v)) \o Tail(v) = u \o v
        BY Regroup
      <4>4. Append(s, Head(l)) \o Tail(l) = s \o l
        BY <1>8, <4>2, <4>3
      <4>5. Path[b] = s \o l
        BY <1>5, <3>1, <4>1, <4>2
      <4>6. QED
        BY <2>1, <4>1, <4>2, <4>4, <4>5
    <3>2. QED
      BY <2>6, <2>7, <3>1
  <2>11. ~(b \notin st.miscounted /\ st.closing[b] > 0)
    BY <1>4
  <2>12. Safe'
    BY <1>4, <2>6, <2>8, <2>9, <2>10, <2>11, MovedSafe
  <2>13. QED
    BY <1>2, <2>6, <2>7, <2>12 DEF TypeOK
<1>9. QED
  BY <1>6, <1>7, <1>8

----------------------------------------------------------------------------
\* Storages are closed, snapshots saved, blocks added

\* Whoever asks for a snapshot, and whatever is kept of them, stays as it was.
LEMMA Apart ==
    ASSUME req' = req, Unheld
    PROVE  /\ \A p, c, places : At(p, c, places)' <=> At(p, c, places)
           /\ \A c : /\ Claims(c)' = Claims(c) /\ Holders(c)' = Holders(c)
                     /\ Rebuilding(c)' = Rebuilding(c)
BY DEF Unheld, At, Claims, Holders, Rebuilding

\* A storage that is closed gives its count back, and no other.
LEMMA ClosedSafe ==
    ASSUME IInv, NEW b \in Block, Closed(b)
    PROVE  Safe' /\ st' \in Stores
<1>1. TypeOK /\ st \in Stores /\ req' = req /\ Unheld
  BY DEF IInv, TypeOK, Stores, Closed, Unheld
<1>2. PICK s : s = [st EXCEPT !.closing[b] = @ - 1] /\ st' = ReleaseEntry(s, b)
  BY DEF Closed
<1>3. st.closing[b] \in Nat /\ st.closing[b] > 0
  BY <1>1 DEF Closed, Stores
<1>4. /\ s.closing[b] = st.closing[b] - 1 /\ \A c \in Block \ {b} : s.closing[c] = st.closing[c]
      /\ s.dump = st.dump /\ s.entry = st.entry /\ s.views = st.views
      /\ s.spoilt = st.spoilt /\ s.miscounted = st.miscounted /\ s \in Stores
  BY <1>1, <1>2, <1>3 DEF Stores
<1>5. PICK n : n = IF s.entry[b] = None THEN None ELSE IF s.entry[b] > 0 THEN s.entry[b] - 1 ELSE 0
  OBVIOUS
<1>6. n \in Nat \cup {None}
  BY <1>4, <1>5 DEF Stores
<1>7. PICK e : /\ e \in [Block -> Nat \cup {None}] /\ e[b] = n
               /\ \A c \in Block \ {b} : e[c] = s.entry[c]
               /\ st' = [s EXCEPT !.entry = e]
  <2>1. CASE s.entry[b] = None
    <3>1. st' = [s EXCEPT !.entry = s.entry]
      BY <1>2, <1>4, <2>1 DEF ReleaseEntry, Stores
    <3>2. QED
      BY <1>4, <1>5, <2>1, <3>1 DEF Stores
  <2>2. CASE s.entry[b] # None
    <3>1. st' = [s EXCEPT !.entry = [s.entry EXCEPT ![b] = n]]
      BY <1>2, <1>4, <1>5, <2>2 DEF ReleaseEntry, Stores
    <3>2. QED
      BY <1>4, <1>6, <3>1 DEF Stores
  <2>3. QED
    BY <2>1, <2>2
<1>8. /\ st'.entry[b] = n /\ \A c \in Block \ {b} : st'.entry[c] = st.entry[c]
      /\ st'.closing = s.closing /\ st'.dump = st.dump /\ st'.views = st.views
      /\ st'.spoilt = st.spoilt /\ st'.miscounted = st.miscounted /\ st' \in Stores
  BY <1>4, <1>6, <1>7 DEF Stores
<1>9. /\ \A p, c, places : At(p, c, places)' <=> At(p, c, places)
      /\ \A c : /\ Claims(c)' = Claims(c) /\ Holders(c)' = Holders(c)
                /\ Rebuilding(c)' = Rebuilding(c)
  BY <1>1, Apart
<1>10. ClaimsAreCounted' /\ HeldAreReady' /\ MakersAreAlone'
  BY <1>8, <1>9 DEF IInv, ClaimsAreCounted, HeldAreReady, Ready, MakersAreAlone
<1>11. ASSUME NEW c \in Block \ st'.miscounted
       PROVE  /\ Ready(c)' => st'.dump[c] # <<>> /\ Counted(c, st.closing[c] + 1)'
              /\ st'.closing[c] > 0 => st'.dump[c] # <<>> /\ Counted(c, st.closing[c])'
              /\ \A q \in Party :
                    /\ At(q, c, {"open"})' => Counted(c, st.closing[c] + 1)'
                    /\ At(q, c, {"walk", "near", "redo", "drop"})' => st'.closing[c] = 0
  <2>1. /\ Ready(c) => st.dump[c] # <<>> /\ Counted(c, st.closing[c] + 1)
        /\ st.closing[c] > 0 => st.dump[c] # <<>> /\ Counted(c, st.closing[c])
        /\ \A q \in Party :
              /\ At(q, c, {"open"}) => Counted(c, st.closing[c] + 1)
              /\ At(q, c, {"walk", "near", "redo", "drop"}) => st.closing[c] = 0
    BY <1>8 DEF IInv, EntriesAreCounted
  <2>2. Ready(c)' <=> Ready(c)
    BY <1>8 DEF Ready
  <2>3. CASE c # b
    BY <1>4, <1>8, <1>9, <2>1, <2>2, <2>3 DEF Counted
  <2>4. CASE c = b
    <3>1. st.dump[c] # <<>> /\ Counted(c, st.closing[c])
      BY <1>3, <2>1, <2>4
    <3>2. st.entry[c] \in Nat /\ st.entry[c] >= st.closing[c]
      BY <1>1, <3>1 DEF Stores, Counted
    <3>3. st'.entry[c] = st.entry[c] - 1 /\ st'.entry[c] \in Nat /\ st'.closing[c] = st.closing[c] - 1
      BY <1>3, <1>4, <1>5, <1>8, <2>4, <3>1, <3>2 DEF Counted
    <3>4. st'.entry[c] # None
      BY <3>3, SnapshotsAssumption
    <3>5. ASSUME Counted(c, st.closing[c] + 1) PROVE Counted(c, st.closing[c] + 1)'
      BY <1>3, <2>4, <3>2, <3>3, <3>4, <3>5 DEF Counted
    <3>6. Counted(c, st.closing[c])'
      BY <1>3, <2>4, <3>2, <3>3, <3>4 DEF Counted
    <3>7. \A q \in Party : ~At(q, c, {"walk", "near", "redo", "drop"})
      BY <1>3, <2>1, <2>4
    <3>8. QED
      BY <1>8, <1>9, <2>1, <2>2, <3>1, <3>5, <3>6, <3>7
  <2>5. QED
    BY <2>3, <2>4
<1>12. EntriesAreCounted'
  BY <1>11 DEF EntriesAreCounted
<1>13. WalksLead' /\ RedoLeads' /\ DumpIsItsBlock'
  <2>1. WalksLead'
    BY <1>1, <1>9 DEF IInv, WalksLead
  <2>2. RedoLeads'
    BY <1>1, <1>8, <1>9 DEF IInv, RedoLeads
  <2>3. DumpIsItsBlock'
    BY <1>8, <1>9 DEF IInv, DumpIsItsBlock
  <2>4. QED
    BY <2>1, <2>2, <2>3
<1>14. QED
  BY <1>8, <1>10, <1>12, <1>13 DEF Safe, IInv

\* A snapshot that is saved is its block's when the copy it was made on was the
\* parent's; an entry that is replaced under a view is left out from then on.
LEMMA SaveSafe ==
    ASSUME IInv, Save
    PROVE  Safe' /\ st' \in Stores
<1>1. PICK b \in Block : b = chain.adding /\ b # Genesis
  BY DEF IInv, TypeOK, Save
<1>2. TypeOK /\ st \in Stores /\ req' = req /\ Unheld
  BY DEF IInv, TypeOK, Stores, Save, Unheld
<1>3. PICK base \in Files : base = chain.base
  BY <1>2 DEF TypeOK
<1>4. PICK spoilt, miscounted :
        /\ spoilt = IF base # Path[Parent[b]] \/ Rebuilding(b) # {} THEN st.spoilt \cup {b}
                    ELSE st.spoilt \ {b}
        /\ miscounted = IF st.views[b] # None \/ st.closing[b] > 0 THEN st.miscounted \cup {b}
                        ELSE st.miscounted
  OBVIOUS
<1>5. PICK d : d = Append(base, b) /\ d \in Files
  <2>1. Append(base, b) \in Files
    BY DEF Files
  <2>2. QED
    BY <2>1, Zenon
<1>6. st' = [st EXCEPT !.dump[b] = d, !.log = @ \cup {b}, !.entry[b] = 0,
                       !.spoilt = spoilt, !.miscounted = miscounted]
  BY <1>1, <1>3, <1>4, <1>5 DEF Save
<1>7. spoilt \in SUBSET Block /\ miscounted \in SUBSET Block /\ st.log \cup {b} \in SUBSET Block
  BY <1>2, <1>4 DEF Stores
<1>8. PICK dump, entry : /\ dump = [st.dump EXCEPT ![b] = d] /\ entry = [st.entry EXCEPT ![b] = 0]
                         /\ st' = [st EXCEPT !.dump = dump, !.log = st.log \cup {b}, !.entry = entry,
                                             !.spoilt = spoilt, !.miscounted = miscounted]
  <2>1. st' = [st EXCEPT !.dump = [st.dump EXCEPT ![b] = d], !.log = st.log \cup {b},
                         !.entry = [st.entry EXCEPT ![b] = 0],
                         !.spoilt = spoilt, !.miscounted = miscounted]
    BY <1>2, <1>6 DEF Stores
  <2>2. QED
    BY <2>1, Zenon
<1>9. /\ dump \in [Block -> Files] /\ entry \in [Block -> Nat \cup {None}]
      /\ dump[b] = d /\ entry[b] = 0
      /\ \A c \in Block \ {b} : dump[c] = st.dump[c] /\ entry[c] = st.entry[c]
  BY <1>2, <1>5, <1>8 DEF Stores
<1>10. /\ st'.dump = dump /\ st'.entry = entry /\ st'.views = st.views /\ st'.closing = st.closing
       /\ st'.spoilt = spoilt /\ st'.miscounted = miscounted /\ st' \in Stores
  BY <1>2, <1>7, <1>8, <1>9 DEF Stores
<1>11. /\ \A p, c, places : At(p, c, places)' <=> At(p, c, places)
       /\ \A c : /\ Claims(c)' = Claims(c) /\ Holders(c)' = Holders(c)
                 /\ Rebuilding(c)' = Rebuilding(c)
  BY <1>2, Apart
<1>12. ClaimsAreCounted' /\ HeldAreReady' /\ MakersAreAlone'
  BY <1>10, <1>11 DEF IInv, ClaimsAreCounted, HeldAreReady, Ready, MakersAreAlone
<1>13. ASSUME NEW c \in Block \ st'.miscounted
       PROVE  /\ Ready(c)' => st'.dump[c] # <<>> /\ Counted(c, st.closing[c] + 1)'
              /\ st'.closing[c] > 0 => st'.dump[c] # <<>> /\ Counted(c, st.closing[c])'
              /\ \A q \in Party :
                    /\ At(q, c, {"open"})' => Counted(c, st.closing[c] + 1)'
                    /\ At(q, c, {"walk", "near", "redo", "drop"})' => st'.closing[c] = 0
  <2>1. c \notin st.miscounted
    BY <1>4, <1>10
  <2>2. /\ Ready(c) => st.dump[c] # <<>> /\ Counted(c, st.closing[c] + 1)
        /\ st.closing[c] > 0 => st.dump[c] # <<>> /\ Counted(c, st.closing[c])
        /\ \A q \in Party :
              /\ At(q, c, {"open"}) => Counted(c, st.closing[c] + 1)
              /\ At(q, c, {"walk", "near", "redo", "drop"}) => st.closing[c] = 0
    BY <2>1 DEF IInv, EntriesAreCounted
  <2>3. Ready(c)' <=> Ready(c)
    BY <1>10 DEF Ready
  <2>4. CASE c # b
    BY <1>9, <1>10, <1>11, <2>2, <2>3, <2>4 DEF Counted
  <2>5. CASE c = b
    <3>1. st.views[c] = None /\ ~(st.closing[c] > 0)
      BY <1>4, <1>10, <2>5
    <3>2. ASSUME NEW q \in Party PROVE ~At(q, c, {"open"})
      BY <3>1 DEF IInv, ClaimsAreCounted, Claims, At, Making
    <3>3. QED
      BY <1>10, <1>11, <2>2, <2>3, <3>1, <3>2 DEF Ready
  <2>6. QED
    BY <2>4, <2>5
<1>14. EntriesAreCounted'
  BY <1>13 DEF EntriesAreCounted
<1>15. WalksLead'
  BY <1>2, <1>11 DEF IInv, WalksLead
<1>16. ASSUME NEW p \in Party, NEW c \in Block, At(p, c, {"redo"})', c \notin st'.spoilt,
              st'.dump[c] # <<>>
       PROVE  Path[c] = st'.dump[c] \o req'[p].left
  <2>1. At(p, c, {"redo"})
    BY <1>11, <1>16
  <2>2. p \in Rebuilding(c)
    BY <2>1 DEF At, Rebuilding
  <2>3. c # b
    BY <1>4, <1>10, <1>16, <2>2
  <2>4. c \notin st.spoilt /\ st'.dump[c] = st.dump[c]
    BY <1>4, <1>9, <1>10, <1>16, <2>3
  <2>5. QED
    BY <1>2, <1>16, <2>1, <2>4 DEF IInv, RedoLeads
<1>17. ASSUME NEW c \in Block, st'.dump[c] # <<>>, Rebuilding(c)' = {}, c \notin st'.spoilt
       PROVE  st'.dump[c] = Path[c]
  <2>1. CASE c = b
    <3>1. base = Path[Parent[b]]
      BY <1>4, <1>10, <1>17, <2>1
    <3>2. Path[b] = Append(Path[Parent[b]], b)
      BY <1>1, PathIs
    <3>3. QED
      BY <1>5, <1>9, <1>10, <2>1, <3>1, <3>2
  <2>2. CASE c # b
    <3>1. c \notin st.spoilt /\ st'.dump[c] = st.dump[c] /\ Rebuilding(c) = {}
      BY <1>4, <1>9, <1>10, <1>11, <1>17, <2>2
    <3>2. QED
      BY <1>17, <3>1 DEF IInv, DumpIsItsBlock
  <2>3. QED
    BY <2>1, <2>2
<1>18. Genesis \notin st'.miscounted
  BY <1>1, <1>4, <1>10 DEF IInv
<1>19. QED
  BY <1>10, <1>12, <1>14, <1>15, <1>16, <1>17, <1>18 DEF Safe, RedoLeads, DumpIsItsBlock

\* A header that is stored changes no snapshot.
LEMMA AddSafe ==
    ASSUME IInv, Add
    PROVE  Safe'
<1>1. req' = req /\ st' = st /\ Unheld
  BY DEF Add, Unheld, IInv, TypeOK
<1>2. /\ \A p, c, places : At(p, c, places)' <=> At(p, c, places)
      /\ \A c : /\ Claims(c)' = Claims(c) /\ Holders(c)' = Holders(c)
                /\ Rebuilding(c)' = Rebuilding(c)
  BY <1>1, Apart
<1>3. ClaimsAreCounted' /\ HeldAreReady' /\ MakersAreAlone'
  BY <1>1, <1>2 DEF IInv, ClaimsAreCounted, HeldAreReady, Ready, MakersAreAlone
<1>4. EntriesAreCounted'
  BY <1>1, <1>2 DEF IInv, EntriesAreCounted, Ready, Counted
<1>5. WalksLead' /\ RedoLeads' /\ DumpIsItsBlock'
  BY <1>1, <1>2 DEF IInv, WalksLead, RedoLeads, DumpIsItsBlock
<1>6. QED
  BY <1>1, <1>3, <1>4, <1>5 DEF Safe, IInv

----------------------------------------------------------------------------
\* The node starts

\* Nothing is asked for, and only the genesis is held.
Fresh ==
    /\ \A p \in Party : req[p].at = "idle"
    /\ chain.cur = None /\ mork.refs = {} /\ mork.got = {} /\ st.miscounted = {}
    /\ \A b \in Block : /\ st.closing[b] = 0
                        /\ b # Genesis => st.views[b] = None
                        /\ st.dump[b] # <<>> /\ b \notin st.spoilt => st.dump[b] = Path[b]
    /\ st.views[Genesis] \in View /\ st.views[Genesis].ref = 1 /\ st.views[Genesis].ready
    /\ st.entry[Genesis] = 1 /\ st.dump[Genesis] # <<>>

\* A fresh start has all that a step keeps.
LEMMA FreshSafe == Fresh => Safe
<1> SUFFICES ASSUME Fresh PROVE Safe
  OBVIOUS
<1>1. ASSUME NEW p \in Party, NEW b PROVE ~At(p, b, Making \cup {"wait", "hold"})
  BY DEF Fresh, At, Making
<1>2. ASSUME NEW p \in Party, NEW b, NEW places \in SUBSET (Making \cup {"wait", "hold"})
      PROVE  ~At(p, b, places)
  BY <1>1, <1>2 DEF At
<1>3. None \notin Block /\ Genesis \in Block
  BY SnapshotsAssumption
<1>4. ASSUME NEW b \in Block
      PROVE  Claims(b) = (IF b = Genesis THEN {"genesis"} ELSE {}) /\ Holders(b) = {}
  <2>1. {p \in Party : At(p, b, Making \cup {"wait", "hold"})} = {}
    BY <1>1
  <2>2. {p \in Party : req[p].block = b /\ req[p].at = "hold"} = {}
    BY DEF Fresh
  <2>3. chain.cur # b /\ b \notin mork.refs /\ b \notin mork.got
    BY <1>3 DEF Fresh
  <2>4. QED
    BY <2>1, <2>2, <2>3 DEF Claims, Holders
<1>5. st.views[Genesis] # None /\ st.views[Genesis].ref = 1 /\ st.views[Genesis].ready
  BY SnapshotsAssumption DEF Fresh
<1>6. ClaimsAreCounted
  <2>1. Cardinality({"genesis"}) = 1
    BY FS_Singleton
  <2>2. ASSUME NEW b \in Block
        PROVE  IF st.views[b] = None THEN Claims(b) = {}
               ELSE Cardinality(Claims(b)) <= st.views[b].ref
    <3>1. CASE b = Genesis
      BY <1>4, <1>5, <2>1, <3>1
    <3>2. CASE b # Genesis
      BY <1>4, <3>2 DEF Fresh
    <3>3. QED
      BY <3>1, <3>2
  <2>3. QED
    BY <2>2 DEF ClaimsAreCounted
<1>7. HeldAreReady
  BY <1>4, <1>5 DEF HeldAreReady, Ready
<1>8. MakersAreAlone
  BY <1>2 DEF MakersAreAlone
<1>9. EntriesAreCounted
  <2>1. ASSUME NEW p \in Party, NEW b
        PROVE  ~At(p, b, {"open"}) /\ ~At(p, b, {"walk", "near", "redo", "drop"})
    BY <1>2 DEF Making
  <2>2. None # 1
    BY SnapshotsAssumption
  <2>3. ASSUME NEW b \in Block, Ready(b) PROVE st.dump[b] # <<>> /\ Counted(b, st.closing[b] + 1)
    BY <2>2, <2>3 DEF Fresh, Ready, Counted
  <2>4. QED
    BY <2>1, <2>3 DEF EntriesAreCounted, Fresh
<1>10. WalksLead /\ RedoLeads
  <2>1. ASSUME NEW p \in Party, NEW b PROVE ~At(p, b, {"walk", "near"}) /\ ~At(p, b, {"redo"})
    BY <1>2 DEF Making
  <2>2. QED
    BY <2>1 DEF WalksLead, RedoLeads
<1>11. DumpIsItsBlock
  BY DEF Fresh, DumpIsItsBlock
<1>12. QED
  BY <1>3, <1>6, <1>7, <1>8, <1>9, <1>10, <1>11 DEF Safe, Fresh

\* The store with those files, where only the genesis is held.
LoadedWith(s, dump, spoilt) ==
    /\ s \in Stores /\ s.dump = dump /\ s.spoilt = spoilt /\ s.miscounted = {}
    /\ s.entry[Genesis] = 1
    /\ s.views[Genesis] \in View /\ s.views[Genesis].ref = 1 /\ s.views[Genesis].ready
    /\ \A b \in Block : s.closing[b] = 0 /\ (b # Genesis => s.views[b] = None)

\* What is loaded holds the files that are there, and the genesis.
LEMMA LoadedStores ==
    ASSUME NEW dump, dump \in [Block -> Files], NEW log, log \in SUBSET Block,
           NEW spoilt, spoilt \in SUBSET Block, NEW s, s = Loaded(dump, log, spoilt)
    PROVE  LoadedWith(s, dump, spoilt)
<1>1. PICK v : v = [NewView EXCEPT !.ready = TRUE]
  OBVIOUS
<1>2. v \in View /\ v.ref = 1 /\ v.ready
  <2>0. NewView \in View /\ NewView.ref = 1
    BY DEF NewView, View
  <2>1. PICK new \in View : new = NewView /\ new.ref = 1
    BY <2>0
  <2>2. v = [new EXCEPT !.ready = TRUE]
    BY <1>1, <2>1
  <2>3. QED
    BY <2>1, <2>2 DEF View
<1>3. PICK views, entry, closing :
        /\ views = [b \in Block |-> IF b = Genesis THEN v ELSE None]
        /\ entry = [b \in Block |-> IF b = Genesis THEN 1
                                    ELSE IF dump[b] # <<>> THEN 0 ELSE None]
        /\ closing = [b \in Block |-> 0]
        /\ s = [dump |-> dump, log |-> log, spoilt |-> spoilt, miscounted |-> {},
                entry |-> entry, views |-> views, closing |-> closing]
  BY <1>1, Zenon DEF Loaded
<1>4. /\ views \in [Block -> View \cup {None}] /\ entry \in [Block -> Nat \cup {None}]
      /\ closing \in [Block -> Nat]
  BY <1>2, <1>3
<1>5. s \in Stores
  BY <1>3, <1>4 DEF Stores
<1>6. Genesis \in Block
  BY SnapshotsAssumption
<1>7. QED
  BY <1>2, <1>3, <1>5, <1>6 DEF LoadedWith

\* The first start has the genesis' snapshot and no other.
LEMMA InitIInv == Init => IInv
<1> SUFFICES ASSUME Init PROVE IInv
  OBVIOUS
<1>1. Genesis \in Block
  BY SnapshotsAssumption
<1>2. PICK dump : /\ dump = [b \in Block |-> IF b = Genesis THEN <<b>> ELSE <<>>]
                  /\ st = Loaded(dump, {}, {})
  BY DEF Init
<1>3. dump \in [Block -> Files] /\ dump[Genesis] = <<Genesis>>
      /\ \A b \in Block : b # Genesis => dump[b] = <<>>
  <2>1. ASSUME NEW b \in Block PROVE <<b>> \in Files /\ <<>> \in Files
    BY DEF Files
  <2>2. QED
    BY <1>1, <1>2, <2>1
<1>4. /\ st \in Stores /\ st.dump = dump /\ st.spoilt = {} /\ st.miscounted = {}
      /\ st.entry[Genesis] = 1
      /\ st.views[Genesis] \in View /\ st.views[Genesis].ref = 1 /\ st.views[Genesis].ready
      /\ \A b \in Block : st.closing[b] = 0 /\ (b # Genesis => st.views[b] = None)
  <2>0. PICK s, none : s = st /\ none = {}
    OBVIOUS
  <2>1. s = Loaded(dump, none, none)
    BY <1>2, <2>0
  <2>2. none \in SUBSET Block
    BY <2>0
  <2>3. LoadedWith(s, dump, none)
    BY <1>3, <2>1, <2>2, LoadedStores
  <2>4. QED
    BY <2>0, <2>3 DEF LoadedWith
<1>5. Path[Genesis] = <<Genesis>>
  BY <1>1, PathIs
<1>6. \A p \in Party : req[p] = Idle
  BY DEF Init
<1>7. <<Genesis>> # <<>>
  OBVIOUS
<1>8. Fresh
  BY <1>3, <1>4, <1>5, <1>6, <1>7 DEF Fresh, Init, NoMork, Idle
<1>9. <<>> \in Files
  BY DEF Files
<1>10. req \in Requests
  BY <1>9 DEF Init, Idle, Requests
<1>11. TypeOK
  BY <1>1, <1>4, <1>6, <1>9, <1>10 DEF Init, NoMork, Idle, TypeOK, Stores, Requests
<1>12. QED
  BY <1>8, <1>11, FreshSafe DEF Safe, IInv

\* A restart finds the whole dumps whole, and marks those it left half made.
LEMMA RestartFresh ==
    ASSUME IInv, Restart
    PROVE  Fresh' /\ st' \in Stores
<1>1. PICK half : /\ half = {b \in Block : st.dump[b] # <<>> /\ Rebuilding(b) # {}}
                  /\ st' = Loaded(st.dump, st.log, st.spoilt \cup half)
  BY DEF Restart
<1>2. /\ st.dump \in [Block -> Files] /\ st.log \in SUBSET Block
      /\ st.spoilt \cup half \in SUBSET Block
  BY <1>1 DEF IInv, TypeOK
<1>3. /\ st' \in Stores /\ st'.dump = st.dump /\ st'.spoilt = st.spoilt \cup half
      /\ st'.miscounted = {}
      /\ st'.entry[Genesis] = 1
      /\ st'.views[Genesis] \in View /\ st'.views[Genesis].ref = 1 /\ st'.views[Genesis].ready
      /\ \A b \in Block : st'.closing[b] = 0 /\ (b # Genesis => st'.views[b] = None)
  <2>0. PICK s, dump, log, spoilt :
           s = st' /\ dump = st.dump /\ log = st.log /\ spoilt = st.spoilt \cup half
    OBVIOUS
  <2>1. s = Loaded(dump, log, spoilt)
    BY <1>1, <2>0
  <2>2. dump \in [Block -> Files] /\ log \in SUBSET Block /\ spoilt \in SUBSET Block
    BY <1>2, <2>0
  <2>3. LoadedWith(s, dump, spoilt)
    BY <2>1, <2>2, LoadedStores
  <2>4. QED
    BY <2>0, <2>3 DEF LoadedWith
<1>4. \A p \in Party : req'[p].at = "idle"
  BY DEF Restart, Idle
<1>5. chain'.cur = None /\ mork'.refs = {} /\ mork'.got = {}
  BY DEF Restart, NoMork, IInv, TypeOK
<1>6. st.dump[Genesis] # <<>>
  <2>1. Ready(Genesis) /\ Genesis \in Block \ st.miscounted
    BY SnapshotsAssumption DEF IInv, HeldAreReady
  <2>2. QED
    BY <2>1 DEF IInv, EntriesAreCounted
<1>7. ASSUME NEW b \in Block, st'.dump[b] # <<>>, b \notin st'.spoilt
      PROVE  st'.dump[b] = Path[b]
  <2>1. st.dump[b] # <<>> /\ b \notin st.spoilt /\ Rebuilding(b) = {}
    BY <1>1, <1>3, <1>7
  <2>2. QED
    BY <1>3, <2>1 DEF IInv, DumpIsItsBlock
<1>8. QED
  BY <1>3, <1>4, <1>5, <1>6, <1>7 DEF Fresh

\* A restart keeps all that.
LEMMA RestartSafe ==
    ASSUME IInv, Restart
    PROVE  Safe' /\ st' \in Stores
<1>1. Fresh' /\ st' \in Stores
  BY RestartFresh
<1>2. Fresh' => Safe'
  BY FreshSafe, PTL
<1>3. QED
  BY <1>1, <1>2

----------------------------------------------------------------------------
\* Types, and every step

ReqOK ==
    /\ req \in Requests
    /\ \A p \in Party : req[p].at # "idle" => req[p].block \in Block /\ req[p].from \in Block

ChainOK ==
    /\ chain \in [tip : Block, cur : Block \cup {None}, verified : SUBSET Block,
                  adding : Block \cup {None}, base : Files,
                  at : {"idle", "copy", "save", "add", "tip", "pool"}]
    /\ chain.tip \in chain.verified
    /\ chain.at \in {"copy", "save", "add"} => chain.adding \in Block \ {Genesis}

MorkOK ==
    mork \in [morking : SUBSET Block, pending : SUBSET Block, refs : SUBSET Block,
              todo : SUBSET Block, got : SUBSET Block]

\* The parts of the invariant.
LEMMA Parts ==
    ASSUME IInv
    PROVE  /\ st \in Stores /\ ReqOK /\ ChainOK /\ MorkOK
           /\ frozen \in BOOLEAN /\ Safe
<1>1. TypeOK /\ Safe
  BY DEF IInv, Safe
<1>2. st \in Stores /\ ReqOK /\ ChainOK /\ MorkOK /\ frozen \in BOOLEAN
  BY <1>1 DEF TypeOK, Stores, ReqOK, Requests, ChainOK, MorkOK
<1>3. QED
  BY <1>1, <1>2

\* The invariant is the whole of its parts.
LEMMA Whole ==
    ASSUME st' \in Stores, ReqOK', ChainOK', MorkOK', frozen' \in BOOLEAN, Safe'
    PROVE  IInv'
<1>1. TypeOK'
  BY DEF TypeOK, Stores, ReqOK, Requests, ChainOK, MorkOK
<1>2. QED
  BY <1>1 DEF IInv, Safe

\* A request for a view is a store and a request.
LEMMA AskedType ==
    ASSUME IInv, NEW p \in Party, NEW b \in Block, AskView(p, b)
    PROVE  st' \in Stores /\ ReqOK'
<1>1. st \in Stores /\ ReqOK
  BY Parts
<1>2. PICK at : /\ req' = [req EXCEPT ![p] = Asked(at, b)]
                /\ at \in {"found", "walk", "hold", "lost", "wait"}
  BY Zenon DEF AskView
<1>3. PICK v : /\ st' = [st EXCEPT !.views[b] = v]
               /\ v = IF st.views[b] = None THEN NewView
                      ELSE [st.views[b] EXCEPT !.ref = @ + 1]
  BY Zenon DEF AskView
<1>4. v \in View
  <2>1. st.views[b] # None => st.views[b] \in View
    BY <1>1 DEF Stores
  <2>2. QED
    BY <1>3, <2>1 DEF View, NewView
<1>5. st' \in Stores
  <2>1. PICK views : views = [st.views EXCEPT ![b] = v]
    OBVIOUS
  <2>2. views \in [Block -> View \cup {None}]
    BY <1>1, <1>4, <2>1 DEF Stores
  <2>3. st' = [st EXCEPT !.views = views]
    BY <1>1, <1>3, <2>1 DEF Stores
  <2>4. QED
    BY <1>1, <2>2, <2>3 DEF Stores
<1>6. PICK r : r = Asked(at, b)
  OBVIOUS
<1>7. r.block = b /\ r.from = b /\ r \in
        [at : {"idle", "found", "walk", "near", "redo", "drop", "open",
               "wait", "hold", "lost", "refused", "thrown"},
         block : Block \cup {None}, from : Block \cup {None}, left : Files]
  <2>1. <<>> \in Files
    BY DEF Files
  <2>2. QED
    BY <1>2, <1>6, <2>1 DEF Asked
<1>8. /\ DOMAIN req' = Party /\ req' = [q \in Party |-> req'[q]]
      /\ \A q \in Party : req'[q] = IF q = p THEN r ELSE req[q]
  BY <1>1, <1>2, <1>6 DEF ReqOK, Requests
<1>9. ReqOK'
  BY <1>1, <1>7, <1>8 DEF ReqOK, Requests
<1>10. QED
  BY <1>5, <1>9

\* A request that is over.
LEMMA IdleType ==
    ASSUME ReqOK, NEW p \in Party, req' = [req EXCEPT ![p] = Idle]
    PROVE  ReqOK'
<1>1. PICK r : r = Idle
  OBVIOUS
<1>2. r.at = "idle" /\ r \in
        [at : {"idle", "found", "walk", "near", "redo", "drop", "open",
               "wait", "hold", "lost", "refused", "thrown"},
         block : Block \cup {None}, from : Block \cup {None}, left : Files]
  <2>1. <<>> \in Files
    BY DEF Files
  <2>2. QED
    BY <1>1, <2>1 DEF Idle
<1>3. /\ DOMAIN req' = Party /\ req' = [q \in Party |-> req'[q]]
      /\ \A q \in Party : req'[q] = IF q = p THEN r ELSE req[q]
  BY <1>1 DEF ReqOK, Requests
<1>4. QED
  BY <1>2, <1>3 DEF ReqOK, Requests

\* The snapshots to keep are those of blocks.
LEMMA ToMorkType ==
    ASSUME NEW b \in Block
    PROVE  ToMork(b) \in SUBSET Block
<1>1. PICK s : s = Path[b]
  OBVIOUS
<1>2. s \in Seq(Block) /\ Len(s) > 0
  BY <1>1, PathType
<1>3. PICK n, k : n = Number(b) /\ k = 2 * ConfirmDepth
  OBVIOUS
<1>4. n = Len(s) - 1 /\ n \in Nat /\ k \in Nat
  BY <1>1, <1>2, <1>3, SnapshotsAssumption DEF Number
<1>5. PICK low : low = IF n > k THEN n - k ELSE 0
  OBVIOUS
<1>6. low \in Nat /\ low <= n
  BY <1>4, <1>5
<1>7. s[low + 1] \in Block
  BY <1>2, <1>4, <1>6
<1>8. ToMork(b) = {b, s[low + 1]}
  BY <1>1, <1>3, <1>5, Zenon DEF ToMork
<1>9. QED
  BY <1>7, <1>8

\* The chain's part of every step.
LEMMA ChainType ==
    ASSUME IInv, Next
    PROVE  ChainOK'
<1>1. ChainOK /\ ReqOK /\ st \in Stores
  BY Parts
<1>2. Genesis \in Block
  BY SnapshotsAssumption
<1>3. CASE chain' = chain
  BY <1>1, <1>3 DEF ChainOK
<1>4. ASSUME NEW b \in Block \ {Genesis}, Verify(b) PROVE ChainOK'
  BY <1>1, <1>4 DEF ChainOK, Verify
<1>5. CASE Copy
  <2>1. PICK b : b = req["chain"].block
    OBVIOUS
  <2>2. "chain" \in Party
    BY OwnParties
  <2>3. b \in Block
    BY <1>1, <1>5, <2>1, <2>2 DEF Copy, ReqOK
  <2>4. PICK base : base = st.dump[b] /\ base \in Files
    BY <1>1, <2>3 DEF Stores
  <2>5. \/ chain' = [chain EXCEPT !.at = "save", !.base = base]
        \/ chain' = [chain EXCEPT !.at = "idle", !.adding = None]
    BY <1>5, <2>1, <2>4 DEF Copy
  <2>6. chain.at = "copy"
    BY <1>5 DEF Copy
  <2>7. QED
    BY <1>1, <2>4, <2>5, <2>6 DEF ChainOK
<1>6. CASE Save
  <2>1. <<>> \in Files
    BY DEF Files
  <2>2. chain.at = "save" /\ chain' = [chain EXCEPT !.at = "add", !.base = <<>>]
    BY <1>6 DEF Save
  <2>3. QED
    BY <1>1, <2>1, <2>2 DEF ChainOK
<1>7. CASE Add
  <2>1. PICK at, tip :
           /\ at = IF Number(chain.adding) > Number(chain.tip) THEN "tip" ELSE "idle"
           /\ tip = IF Number(chain.adding) > Number(chain.tip) THEN chain.adding ELSE chain.tip
    OBVIOUS
  <2>2. at \in {"tip", "idle"} /\ tip \in {chain.adding, chain.tip}
    BY <2>1
  <2>3. /\ chain.at = "add"
        /\ chain' = [chain EXCEPT !.verified = chain.verified \cup {chain.adding},
                                  !.at = at, !.tip = tip, !.adding = None]
    BY <1>1, <1>7, <2>1 DEF Add, ChainOK
  <2>4. QED
    BY <1>1, <2>2, <2>3 DEF ChainOK
<1>8. CASE UpdateTip
  BY <1>1, <1>8 DEF ChainOK, UpdateTip
<1>9. CASE PoolDone
  <2>1. PICK b : b = req["pool"].block
    OBVIOUS
  <2>2. "pool" \in Party
    BY OwnParties
  <2>3. b \in Block
    BY <1>1, <1>9, <2>1, <2>2 DEF PoolDone, ReqOK
  <2>4. PICK cur : cur = (IF req["pool"].at = "hold" THEN b ELSE chain.cur)
    OBVIOUS
  <2>5. chain' = [chain EXCEPT !.at = "idle", !.cur = cur]
    BY <1>1, <1>9, <2>1, <2>4 DEF PoolDone, ChainOK
  <2>6. QED
    BY <1>1, <2>3, <2>4, <2>5 DEF ChainOK
<1>10. CASE Restart
  <2>1. <<>> \in Files
    BY DEF Files
  <2>2. chain' = [chain EXCEPT !.cur = None, !.adding = None, !.at = "tip", !.base = <<>>]
    BY <1>10 DEF Restart
  <2>3. QED
    BY <1>1, <2>1, <2>2 DEF ChainOK
<1>11. ASSUME NEW p \in Party, Build(p) PROVE chain' = chain
  BY <1>11, Zenon DEF Build, Found, Walk, Near, Redo, Drop, Open
<1>12. \/ \E b \in Block \ {Genesis} : Verify(b)
       \/ Copy \/ Save \/ Add \/ UpdateTip \/ PoolDone \/ Restart
       \/ \E p \in Party : Build(p)
       \/ chain' = chain
  BY Zenon DEF Next, Work, Closed, UserDone, MorkAsks, MorkGets, MorkEnds, UserAsks
<1>13. QED
  BY <1>3, <1>4, <1>5, <1>6, <1>7, <1>8, <1>9, <1>10, <1>11, <1>12

\* The mork loop's part of every step.
LEMMA MorkType ==
    ASSUME IInv, Next
    PROVE  MorkOK'
<1>1. MorkOK /\ ReqOK /\ ChainOK /\ frozen \in BOOLEAN
  BY Parts
<1>2. CASE UpdateTip
  <2>1. PICK hashes : hashes = ToMork(chain.tip)
    OBVIOUS
  <2>2. hashes \in SUBSET Block
    BY <1>1, <2>1, ToMorkType DEF ChainOK
  <2>3. \/ mork' = [mork EXCEPT !.pending = hashes]
        \/ mork' = [mork EXCEPT !.morking = hashes, !.todo = hashes \ mork.refs]
    BY <1>2, <2>1 DEF UpdateTip, RequestMork
  <2>4. CASE mork' = [mork EXCEPT !.pending = hashes]
    BY <1>1, <2>2, <2>4 DEF MorkOK
  <2>5. CASE mork' = [mork EXCEPT !.morking = hashes, !.todo = hashes \ mork.refs]
    <3>1. hashes \ mork.refs \in SUBSET Block
      BY <2>2
    <3>2. QED
      BY <1>1, <2>2, <2>5, <3>1 DEF MorkOK
  <2>6. QED
    BY <2>3, <2>4, <2>5
<1>3. CASE MorkGets
  <2>1. PICK b : b = req["mork"].block
    OBVIOUS
  <2>2. "mork" \in Party
    BY OwnParties
  <2>3. b \in Block
    BY <1>1, <1>3, <2>1, <2>2 DEF MorkGets, ReqOK
  <2>4. PICK got : got = IF req["mork"].at = "hold" THEN mork.got \cup {b} ELSE mork.got
    OBVIOUS
  <2>5. mork' = [mork EXCEPT !.todo = mork.todo \ {b}, !.got = got]
    BY <1>1, <1>3, <2>1, <2>4 DEF MorkGets, MorkOK
  <2>6. QED
    BY <1>1, <2>3, <2>4, <2>5 DEF MorkOK
<1>4. CASE MorkEnds
  BY <1>1, <1>4 DEF MorkOK, MorkEnds
<1>5. CASE Restart
  BY <1>5 DEF Restart, MorkOK, NoMork
<1>6. CASE mork' = mork
  BY <1>1, <1>6 DEF MorkOK
<1>7. ASSUME NEW p \in Party, Build(p) PROVE mork' = mork
  BY <1>7, Zenon DEF Build, Found, Walk, Near, Redo, Drop, Open
<1>8. \/ \E p \in Party : Build(p)
      \/ UpdateTip \/ MorkGets \/ MorkEnds \/ Restart
      \/ mork' = mork
  BY Zenon DEF Next, Work, Closed, UserDone, UserAsks, Verify, Copy, Save, Add, PoolDone,
               MorkAsks
<1>9. QED
  BY <1>2, <1>3, <1>4, <1>5, <1>6, <1>7, <1>8

\* A frozen node does nothing more.
LEMMA FrozenType ==
    ASSUME IInv, Next
    PROVE  frozen' \in BOOLEAN
<1>1. frozen \in BOOLEAN
  BY Parts
<1>2. CASE MorkEnds
  BY <1>2 DEF MorkEnds
<1>3. CASE UNCHANGED frozen
  BY <1>1, <1>3
<1>4. QED
  BY <1>2, <1>3, Zenon DEF Next

\* The stores' and the requests' part of every step.
LEMMA StepSafe ==
    ASSUME IInv, Next
    PROVE  Safe' /\ st' \in Stores /\ ReqOK'
<1>0. st \in Stores /\ ReqOK /\ ChainOK /\ MorkOK
  BY Parts
<1>1. ASSUME NEW p \in Party, Build(p) PROVE Safe' /\ st' \in Stores /\ ReqOK'
  <2>1. CASE Found(p)
    BY <2>1, FoundSafe DEF ReqOK
  <2>2. CASE Walk(p)
    <3>1. Safe' /\ ReqOK'
      BY <2>2, WalkSafe DEF ReqOK
    <3>2. st' = st
      BY <2>2 DEF Walk
    <3>3. QED
      BY <1>0, <3>1, <3>2
  <2>3. CASE Near(p)
    BY <2>3, NearSafe DEF ReqOK
  <2>4. CASE Redo(p)
    BY <2>4, RedoSafe DEF ReqOK
  <2>5. CASE Drop(p)
    BY <2>5, DropSafe DEF ReqOK
  <2>6. CASE Open(p)
    <3>1. CASE st.dump[req[p].block] # <<>>
      BY <2>6, <3>1, OpenSafe DEF ReqOK
    <3>2. CASE st.dump[req[p].block] = <<>>
      BY <2>6, <3>2, OpenFailsSafe DEF ReqOK
    <3>3. QED
      BY <3>1, <3>2
  <2>7. QED
    BY <1>1, <2>1, <2>2, <2>3, <2>4, <2>5, <2>6 DEF Build
<1>2. ASSUME NEW b \in Block, Closed(b) PROVE Safe' /\ st' \in Stores /\ ReqOK'
  <2>1. Safe' /\ st' \in Stores
    BY <1>2, ClosedSafe
  <2>2. req' = req
    BY <1>2 DEF Closed
  <2>3. QED
    BY <1>0, <2>1, <2>2 DEF ReqOK
<1>3. ASSUME NEW u \in User, UserDone(u) PROVE Safe' /\ st' \in Stores /\ ReqOK'
  <2>1. u \in Party /\ Unheld
    BY <1>3 DEF Party, UserDone, Unheld
  <2>2. Safe' /\ st' \in Stores
    BY <1>3, <2>1, DoneSafe DEF UserDone
  <2>3. ReqOK'
    BY <1>0, <1>3, <2>1, IdleType DEF UserDone
  <2>4. QED
    BY <2>2, <2>3
<1>4. CASE Copy
  <2>1. PICK p : p = "chain" /\ p \in Party
    BY OwnParties
  <2>2. Unheld
    BY <1>0, <1>4 DEF Copy, Unheld, ChainOK
  <2>3. /\ req[p].at \in {"hold", "refused"} /\ req' = [req EXCEPT ![p] = Idle]
        /\ st' = IF req[p].at = "hold" THEN ReleaseView(st, req[p].block) ELSE st
    BY <1>4, <2>1, Zenon DEF Copy
  <2>4. Safe' /\ st' \in Stores
    BY <2>1, <2>2, <2>3, DoneSafe
  <2>5. ReqOK'
    BY <1>0, <2>1, <2>3, IdleType
  <2>6. QED
    BY <2>4, <2>5
<1>5. CASE Save
  <2>1. req' = req
    BY <1>5 DEF Save
  <2>2. QED
    BY <1>0, <1>5, <2>1, SaveSafe DEF ReqOK
<1>6. CASE Add
  <2>1. req' = req /\ st' = st
    BY <1>6 DEF Add
  <2>2. QED
    BY <1>0, <1>6, <2>1, AddSafe DEF ReqOK
<1>7. ASSUME NEW p \in Party, NEW b \in Block, AskView(p, b), Unheld
      PROVE  Safe' /\ st' \in Stores /\ ReqOK'
  BY <1>7, AskedSafe, AskedType
<1>8. CASE UpdateTip
  <2>1. Unheld
    <3>1. PICK hashes : hashes = ToMork(chain.tip)
      OBVIOUS
    <3>2. \/ mork' = [mork EXCEPT !.pending = hashes]
          \/ mork' = [mork EXCEPT !.morking = hashes, !.todo = hashes \ mork.refs]
      BY <1>8, <3>1 DEF UpdateTip, RequestMork
    <3>3. mork'.refs = mork.refs /\ mork'.got = mork.got
      BY <1>0, <3>2 DEF MorkOK
    <3>4. chain'.cur = chain.cur
      BY <1>0, <1>8 DEF UpdateTip, ChainOK
    <3>5. QED
      BY <3>3, <3>4 DEF Unheld
  <2>2. chain.tip \in Block /\ "pool" \in Party
    BY <1>0, OwnParties DEF ChainOK
  <2>3. QED
    BY <1>7, <1>8, <2>1, <2>2 DEF UpdateTip
<1>9. CASE PoolDone
  <2>1. "pool" \in Party /\ req' = [req EXCEPT !["pool"] = Idle]
    BY <1>9, OwnParties DEF PoolDone
  <2>2. ReqOK'
    BY <1>0, <2>1, IdleType
  <2>3. QED
    BY <1>9, <2>2, PoolSafe
<1>10. CASE MorkAsks
  <2>1. PICK b \in mork.todo : AskView("mork", b)
    BY <1>10 DEF MorkAsks
  <2>2. b \in Block /\ "mork" \in Party
    BY <1>0, OwnParties DEF MorkOK
  <2>3. Unheld
    BY <1>10 DEF MorkAsks, Unheld
  <2>4. QED
    BY <1>7, <2>1, <2>2, <2>3
<1>11. CASE MorkGets
  <2>1. "mork" \in Party /\ req' = [req EXCEPT !["mork"] = Idle] /\ st' = st
    BY <1>11, OwnParties DEF MorkGets
  <2>2. ReqOK'
    BY <1>0, <2>1, IdleType
  <2>3. QED
    BY <1>0, <1>11, <2>1, <2>2, MorkGetsSafe
<1>12. CASE MorkEnds
  <2>1. req' = req
    BY <1>12 DEF MorkEnds
  <2>2. QED
    BY <1>0, <1>12, <2>1, MorkEndsSafe DEF ReqOK
<1>13. ASSUME NEW u \in User, NEW b \in Block, UserAsks(u, b)
       PROVE  Safe' /\ st' \in Stores /\ ReqOK'
  <2>1. u \in Party /\ Unheld
    BY <1>13 DEF Party, UserAsks, Unheld
  <2>2. QED
    BY <1>7, <1>13, <2>1 DEF UserAsks
<1>14. ASSUME NEW b \in Block \ {Genesis}, Verify(b)
       PROVE  Safe' /\ st' \in Stores /\ ReqOK'
  <2>1. Unheld
    BY <1>0, <1>14 DEF Verify, Unheld, ChainOK
  <2>2. Parent[b] \in Block /\ "chain" \in Party
    BY SnapshotsAssumption, OwnParties
  <2>3. QED
    BY <1>7, <1>14, <2>1, <2>2 DEF Verify
<1>15. CASE Restart
  <2>1. ReqOK'
    <3>1. PICK r : r = Idle
      OBVIOUS
    <3>2. <<>> \in Files
      BY DEF Files
    <3>3. r.at = "idle" /\ r \in
            [at : {"idle", "found", "walk", "near", "redo", "drop", "open",
                   "wait", "hold", "lost", "refused", "thrown"},
             block : Block \cup {None}, from : Block \cup {None}, left : Files]
      BY <3>1, <3>2 DEF Idle
    <3>4. req' = [q \in Party |-> r]
      BY <1>15, <3>1 DEF Restart
    <3>5. QED
      BY <3>3, <3>4 DEF ReqOK, Requests
  <2>2. QED
    BY <1>15, <2>1, RestartSafe
<1>16. \/ \E p \in Party : Build(p)
       \/ \E b \in Block : Closed(b)
       \/ \E u \in User : UserDone(u)
       \/ Copy \/ Save \/ Add \/ UpdateTip \/ PoolDone \/ MorkAsks \/ MorkGets
       \/ MorkEnds \/ Restart
       \/ \E u \in User, b \in Block : UserAsks(u, b)
       \/ \E b \in Block \ {Genesis} : Verify(b)
  BY Zenon DEF Next, Work
<1>17. QED
  BY <1>1, <1>2, <1>3, <1>4, <1>5, <1>6, <1>8, <1>9, <1>10, <1>11, <1>12, <1>13, <1>14,
     <1>15, <1>16

\* A state that does not change keeps the invariant.
LEMMA StillIInv == IInv /\ UNCHANGED vars => IInv'
<1> SUFFICES ASSUME IInv, UNCHANGED vars PROVE IInv'
  OBVIOUS
<1>1. st' = st /\ req' = req /\ chain' = chain /\ mork' = mork /\ frozen' = frozen
  BY DEF vars
<1>2. /\ \A p, c, places : At(p, c, places)' <=> At(p, c, places)
      /\ \A c : /\ Claims(c)' = Claims(c) /\ Holders(c)' = Holders(c)
                /\ Rebuilding(c)' = Rebuilding(c)
  BY <1>1, Apart DEF Unheld
<1>3. ClaimsAreCounted' /\ HeldAreReady' /\ MakersAreAlone'
  BY <1>1, <1>2 DEF IInv, ClaimsAreCounted, HeldAreReady, Ready, MakersAreAlone
<1>4. EntriesAreCounted'
  BY <1>1, <1>2 DEF IInv, EntriesAreCounted, Ready, Counted
<1>5. WalksLead' /\ RedoLeads' /\ DumpIsItsBlock'
  BY <1>1, <1>2 DEF IInv, WalksLead, RedoLeads, DumpIsItsBlock
<1>6. TypeOK'
  BY <1>1 DEF IInv, TypeOK
<1>7. QED
  BY <1>1, <1>3, <1>4, <1>5, <1>6 DEF IInv

\* Every step keeps the invariant.
LEMMA NextIInv == IInv /\ [Next]_vars => IInv'
<1>1. ASSUME IInv, Next PROVE IInv'
  BY <1>1, StepSafe, ChainType, MorkType, FrozenType, Whole
<1>2. QED
  BY <1>1, StillIInv

\* The invariant holds in every state of every behaviour.
THEOREM SnapshotsInvariant == Spec => []IInv
BY InitIInv, NextIInv, PTL DEF Spec

----------------------------------------------------------------------------

\* The managers' records, the requests, the chain and the mork loop keep their
\* types: a party that is at work has a block, and the tip is a verified block.
THEOREM SnapshotsTypeOK == Spec => []TypeOK
<1>1. IInv => TypeOK
  BY DEF IInv
<1>2. QED
  BY <1>1, SnapshotsInvariant, PTL

\* A dump that nobody is making and that was not spoilt holds the blocks from the
\* genesis to its own, once each and in order, however it was made.
THEOREM SnapshotsDumpIsItsBlock == Spec => []DumpIsItsBlock
<1>1. IInv => DumpIsItsBlock
  BY DEF IInv
<1>2. QED
  BY <1>1, SnapshotsInvariant, PTL

\* A view that someone holds has its dump on disk and its entry counted, so that
\* no recycling takes it away.
THEOREM SnapshotsHeldStays == Spec => []HeldStays
<1>1. ASSUME IInv PROVE HeldStays
  <2>1. ASSUME NEW b \in Block, Holders(b) # {}, b \notin st.miscounted
        PROVE  st.dump[b] # <<>> /\ st.entry[b] # None /\ st.entry[b] > 0
    <3>1. Ready(b)
      BY <1>1, <2>1 DEF IInv, HeldAreReady
    <3>2. st.dump[b] # <<>> /\ Counted(b, st.closing[b] + 1)
      BY <1>1, <2>1, <3>1 DEF IInv, EntriesAreCounted
    <3>3. st.closing[b] \in Nat /\ st.entry[b] \in Nat \cup {None}
      BY <1>1 DEF IInv, TypeOK
    <3>4. QED
      BY <3>2, <3>3 DEF Counted
  <2>2. QED
    BY <2>1 DEF HeldStays
<1>2. QED
  BY <1>1, SnapshotsInvariant, PTL
=============================================================================
