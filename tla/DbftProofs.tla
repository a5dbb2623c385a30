----------------------------- MODULE DbftProofs -----------------------------
(***************************************************************************)
(* Proofs about the blocks of a value chain that agrees by dbft: how the   *)
(* validators produce them, for any set of them, agree rate, number of     *)
(* views, heights, blocks and timeouts; the pool of transactions the miner *)
(* takes a block from, for any transactions, addresses, bounds and chains; *)
(* and how a node downloads them, for any peers, blocks and windows.       *)
(***************************************************************************)
EXTENDS Dbft, Pending, BlockFetch, TLAPS, FiniteSetTheorems, FunctionTheorems, SequenceTheorems

Views == 0..MaxView
Header == [view : Views, miner : Node, copy : Nat]
Blocks == Seq(Header)

BlockSets == SUBSET Blocks
Responses == SUBSET (Node \X Blocks)
Signatures == SUBSET Node
Votes == SUBSET (Node \X (1..MaxView))

Record == [tip : Blocks, view : Views, state : States, block : BlockSets,
           preSigns : Responses, signs : Signatures, expect : Views, changeView : Votes]

Package == [type : {"prepareRequest", "prepareResponse"}, block : Blocks]
             \cup [type : {"changeview"}, tip : Blocks, view : 1..MaxView]

\* The shape of every variable, whatever the blocks are.
Types ==
    /\ node \in [Node -> Record]
    /\ channel \in [Node \X Node -> Seq(Package)]
    /\ tasks \in [Node -> SUBSET (Blocks \X {"propose", "execute"})]
    /\ current \in [Node -> SUBSET Blocks]
    /\ adding \in [Node -> SUBSET Blocks]
    /\ signed \in [Node -> SUBSET Blocks]
    /\ made \subseteq Blocks \ {Genesis} /\ IsFiniteSet(made)
    /\ mined \subseteq made

\* Blocks that a miner has created alike: the copy number tells them apart.
Alike(tip, view, n) ==
    {b \in made : IsPreBlock(tip, b) /\ View(b) = view /\ Last(b).miner = n}

CopyNumbers ==
    \A b \in made : Last(b).copy < Cardinality(Alike(Front(b), View(b), Last(b).miner))

\* Nothing is worked on, added or signed that has not been created.
OnlyMade ==
    \A n \in Node : /\ tasks[n] \subseteq made \X {"propose", "execute"}
                    /\ current[n] \cup adding[n] \cup signed[n] \subseteq made

Busy == {"waitingVerify", "waitingAgree", "waitingBlock"}

\* The consensus context: its block extends the tip, and every signature in it,
\* early ones included, is one its validator has given to that block.
ContextOf(n) ==
    /\ node[n].block \subseteq {b \in made : IsPreBlock(node[n].tip, b)}
    /\ node[n].block # {} <=> node[n].state \in Busy
    /\ \A m \in Node, b \in Blocks : <<m, b>> \in node[n].preSigns => b \in signed[m]
    /\ node[n].state = "waitingAgree" =>
         \A b \in node[n].block : node[n].signs \subseteq Signers(b)

Context == \A n \in Node : ContextOf(n)

\* What is on its way: proposals come from the block's miner and go to others,
\* responses from validators that have signed.
Sent(m, n, package) ==
    /\ package.type = "prepareRequest" =>
         package.block \in made /\ Last(package.block).miner = m /\ m # n
    /\ package.type = "prepareResponse" => package.block \in signed[m]

Packages ==
    \A m, n \in Node : \A package \in ToSet(channel[<<m, n>>]) : Sent(m, n, package)

\* A block that waits to be proposed is its creator's, and is proposed, executed
\* and agreed on only afterwards.
ProposedOnce ==
    \A n \in Node, b \in Blocks :
        <<b, "propose">> \in tasks[n] =>
            /\ Last(b).miner = n
            /\ <<b, "execute">> \notin tasks[n] /\ b \notin node[n].block

\* A node at the last height there is takes no further part.
Retired ==
    \A n \in Node : Len(node[n].tip) >= MaxHeight =>
        /\ node[n].state \in {"waitingCreate", "waitingProposal"}
        /\ tasks[n] = {} /\ \A m \in Node : channel[<<m, n>>] = <<>>

IInv == /\ Types /\ CopyNumbers /\ OnlyMade /\ Context /\ Packages /\ ProposedOnce
        /\ Retired /\ MinedWasAgreed /\ MinerHoldsBlock

----------------------------------------------------------------------------
\* Constants and helpers

\* There are finitely many validators.
LEMMA NodeFinite == IsFiniteSet(Node)
<1>1. Validators \in [1..Len(Validators) -> Node] /\ Len(Validators) \in Nat
  BY DbftConstants DEF Node, ToSet
<1>2. \A n \in Node : \E i \in 1..Len(Validators) : Validators[i] = n
  BY <1>1 DEF Node, ToSet
<1>3. Validators \in Surjection(1..Len(Validators), Node)
  BY <1>1, <1>2, Fun_IsSurj
<1>4. QED
  BY <1>1, <1>3, FS_Interval, FS_Surjection

\* More signatures never take the agree rate away.
LEMMA AgreeMonotone ==
    ASSUME NEW S, NEW T, IsFiniteSet(T), S \subseteq T, AgreeRateReached(Cardinality(S))
    PROVE  AgreeRateReached(Cardinality(T))
<1>1. Cardinality(S) \in Nat /\ Cardinality(T) \in Nat /\ Cardinality(S) <= Cardinality(T)
  BY FS_Subset, FS_CardinalityType
<1>2. \A c, d, e \in Nat : c <= d => c * e <= d * e /\ c * e \in Nat /\ d * e \in Nat
  OBVIOUS
<1>3. Len(Validators) \in Nat /\ AgreeRateNumerator \in Nat /\ AgreeRateDenominator \in Nat
  BY DbftConstants
<1>4. Len(Validators) * AgreeRateNumerator \in Nat
  BY <1>2, <1>3
<1>5. QED
  BY <1>1, <1>2, <1>3, <1>4 DEF AgreeRateReached

\* A record on its way through the timer, whose state may be a passing one.
Passing == [tip : Blocks, view : Views, state : States \cup {"none", "changeViewSucc"},
            block : BlockSets, preSigns : Responses, signs : Signatures, expect : Views,
            changeView : Votes]

\* The fields that a new view empties keep their types.
LEMMA EmptyFields ==
    {} \in BlockSets /\ {} \in Responses /\ {} \in Signatures /\ {} \in Votes /\ 0 \in Views
BY DbftConstants DEF BlockSets, Responses, Signatures, Votes, Views

\* A context that has nothing in it yet.
Fresh(r) == /\ r.state \in {"waitingCreate", "waitingProposal"}
            /\ r.block = {} /\ r.preSigns = {} /\ r.signs = {}

\* The timer keeps a record as it is or enters a view afresh, on the same tip.
LEMMA ResetTimerResult ==
    ASSUME NEW n \in Node, NEW r \in Passing, NEW s \in ResetTimer(n, r)
    PROVE  /\ s \in Record /\ s.tip = r.tip /\ s.changeView = r.changeView
           /\ \/ s = r /\ r.state \in States
              \/ Fresh(s)
<1>1. PICK view \in r.view..(IF Len(r.tip) < MaxHeight THEN MaxView ELSE r.view) :
         s = IF view = r.view /\ r.state \in States THEN r ELSE Enter(n, r, view)
  BY DEF ResetTimer
<1>2. view \in Views
  BY DbftConstants DEF Passing, Views
<1>3. CASE view = r.view /\ r.state \in States
  BY <1>1, <1>3 DEF Passing, Record
<1>4. CASE ~(view = r.view /\ r.state \in States)
  <2>1. s = Enter(n, r, view)
    BY <1>1, <1>4
  <2>2. s \in Record /\ s.tip = r.tip /\ s.changeView = r.changeView
    BY <1>2, <2>1, EmptyFields DEF Passing, Record, Enter, States
  <2>3. Fresh(s)
    BY <2>1 DEF Passing, Enter, Fresh
  <2>4. QED
    BY <2>2, <2>3
<1>5. QED
  BY <1>3, <1>4

\* A new tip always brings a fresh context.
LEMMA UpdateTipResult ==
    ASSUME NEW n \in Node, NEW r \in Record, NEW b \in Blocks, NEW s \in UpdateTip(n, r, b)
    PROVE  s \in Record /\ s.tip = b /\ Fresh(s)
<1> DEFINE t == [r EXCEPT !.tip = b, !.state = "none", !.view = 0, !.changeView = {}]
<1>1. t \in Passing /\ t.tip = b /\ t.state = "none"
  BY EmptyFields DEF Passing, Record
<1>2. s \in ResetTimer(n, t)
  BY DEF UpdateTip
<1> HIDE DEF t
<1>3. QED
  BY <1>1, <1>2, ResetTimerResult DEF States

\* A vote for a view is counted, or enters that view afresh.
LEMMA OnChangeViewResult ==
    ASSUME NEW n \in Node, NEW r \in Record, NEW m \in Node, NEW view \in 1..MaxView,
           NEW s \in OnChangeView(n, r, m, view)
    PROVE  /\ s \in Record /\ s.tip = r.tip
           /\ \/ s = [r EXCEPT !.changeView = s.changeView]
              \/ Fresh(s)
<1> DEFINE votes == {c \in r.changeView : c[1] # m} \cup {<<m, view>>}
           t == [r EXCEPT !.changeView = {}, !.view = view, !.state = "changeViewSucc"]
<1>1. votes \in Votes
  BY DEF Record, Votes
<1>2. t \in Passing /\ t.tip = r.tip /\ t.state = "changeViewSucc"
  <2>1. view \in Views
    BY DbftConstants DEF Views
  <2>2. QED
    BY <2>1, EmptyFields DEF Passing, Record
<1>3. s = r \/ s \in ResetTimer(n, t) \/ s = [r EXCEPT !.changeView = votes]
  BY DEF OnChangeView
<1> HIDE DEF votes, t
<1>4. CASE s = r
  BY <1>4 DEF Record
<1>5. CASE s \in ResetTimer(n, t)
  BY <1>2, <1>5, ResetTimerResult DEF States
<1>6. CASE s = [r EXCEPT !.changeView = votes]
  BY <1>1, <1>6 DEF Record
<1>7. QED
  BY <1>3, <1>4, <1>5, <1>6

----------------------------------------------------------------------------
\* What steps have in common

\* Blocks are only ever created, signatures only ever given.
Grows == made \subseteq made' /\ \A n \in Node : signed[n] \subseteq signed'[n]

\* Whoever has signed a block has signed it for good.
LEMMA SignersGrow ==
    ASSUME Grows, NEW b
    PROVE  Signers(b) \subseteq Signers(b)'
BY DEF Grows, Signers

\* What has been sent stays true.
LEMMA SentStays ==
    ASSUME Grows, NEW m, NEW k, NEW p, m \in Node, Sent(m, k, p)
    PROVE  Sent(m, k, p)'
BY DEF Sent, Grows

\* What is in a connection's sequence after a package is sent or taken.
LEMMA ToSetOfSeq ==
    ASSUME NEW S, NEW s \in Seq(S)
    PROVE  /\ \A x \in S : ToSet(Append(s, x)) = ToSet(s) \cup {x}
           /\ s # <<>> => ToSet(Tail(s)) \subseteq ToSet(s) /\ Head(s) \in ToSet(s) /\ Head(s) \in S
           /\ ToSet(s) \subseteq S
<1>1. ASSUME NEW x \in S PROVE ToSet(Append(s, x)) = ToSet(s) \cup {x}
  <2>1. Append(s, x) \in Seq(S) /\ Len(Append(s, x)) = Len(s) + 1
    OBVIOUS
  <2>2. DOMAIN s = 1..Len(s) /\ DOMAIN Append(s, x) = 1..(Len(s) + 1) /\ Len(s) \in Nat
    BY <2>1
  <2>3. \A i \in 1..Len(s) : Append(s, x)[i] = s[i]
    OBVIOUS
  <2>4. Append(s, x)[Len(s) + 1] = x
    OBVIOUS
  <2>5. ToSet(Append(s, x)) \subseteq ToSet(s) \cup {x}
    BY <2>2, <2>3, <2>4 DEF ToSet
  <2>6. ToSet(s) \cup {x} \subseteq ToSet(Append(s, x))
    BY <2>2, <2>3, <2>4 DEF ToSet
  <2>7. QED
    BY <2>5, <2>6
<1>2. ASSUME s # <<>>
      PROVE  ToSet(Tail(s)) \subseteq ToSet(s) /\ Head(s) \in ToSet(s) /\ Head(s) \in S
  <2>1. DOMAIN s = 1..Len(s) /\ DOMAIN Tail(s) = 1..(Len(s) - 1) /\ Len(s) \in Nat \ {0}
    BY <1>2
  <2>2. \A i \in 1..(Len(s) - 1) : Tail(s)[i] = s[i + 1]
    BY <1>2
  <2>3. ToSet(Tail(s)) \subseteq ToSet(s)
    BY <2>1, <2>2 DEF ToSet
  <2>4. QED
    BY <1>2, <2>1, <2>3 DEF ToSet
<1>3. ToSet(s) \subseteq S
  BY DEF ToSet
<1>4. QED
  BY <1>1, <1>2, <1>3

\* A package that is sent joins those that were on their way.
LEMMA BroadcastPackages ==
    ASSUME Types, Packages, Grows, NEW n \in Node, NEW p \in Package, Broadcast(n, p),
           \A k \in Node : k # n => Sent(n, k, p)'
    PROVE  /\ channel' \in [Node \X Node -> Seq(Package)]
           /\ Packages'
           /\ \A m, k \in Node : ~Live(k) => channel'[<<m, k>>] = channel[<<m, k>>]
<1>1. \A m, k \in Node :
         channel'[<<m, k>>] = IF m = n /\ k # n /\ Live(k)
                              THEN Append(channel[<<m, k>>], p) ELSE channel[<<m, k>>]
  BY DEF Broadcast
<1>2. \A m, k \in Node : channel[<<m, k>>] \in Seq(Package)
  BY DEF Types
<1>3. channel' \in [Node \X Node -> Seq(Package)]
  <2>1. \A c \in Node \X Node : channel[c] \in Seq(Package) /\ Append(channel[c], p) \in Seq(Package)
    BY DEF Types
  <2>2. QED
    BY <2>1 DEF Broadcast
<1>4. ASSUME NEW m \in Node, NEW k \in Node, NEW q \in ToSet(channel'[<<m, k>>])
      PROVE  Sent(m, k, q)'
  <2>1. CASE m = n /\ k # n /\ Live(k)
    <3>1. q \in ToSet(channel[<<m, k>>]) \/ q = p
      BY <1>1, <1>2, <1>4, <2>1, ToSetOfSeq
    <3>2. QED
      BY <2>1, <3>1, SentStays DEF Packages
  <2>2. CASE ~(m = n /\ k # n /\ Live(k))
    <3>1. q \in ToSet(channel[<<m, k>>])
      BY <1>1, <1>4, <2>2
    <3>2. QED
      BY <3>1, SentStays DEF Packages
  <2>3. QED
    BY <2>1, <2>2
<1>5. QED
  BY <1>1, <1>3, <1>4 DEF Packages

\* Packages that are not taken, dropped or taken stay true.
LEMMA PackagesKept ==
    ASSUME Packages, Grows,
           \A m, k \in Node : ToSet(channel'[<<m, k>>]) \subseteq ToSet(channel[<<m, k>>])
    PROVE  Packages'
<1> SUFFICES ASSUME NEW m \in Node, NEW k \in Node, NEW q \in ToSet(channel'[<<m, k>>])
             PROVE  Sent(m, k, q)'
  BY DEF Packages
<1>1. q \in ToSet(channel[<<m, k>>])
  OBVIOUS
<1>2. QED
  BY <1>1, SentStays DEF Packages

\* A context that the step does not touch, and one that it has emptied.
LEMMA ContextKept ==
    ASSUME Types, Grows, NEW k \in Node, ContextOf(k), node'[k].tip = node[k].tip,
           node'[k].state = node[k].state, node'[k].block = node[k].block,
           node'[k].preSigns = node[k].preSigns, node'[k].signs = node[k].signs
    PROVE  ContextOf(k)'
BY SignersGrow DEF ContextOf, Grows

\* An emptied context has nothing to be wrong about.
LEMMA ContextEmpty ==
    ASSUME NEW k \in Node, node'[k].state \notin Busy, node'[k].block = {}, node'[k].preSigns = {}
    PROVE  ContextOf(k)' /\ node'[k].state # "waitingAgree"
BY DEF ContextOf, Busy

\* Signatures that made a block agreed on stay with it.
LEMMA AgreedStays ==
    ASSUME Grows, Types, NEW b, AgreeRateReached(Cardinality(Signers(b)))
    PROVE  AgreeRateReached(Cardinality(Signers(b)'))
<1>1. Signers(b) \subseteq Signers(b)' /\ IsFiniteSet(Signers(b)')
  BY SignersGrow, NodeFinite, FS_Subset DEF Signers
<1>2. QED
  BY <1>1, AgreeMonotone

\* A step of node n that keeps the miners and the blocks, and leaves n's context
\* as it is or empty: a change of view, a vote for one, a package ignored.
LEMMA ViewStep ==
    ASSUME IInv, NEW n \in Node, NEW s \in Record, node' = [node EXCEPT ![n] = s],
           s.tip = node[n].tip,
           \/ s = [node[n] EXCEPT !.changeView = s.changeView]
           \/ /\ s.state \notin Busy /\ s.block = {} /\ s.preSigns = {}
              /\ Len(s.tip) < MaxHeight \/ Fresh(s),
           channel' \in [Node \X Node -> Seq(Package)], Packages',
           \A m, k \in Node : Len(node[k].tip) >= MaxHeight => channel'[<<m, k>>] = channel[<<m, k>>],
           UNCHANGED <<miner, mined, made, signed>>
    PROVE  IInv'
<1> USE DEF IInv
<1>1. Grows /\ UNCHANGED <<tasks, current, adding, mined, made, signed>>
  BY DEF Grows, miner
<1>2. /\ \A k \in Node : k # n => node'[k] = node[k]
      /\ node'[n] = s /\ node[n] \in Record
  BY DEF Types
<1>3. Types'
  BY <1>1 DEF Types
<1>4. CopyNumbers' /\ OnlyMade'
  BY <1>1 DEF CopyNumbers, OnlyMade, Alike
<1>5. /\ node'[n].tip = node[n].tip
      /\ \/ /\ node'[n].state = node[n].state /\ node'[n].block = node[n].block
            /\ node'[n].preSigns = node[n].preSigns /\ node'[n].signs = node[n].signs
         \/ node'[n].state \notin Busy /\ node'[n].block = {} /\ node'[n].preSigns = {}
  BY <1>2 DEF Record
<1>6. \A k \in Node : ContextOf(k)'
  BY <1>1, <1>2, <1>5, ContextKept, ContextEmpty DEF Context
<1>7. ProposedOnce'
  BY <1>1, <1>2, <1>5 DEF ProposedOnce
<1>8. Retired'
  <2>1. ASSUME NEW k \in Node, Len(node'[k].tip) >= MaxHeight
        PROVE  /\ node'[k].state \in {"waitingCreate", "waitingProposal"}
               /\ tasks'[k] = {} /\ \A m \in Node : channel'[<<m, k>>] = <<>>
    <3>1. Len(node[k].tip) >= MaxHeight /\ Len(node[k].tip) \in Nat
      BY <1>2, <1>5, <2>1 DEF Record, Types, Blocks
    <3>2. tasks'[k] = {} /\ \A m \in Node : channel'[<<m, k>>] = <<>>
      BY <1>1, <3>1 DEF Retired
    <3>3. node[k].state \in {"waitingCreate", "waitingProposal"}
      BY <3>1 DEF Retired
    <3>4. node'[k].state \in {"waitingCreate", "waitingProposal"}
      <4>1. CASE k # n
        BY <1>2, <3>3, <4>1
      <4>2. CASE k = n /\ s = [node[n] EXCEPT !.changeView = s.changeView]
        BY <1>2, <3>3, <4>2 DEF Record
      <4>3. CASE k = n /\ Fresh(s)
        BY <1>2, <4>3 DEF Fresh
      <4>4. QED
        BY <4>1, <4>2, <4>3, <3>1, DbftConstants
    <3>5. QED
      BY <3>2, <3>4
  <2>2. QED
    BY <2>1 DEF Retired
<1>9. MinedWasAgreed'
  BY <1>1 DEF MinedWasAgreed, Signers
<1>10. MinerHoldsBlock'
  BY <1>1, <1>2, <1>5 DEF MinerHoldsBlock, Busy
<1>11. QED
  BY <1>3, <1>4, <1>6, <1>7, <1>8, <1>9, <1>10 DEF Context

\* A deadline passes: the votes and the view change, and the package says so.
LEMMA ViewTimeoutIInv == \A n \in Node : IInv /\ ViewTimeout(n) => IInv'
<1> SUFFICES ASSUME NEW n \in Node, IInv, ViewTimeout(n) PROVE IInv'
  OBVIOUS
<1> DEFINE r == node[n]
           newView == IF r.state = "changeViewSent" THEN r.expect + 1 ELSE r.view + 1
           sent == [r EXCEPT !.state = "changeViewSent", !.expect = newView,
                             !.block = {}, !.preSigns = {}, !.signs = {}]
<1>1. r \in Record
  BY DEF IInv, Types
<1>2. newView \in 1..MaxView /\ newView \in Views
  BY <1>1, DbftConstants DEF ViewTimeout, Record, Views
<1>3. /\ sent \in Record /\ sent.tip = r.tip /\ sent.state = "changeViewSent"
      /\ sent.block = {} /\ sent.preSigns = {} /\ sent.signs = {}
  BY <1>1, <1>2, EmptyFields DEF Record, States
<1>4. PICK s \in OnChangeView(n, sent, n, newView) : \E t \in ResetTimer(n, s) : Become(n, t)
  BY DEF ViewTimeout
<1>5. PICK t \in ResetTimer(n, s) : Become(n, t)
  BY <1>4
<1>6. /\ Len(r.tip) < MaxHeight /\ UNCHANGED <<miner, mined, made, signed>>
      /\ Broadcast(n, [type |-> "changeview", tip |-> r.tip, view |-> newView])
  BY DEF ViewTimeout
<1>7. PICK p \in Package : p.type = "changeview" /\ Broadcast(n, p)
  <2>1. [type |-> "changeview", tip |-> r.tip, view |-> newView] \in Package
    BY <1>1, <1>2 DEF Package, Record
  <2>2. QED
    BY <1>6, <2>1
<1> HIDE DEF sent, newView
<1>8. /\ s \in Record /\ s.tip = r.tip
      /\ \/ s = [sent EXCEPT !.changeView = s.changeView]
         \/ Fresh(s)
  BY <1>2, <1>3, OnChangeViewResult
<1>9. s \in Passing
  BY <1>8 DEF Record, Passing
<1>10. /\ t \in Record /\ t.tip = r.tip
       /\ t = s \/ Fresh(t)
  BY <1>8, <1>9, ResetTimerResult
<1>11. s.state \notin Busy /\ s.block = {} /\ s.preSigns = {}
  BY <1>3, <1>8 DEF Record, Fresh, Busy
<1>12. t.state \notin Busy /\ t.block = {} /\ t.preSigns = {}
  BY <1>10, <1>11 DEF Fresh, Busy
<1>13. node' = [node EXCEPT ![n] = t]
  BY <1>5 DEF Become
<1>14. Grows
  BY <1>6 DEF Grows
<1>15. \A k \in Node : Sent(n, k, p)'
  BY <1>7 DEF Sent
<1>16. \A k \in Node : Len(node[k].tip) >= MaxHeight => ~Live(k)
  BY <1>10, <1>13, DbftConstants DEF Live, IInv, Types, Record, Blocks
<1>17. /\ channel' \in [Node \X Node -> Seq(Package)] /\ Packages'
       /\ \A m, k \in Node : Len(node[k].tip) >= MaxHeight => channel'[<<m, k>>] = channel[<<m, k>>]
  BY <1>6, <1>7, <1>14, <1>15, <1>16, BroadcastPackages DEF IInv
<1>18. QED
  BY <1>6, <1>10, <1>12, <1>13, <1>17, ViewStep

----------------------------------------------------------------------------
\* Creating a block

\* A block appended to a tip extends it, and shows the header it was given.
LEMMA FrontLast ==
    ASSUME NEW S, NEW s \in Seq(S), NEW e \in S
    PROVE  /\ Append(s, e) \in Seq(S) \ {<<>>}
           /\ Front(Append(s, e)) = s /\ Last(Append(s, e)) = e
<1>1. /\ Append(s, e) \in Seq(S) /\ Append(s, e) # <<>>
      /\ Len(Append(s, e)) = Len(s) + 1 /\ Len(s) \in Nat
      /\ \A i \in 1..Len(s) : Append(s, e)[i] = s[i]
      /\ Append(s, e)[Len(s) + 1] = e
  BY AppendProperties
<1>2. Front(Append(s, e)) = s
  <2>1. Front(Append(s, e)) = SubSeq(Append(s, e), 1, Len(s))
    BY <1>1 DEF Front
  <2>2. SubSeq(Append(s, e), 1, Len(s)) \in Seq(S)
        /\ Len(SubSeq(Append(s, e), 1, Len(s))) = Len(s)
        /\ \A i \in 1..Len(s) : SubSeq(Append(s, e), 1, Len(s))[i] = s[i]
    BY <1>1, SubSeqProperties
  <2>3. QED
    BY <2>1, <2>2, SeqEqual
<1>3. QED
  BY <1>1, <1>2 DEF Last

\* The copy number makes a block that is created new, also among those its miner
\* has created at the same height and view.
LEMMA NewBlock ==
    ASSUME Types, CopyNumbers, NEW n \in Node, NEW b,
           b = Append(node[n].tip, [view |-> node[n].view, miner |-> n,
                                    copy |-> Cardinality(Alike(node[n].tip, node[n].view, n))]),
           made' = made \cup {b}
    PROVE  /\ b \in Blocks \ {Genesis} /\ b \notin made /\ Last(b).miner = n
           /\ IsFiniteSet(made') /\ CopyNumbers'
<1> DEFINE tip == node[n].tip
           view == node[n].view
           h == [view |-> view, miner |-> n, copy |-> Cardinality(Alike(tip, view, n))]
<1>1. \A t, v, m : IsFiniteSet(Alike(t, v, m)) /\ Cardinality(Alike(t, v, m)) \in Nat
  BY FS_Subset, FS_CardinalityType DEF Types, Alike
<1>2. tip \in Blocks /\ view \in Views
  BY DEF Types, Record
<1>3. h \in Header
  BY <1>1, <1>2 DEF Header
<1>4. b = Append(tip, h)
  OBVIOUS
<1>5. h.view = view /\ h.miner = n /\ h.copy = Cardinality(Alike(tip, view, n))
  OBVIOUS
<1> HIDE DEF h
<1>6. b \in Blocks \ {Genesis} /\ Front(b) = tip /\ Last(b) = h
  BY <1>2, <1>3, <1>4, FrontLast DEF Blocks, Genesis
<1>7. b \notin made
  BY <1>1, <1>5, <1>6 DEF CopyNumbers, View
<1>8. IsFiniteSet(made')
  BY FS_AddElement DEF Types
<1>9. \A t, v, m : IsFiniteSet(Alike(t, v, m)') /\ Alike(t, v, m) \subseteq Alike(t, v, m)'
  BY <1>8, FS_Subset DEF Alike
<1>10. ASSUME NEW c \in made'
       PROVE  Last(c).copy < Cardinality(Alike(Front(c), View(c), Last(c).miner)')
  <2>1. CASE c \in made
    <3>1. Last(c).copy < Cardinality(Alike(Front(c), View(c), Last(c).miner))
      BY <2>1 DEF CopyNumbers
    <3>2. /\ Cardinality(Alike(Front(c), View(c), Last(c).miner)) \in Nat
          /\ Cardinality(Alike(Front(c), View(c), Last(c).miner)') \in Nat
          /\ Cardinality(Alike(Front(c), View(c), Last(c).miner))
                <= Cardinality(Alike(Front(c), View(c), Last(c).miner)')
      BY <1>1, <1>9, FS_Subset, FS_CardinalityType
    <3>3. Last(c) \in Header
      BY <2>1, ElementOfSeq DEF Types, Blocks, Last, Genesis
    <3>4. Last(c).copy \in Nat
      BY <3>3 DEF Header
    <3>5. QED
      BY <3>1, <3>2, <3>4
  <2>2. CASE c = b
    <3>1. Last(c).copy = Cardinality(Alike(Front(c), View(c), Last(c).miner))
      BY <1>5, <1>6, <2>2 DEF View
    <3>2. Alike(Front(c), View(c), Last(c).miner)' = Alike(Front(c), View(c), Last(c).miner) \cup {c}
      BY <2>2 DEF Alike, IsPreBlock
    <3>3. c \notin Alike(Front(c), View(c), Last(c).miner)
      BY <1>7, <2>2 DEF Alike
    <3>4. Cardinality(Alike(Front(c), View(c), Last(c).miner)')
            = Cardinality(Alike(Front(c), View(c), Last(c).miner)) + 1
      BY <1>1, <3>2, <3>3, FS_AddElement
    <3>5. QED
      BY <1>1, <3>1, <3>4
  <2>3. QED
    BY <1>10, <2>1, <2>2
<1>11. QED
  BY <1>5, <1>6, <1>7, <1>8, <1>10 DEF CopyNumbers

\* The due miner creates a block: it is a new one, and only its own to propose.
LEMMA CreateTimeoutIInv == \A n \in Node : IInv /\ CreateTimeout(n) => IInv'
<1> SUFFICES ASSUME NEW n \in Node, IInv, CreateTimeout(n) PROVE IInv'
  OBVIOUS
<1> USE DEF IInv
<1> DEFINE r == node[n]
           asked == [r EXCEPT !.state = "waitingProposal"]
<1>1. r \in Record /\ r.state = "waitingCreate" /\ Len(r.tip) < MaxHeight
  BY DEF Types, CreateTimeout
<1>2. PICK b : /\ b = Append(node[n].tip, [view |-> node[n].view, miner |-> n,
                                copy |-> Cardinality(Alike(node[n].tip, node[n].view, n))])
               /\ made' = made \cup {b} /\ StartTask(n, b, "propose")
  BY DEF CreateTimeout, Alike
<1>3. /\ b \in Blocks \ {Genesis} /\ b \notin made /\ Last(b).miner = n
      /\ IsFiniteSet(made') /\ CopyNumbers'
  BY <1>2, NewBlock
<1>4. UNCHANGED <<adding, channel, mined, signed>>
  BY DEF CreateTimeout
<1>5. Grows
  BY <1>2, <1>4 DEF Grows
<1>6. asked \in Passing /\ asked.tip = r.tip /\ asked.state = "waitingProposal"
      /\ asked.block = r.block /\ asked.preSigns = r.preSigns
  BY <1>1 DEF Record, Passing, States
<1>7. PICK s \in ResetTimer(n, asked) : node' = [node EXCEPT ![n] = s]
  BY DEF CreateTimeout, Become
<1> HIDE DEF asked
<1>8. /\ s \in Record /\ s.tip = r.tip /\ s.state \in {"waitingCreate", "waitingProposal"}
      /\ s.block = {}
      /\ s.preSigns = {} \/ s.preSigns = r.preSigns
  BY <1>1, <1>6, <1>7, ResetTimerResult DEF Fresh, Context, ContextOf, Busy
<1>9. /\ \A k \in Node : k # n => node'[k] = node[k]
      /\ node'[n] = s
  BY <1>7 DEF Types
<1>10. /\ tasks' = [tasks EXCEPT ![n] = @ \cup {<<b, "propose">>}]
       /\ current' = [current EXCEPT ![n] = {b}]
  BY <1>2 DEF StartTask
<1>11. Types'
  <2>1. <<b, "propose">> \in Blocks \X {"propose", "execute"} /\ {b} \in SUBSET Blocks
    BY <1>3
  <2>2. tasks' \in [Node -> SUBSET (Blocks \X {"propose", "execute"})]
    BY <1>10, <2>1 DEF Types
  <2>3. current' \in [Node -> SUBSET Blocks]
    BY <1>10, <2>1 DEF Types
  <2>4. node' \in [Node -> Record]
    BY <1>7, <1>8 DEF Types
  <2>5. QED
    BY <1>2, <1>3, <1>4, <2>2, <2>3, <2>4 DEF Types
<1>12. OnlyMade'
  BY <1>2, <1>4, <1>10 DEF OnlyMade, Types
<1>13. Context'
  <2>1. ASSUME NEW k \in Node, k # n PROVE ContextOf(k)'
    BY <1>5, <1>9, <2>1, ContextKept DEF Context
  <2>2. ContextOf(n)'
    BY <1>4, <1>8, <1>9 DEF Context, ContextOf, Busy
  <2>3. QED
    BY <2>1, <2>2 DEF Context
<1>14. Packages'
  BY <1>4, <1>5, PackagesKept
<1>15. ProposedOnce'
  <2>1. <<b, "execute">> \notin tasks[n]
    BY <1>3 DEF OnlyMade
  <2>2. QED
    BY <1>3, <1>8, <1>9, <1>10, <2>1 DEF ProposedOnce, Types
<1>16. Retired'
  BY <1>1, <1>4, <1>8, <1>9, <1>10, DbftConstants DEF Retired, Types, Record, Blocks
<1>17. MinedWasAgreed'
  BY <1>4 DEF MinedWasAgreed, Signers
<1>18. MinerHoldsBlock'
  BY <1>8, <1>9, <1>10 DEF MinerHoldsBlock, Types
<1>19. QED
  BY <1>3, <1>11, <1>12, <1>13, <1>14, <1>15, <1>16, <1>17, <1>18

----------------------------------------------------------------------------
\* Proposing and agreeing

\* A created block is proposed, or dropped because the node has moved on.
LEMMA NewProposalIInv == \A n \in Node, b \in made : IInv /\ NewProposal(n, b) => IInv'
<1> SUFFICES ASSUME NEW n \in Node, NEW b \in made, IInv, NewProposal(n, b) PROVE IInv'
  OBVIOUS
<1> USE DEF IInv
<1> DEFINE r == node[n]
<1>1. r \in Record /\ b \in Blocks /\ <<b, "propose">> \in tasks[n]
  BY DEF Types, NewProposal
<1>2. /\ Last(b).miner = n /\ <<b, "execute">> \notin tasks[n] /\ b \notin node[n].block
      /\ Len(r.tip) < MaxHeight
  BY <1>1, DbftConstants DEF ProposedOnce, Retired, Record, Blocks
<1>3. UNCHANGED <<adding, mined, made, signed>>
  BY DEF NewProposal
<1>4. Grows
  BY <1>3 DEF Grows
<1>5. CopyNumbers' /\ MinedWasAgreed'
  BY <1>3 DEF CopyNumbers, Alike, MinedWasAgreed, Signers
<1>6. CASE /\ r.state = "waitingProposal" /\ IsPreBlock(r.tip, b)
           /\ Become(n, [r EXCEPT !.state = "waitingVerify", !.block = {b}, !.preSigns = {}])
           /\ Broadcast(n, [type |-> "prepareRequest", block |-> b])
           /\ tasks' = [tasks EXCEPT ![n] = (@ \ {<<b, "propose">>}) \cup {<<b, "execute">>}]
           /\ UNCHANGED current
  <2>1. PICK s \in Record : /\ node' = [node EXCEPT ![n] = s]
                            /\ s.tip = r.tip /\ s.state = "waitingVerify" /\ s.block = {b} /\ s.preSigns = {}
    <3>1. {b} \in BlockSets /\ {} \in Responses
      BY <1>1 DEF BlockSets, Responses
    <3>2. [r EXCEPT !.state = "waitingVerify", !.block = {b}, !.preSigns = {}] \in Record
      BY <1>1, <3>1 DEF Record, States
    <3>3. QED
      BY <1>1, <1>6, <3>2 DEF Become, Record
  <2>2. node'[n] = s /\ \A k \in Node : k # n => node'[k] = node[k]
    BY <2>1 DEF Types
  <2>3. PICK p \in Package : p.type = "prepareRequest" /\ p.block = b /\ Broadcast(n, p)
    <3>1. [type |-> "prepareRequest", block |-> b] \in Package
      BY <1>1 DEF Package
    <3>2. QED
      BY <1>6, <3>1
  <2>4. \A k \in Node : k # n => Sent(n, k, p)'
    BY <1>2, <1>3, <2>3 DEF Sent
  <2>5. \A k \in Node : Len(node[k].tip) >= MaxHeight => ~Live(k)
    BY <2>1, <2>2, DbftConstants DEF Live, Types, Record, Blocks
  <2>6. /\ channel' \in [Node \X Node -> Seq(Package)] /\ Packages'
        /\ \A m, k \in Node : Len(node[k].tip) >= MaxHeight => channel'[<<m, k>>] = channel[<<m, k>>]
    BY <1>4, <2>3, <2>4, <2>5, BroadcastPackages
  <2>7. Types' /\ OnlyMade'
    <3>1. <<b, "execute">> \in Blocks \X {"propose", "execute"} /\ <<b, "execute">> \in made \X {"propose", "execute"}
      BY <1>1
    <3>2. tasks' \in [Node -> SUBSET (Blocks \X {"propose", "execute"})] /\ node' \in [Node -> Record]
      BY <1>6, <2>1, <3>1 DEF Types
    <3>3. QED
      BY <1>3, <1>6, <2>6, <3>1, <3>2 DEF Types, OnlyMade
  <2>8. Context'
    <3>1. ASSUME NEW k \in Node, k # n PROVE ContextOf(k)'
      BY <1>4, <2>2, <3>1, ContextKept DEF Context
    <3>2. ContextOf(n)'
      BY <1>3, <1>6, <2>1, <2>2 DEF ContextOf, Busy
    <3>3. QED
      BY <3>1, <3>2 DEF Context
  <2>9. ProposedOnce'
    BY <1>1, <1>6, <2>1, <2>2 DEF ProposedOnce, Types
  <2>10. Retired'
    BY <1>2, <1>6, <2>1, <2>2, <2>6, DbftConstants DEF Retired, Types, Record, Blocks
  <2>11. MinerHoldsBlock'
    BY <1>6, <2>1, <2>2 DEF MinerHoldsBlock
  <2>12. QED
    BY <1>5, <2>6, <2>7, <2>8, <2>9, <2>10, <2>11
<1>7. CASE /\ tasks' = [tasks EXCEPT ![n] = @ \ {<<b, "propose">>}]
           /\ current' = [current EXCEPT ![n] = @ \ {b}]
           /\ UNCHANGED <<node, channel>>
  <2>1. Types' /\ OnlyMade'
    BY <1>3, <1>7 DEF Types, OnlyMade
  <2>2. Context'
    BY <1>3, <1>7 DEF Context, ContextOf, Signers
  <2>3. Packages'
    BY <1>4, <1>7, PackagesKept
  <2>4. ProposedOnce' /\ Retired'
    BY <1>7 DEF ProposedOnce, Retired, Types
  <2>5. MinerHoldsBlock'
    BY <1>2, <1>7 DEF MinerHoldsBlock, Types
  <2>6. QED
    BY <1>5, <2>1, <2>2, <2>3, <2>4, <2>5
<1>8. QED
  BY <1>6, <1>7 DEF NewProposal

\* Counting signatures that were all given to the context's block: either the
\* count goes on, with the miner still holding the block, or the block leaves
\* for the chain with enough signatures.
LEMMA AgreeStep ==
    ASSUME IInv, Grows, NEW n \in Node, NEW b \in made, NEW r \in Record, NEW signs \in Signatures,
           r.tip = node[n].tip, r.state = "waitingAgree", r.block = {b}, IsPreBlock(r.tip, b),
           r.preSigns \subseteq node[n].preSigns, current[n] = {b},
           \A m \in signs : b \in signed'[m], Agree(n, r, signs)
    PROVE  /\ node' \in [Node -> Record] /\ node'[n].tip = node[n].tip /\ node'[n].block = {b}
           /\ \A k \in Node : k # n => node'[k] = node[k]
           /\ current' \in [Node -> SUBSET Blocks] /\ adding' \in [Node -> SUBSET Blocks]
           /\ \A k \in Node : current'[k] \subseteq current[k] /\ adding'[k] \subseteq adding[k] \cup {b}
           /\ Context' /\ MinerHoldsBlock'
           /\ mined' = mined => MinedWasAgreed'
<1> USE DEF IInv
<1>1. signs \subseteq Signers(b)' /\ IsFiniteSet(Signers(b)')
  BY NodeFinite, FS_Subset DEF Signatures, Signers
<1>2. PICK s \in Record :
        /\ node' = [node EXCEPT ![n] = s] /\ s.signs = signs
        /\ s.tip = r.tip /\ s.block = r.block /\ s.preSigns = r.preSigns
        /\ \/ /\ AgreeRateReached(Cardinality(signs)) /\ s.state = "waitingBlock"
              /\ adding' = [adding EXCEPT ![n] = @ \cup {b}]
              /\ current' = [current EXCEPT ![n] = {}]
           \/ s.state = "waitingAgree" /\ UNCHANGED <<adding, current>>
  <2>1. CASE AgreeRateReached(Cardinality(signs))
    <3>1. r.block \cap current[n] = {b} /\ current[n] \ r.block = {}
      OBVIOUS
    <3>2. [r EXCEPT !.state = "waitingBlock", !.signs = signs] \in Record
      BY DEF Record, States
    <3>3. QED
      BY <2>1, <3>1, <3>2 DEF Agree, Become, Record
  <2>2. CASE ~AgreeRateReached(Cardinality(signs))
    <3>1. [r EXCEPT !.signs = signs] \in Record
      BY DEF Record
    <3>2. QED
      BY <2>2, <3>1 DEF Agree, Become, Record
  <2>3. QED
    BY <2>1, <2>2
<1>3. /\ node' \in [Node -> Record] /\ node'[n] = s
      /\ \A k \in Node : k # n => node'[k] = node[k]
  BY <1>2 DEF Types
<1>4. b \in Blocks
  BY DEF Types
<1>5. /\ current' \in [Node -> SUBSET Blocks] /\ adding' \in [Node -> SUBSET Blocks]
      /\ \A k \in Node : current'[k] \subseteq current[k] /\ adding'[k] \subseteq adding[k] \cup {b}
  BY <1>2, <1>4, ZenonT(60) DEF Types
<1>6. Context'
  <2>1. ASSUME NEW k \in Node, k # n PROVE ContextOf(k)'
    BY <1>3, <2>1, ContextKept DEF Context
  <2>2. ContextOf(n)'
    <3>1. node[n].preSigns \subseteq Node \X Blocks
      BY DEF Types, Record, Responses
    <3>2. \A m \in Node, c \in Blocks : <<m, c>> \in s.preSigns => c \in signed'[m]
      BY <1>2 DEF Context, ContextOf, Grows
    <3>3. s.block = {b} /\ b \in made' /\ s.state \in Busy /\ IsPreBlock(s.tip, b)
      BY <1>2 DEF Grows, Busy
    <3>4. QED
      BY <1>1, <1>2, <1>3, <3>2, <3>3 DEF ContextOf
  <2>3. QED
    BY <2>1, <2>2 DEF Context
<1>7. MinerHoldsBlock'
  BY <1>2, <1>3, ZenonT(60) DEF MinerHoldsBlock, Types
<1>8. ASSUME mined' = mined PROVE MinedWasAgreed'
  <2>1. ASSUME NEW c \in mined' \cup UNION {adding'[k] : k \in Node}
        PROVE  AgreeRateReached(Cardinality(Signers(c)'))
    <3>1. CASE c \in mined \cup UNION {adding[k] : k \in Node}
      BY <3>1, AgreedStays DEF MinedWasAgreed
    <3>2. CASE c \notin mined \cup UNION {adding[k] : k \in Node}
      <4>1. c = b /\ AgreeRateReached(Cardinality(signs))
        BY <1>2, <1>8, <2>1, <3>2 DEF Types
      <4>2. QED
        BY <1>1, <4>1, AgreeMonotone
    <3>3. QED
      BY <3>1, <3>2
  <2>2. QED
    BY <2>1 DEF MinedWasAgreed
<1>9. QED
  BY <1>2, <1>3, <1>5, <1>6, <1>7, <1>8

\* An executed block is signed and the early responses to it are counted.
LEMMA AgreeProposalIInv == \A n \in Node, b \in made : IInv /\ AgreeProposal(n, b) => IInv'
<1> SUFFICES ASSUME NEW n \in Node, NEW b \in made, IInv, AgreeProposal(n, b) PROVE IInv'
  OBVIOUS
<1> USE DEF IInv
<1>1. /\ node[n] \in Record /\ b \in Blocks /\ <<b, "execute">> \in tasks[n]
      /\ tasks' = [tasks EXCEPT ![n] = @ \ {<<b, "execute">>}]
      /\ UNCHANGED <<mined, made>>
  BY DEF Types, AgreeProposal
<1>2. <<b, "propose">> \notin tasks[n] /\ Len(node[n].tip) < MaxHeight
  BY <1>1, DbftConstants DEF ProposedOnce, Retired, Record, Blocks
<1>3. CopyNumbers' /\ tasks' \in [Node -> SUBSET (Blocks \X {"propose", "execute"})]
  BY <1>1 DEF CopyNumbers, Alike, Types
<1>4. CASE /\ current[n] = {b} /\ node[n].state = "waitingVerify" /\ IsPreBlock(node[n].tip, b)
           /\ Agree(n, [node[n] EXCEPT !.state = "waitingAgree", !.block = {b}, !.preSigns = {}],
                    EarlySigners(node[n], b) \cup {n})
           /\ Broadcast(n, [type |-> "prepareResponse", block |-> b])
           /\ signed' = [signed EXCEPT ![n] = @ \cup {b}]
  <2>1. Grows /\ signed' \in [Node -> SUBSET Blocks]
    BY <1>1, <1>4 DEF Grows, Types
  <2>2. PICK r \in Record : /\ r.tip = node[n].tip /\ r.state = "waitingAgree" /\ r.block = {b}
                            /\ r.preSigns = {} /\ Agree(n, r, EarlySigners(node[n], b) \cup {n})
    <3>1. {b} \in BlockSets
      BY <1>1 DEF BlockSets
    <3>2. [node[n] EXCEPT !.state = "waitingAgree", !.block = {b}, !.preSigns = {}] \in Record
      BY <1>1, <3>1, EmptyFields DEF Record, States
    <3>3. QED
      BY <1>1, <1>4, <3>2 DEF Record
  <2>3. PICK signs \in Signatures : signs = EarlySigners(node[n], b) \cup {n}
    BY <1>1 DEF EarlySigners, Signatures, Record, Responses
  <2>4. \A m \in signs : b \in signed'[m]
    <3>1. ASSUME NEW m \in EarlySigners(node[n], b) PROVE m \in Node /\ <<m, b>> \in node[n].preSigns
      BY <1>1 DEF EarlySigners, Record, Responses
    <3>2. \A m \in EarlySigners(node[n], b) : b \in signed'[m]
      BY <1>1, <2>1, <3>1 DEF Context, ContextOf, Grows
    <3>3. b \in signed'[n]
      BY <1>4 DEF Types
    <3>4. QED
      BY <2>3, <3>2, <3>3
  <2>5. /\ node' \in [Node -> Record] /\ node'[n].tip = node[n].tip /\ node'[n].block = {b}
        /\ \A k \in Node : k # n => node'[k] = node[k]
        /\ current' \in [Node -> SUBSET Blocks] /\ adding' \in [Node -> SUBSET Blocks]
        /\ \A k \in Node : current'[k] \subseteq current[k] /\ adding'[k] \subseteq adding[k] \cup {b}
        /\ Context' /\ MinerHoldsBlock' /\ MinedWasAgreed'
    BY <1>1, <1>4, <2>1, <2>2, <2>3, <2>4, AgreeStep
  <2>6. PICK p \in Package : p.type = "prepareResponse" /\ p.block = b /\ Broadcast(n, p)
    <3>1. [type |-> "prepareResponse", block |-> b] \in Package
      BY <1>1 DEF Package
    <3>2. QED
      BY <1>4, <3>1
  <2>7. \A k \in Node : k # n => Sent(n, k, p)'
    BY <1>4, <2>6 DEF Sent, Types
  <2>8. \A k \in Node : Len(node[k].tip) >= MaxHeight => ~Live(k)
    <3>1. \A k \in Node : node'[k].tip = node[k].tip /\ Len(node[k].tip) \in Nat
      <4>1. ASSUME NEW k \in Node PROVE node'[k].tip = node[k].tip
        BY <2>5
      <4>2. ASSUME NEW k \in Node PROVE Len(node[k].tip) \in Nat
        <5>1. node[k] \in Record
          BY DEF Types
        <5>2. QED
          BY <5>1 DEF Record, Blocks
      <4>3. QED
        BY <4>1, <4>2
    <3>2. QED
      BY <3>1, DbftConstants DEF Live
  <2>9. /\ channel' \in [Node \X Node -> Seq(Package)] /\ Packages'
        /\ \A m, k \in Node : Len(node[k].tip) >= MaxHeight => channel'[<<m, k>>] = channel[<<m, k>>]
    BY <2>1, <2>6, <2>7, <2>8, BroadcastPackages
  <2>10. Types' /\ OnlyMade'
    BY <1>1, <1>3, <1>4, <2>1, <2>5, <2>9 DEF Types, OnlyMade
  <2>11. ProposedOnce'
    BY <1>1, <1>2, <2>5 DEF ProposedOnce, Types
  <2>12. Retired'
    BY <1>1, <1>2, <2>5, <2>9, DbftConstants DEF Retired, Types, Record, Blocks
  <2>13. QED
    BY <1>3, <2>5, <2>9, <2>10, <2>11, <2>12
<1>5. CASE UNCHANGED <<node, current, adding, channel, signed>>
  <2>1. Types' /\ OnlyMade' /\ Grows
    BY <1>1, <1>3, <1>5 DEF Types, OnlyMade, Grows
  <2>2. Context' /\ MinedWasAgreed' /\ MinerHoldsBlock'
    BY <1>1, <1>5, SMTT(30) DEF Context, ContextOf, MinedWasAgreed, MinerHoldsBlock, Signers
  <2>3. Packages'
    BY <1>5, <2>1, PackagesKept
  <2>4. ProposedOnce' /\ Retired'
    BY <1>1, <1>5 DEF ProposedOnce, Retired, Types
  <2>5. QED
    BY <1>3, <2>1, <2>2, <2>3, <2>4
<1>6. QED
  BY <1>4, <1>5 DEF AgreeProposal, Cancelled

----------------------------------------------------------------------------
\* Blocks joining the chain

\* A new tip, the node's own block or a fetched one: the context is fresh, and a
\* node that has come to the last height drops what it was at.
LEMMA NewTip ==
    ASSUME IInv, NEW n \in Node, NEW b \in made, NEW s \in Record, Retire,
           UNCHANGED <<made, signed>>, adding' \in [Node -> SUBSET Blocks],
           \A k \in Node : adding'[k] \subseteq adding[k],
           mined' = mined \/ (mined' = mined \cup {b} /\ b \in adding[n]),
           node' = [node EXCEPT ![n] = s], s = node[n] \/ Fresh(s)
    PROVE  IInv'
<1> USE DEF IInv
<1>1. /\ node' \in [Node -> Record] /\ node'[n] = s /\ node[n] \in Record
      /\ \A k \in Node : k # n => node'[k] = node[k]
      /\ Grows
  BY DEF Types, Grows
<1>2. \A k \in Node : node'[k] = node[k] \/ Fresh(node'[k])
  BY <1>1
<1>3. /\ \A k \in Node : Live(k) => tasks'[k] = tasks[k] /\ current'[k] = current[k]
      /\ \A k \in Node : ~Live(k) => tasks'[k] = {} /\ current'[k] = {}
      /\ \A m, k \in Node : Live(k) => channel'[<<m, k>>] = channel[<<m, k>>]
      /\ \A m, k \in Node : ~Live(k) => channel'[<<m, k>>] = <<>>
  BY DEF Retire
<1>4. Types'
  <2>1. tasks' \in [Node -> SUBSET (Blocks \X {"propose", "execute"})]
    BY DEF Types, Retire
  <2>2. current' \in [Node -> SUBSET Blocks]
    BY DEF Types, Retire
  <2>3. channel' \in [Node \X Node -> Seq(Package)]
    <3>1. <<>> \in Seq(Package)
      OBVIOUS
    <3>2. \A c \in Node \X Node : channel[c] \in Seq(Package)
      BY DEF Types
    <3>3. QED
      BY <3>1, <3>2 DEF Retire
  <2>4. mined' \subseteq made'
    BY DEF Types
  <2>5. QED
    BY <1>1, <2>1, <2>2, <2>3, <2>4 DEF Types
<1>5. CopyNumbers' /\ OnlyMade'
  BY <1>3 DEF CopyNumbers, Alike, OnlyMade
<1>6. Context'
  <2>1. ASSUME NEW k \in Node, node'[k] = node[k] PROVE ContextOf(k)'
    BY <1>1, <2>1, ContextKept DEF Context
  <2>2. ASSUME NEW k \in Node, Fresh(node'[k]) PROVE ContextOf(k)'
    BY <2>2, ContextEmpty DEF Fresh, Busy
  <2>3. QED
    BY <1>2, <2>1, <2>2 DEF Context
<1>7. Packages'
  <2>1. ToSet(<<>>) = {}
    BY DEF ToSet
  <2>2. \A m, k \in Node : ToSet(channel'[<<m, k>>]) \subseteq ToSet(channel[<<m, k>>])
    BY <1>3, <2>1
  <2>3. QED
    BY <1>1, <2>2, PackagesKept
<1>8. ProposedOnce'
  <2>1. ASSUME NEW k \in Node, NEW c \in Blocks, <<c, "propose">> \in tasks'[k]
        PROVE  /\ Last(c).miner = k
               /\ <<c, "execute">> \notin tasks'[k] /\ c \notin node'[k].block
    <3>1. tasks'[k] = tasks[k]
      BY <1>3, <2>1
    <3>2. Last(c).miner = k /\ <<c, "execute">> \notin tasks[k] /\ c \notin node[k].block
      BY <2>1, <3>1 DEF ProposedOnce
    <3>3. c \notin node'[k].block
      BY <1>2, <3>2 DEF Fresh
    <3>4. QED
      BY <3>1, <3>2, <3>3
  <2>2. QED
    BY <2>1 DEF ProposedOnce
<1>9. Retired'
  <2>1. ASSUME NEW k \in Node, Len(node'[k].tip) >= MaxHeight
        PROVE  /\ ~Live(k)
               /\ node'[k].state \in {"waitingCreate", "waitingProposal"}
    <3>1. Len(node'[k].tip) \in Nat
      BY <1>1 DEF Record, Blocks
    <3>2. node'[k].state \in {"waitingCreate", "waitingProposal"}
      BY <1>2, <2>1 DEF Retired, Fresh
    <3>3. QED
      BY <2>1, <3>1, <3>2, DbftConstants DEF Live
  <2>2. QED
    BY <1>3, <2>1 DEF Retired
<1>10. MinedWasAgreed'
  <2>1. mined' \cup UNION {adding'[k] : k \in Node} \subseteq mined \cup UNION {adding[k] : k \in Node}
    OBVIOUS
  <2>2. QED
    BY <2>1 DEF MinedWasAgreed, Signers
<1>11. MinerHoldsBlock'
  <2>1. ASSUME NEW k \in Node, node'[k].state = "waitingAgree" PROVE current'[k] = node'[k].block
    <3>1. node'[k] = node[k]
      BY <1>2, <2>1 DEF Fresh
    <3>2. Live(k)
      <4>1. Len(node[k].tip) \in Nat /\ node[k].state = "waitingAgree"
        BY <1>1, <2>1, <3>1 DEF Record, Blocks
      <4>2. ~(Len(node[k].tip) >= MaxHeight)
        BY <4>1 DEF Retired
      <4>3. QED
        BY <3>1, <4>1, <4>2, DbftConstants DEF Live
    <3>3. QED
      BY <1>3, <2>1, <3>1, <3>2 DEF MinerHoldsBlock
  <2>2. QED
    BY <2>1 DEF MinerHoldsBlock
<1>12. QED
  BY <1>4, <1>5, <1>6, <1>7, <1>8, <1>9, <1>10, <1>11

\* A node's own block, or one that another has mined, becomes its tip.
LEMMA AddedIInv ==
    \A n \in Node, b \in made : IInv /\ (AddMinedBlock(n, b) \/ SyncBlock(n, b)) => IInv'
<1> SUFFICES ASSUME NEW n \in Node, NEW b \in made, IInv, AddMinedBlock(n, b) \/ SyncBlock(n, b)
             PROVE  IInv'
  OBVIOUS
<1>1. node \in [Node -> Record] /\ adding \in [Node -> SUBSET Blocks] /\ node[n] \in Record /\ b \in Blocks
  BY DEF IInv, Types
<1>2. PICK s \in Record : node' = [node EXCEPT ![n] = s] /\ (s = node[n] \/ Fresh(s))
  <2>1. CASE \E s \in UpdateTip(n, node[n], b) : Become(n, s)
    BY <1>1, <2>1, UpdateTipResult DEF Become
  <2>2. CASE UNCHANGED node
    BY <1>1, <2>2
  <2>3. QED
    BY <2>1, <2>2 DEF AddMinedBlock, SyncBlock
<1>3. /\ Retire /\ UNCHANGED <<made, signed>>
      /\ adding' \in [Node -> SUBSET Blocks] /\ \A k \in Node : adding'[k] \subseteq adding[k]
      /\ mined' = mined \/ (mined' = mined \cup {b} /\ b \in adding[n])
  BY <1>1 DEF AddMinedBlock, SyncBlock
<1>4. QED
  BY <1>2, <1>3, NewTip

----------------------------------------------------------------------------
\* Packages

\* What every package taken leaves behind: the rest of its connection.
LEMMA Taken ==
    ASSUME IInv, NEW n \in Node, NEW m \in Node, Receive(n, m)
    PROVE  /\ Len(node[n].tip) \in Nat /\ Len(node[n].tip) < MaxHeight
           /\ Grows /\ UNCHANGED <<mined, made, signed>>
           /\ channel' \in [Node \X Node -> Seq(Package)] /\ Packages'
           /\ \A j, k \in Node : Len(node[k].tip) >= MaxHeight => channel'[<<j, k>>] = channel[<<j, k>>]
           /\ \E p \in Package : p = Head(channel[<<m, n>>]) /\ Sent(m, n, p)
<1> USE DEF IInv
<1>1. /\ channel[<<m, n>>] \in Seq(Package) /\ channel[<<m, n>>] # <<>>
      /\ channel' = [channel EXCEPT ![<<m, n>>] = Tail(@)]
      /\ UNCHANGED <<mined, made, signed>>
  BY DEF Types, Receive
<1>2. Len(node[n].tip) \in Nat /\ Len(node[n].tip) < MaxHeight
  <2>1. node[n] \in Record
    BY DEF Types
  <2>2. Len(node[n].tip) \in Nat
    BY <2>1 DEF Record, Blocks
  <2>3. ~(Len(node[n].tip) >= MaxHeight)
    BY <1>1 DEF Retired
  <2>4. QED
    BY <2>2, <2>3, DbftConstants
<1>3. Grows
  BY <1>1 DEF Grows
<1>4. Tail(channel[<<m, n>>]) \in Seq(Package)
  BY <1>1
<1>5. channel' \in [Node \X Node -> Seq(Package)]
  BY <1>1, <1>4 DEF Types
<1>6. \A j, k \in Node : <<j, k>> # <<m, n>> => channel'[<<j, k>>] = channel[<<j, k>>]
  BY <1>1 DEF Types
<1>7. channel'[<<m, n>>] = Tail(channel[<<m, n>>])
  BY <1>1 DEF Types
<1>8. ToSet(channel'[<<m, n>>]) \subseteq ToSet(channel[<<m, n>>])
      /\ Head(channel[<<m, n>>]) \in ToSet(channel[<<m, n>>])
      /\ Head(channel[<<m, n>>]) \in Package
  BY <1>1, <1>7, ToSetOfSeq
<1>9. Packages'
  <2>1. \A j, k \in Node : ToSet(channel'[<<j, k>>]) \subseteq ToSet(channel[<<j, k>>])
    BY <1>6, <1>8
  <2>2. QED
    BY <1>3, <2>1, PackagesKept
<1>10. \A j, k \in Node : Len(node[k].tip) >= MaxHeight => channel'[<<j, k>>] = channel[<<j, k>>]
  BY <1>2, <1>6, DbftConstants
<1>11. Sent(m, n, Head(channel[<<m, n>>]))
  BY <1>8 DEF Packages
<1>12. QED
  BY <1>1, <1>2, <1>3, <1>5, <1>8, <1>9, <1>10, <1>11

\* A proposal that is expected is taken to be executed.
LEMMA RequestTaken ==
    ASSUME IInv, NEW n \in Node, NEW m \in Node, Receive(n, m), NEW b \in Blocks,
           b \in made, Last(b).miner # n, node[n].state = "waitingProposal",
           IsPreBlock(node[n].tip, b), StartTask(n, b, "execute"), UNCHANGED adding,
           Become(n, [node[n] EXCEPT !.state = "waitingVerify", !.block = {b}])
    PROVE  IInv'
<1> USE DEF IInv
<1>1. /\ Len(node[n].tip) \in Nat /\ Len(node[n].tip) < MaxHeight
      /\ Grows /\ UNCHANGED <<adding, mined, made, signed>>
      /\ channel' \in [Node \X Node -> Seq(Package)] /\ Packages'
      /\ \A j, k \in Node : Len(node[k].tip) >= MaxHeight => channel'[<<j, k>>] = channel[<<j, k>>]
  BY Taken
<1>2. PICK s \in Record : /\ node' = [node EXCEPT ![n] = s] /\ s.tip = node[n].tip
                          /\ s.state = "waitingVerify" /\ s.block = {b}
                          /\ s.preSigns = node[n].preSigns
  <2>1. {b} \in BlockSets
    BY DEF BlockSets
  <2>2. node[n] \in Record
    BY DEF Types
  <2>3. [node[n] EXCEPT !.state = "waitingVerify", !.block = {b}] \in Record
    BY <2>1, <2>2 DEF Record, States
  <2>4. QED
    BY <2>2, <2>3 DEF Become, Record
<1>3. /\ node' \in [Node -> Record] /\ node'[n] = s
      /\ \A k \in Node : k # n => node'[k] = node[k]
  BY <1>2 DEF Types
<1>4. /\ tasks' = [tasks EXCEPT ![n] = @ \cup {<<b, "execute">>}]
      /\ current' = [current EXCEPT ![n] = {b}]
  BY DEF StartTask
<1>5. /\ tasks' \in [Node -> SUBSET (Blocks \X {"propose", "execute"})]
      /\ current' \in [Node -> SUBSET Blocks]
  BY <1>4 DEF Types
<1>6. Types'
  BY <1>1, <1>3, <1>5 DEF Types
<1>7. CopyNumbers' /\ MinedWasAgreed'
  BY <1>1, ZenonT(60) DEF CopyNumbers, Alike, MinedWasAgreed, Signers
<1>8. OnlyMade'
  BY <1>1, <1>4 DEF OnlyMade, Types
<1>9. Context'
  <2>1. ASSUME NEW k \in Node, k # n PROVE ContextOf(k)'
    BY <1>1, <1>3, <2>1, ContextKept DEF Context
  <2>2. ContextOf(n)'
    BY <1>1, <1>2, <1>3 DEF Context, ContextOf, Busy
  <2>3. QED
    BY <2>1, <2>2 DEF Context
<1>10. ProposedOnce'
  <2>1. ASSUME NEW k \in Node, NEW c \in Blocks, <<c, "propose">> \in tasks'[k]
        PROVE  /\ Last(c).miner = k
               /\ <<c, "execute">> \notin tasks'[k] /\ c \notin node'[k].block
    <3>1. <<c, "propose">> \in tasks[k]
      BY <1>4, <2>1 DEF Types
    <3>2. Last(c).miner = k /\ <<c, "execute">> \notin tasks[k] /\ c \notin node[k].block
      BY <3>1 DEF ProposedOnce
    <3>3. CASE k = n
      BY <1>2, <1>3, <1>4, <3>2, <3>3 DEF Types
    <3>4. CASE k # n
      BY <1>3, <1>4, <3>2, <3>4 DEF Types
    <3>5. QED
      BY <3>3, <3>4
  <2>2. QED
    BY <2>1 DEF ProposedOnce
<1>11. Retired'
  <2>1. ASSUME NEW k \in Node, Len(node'[k].tip) >= MaxHeight
        PROVE  /\ node'[k].state \in {"waitingCreate", "waitingProposal"}
               /\ tasks'[k] = {} /\ \A j \in Node : channel'[<<j, k>>] = <<>>
    <3>1. k # n
      BY <1>1, <1>2, <1>3, <2>1, DbftConstants
    <3>2. node'[k] = node[k] /\ tasks'[k] = tasks[k]
      BY <1>3, <1>4, <3>1 DEF Types
    <3>3. QED
      BY <1>1, <2>1, <3>2 DEF Retired
  <2>2. QED
    BY <2>1 DEF Retired
<1>12. MinerHoldsBlock'
  BY <1>2, <1>3, <1>4 DEF MinerHoldsBlock, Types
<1>13. QED
  BY <1>1, <1>6, <1>7, <1>8, <1>9, <1>10, <1>11, <1>12

\* A response to the block being agreed on is counted.
LEMMA ResponseCounted ==
    ASSUME IInv, NEW n \in Node, NEW m \in Node, Receive(n, m), NEW b \in Blocks,
           b \in signed[m], node[n].state = "waitingAgree", node[n].block = {b},
           Agree(n, node[n], node[n].signs \cup {m}), UNCHANGED tasks
    PROVE  IInv'
<1> USE DEF IInv
<1>1. /\ Len(node[n].tip) \in Nat /\ Len(node[n].tip) < MaxHeight
      /\ Grows /\ UNCHANGED <<mined, made, signed>>
      /\ channel' \in [Node \X Node -> Seq(Package)] /\ Packages'
      /\ \A j, k \in Node : Len(node[k].tip) >= MaxHeight => channel'[<<j, k>>] = channel[<<j, k>>]
  BY Taken
<1>2. PICK r \in Record : r = node[n]
  BY DEF Types
<1>3. b \in made /\ IsPreBlock(r.tip, b) /\ current[n] = {b}
  BY <1>2 DEF Context, ContextOf, MinerHoldsBlock
<1>4. PICK signs \in Signatures : signs = r.signs \cup {m}
  BY <1>2 DEF Record, Signatures
<1>5. \A j \in signs : b \in signed'[j]
  <2>1. r.signs \subseteq Signers(b)
    BY <1>2 DEF Context, ContextOf
  <2>2. \A j \in signs : b \in signed[j]
    BY <1>4, <2>1 DEF Signers
  <2>3. QED
    BY <1>1, <2>2
<1>6. /\ node' \in [Node -> Record] /\ node'[n].tip = node[n].tip /\ node'[n].block = {b}
      /\ \A k \in Node : k # n => node'[k] = node[k]
      /\ current' \in [Node -> SUBSET Blocks] /\ adding' \in [Node -> SUBSET Blocks]
      /\ \A k \in Node : current'[k] \subseteq current[k] /\ adding'[k] \subseteq adding[k] \cup {b}
      /\ Context' /\ MinerHoldsBlock' /\ MinedWasAgreed'
  <2>1. r.tip = node[n].tip /\ r.state = "waitingAgree" /\ r.block = {b}
        /\ r.preSigns \subseteq node[n].preSigns /\ Agree(n, r, signs)
    BY <1>2, <1>4
  <2>2. QED
    BY <1>1, <1>3, <1>5, <2>1, AgreeStep
<1>7. Types'
  BY <1>1, <1>6 DEF Types
<1>8. CopyNumbers'
  BY <1>1 DEF CopyNumbers, Alike
<1>9. OnlyMade'
  BY <1>1, <1>3, <1>6 DEF OnlyMade
<1>10. ProposedOnce'
  BY <1>6 DEF ProposedOnce
<1>11. Retired'
  <2>1. ASSUME NEW k \in Node, Len(node'[k].tip) >= MaxHeight
        PROVE  /\ node'[k].state \in {"waitingCreate", "waitingProposal"}
               /\ tasks'[k] = {} /\ \A j \in Node : channel'[<<j, k>>] = <<>>
    <3>1. k # n
      BY <1>1, <1>6, <2>1, DbftConstants
    <3>2. node'[k] = node[k]
      BY <1>6, <3>1
    <3>3. QED
      BY <1>1, <2>1, <3>2 DEF Retired
  <2>2. QED
    BY <2>1 DEF Retired
<1>12. QED
  BY <1>1, <1>6, <1>7, <1>8, <1>9, <1>10, <1>11

\* An early response is kept with the block its sender has signed.
LEMMA ResponseKept ==
    ASSUME IInv, NEW n \in Node, NEW m \in Node, Receive(n, m), NEW b \in Blocks,
           b \in signed[m], node[n].state \in {"waitingProposal", "waitingVerify"},
           Become(n, [node[n] EXCEPT !.preSigns = @ \cup {<<m, b>>}]), UNCHANGED miner
    PROVE  IInv'
<1> USE DEF IInv
<1>1. /\ Len(node[n].tip) \in Nat /\ Len(node[n].tip) < MaxHeight
      /\ Grows /\ UNCHANGED <<mined, made, signed, tasks, current, adding>>
      /\ channel' \in [Node \X Node -> Seq(Package)] /\ Packages'
      /\ \A j, k \in Node : Len(node[k].tip) >= MaxHeight => channel'[<<j, k>>] = channel[<<j, k>>]
  BY Taken DEF miner
<1>2. PICK s \in Record : /\ node' = [node EXCEPT ![n] = s] /\ s.tip = node[n].tip
                          /\ s.state = node[n].state /\ s.block = node[n].block
                          /\ s.preSigns = node[n].preSigns \cup {<<m, b>>}
  <2>1. node[n] \in Record
    BY DEF Types
  <2>2. node[n].preSigns \cup {<<m, b>>} \in Responses
    BY <2>1 DEF Record, Responses
  <2>3. [node[n] EXCEPT !.preSigns = @ \cup {<<m, b>>}] \in Record
    BY <2>1, <2>2 DEF Record
  <2>4. QED
    BY <2>1, <2>3 DEF Become, Record
<1>3. /\ node' \in [Node -> Record] /\ node'[n] = s
      /\ \A k \in Node : k # n => node'[k] = node[k]
  BY <1>2 DEF Types
<1>4. Types'
  BY <1>1, <1>3 DEF Types
<1>5. CopyNumbers' /\ OnlyMade' /\ MinedWasAgreed'
  BY <1>1, ZenonT(60) DEF CopyNumbers, Alike, OnlyMade, MinedWasAgreed, Signers
<1>6. Context'
  <2>1. ASSUME NEW k \in Node, k # n PROVE ContextOf(k)'
    BY <1>1, <1>3, <2>1, ContextKept DEF Context
  <2>2. ContextOf(n)'
    <3>1. ContextOf(n)
      BY DEF Context
    <3>2. \A j \in Node, c \in Blocks : <<j, c>> \in s.preSigns => c \in signed'[j]
      BY <1>1, <1>2, <3>1 DEF ContextOf
    <3>3. s.block \subseteq {c \in made' : IsPreBlock(s.tip, c)} /\ (s.block # {} <=> s.state \in Busy)
      BY <1>1, <1>2, <3>1 DEF ContextOf
    <3>4. QED
      BY <1>2, <1>3, <3>2, <3>3 DEF ContextOf
  <2>3. QED
    BY <2>1, <2>2 DEF Context
<1>7. \A k \in Node : /\ node'[k].tip = node[k].tip /\ node'[k].state = node[k].state
                      /\ node'[k].block = node[k].block
  BY <1>2, <1>3
<1>8. ProposedOnce' /\ MinerHoldsBlock'
  BY <1>1, <1>7 DEF ProposedOnce, MinerHoldsBlock
<1>9. Retired'
  BY <1>1, <1>7, SMTT(30) DEF Retired
<1>10. QED
  BY <1>1, <1>4, <1>5, <1>6, <1>8, <1>9

\* A package of any kind, taken in any state.
LEMMA ReceiveIInv == \A n, m \in Node : IInv /\ Receive(n, m) => IInv'
<1> SUFFICES ASSUME NEW n \in Node, NEW m \in Node, IInv, Receive(n, m) PROVE IInv'
  OBVIOUS
<1>1. /\ Len(node[n].tip) \in Nat /\ Len(node[n].tip) < MaxHeight
      /\ Grows /\ UNCHANGED <<mined, made, signed>>
      /\ channel' \in [Node \X Node -> Seq(Package)] /\ Packages'
      /\ \A j, k \in Node : Len(node[k].tip) >= MaxHeight => channel'[<<j, k>>] = channel[<<j, k>>]
  BY Taken
<1>2. PICK p \in Package : p = Head(channel[<<m, n>>]) /\ Sent(m, n, p)
  BY Taken
<1>3. node \in [Node -> Record] /\ node[n] \in Record
  BY DEF IInv, Types
<1>4. CASE UNCHANGED <<node, miner>>
  <2>1. node' = [node EXCEPT ![n] = node[n]] /\ UNCHANGED miner
    BY <1>3, <1>4
  <2>2. node[n] = [node[n] EXCEPT !.changeView = node[n].changeView]
    BY <1>3 DEF Record
  <2>3. QED
    BY <1>1, <1>3, <2>1, <2>2, ViewStep
<1>5. CASE p.type = "prepareRequest" /\ OnPrepareRequest(n, p.block) /\ ~UNCHANGED <<node, miner>>
  <2>1. PICK b \in Blocks : b = p.block
    BY <1>5 DEF Package
  <2>2. b \in made /\ Last(b).miner # n
    BY <1>2, <1>5, <2>1 DEF Sent
  <2>3. /\ node[n].state = "waitingProposal" /\ IsPreBlock(node[n].tip, b)
        /\ Become(n, [node[n] EXCEPT !.state = "waitingVerify", !.block = {b}])
        /\ StartTask(n, b, "execute") /\ UNCHANGED adding
    BY <1>5, <2>1 DEF OnPrepareRequest
  <2>4. QED
    BY <2>2, <2>3, RequestTaken
<1>6. CASE p.type = "prepareResponse" /\ OnPrepareResponse(n, m, p.block) /\ ~UNCHANGED <<node, miner>>
  <2>1. PICK b \in Blocks : b = p.block
    BY <1>6 DEF Package
  <2>2. b \in signed[m]
    BY <1>2, <1>6, <2>1 DEF Sent
  <2>3. \/ /\ node[n].state = "waitingAgree" /\ node[n].block = {b}
           /\ Agree(n, node[n], node[n].signs \cup {m}) /\ UNCHANGED tasks
        \/ /\ node[n].state \in {"waitingProposal", "waitingVerify"}
           /\ Become(n, [node[n] EXCEPT !.preSigns = @ \cup {<<m, b>>}]) /\ UNCHANGED miner
    BY <1>6, <2>1 DEF OnPrepareResponse
  <2>4. QED
    BY <2>2, <2>3, ResponseCounted, ResponseKept
<1>7. CASE /\ p.type = "changeview" /\ UNCHANGED miner
           /\ \E s \in OnChangeView(n, node[n], m, p.view) : Become(n, s)
  <2>1. PICK view \in 1..MaxView : view = p.view
    BY <1>7 DEF Package
  <2>2. PICK s \in OnChangeView(n, node[n], m, view) : node' = [node EXCEPT ![n] = s]
    BY <1>7, <2>1 DEF Become
  <2>3. /\ s \in Record /\ s.tip = node[n].tip
        /\ s = [node[n] EXCEPT !.changeView = s.changeView] \/ Fresh(s)
    BY <1>3, OnChangeViewResult
  <2>4. \/ s = [node[n] EXCEPT !.changeView = s.changeView]
        \/ /\ s.state \notin Busy /\ s.block = {} /\ s.preSigns = {}
           /\ Len(s.tip) < MaxHeight \/ Fresh(s)
    BY <2>3 DEF Fresh, Busy
  <2>5. QED
    BY <1>1, <1>7, <2>2, <2>3, <2>4, ViewStep
<1>8. QED
  BY <1>2, <1>4, <1>5, <1>6, <1>7 DEF Receive

----------------------------------------------------------------------------
\* The results

\* Nothing has been created, sent or signed.
LEMMA InitIInv == Init => IInv
<1> SUFFICES ASSUME Init PROVE IInv
  OBVIOUS
<1>1. \A n \in Node : node[n] \in Record /\ Fresh(node[n]) /\ node[n].tip = Genesis
  <2>1. Genesis \in Blocks
    BY DEF Genesis, Blocks
  <2>2. QED
    BY <2>1, EmptyFields DEF Init, Record, States, Fresh
<1>2. node \in [Node -> Record]
  BY <1>1 DEF Init
<1>3. channel \in [Node \X Node -> Seq(Package)] /\ \A m, n \in Node : channel[<<m, n>>] = <<>>
  <2>1. <<>> \in Seq(Package)
    OBVIOUS
  <2>2. QED
    BY <2>1 DEF Init
<1>4. /\ mined = {} /\ made = {} /\ IsFiniteSet({})
      /\ tasks = [n \in Node |-> {}] /\ current = [n \in Node |-> {}]
      /\ adding = [n \in Node |-> {}] /\ signed = [n \in Node |-> {}]
  BY FS_EmptySet DEF Init
<1>5. Types /\ CopyNumbers /\ OnlyMade
  BY <1>2, <1>3, <1>4 DEF Types, CopyNumbers, OnlyMade
<1>6. Context
  BY <1>1 DEF Context, ContextOf, Fresh, Busy
<1>7. Packages
  <2>1. ToSet(<<>>) = {}
    BY DEF ToSet
  <2>2. QED
    BY <1>3, <2>1 DEF Packages
<1>8. ProposedOnce /\ Retired
  BY <1>1, <1>3, <1>4 DEF ProposedOnce, Retired, Fresh
<1>9. MinedWasAgreed /\ MinerHoldsBlock
  BY <1>1, <1>4 DEF MinedWasAgreed, MinerHoldsBlock, Fresh
<1>10. QED
  BY <1>5, <1>6, <1>7, <1>8, <1>9 DEF IInv

\* Every step of a validator, a timer or a connection.
LEMMA NextIInv == IInv /\ [Next]_vars => IInv'
<1> SUFFICES ASSUME IInv, [Next]_vars PROVE IInv'
  OBVIOUS
<1>1. CASE Progress
  BY <1>1, CreateTimeoutIInv, NewProposalIInv, AgreeProposalIInv, AddedIInv, ReceiveIInv DEF Progress
<1>2. CASE \E n \in Node : ViewTimeout(n)
  BY <1>2, ViewTimeoutIInv
<1>3. CASE UNCHANGED vars
  <2>1. UNCHANGED <<node, tasks, current, adding, channel, mined, made, signed>>
    BY <1>3 DEF vars, miner
  <2>2. Types' /\ CopyNumbers' /\ OnlyMade'
    BY <2>1 DEF IInv, Types, CopyNumbers, Alike, OnlyMade
  <2>3. Context'
    BY <2>1 DEF IInv, Context, ContextOf, Signers
  <2>4. Packages'
    BY <2>1 DEF IInv, Packages, Sent
  <2>5. ProposedOnce' /\ Retired' /\ MinerHoldsBlock'
    BY <2>1 DEF IInv, ProposedOnce, Retired, MinerHoldsBlock
  <2>6. MinedWasAgreed'
    BY <2>1 DEF IInv, MinedWasAgreed, Signers
  <2>7. QED
    BY <2>2, <2>3, <2>4, <2>5, <2>6 DEF IInv
<1>4. QED
  BY <1>1, <1>2, <1>3 DEF Next

\* The inductive invariant: every signature that is counted, kept or under way
\* was given to that block by that validator, and a context, a proposal and a
\* miner's routine never disagree about the block.
THEOREM DbftInvariant == Spec => []IInv
BY InitIInv, NextIInv, PTL DEF Spec

\* The parts of the invariant give the run's type invariant: what is kept or
\* signed has been created.
LEMMA IInvTypeOK == IInv => TypeOK
<1> SUFFICES ASSUME IInv PROVE TypeOK
  OBVIOUS
<1>1. ASSUME NEW n \in Node
      PROVE  /\ node[n].state \in States /\ node[n].view \in 0..MaxView
             /\ node[n].block \subseteq {b \in made : IsPreBlock(node[n].tip, b)}
             /\ (node[n].block # {} <=>
                  node[n].state \in {"waitingVerify", "waitingAgree", "waitingBlock"})
             /\ node[n].signs \subseteq Node
             /\ node[n].preSigns \subseteq Node \X made
             /\ node[n].changeView \subseteq Node \X (1..MaxView)
             /\ tasks[n] \subseteq made \X {"propose", "execute"}
             /\ current[n] \cup adding[n] \cup signed[n] \subseteq made
  <2>1. node[n] \in Record
    BY DEF IInv, Types
  <2>2. ContextOf(n)
    BY DEF IInv, Context
  <2>3. /\ node[n].state \in States /\ node[n].view \in 0..MaxView
        /\ node[n].signs \subseteq Node /\ node[n].preSigns \subseteq Node \X Blocks
        /\ node[n].changeView \subseteq Node \X (1..MaxView)
    BY <2>1 DEF Record, Views, Signatures, Responses, Votes
  <2>4. /\ node[n].block \subseteq {b \in made : IsPreBlock(node[n].tip, b)}
        /\ (node[n].block # {} <=>
             node[n].state \in {"waitingVerify", "waitingAgree", "waitingBlock"})
    BY <2>2 DEF ContextOf, Busy
  <2>5. OnlyMade
    BY DEF IInv
  <2>6. node[n].preSigns \subseteq Node \X made
    <3>1. \A m \in Node, b \in Blocks : <<m, b>> \in node[n].preSigns => b \in made
      BY <2>2, <2>5 DEF ContextOf, OnlyMade
    <3>2. QED
      BY <2>3, <3>1
  <2>7. QED
    BY <2>3, <2>4, <2>5, <2>6 DEF OnlyMade
<1>2. mined \subseteq made
  BY DEF IInv, Types
<1>3. QED
  BY <1>1, <1>2 DEF TypeOK

\* What the run of the validators checks: whatever the order of proposals,
\* responses, votes and timers, a block is mined only with the signatures of
\* validators that reach the agree rate and have each executed it, and a node
\* that counts signatures has its miner waiting for that very block.
THEOREM DbftAgreementHolds == Spec => []AgreementHolds
<1>1. IInv => AgreementHolds
  BY IInvTypeOK DEF IInv, AgreementHolds
<1>2. QED
  BY <1>1, DbftInvariant, PTL

----------------------------------------------------------------------------
(* The pool of pending transactions *)

F == INSTANCE FoldProofs WITH Op <- LAMBDA a, b : a

NoncesIn(pool, a) == {Nonce[t] : t \in SentBy(ToSet(pool), a)}

\* The pool's transactions of an address can be executed on the chain S, and the
\* nonce remembered of the address is one of theirs.
Ready(S, pool, nonces, a) ==
    /\ \E top \in Int : /\ StorageNonce(S, a) <= top
                        /\ NoncesIn(pool, a) = (StorageNonce(S, a) + 1)..top
    /\ a \in DOMAIN nonces => nonces[a] \in NoncesIn(pool, a)

AllOf(orph) == UNION {ToSet(orph[a]) : a \in Address}

\* The orphans of an address are its own, one for a nonce.
OwnOrphans(l, a) ==
    /\ IsInjective(l)
    /\ \A t \in ToSet(l) : From[t] = a
    /\ \A t, u \in ToSet(l) : Nonce[t] = Nonce[u] => t = u

\* The containers hold each submission once.
Apart(pool, orph, waiting, inHand) ==
    /\ IsInjective(pool) /\ IsInjective(waiting)
    /\ \A a \in Address : OwnOrphans(orph[a], a)
    /\ ToSet(pool) \cap AllOf(orph) = {} /\ ToSet(pool) \cap ToSet(waiting) = {}
    /\ ToSet(pool) \cap inHand = {}
    /\ AllOf(orph) \cap ToSet(waiting) = {} /\ AllOf(orph) \cap inHand = {}
    /\ ToSet(waiting) \cap inHand = {}

\* How many the pool, the orphans and the queue hold.
Amount(pool, orph, waiting) ==
    Len(pool) + OrphanCount(orph) + Len(waiting)

PoolTypes ==
    /\ storageView \in Chains /\ loading \in SUBSET Chains
    /\ transactions \in Seq(Tx)
    /\ orphans \in [Address -> Seq(Tx)]
    /\ DOMAIN mapNonce \subseteq Address /\ mapNonce \in [DOMAIN mapNonce -> Int]
    /\ DOMAIN balances \subseteq Address /\ balances \in [DOMAIN balances -> Int]
    /\ queueOpt \in Seq(Tx \cup {TipOpt}) /\ WithoutTip(queueOpt) \in Seq(Tx)
    /\ stage \in {"idle", "timeout", "storageNonce", "nonce", "check", "added", "scan"}
    /\ cur \in Tx \cup {None} /\ (cur = None <=> stage = "idle")
    /\ cur = None => queueOpt = <<>>
    /\ old \in SUBSET Tx
    /\ val \in Int /\ read \in BOOLEAN
    /\ expired \subseteq MayExpire
    /\ tips \in 0..MaxTips /\ faults \in 0..MaxFault

\* What is known of the transaction being added before each await.  What was read
\* of the chain is still true of it unless a new tip waits in the queue.
Stages ==
    /\ stage \in {"idle", "timeout", "storageNonce", "nonce", "scan"} => old = {}
    /\ stage = "check" =>
         \/ old = {}
         \/ /\ Rivals(cur) # {} /\ old = {transactions[Min(Rivals(cur))]}
            /\ Replaces(cur, transactions[Min(Rivals(cur))])
    /\ stage = "added" => cur \in ToSet(transactions) /\ IsFiniteSet(old)

StillTrue ==
    LET a == From[cur]
        S == StorageNonce(storageView, a)
    IN  /\ stage = "storageNonce" => val = S
        /\ stage = "nonce" =>
             Nonce[cur] > S /\ val = IF a \in DOMAIN mapNonce THEN mapNonce[a] ELSE S
        /\ stage = "check" =>
             /\ Nonce[cur] > S
             /\ old = {} => (S + 1)..(Nonce[cur] - 1) \subseteq NoncesIn(transactions, a)

PoolIInv ==
    /\ PoolTypes /\ Stages
    /\ Apart(transactions, orphans, WithoutTip(queueOpt), Adding)
    /\ Amount(transactions, orphans, WithoutTip(queueOpt)) + Cardinality(Adding) <= MaxCount + 1
    /\ ~HasTip(queueOpt) =>
         StillTrue /\ \A a \in Address : Ready(storageView, transactions, mapNonce, a)

----------------------------------------------------------------------------
(* Sequences without repetition *)

\* A member of a sequence has an index.
LEMMA InToSet ==
    ASSUME NEW S, NEW s \in Seq(S), NEW t
    PROVE  t \in ToSet(s) <=> \E i \in 1..Len(s) : t = s[i]
BY DEF ToSet

\* The first of a sequence that is not empty.
LEMMA FirstIn == \A s \in Seq(Tx) : s # <<>> => s[1] \in Tx
OBVIOUS

\* Appending one that is not there.
LEMMA AppendOnce ==
    ASSUME NEW S, NEW s \in Seq(S), NEW e \in S
    PROVE  /\ Append(s, e) \in Seq(S) /\ Len(Append(s, e)) = Len(s) + 1
           /\ ToSet(Append(s, e)) = ToSet(s) \cup {e}
           /\ IsInjective(s) /\ e \notin ToSet(s) => IsInjective(Append(s, e))
<1> DEFINE t == Append(s, e)
<1>1. /\ t \in Seq(S) /\ Len(t) = Len(s) + 1 /\ Len(s) \in Nat
      /\ \A i \in 1..Len(s) : t[i] = s[i]
      /\ t[Len(s) + 1] = e
  BY AppendProperties
<1>2. DOMAIN s = 1..Len(s) /\ DOMAIN t = 1..(Len(s) + 1)
  BY <1>1
<1> HIDE DEF t
<1>3. ToSet(t) = ToSet(s) \cup {e}
  BY <1>1, <1>2 DEF ToSet
<1>4. ASSUME IsInjective(s), e \notin ToSet(s) PROVE IsInjective(t)
  <2> SUFFICES ASSUME NEW i \in DOMAIN t, NEW j \in DOMAIN t, t[i] = t[j] PROVE i = j
    BY DEF IsInjective
  <2>1. \A k \in 1..Len(s) : s[k] # e
    BY <1>2, <1>4 DEF ToSet
  <2>2. QED
    BY <2>1, <1>1, <1>2, <1>4 DEF IsInjective
<1>5. QED
  BY <1>1, <1>3, <1>4 DEF t

\* Taking the first.
LEMMA TailOnce ==
    ASSUME NEW S, NEW s \in Seq(S), s # <<>>
    PROVE  /\ Head(s) \in S /\ Tail(s) \in Seq(S)
           /\ Len(s) \in Nat /\ Len(s) > 0 /\ Len(Tail(s)) = Len(s) - 1
           /\ ToSet(s) = ToSet(Tail(s)) \cup {Head(s)}
           /\ IsInjective(s) => IsInjective(Tail(s)) /\ Head(s) \notin ToSet(Tail(s))
<1> DEFINE t == Tail(s)
<1>1. /\ Head(s) \in S /\ t \in Seq(S) /\ Len(t) = Len(s) - 1
      /\ \A i \in 1..Len(t) : t[i] = s[i + 1]
  BY HeadTailProperties
<1>2. Len(s) \in Nat /\ Len(s) > 0 /\ Head(s) = s[1]
  OBVIOUS
<1>3. DOMAIN s = 1..Len(s) /\ DOMAIN t = 1..(Len(s) - 1)
  BY <1>1, <1>2
<1> HIDE DEF t
<1>4. \A i \in 1..Len(s) : i = 1 \/ (i - 1 \in 1..Len(t) /\ s[i] = t[i - 1])
  BY <1>1, <1>2
<1>5. \A i \in 1..Len(t) : i + 1 \in 1..Len(s) /\ i + 1 # 1 /\ t[i] = s[i + 1]
  BY <1>1, <1>2
<1>6. ToSet(s) = ToSet(t) \cup {Head(s)}
  <2>1. ASSUME NEW x \in ToSet(s) PROVE x \in ToSet(t) \cup {Head(s)}
    BY <2>1, <1>1, <1>2, <1>3, <1>4, SMTT(30) DEF ToSet
  <2>2. ASSUME NEW x \in ToSet(t) PROVE x \in ToSet(s)
    BY <2>2, <1>1, <1>3, <1>5 DEF ToSet
  <2>3. Head(s) \in ToSet(s)
    BY <1>2, <1>3 DEF ToSet
  <2>4. QED
    BY <2>1, <2>2, <2>3
<1>7. ASSUME IsInjective(s) PROVE IsInjective(t) /\ Head(s) \notin ToSet(t)
  <2>1. \A i, j \in 1..Len(s) : s[i] = s[j] => i = j
    BY <1>3, <1>7 DEF IsInjective
  <2>2. \A i, j \in 1..Len(t) : t[i] = t[j] => i = j
    BY <2>1, <1>5
  <2>3. \A i \in 1..Len(t) : t[i] # Head(s)
    BY <2>1, <1>2, <1>5
  <2>4. QED
    BY <2>2, <2>3, <1>1, <1>2, <1>3 DEF IsInjective, ToSet
<1>8. QED
  BY <1>1, <1>2, <1>6, <1>7 DEF t

\* Joining two.
LEMMA ConcatOnce ==
    ASSUME NEW S, NEW s \in Seq(S), NEW t \in Seq(S)
    PROVE  /\ s \o t \in Seq(S) /\ Len(s \o t) = Len(s) + Len(t)
           /\ ToSet(s \o t) = ToSet(s) \cup ToSet(t)
           /\ IsInjective(s) /\ IsInjective(t) /\ ToSet(s) \cap ToSet(t) = {}
                => IsInjective(s \o t)
<1> DEFINE u == s \o t
<1>1. /\ u \in Seq(S) /\ Len(u) = Len(s) + Len(t)
      /\ \A i \in 1..(Len(s) + Len(t)) : u[i] = IF i <= Len(s) THEN s[i] ELSE t[i - Len(s)]
      /\ Len(s) \in Nat /\ Len(t) \in Nat
  BY ConcatProperties
<1>2. DOMAIN s = 1..Len(s) /\ DOMAIN t = 1..Len(t) /\ DOMAIN u = 1..(Len(s) + Len(t))
  BY <1>1
<1> HIDE DEF u
<1>3. \A i \in DOMAIN u : \/ i \in DOMAIN s /\ u[i] = s[i]
                          \/ i - Len(s) \in DOMAIN t /\ u[i] = t[i - Len(s)]
  BY <1>1, <1>2
<1>4. /\ \A i \in DOMAIN s : i \in DOMAIN u /\ u[i] = s[i]
      /\ \A i \in DOMAIN t : i + Len(s) \in DOMAIN u /\ u[i + Len(s)] = t[i]
  BY <1>1, <1>2
<1>5. ToSet(u) = ToSet(s) \cup ToSet(t)
  BY <1>3, <1>4 DEF ToSet
<1>6. ASSUME IsInjective(s), IsInjective(t), ToSet(s) \cap ToSet(t) = {}
      PROVE  IsInjective(u)
  <2> SUFFICES ASSUME NEW i \in DOMAIN u, NEW j \in DOMAIN u, u[i] = u[j] PROVE i = j
    BY DEF IsInjective
  <2>1. \A k \in DOMAIN s, l \in DOMAIN t : s[k] # t[l]
    BY <1>6 DEF ToSet
  <2>2. i \in Int /\ j \in Int /\ Len(s) \in Int
    BY <1>1, <1>2
  <2>3. CASE i \in DOMAIN s /\ u[i] = s[i] /\ j \in DOMAIN s /\ u[j] = s[j]
    BY <2>3, <1>6 DEF IsInjective
  <2>4. CASE /\ i - Len(s) \in DOMAIN t /\ u[i] = t[i - Len(s)]
             /\ j - Len(s) \in DOMAIN t /\ u[j] = t[j - Len(s)]
    <3>1. i - Len(s) = j - Len(s)
      BY <2>4, <1>6 DEF IsInjective
    <3>2. QED
      BY <3>1, <2>2
  <2>5. CASE \/ /\ i \in DOMAIN s /\ u[i] = s[i]
                /\ j - Len(s) \in DOMAIN t /\ u[j] = t[j - Len(s)]
             \/ /\ j \in DOMAIN s /\ u[j] = s[j]
                /\ i - Len(s) \in DOMAIN t /\ u[i] = t[i - Len(s)]
    BY <2>1, <2>5
  <2>6. QED
    BY <2>3, <2>4, <2>5, <1>3
<1>7. QED
  BY <1>1, <1>5, <1>6 DEF u

\* A part of a sequence.
LEMMA PartOnce ==
    ASSUME NEW S, NEW s \in Seq(S), NEW m \in Nat, NEW n \in Nat, m >= 1, n <= Len(s)
    PROVE  /\ SubSeq(s, m, n) \in Seq(S)
           /\ m <= n + 1 => Len(SubSeq(s, m, n)) = n - m + 1
           /\ \A i \in 1..(n - m + 1) : SubSeq(s, m, n)[i] = s[m + i - 1]
           /\ \A t : t \in ToSet(SubSeq(s, m, n)) <=> \E k \in m..n : t = s[k]
           /\ IsInjective(s) => IsInjective(SubSeq(s, m, n))
<1> DEFINE u == SubSeq(s, m, n)
<1>0. \A i \in m..n : s[i] \in S
  OBVIOUS
<1>1. /\ u \in Seq(S) /\ (m <= n + 1 => Len(u) = n - m + 1)
      /\ \A i \in 1..(n - m + 1) : u[i] = s[m + i - 1]
  BY <1>0, SubSeqProperties
<1>2. DOMAIN s = 1..Len(s) /\ DOMAIN u = 1..(n - m + 1) /\ Len(s) \in Nat
  BY <1>0, SubSeqProperties
<1> HIDE DEF u
<1>3. \A i \in DOMAIN u : m + i - 1 \in m..n /\ m + i - 1 \in DOMAIN s /\ u[i] = s[m + i - 1]
  BY <1>1, <1>2
<1>4. \A k \in m..n : k - m + 1 \in DOMAIN u /\ u[k - m + 1] = s[k]
  <2> SUFFICES ASSUME NEW k \in m..n PROVE k - m + 1 \in DOMAIN u /\ u[k - m + 1] = s[k]
    OBVIOUS
  <2>1. PICK i : i = k - m + 1
    OBVIOUS
  <2>2. i \in 1..(n - m + 1) /\ m + i - 1 = k
    BY <2>1
  <2>3. u[i] = s[k]
    BY <2>2, <1>1
  <2>4. QED
    BY <2>1, <2>2, <2>3, <1>2
<1>5. ASSUME NEW t PROVE t \in ToSet(u) <=> \E k \in m..n : t = s[k]
  BY <1>3, <1>4 DEF ToSet
<1>6. ASSUME IsInjective(s) PROVE IsInjective(u)
  <2> SUFFICES ASSUME NEW i \in DOMAIN u, NEW j \in DOMAIN u, u[i] = u[j] PROVE i = j
    BY DEF IsInjective
  <2>1. m + i - 1 = m + j - 1
    BY <1>3, <1>6 DEF IsInjective
  <2>2. i \in Int /\ j \in Int
    BY <1>2
  <2>3. QED
    BY <2>1, <2>2
<1>7. QED
  BY <1>1, <1>5, <1>6 DEF u

\* Inserting one that is not there.
LEMMA InsertOnce ==
    ASSUME NEW S, NEW s \in Seq(S), NEW i \in 1..(Len(s) + 1), NEW e \in S
    PROVE  /\ InsertAt(s, i, e) \in Seq(S) /\ Len(InsertAt(s, i, e)) = Len(s) + 1
           /\ ToSet(InsertAt(s, i, e)) = ToSet(s) \cup {e}
           /\ IsInjective(s) /\ e \notin ToSet(s) => IsInjective(InsertAt(s, i, e))
<1>1. PICK a, b, c, d : /\ a = SubSeq(s, 1, i - 1) /\ b = SubSeq(s, i, Len(s))
                        /\ c = <<e>> /\ d = a \o c
  OBVIOUS
<1>2. Len(s) \in Nat /\ i \in Nat /\ i >= 1 /\ i <= Len(s) + 1 /\ i - 1 \in Nat
  OBVIOUS
<1>3. /\ a \in Seq(S) /\ Len(a) = i - 1
      /\ \A t : t \in ToSet(a) <=> \E k \in 1..(i - 1) : t = s[k]
      /\ IsInjective(s) => IsInjective(a)
  <2>1. PICK n \in Nat : n = i - 1 /\ n <= Len(s) /\ n - 1 + 1 = n /\ 1 <= n + 1
    BY <1>2
  <2>2. a = SubSeq(s, 1, n)
    BY <2>1, <1>1
  <2>3. /\ a \in Seq(S) /\ Len(a) = n - 1 + 1
        /\ \A t : t \in ToSet(a) <=> \E k \in 1..n : t = s[k]
        /\ IsInjective(s) => IsInjective(a)
    BY <2>1, <2>2, PartOnce
  <2>4. QED
    BY <2>1, <2>3
<1>4. /\ b \in Seq(S) /\ Len(b) = Len(s) - i + 1
      /\ \A t : t \in ToSet(b) <=> \E k \in i..Len(s) : t = s[k]
      /\ IsInjective(s) => IsInjective(b)
  <2>1. PICK n \in Nat : n = Len(s) /\ i <= n + 1 /\ n - i + 1 = Len(s) - i + 1
    BY <1>2
  <2>2. b = SubSeq(s, i, n)
    BY <2>1, <1>1
  <2>3. /\ b \in Seq(S) /\ Len(b) = n - i + 1
        /\ \A t : t \in ToSet(b) <=> \E k \in i..n : t = s[k]
        /\ IsInjective(s) => IsInjective(b)
    BY <2>1, <2>2, <1>2, PartOnce
  <2>4. QED
    BY <2>1, <2>3
<1>5. c \in Seq(S) /\ Len(c) = 1 /\ ToSet(c) = {e} /\ IsInjective(c)
  BY <1>1 DEF ToSet, IsInjective
<1>6. InsertAt(s, i, e) = d \o b
  BY <1>1 DEF InsertAt
<1>7. /\ d \in Seq(S) /\ Len(d) = Len(a) + Len(c) /\ ToSet(d) = ToSet(a) \cup ToSet(c)
      /\ IsInjective(a) /\ IsInjective(c) /\ ToSet(a) \cap ToSet(c) = {} => IsInjective(d)
  <2>1. a \in Seq(S) /\ c \in Seq(S) /\ d = a \o c
    BY <1>1, <1>3, <1>5
  <2>2. QED
    BY <2>1, ConcatOnce
<1>8. /\ d \o b \in Seq(S) /\ Len(d \o b) = Len(d) + Len(b)
      /\ ToSet(d \o b) = ToSet(d) \cup ToSet(b)
      /\ IsInjective(d) /\ IsInjective(b) /\ ToSet(d) \cap ToSet(b) = {} => IsInjective(d \o b)
  BY <1>4, <1>7, ConcatOnce
<1>9. ToSet(s) = ToSet(a) \cup ToSet(b)
  <2>1. \A t : t \in ToSet(s) <=> \E k \in 1..Len(s) : t = s[k]
    BY InToSet
  <2>2. 1..Len(s) = (1..(i - 1)) \cup (i..Len(s))
    BY <1>2
  <2>3. QED
    BY <2>1, <2>2, <1>3, <1>4
<1>10. ASSUME IsInjective(s), e \notin ToSet(s) PROVE IsInjective(d \o b)
  <2>1. \A k \in 1..(i - 1), l \in i..Len(s) : s[k] # s[l]
    BY <1>2, <1>10 DEF IsInjective
  <2>2. ToSet(a) \cap ToSet(b) = {}
    BY <2>1, <1>3, <1>4
  <2>3. QED
    BY <2>2, <1>3, <1>4, <1>5, <1>7, <1>8, <1>9, <1>10
<1>11. QED
  BY <1>2, <1>3, <1>4, <1>5, <1>6, <1>7, <1>8, <1>9, <1>10

\* Removing one.
LEMMA RemoveOnce ==
    ASSUME NEW S, NEW s \in Seq(S), NEW i \in 1..Len(s)
    PROVE  /\ RemoveAt(s, i) \in Seq(S) /\ Len(RemoveAt(s, i)) = Len(s) - 1
           /\ ToSet(s) = ToSet(RemoveAt(s, i)) \cup {s[i]}
           /\ IsInjective(s) => /\ IsInjective(RemoveAt(s, i))
                                /\ s[i] \notin ToSet(RemoveAt(s, i))
<1>1. PICK a, b : a = SubSeq(s, 1, i - 1) /\ b = SubSeq(s, i + 1, Len(s))
  OBVIOUS
<1>2. /\ Len(s) \in Nat /\ i \in Nat /\ i >= 1 /\ i <= Len(s)
      /\ i - 1 \in Nat /\ i - 1 <= Len(s) /\ i + 1 \in Nat /\ i - 1 - 1 + 1 = i - 1
  OBVIOUS
<1>3. /\ a \in Seq(S) /\ Len(a) = i - 1
      /\ \A t : t \in ToSet(a) <=> \E k \in 1..(i - 1) : t = s[k]
      /\ IsInjective(s) => IsInjective(a)
  <2>1. PICK n \in Nat : n = i - 1 /\ n <= Len(s) /\ n - 1 + 1 = n /\ 1 <= n + 1
    BY <1>2
  <2>2. a = SubSeq(s, 1, n)
    BY <2>1, <1>1
  <2>3. /\ a \in Seq(S) /\ Len(a) = n - 1 + 1
        /\ \A t : t \in ToSet(a) <=> \E k \in 1..n : t = s[k]
        /\ IsInjective(s) => IsInjective(a)
    BY <2>1, <2>2, PartOnce
  <2>4. QED
    BY <2>1, <2>3
<1>4. /\ b \in Seq(S) /\ Len(b) = Len(s) - i
      /\ \A t : t \in ToSet(b) <=> \E k \in (i + 1)..Len(s) : t = s[k]
      /\ IsInjective(s) => IsInjective(b)
  <2>1. PICK m, n \in Nat : /\ m = i + 1 /\ n = Len(s)
                            /\ m >= 1 /\ m <= n + 1 /\ n - m + 1 = Len(s) - i
    BY <1>2
  <2>2. b = SubSeq(s, m, n)
    BY <2>1, <1>1
  <2>3. /\ b \in Seq(S) /\ Len(b) = n - m + 1
        /\ \A t : t \in ToSet(b) <=> \E k \in m..n : t = s[k]
        /\ IsInjective(s) => IsInjective(b)
    BY <2>1, <2>2, PartOnce
  <2>4. QED
    BY <2>1, <2>3
<1>5. RemoveAt(s, i) = a \o b
  BY <1>1 DEF RemoveAt
<1>6. /\ a \o b \in Seq(S) /\ Len(a \o b) = Len(a) + Len(b)
      /\ ToSet(a \o b) = ToSet(a) \cup ToSet(b)
      /\ IsInjective(a) /\ IsInjective(b) /\ ToSet(a) \cap ToSet(b) = {} => IsInjective(a \o b)
  BY <1>3, <1>4, ConcatOnce
<1>7. ToSet(s) = ToSet(a) \cup ToSet(b) \cup {s[i]}
  <2>1. \A t : t \in ToSet(s) <=> \E k \in 1..Len(s) : t = s[k]
    BY InToSet
  <2>2. 1..Len(s) = (1..(i - 1)) \cup ((i + 1)..Len(s)) \cup {i}
    BY <1>2
  <2>3. QED
    BY <2>1, <2>2, <1>3, <1>4
<1>8. ASSUME IsInjective(s)
      PROVE  ToSet(a) \cap ToSet(b) = {} /\ s[i] \notin ToSet(a) \cup ToSet(b)
  <2>1. \A k, l \in 1..Len(s) : s[k] = s[l] => k = l
    BY <1>8 DEF IsInjective
  <2>2. \A k \in 1..(i - 1) : k \in 1..Len(s) /\ k < i
    BY <1>2
  <2>3. \A k \in (i + 1)..Len(s) : k \in 1..Len(s) /\ k > i
    BY <1>2
  <2>4. \A k \in 1..(i - 1), l \in (i + 1)..Len(s) : s[k] # s[l]
    BY <2>1, <2>2, <2>3, <1>2
  <2>5. \A k \in (1..(i - 1)) \cup ((i + 1)..Len(s)) : s[k] # s[i]
    BY <2>1, <2>2, <2>3, <1>2
  <2>6. QED
    BY <2>4, <2>5, <1>3, <1>4
<1>9. QED
  BY <1>2, <1>3, <1>4, <1>5, <1>6, <1>7, <1>8

----------------------------------------------------------------------------
(* Sums and nonces *)

\* A set of natural numbers that has a member has a least one.
LEMMA MinIn ==
    ASSUME NEW T, T \subseteq Nat, T # {}
    PROVE  Min(T) \in T /\ \A m \in T : Min(T) <= m
<1>1. \E n \in T : \A m \in T : n <= m
  BY F!LeastNat
<1>2. QED
  BY <1>1 DEF Min

\* The sum of all values of a function.
LEMMA TotalIsSum == ASSUME NEW f PROVE Total(f) = F!Sum(f, DOMAIN f)
BY Zenon DEF Total, F!Sum, MapThenSumSet, MapThenFoldSet, F!MapThenSumSet, F!MapThenFoldSet

\* What some transactions cost is a number.
LEMMA CostType ==
    ASSUME NEW S \in SUBSET Tx, IsFiniteSet(S)
    PROVE  CostOf(S) \in Int
<1>1. PICK f : f = [t \in S |-> Cost[t]]
  OBVIOUS
<1>2. f \in [S -> Int] /\ DOMAIN f = S
  BY <1>1, PoolConstants
<1>3. F!Sum(f, S) \in Int
  <2>1. F!IsFiniteSet(S)
    BY DEF IsFiniteSet, F!IsFiniteSet
  <2>2. PICK g : F!Sums(f, S, g) /\ F!Sum(f, S) = g[S]
    BY <2>1, <1>2, F!SumExists
  <2>3. QED
    BY <2>2 DEF F!Sums
<1>4. Total(f) = F!Sum(f, S)
  BY <1>2, TotalIsSum, Zenon
<1>5. QED
  BY <1>1, <1>3, <1>4 DEF CostOf

\* The number of orphans changes by what one address's list does.
LEMMA OrphansChange ==
    ASSUME NEW orph \in [Address -> Seq(Tx)], NEW a \in Address, NEW l \in Seq(Tx),
           NEW other, other = [orph EXCEPT ![a] = l]
    PROVE  /\ OrphanCount(orph) \in Int
           /\ OrphanCount(other) = OrphanCount(orph) + (Len(l) - Len(orph[a]))
<1>1. PICK f : f = [b \in Address |-> Len(orph[b])]
  OBVIOUS
<1>2. PICK g : g = [b \in Address |-> Len(other[b])]
  OBVIOUS
<1>3. f \in [Address -> Int] /\ DOMAIN f = Address /\ f[a] = Len(orph[a])
  BY <1>1
<1>4. Len(l) \in Int
  OBVIOUS
<1>5. g = [f EXCEPT ![a] = Len(l)] /\ DOMAIN g = Address
  <2>1. \A b \in Address : other[b] = IF b = a THEN l ELSE orph[b]
    OBVIOUS
  <2>2. QED
    BY <2>1, <1>1, <1>2
<1>6. /\ F!Sum(f, Address) \in Int
      /\ F!Sum([f EXCEPT ![a] = Len(l)], Address) = F!Sum(f, Address) + (Len(l) - f[a])
  <2>1. F!IsFiniteSet(Address)
    BY PoolConstants DEF IsFiniteSet, F!IsFiniteSet
  <2>2. QED
    BY <2>1, <1>3, <1>4, F!SumChange
<1>7. Total(f) = F!Sum(f, Address) /\ Total(g) = F!Sum(g, Address)
  BY <1>3, <1>5, TotalIsSum, Zenon
<1>8. /\ Total(f) \in Int
      /\ Total(g) = Total(f) + (Len(l) - Len(orph[a]))
  BY <1>3, <1>5, <1>6, <1>7, Zenon
<1>9. QED
  BY <1>1, <1>2, <1>8, Zenon DEF OrphanCount

\* The number of orphans is a number.
LEMMA OrphansType ==
    ASSUME NEW orph \in [Address -> Seq(Tx)]
    PROVE  OrphanCount(orph) \in Int
<1>1. PICK f : f = [b \in Address |-> Len(orph[b])]
  OBVIOUS
<1>2. f \in [Address -> Int] /\ DOMAIN f = Address
  BY <1>1
<1>3. F!IsFiniteSet(Address)
  BY PoolConstants DEF IsFiniteSet, F!IsFiniteSet
<1>4. PICK g : F!Sums(f, Address, g) /\ F!Sum(f, Address) = g[Address]
  BY <1>2, <1>3, F!SumExists
<1>5. F!Sum(f, Address) \in Int
  BY <1>4 DEF F!Sums
<1>6. Total(f) = F!Sum(f, Address)
  BY <1>2, TotalIsSum, Zenon
<1>7. QED
  BY <1>1, <1>5, <1>6, Zenon DEF OrphanCount

\* An address's nonce on a chain is a number, and so is its balance.
LEMMA ChainTypes ==
    ASSUME NEW S \in Chains, NEW a \in Address
    PROVE  /\ StorageNonce(S, a) \in Int /\ StorageNonce(S, a) >= -1
           /\ StorageBalance(S, a) \in Int
<1>1. S \in SUBSET Tx /\ IsFiniteSet(S)
  BY DEF Chains
<1>2. SentBy(S, a) \in SUBSET Tx /\ SentBy(S, a) \in SUBSET S
  BY <1>1 DEF SentBy
<1>3. IsFiniteSet(SentBy(S, a))
  BY <1>1, <1>2, FS_Subset
<1>4. Cardinality(SentBy(S, a)) \in Nat
  BY <1>3, FS_CardinalityType
<1>5. CostOf(SentBy(S, a)) \in Int
  BY <1>2, <1>3, CostType
<1>6. Funds[a] \in Int
  BY PoolConstants
<1>7. QED
  BY <1>4, <1>5, <1>6 DEF StorageNonce, StorageBalance

\* An address of the pool has a nonce if one of its transactions has it.
LEMMA NonceIn ==
    ASSUME NEW pool, NEW a, NEW n
    PROVE  n \in NoncesIn(pool, a) <=> \E t \in ToSet(pool) : From[t] = a /\ Nonce[t] = n
BY DEF NoncesIn, SentBy

\* The nonces depend on the set of transactions only.
LEMMA SameNonces ==
    ASSUME NEW pool, NEW other, ToSet(pool) = ToSet(other), NEW a
    PROVE  NoncesIn(pool, a) = NoncesIn(other, a)
BY DEF NoncesIn

\* An empty pool can be executed on every chain.
LEMMA EmptyIsReady ==
    ASSUME NEW S \in Chains, NEW a \in Address, NEW nonces, DOMAIN nonces = {}
    PROVE  Ready(S, <<>>, nonces, a)
<1>1. StorageNonce(S, a) \in Int
  BY ChainTypes
<1>2. NoncesIn(<<>>, a) = {}
  BY DEF NoncesIn, SentBy, ToSet
<1>3. (StorageNonce(S, a) + 1)..StorageNonce(S, a) = {}
  BY <1>1
<1>4. QED
  BY <1>1, <1>2, <1>3 DEF Ready

----------------------------------------------------------------------------
(* The queue's next operation *)

\* Among transactions there is no update of the tip.
LEMMA NoTip ==
    ASSUME NEW s \in Seq(Tx)
    PROVE  ~HasTip(s) /\ WithoutTip(s) = s
BY PoolConstants DEF HasTip, WithoutTip

\* A queue is its transactions, with a new tip before them or not.
LEMMA QueueParts ==
    ASSUME NEW queue \in Seq(Tx \cup {TipOpt}), WithoutTip(queue) \in Seq(Tx)
    PROVE  Len(queue) \in Nat /\ Len(WithoutTip(queue)) \in Nat
           /\ Len(WithoutTip(queue)) <= Len(queue)
           /\ ToSet(queue) \subseteq ToSet(WithoutTip(queue)) \cup {TipOpt}
           /\ ToSet(WithoutTip(queue)) \subseteq ToSet(queue)
<1>1. CASE HasTip(queue)
  <2>1. queue # <<>> /\ WithoutTip(queue) = Tail(queue) /\ Head(queue) = TipOpt
    BY <1>1 DEF HasTip, WithoutTip
  <2>2. /\ Len(queue) \in Nat /\ Len(queue) > 0 /\ Len(Tail(queue)) = Len(queue) - 1
        /\ ToSet(queue) = ToSet(Tail(queue)) \cup {Head(queue)}
    BY <2>1, TailOnce
  <2>3. QED
    BY <2>1, <2>2
<1>2. CASE ~HasTip(queue)
  BY <1>2 DEF WithoutTip
<1>3. QED
  BY <1>1, <1>2

\* Taking the next operation neither loses nor doubles anything, and what it
\* leaves of the pool can be executed on the tip.
LEMMA RunKeeps ==
    ASSUME NEW queue \in Seq(Tx \cup {TipOpt}), WithoutTip(queue) \in Seq(Tx),
           NEW pool \in Seq(Tx), NEW nonces, DOMAIN nonces \subseteq Address,
           nonces \in [DOMAIN nonces -> Int],
           Run(queue, pool, nonces),
           storageView' \in Chains, loading' \in SUBSET Chains,
           orphans' \in [Address -> Seq(Tx)],
           DOMAIN balances' \subseteq Address, balances' \in [DOMAIN balances' -> Int],
           expired' \subseteq MayExpire, tips' \in 0..MaxTips, faults' \in 0..MaxFault,
           Apart(pool, orphans', WithoutTip(queue), {}),
           Amount(pool, orphans', WithoutTip(queue)) <= MaxCount + 1,
           ~HasTip(queue) => \A a \in Address : Ready(storageView', pool, nonces, a)
    PROVE  PoolIInv'
<1>1. PICK w : w = WithoutTip(queue)
  OBVIOUS
<1>2. PICK front : front = IF HasTip(queue) THEN pool ELSE <<>>
  OBVIOUS
<1>3. PICK kept : kept = IF HasTip(queue) THEN <<>> ELSE pool
  OBVIOUS
<1>4. PICK rest : rest = front \o w
  OBVIOUS
<1>5. w \in Seq(Tx) /\ front \in Seq(Tx) /\ kept \in Seq(Tx)
  BY <1>1, <1>2, <1>3
<1>6. /\ transactions' = kept /\ old' = {}
      /\ mapNonce' = IF HasTip(queue) THEN Empty ELSE nonces
      /\ IF rest = <<>>
         THEN /\ stage' = "idle" /\ queueOpt' = <<>>
              /\ cur' = None /\ val' = 0 /\ read' = FALSE
         ELSE /\ cur' = Head(rest) /\ queueOpt' = Tail(rest)
              /\ stage' = IF cur' \in expired' THEN "timeout" ELSE "storageNonce"
              /\ CallStorageNonce(cur')
  BY <1>1, <1>2, <1>3, <1>4, Zenon DEF Run
<1>7. /\ IsInjective(pool) /\ IsInjective(w) /\ ToSet(pool) \cap ToSet(w) = {}
      /\ ToSet(pool) \cap AllOf(orphans') = {} /\ AllOf(orphans') \cap ToSet(w) = {}
      /\ \A a \in Address : OwnOrphans(orphans'[a], a)
  BY <1>1 DEF Apart
<1>8. /\ IsInjective(<<>>) /\ ToSet(<<>>) = {} /\ Len(<<>>) = 0
      /\ Len(pool) \in Nat /\ Len(w) \in Nat
  BY <1>5 DEF IsInjective, ToSet
<1>9. /\ IsInjective(front) /\ IsInjective(kept)
      /\ ToSet(front) \cap ToSet(w) = {}
      /\ Len(front) + Len(kept) = Len(pool) /\ Len(front) \in Nat /\ Len(kept) \in Nat
      /\ ToSet(pool) = ToSet(front) \cup ToSet(kept) /\ ToSet(front) \cap ToSet(kept) = {}
  BY <1>2, <1>3, <1>7, <1>8
<1>10. /\ rest \in Seq(Tx) /\ Len(rest) = Len(front) + Len(w)
       /\ ToSet(rest) = ToSet(front) \cup ToSet(w) /\ IsInjective(rest)
  BY <1>4, <1>5, <1>7, <1>9, ConcatOnce
<1>11. PICK orphaned \in Int : orphaned = OrphanCount(orphans')
  BY OrphansType
<1>12. Len(kept) + orphaned + Len(rest) <= MaxCount + 1
  <2>1. Len(pool) + orphaned + Len(w) <= MaxCount + 1
    BY <1>1, <1>11 DEF Amount
  <2>2. MaxCount \in Int
    BY PoolConstants
  <2>3. /\ Len(front) + Len(kept) = Len(pool) /\ Len(rest) = Len(front) + Len(w)
        /\ Len(front) \in Nat /\ Len(kept) \in Nat /\ Len(w) \in Nat
    BY <1>8, <1>9, <1>10
  <2>4. QED
    BY <2>1, <2>2, <2>3, SMTT(30)
<1>13. \A a \in Address : Ready(storageView', transactions', mapNonce', a)
  <2>1. CASE HasTip(queue)
    <3>1. transactions' = <<>> /\ mapNonce' = Empty /\ DOMAIN Empty = {}
      BY <2>1, <1>3, <1>6 DEF Empty
    <3>2. QED
      BY <3>1, EmptyIsReady
  <2>2. CASE ~HasTip(queue)
    BY <2>2, <1>3, <1>6
  <2>3. QED
    BY <2>1, <2>2
<1>14. DOMAIN mapNonce' \subseteq Address /\ mapNonce' \in [DOMAIN mapNonce' -> Int]
  <2>1. Empty \in [DOMAIN Empty -> Int] /\ DOMAIN Empty = {}
    BY DEF Empty
  <2>2. mapNonce' = Empty \/ mapNonce' = nonces
    BY <1>6
  <2>3. QED
    BY <2>1, <2>2
<1>15. CASE rest = <<>>
  <2>1. /\ stage' = "idle" /\ queueOpt' = <<>>
        /\ cur' = None /\ val' = 0 /\ read' = FALSE
    BY <1>6, <1>15
  <2>2. /\ WithoutTip(<<>>) = <<>> /\ ~HasTip(<<>>)
        /\ <<>> \in Seq(Tx) /\ <<>> \in Seq(Tx \cup {TipOpt})
    BY DEF HasTip, WithoutTip
  <2>3. Adding' = {} /\ Cardinality({}) = 0
    BY <2>1, FS_EmptySet DEF Adding
  <2>4. PoolTypes'
    <3>1. queueOpt' \in Seq(Tx \cup {TipOpt}) /\ WithoutTip(queueOpt') \in Seq(Tx)
      BY <2>1, <2>2
    <3>2. transactions' \in Seq(Tx) /\ old' \in SUBSET Tx
      BY <1>5, <1>6
    <3>3. val' \in Int
      BY <2>1
    <3>4. /\ stage' \in {"idle", "timeout", "storageNonce", "nonce", "check", "added", "scan"}
          /\ cur' \in Tx \cup {None} /\ (cur' = None <=> stage' = "idle")
          /\ cur' = None => queueOpt' = <<>>
      BY <2>1
    <3>5. read' \in BOOLEAN
      BY <2>1, Zenon
    <3>6. QED
      BY <1>14, <3>1, <3>2, <3>3, <3>4, <3>5 DEF PoolTypes
  <2>5. Stages'
    BY <1>6, <2>1 DEF Stages
  <2>6. StillTrue'
    BY <2>1 DEF StillTrue
  <2>7. Apart(kept, orphans', <<>>, {})
    BY <1>7, <1>8, <1>9 DEF Apart
  <2>8. Amount(kept, orphans', <<>>) + 0 <= MaxCount + 1
    BY <1>8, <1>9, <1>11, <1>12, <1>15 DEF Amount
  <2>9. QED
    BY <1>6, <1>13, <2>1, <2>2, <2>3, <2>4, <2>5, <2>6, <2>7, <2>8 DEF PoolIInv
<1>16. CASE rest # <<>>
  <2>1. PICK t, next : t = Head(rest) /\ next = Tail(rest)
    OBVIOUS
  <2>2. /\ cur' = t /\ queueOpt' = next
        /\ stage' = IF cur' \in expired' THEN "timeout" ELSE "storageNonce"
        /\ CallStorageNonce(cur')
    BY <1>6, <1>16, <2>1
  <2>3. /\ t \in Tx /\ next \in Seq(Tx) /\ Len(rest) = Len(next) + 1 /\ Len(next) \in Nat
        /\ ToSet(rest) = ToSet(next) \cup {t} /\ IsInjective(next) /\ t \notin ToSet(next)
    BY <1>10, <1>16, <2>1, TailOnce
  <2>4. ~HasTip(next) /\ WithoutTip(next) = next /\ next \in Seq(Tx \cup {TipOpt})
    BY <2>3, NoTip
  <2>5. Adding' = {t} /\ Cardinality({t}) = 1 /\ stage' \in {"timeout", "storageNonce"}
    BY <2>2, FS_Singleton DEF Adding
  <2>6. t # None /\ From[t] \in Address
    BY <2>3, PoolConstants
  <2>7. val' = StorageNonce(storageView', From[t]) /\ read' = TRUE
    BY <2>2 DEF CallStorageNonce
  <2>8. val' \in Int
    BY <2>6, <2>7, ChainTypes
  <2>9. PoolTypes'
    BY <1>5, <1>6, <1>14, <2>2, <2>3, <2>4, <2>5, <2>6, <2>7, <2>8 DEF PoolTypes
  <2>10. Stages'
    BY <1>6, <2>5 DEF Stages
  <2>11. StillTrue'
    BY <2>2, <2>5, <2>7 DEF StillTrue
  <2>12. Apart(kept, orphans', next, {t})
    <3>1. ToSet(kept) \subseteq ToSet(pool) /\ ToSet(rest) \subseteq ToSet(pool) \cup ToSet(w)
      BY <1>9, <1>10
    <3>2. AllOf(orphans') \cap ToSet(rest) = {} /\ AllOf(orphans') \cap ToSet(kept) = {}
      BY <3>1, <1>7
    <3>3. ToSet(kept) \cap ToSet(rest) = {}
      BY <1>7, <1>9, <1>10
    <3>4. QED
      BY <3>2, <3>3, <2>3, <1>7, <1>9 DEF Apart
  <2>13. Amount(kept, orphans', next) + 1 <= MaxCount + 1
    <3>1. Amount(kept, orphans', next) = Len(kept) + orphaned + Len(next)
      BY <1>11 DEF Amount
    <3>2. Len(kept) \in Int /\ Len(rest) = Len(next) + 1 /\ Len(next) \in Int
      BY <2>3, <1>9
    <3>3. MaxCount \in Int
      BY PoolConstants
    <3>4. QED
      BY <3>1, <3>2, <3>3, <1>12
  <2>14. QED
    BY <1>6, <1>13, <2>2, <2>4, <2>5, <2>9, <2>10, <2>11, <2>12, <2>13 DEF PoolIInv
<1>17. QED
  BY <1>15, <1>16

----------------------------------------------------------------------------
(* The operations that come from outside *)

\* What is being added counts for one at most.
LEMMA AddingOne == Cardinality(Adding) \in {0, 1} /\ (Adding = {} \/ Adding = {cur})
<1>1. Cardinality({}) = 0 /\ Cardinality({cur}) = 1
  BY FS_EmptySet, FS_Singleton
<1>2. QED
  BY <1>1 DEF Adding

\* The counts in the invariant are numbers.
LEMMA AmountType ==
    ASSUME PoolTypes
    PROVE  /\ Len(transactions) \in Nat /\ Len(WithoutTip(queueOpt)) \in Nat
           /\ OrphanCount(orphans) \in Int
           /\ Amount(transactions, orphans, WithoutTip(queueOpt)) \in Int
<1>1. Len(transactions) \in Nat /\ Len(WithoutTip(queueOpt)) \in Nat
  BY DEF PoolTypes
<1>2. OrphanCount(orphans) \in Int
  BY OrphansType DEF PoolTypes
<1>3. QED
  BY <1>1, <1>2 DEF Amount

\* _addTx returns: the transaction is dropped, or in the pool already.
LEMMA ReturnKeeps ==
    ASSUME PoolIInv, Run(queueOpt, transactions, mapNonce),
           UNCHANGED <<chain, orphans, balances, expired>>, faults' \in 0..MaxFault
    PROVE  PoolIInv'
<1>1. PoolTypes /\ Apart(transactions, orphans, WithoutTip(queueOpt), Adding)
  BY DEF PoolIInv
<1>2. /\ storageView' = storageView /\ loading' = loading /\ tips' = tips
      /\ orphans' = orphans /\ balances' = balances /\ expired' = expired
  BY DEF chain
<1>3. Apart(transactions, orphans', WithoutTip(queueOpt), {})
  BY <1>1, <1>2 DEF Apart
<1>4. Amount(transactions, orphans', WithoutTip(queueOpt)) <= MaxCount + 1
  <2>1. Amount(transactions, orphans, WithoutTip(queueOpt)) + Cardinality(Adding) <= MaxCount + 1
    BY DEF PoolIInv
  <2>2. QED
    BY <2>1, <1>1, <1>2, AmountType, AddingOne, PoolConstants
<1>5. ~HasTip(queueOpt) => \A a \in Address : Ready(storageView', transactions, mapNonce, a)
  BY <1>2 DEF PoolIInv
<1>6. QED
  BY <1>1, <1>2, <1>3, <1>4, <1>5, RunKeeps DEF PoolTypes

\* A transaction queued last leaves the head of the queue as it is.
LEMMA AppendTip ==
    ASSUME NEW queue \in Seq(Tx \cup {TipOpt}), WithoutTip(queue) \in Seq(Tx), NEW t \in Tx
    PROVE  /\ Append(queue, t) \in Seq(Tx \cup {TipOpt})
           /\ HasTip(Append(queue, t)) <=> HasTip(queue)
           /\ WithoutTip(Append(queue, t)) = Append(WithoutTip(queue), t)
           /\ WithoutTip(Append(queue, t)) \in Seq(Tx)
           /\ Len(WithoutTip(Append(queue, t))) = Len(WithoutTip(queue)) + 1
           /\ ToSet(WithoutTip(Append(queue, t))) = ToSet(WithoutTip(queue)) \cup {t}
           /\ IsInjective(WithoutTip(queue)) /\ t \notin ToSet(WithoutTip(queue))
                => IsInjective(WithoutTip(Append(queue, t)))
<1>1. /\ Append(queue, t) \in Seq(Tx \cup {TipOpt}) /\ Append(queue, t) # <<>>
      /\ Head(Append(queue, t)) = IF queue = <<>> THEN t ELSE Head(queue)
      /\ Tail(Append(queue, t)) = IF queue = <<>> THEN <<>> ELSE Append(Tail(queue), t)
  <2>1. t \in Tx \cup {TipOpt}
    OBVIOUS
  <2>2. Append(queue, t) \in Seq(Tx \cup {TipOpt}) /\ Append(queue, t) # <<>>
    BY <2>1, AppendProperties
  <2>3. QED
    BY <2>1, <2>2, HeadTailAppend
<1>2. t # TipOpt
  BY PoolConstants
<1>3. HasTip(Append(queue, t)) <=> HasTip(queue)
  BY <1>1, <1>2 DEF HasTip
<1>4. WithoutTip(Append(queue, t)) = Append(WithoutTip(queue), t)
  BY <1>1, <1>3 DEF WithoutTip, HasTip
<1>5. QED
  BY <1>1, <1>3, <1>4, AppendOnce

\* A new submission is queued.
LEMMA AddTransactionKeeps ==
    ASSUME PoolIInv, NEW t \in Tx, AddTransaction(t)
    PROVE  PoolIInv'
<1>1. /\ PoolTypes /\ Stages
      /\ Apart(transactions, orphans, WithoutTip(queueOpt), Adding)
      /\ Amount(transactions, orphans, WithoutTip(queueOpt)) + Cardinality(Adding) <= MaxCount + 1
      /\ ~HasTip(queueOpt) =>
           StillTrue /\ \A a \in Address : Ready(storageView, transactions, mapNonce, a)
  BY DEF PoolIInv
<1>2. /\ storageView' = storageView /\ loading' = loading /\ tips' = tips
      /\ orphans' = orphans /\ balances' = balances /\ faults' = faults
      /\ expired' = expired \ {t}
      /\ t \notin ToSet(transactions) \cup AllOf(orphans)
      /\ t \notin ToSet(WithoutTip(queueOpt)) \cup Adding
  BY DEF AddTransaction, chain, Known, Orphans, Queued, AllOf
<1>3. PICK q : q = Append(queueOpt, t)
  OBVIOUS
<1>4. PICK w : w = WithoutTip(q)
  OBVIOUS
<1>5. IF cur = None THEN Run(q, transactions, mapNonce)
      ELSE queueOpt' = q /\ UNCHANGED <<transactions, mapNonce, awaited, old>>
  BY <1>3 DEF AddTransaction, AddPendingOpt
<1>6. queueOpt \in Seq(Tx \cup {TipOpt}) /\ WithoutTip(queueOpt) \in Seq(Tx)
  BY <1>1 DEF PoolTypes
<1>7. /\ q \in Seq(Tx \cup {TipOpt}) /\ (HasTip(q) <=> HasTip(queueOpt)) /\ w \in Seq(Tx)
      /\ Len(w) = Len(WithoutTip(queueOpt)) + 1
      /\ ToSet(w) = ToSet(WithoutTip(queueOpt)) \cup {t}
      /\ IsInjective(WithoutTip(queueOpt)) /\ t \notin ToSet(WithoutTip(queueOpt))
           => IsInjective(w)
  BY <1>3, <1>4, <1>6, AppendTip
<1>8. Apart(transactions, orphans, w, Adding)
  BY <1>1, <1>2, <1>7 DEF Apart
<1>9. Amount(transactions, orphans, w) <= MaxCount
  <2>1. PendingCount + Len(queueOpt) < MaxCount
    BY DEF AddTransaction, HasRoom
  <2>2. Len(WithoutTip(queueOpt)) <= Len(queueOpt) /\ Len(queueOpt) \in Nat
    BY <1>6, QueueParts
  <2>3. MaxCount \in Int
    BY PoolConstants
  <2>4. PICK orphaned \in Int : orphaned = OrphanCount(orphans)
    BY <1>1, AmountType
  <2>5. Len(transactions) \in Nat /\ Len(WithoutTip(queueOpt)) \in Nat
    BY <1>1, AmountType
  <2>6. Len(transactions) + orphaned + Len(queueOpt) < MaxCount
    BY <2>1, <2>4 DEF PendingCount
  <2>7. Amount(transactions, orphans, w) = Len(transactions) + orphaned + Len(w)
    BY <2>4 DEF Amount
  <2>8. QED
    BY <2>2, <2>3, <2>5, <2>6, <2>7, <1>7
<1>10. Amount(transactions, orphans, w) \in Int /\ MaxCount \in Int
  BY <1>1, <1>7, AmountType, PoolConstants DEF Amount
<1>11. CASE cur = None
  <2>1. Run(q, transactions, mapNonce)
    BY <1>5, <1>11
  <2>2. Apart(transactions, orphans', WithoutTip(q), {})
    BY <1>2, <1>4, <1>8 DEF Apart
  <2>3. Amount(transactions, orphans', WithoutTip(q)) <= MaxCount + 1
    BY <1>2, <1>4, <1>9, <1>10
  <2>4. expired' \subseteq MayExpire
    BY <1>1, <1>2 DEF PoolTypes
  <2>5. ~HasTip(q) => \A a \in Address : Ready(storageView', transactions, mapNonce, a)
    BY <1>1, <1>2, <1>7
  <2>6. QED
    BY <1>1, <1>2, <1>4, <1>7, <2>1, <2>2, <2>3, <2>4, <2>5, RunKeeps DEF PoolTypes
<1>12. CASE cur # None
  <2>1. /\ queueOpt' = q /\ transactions' = transactions /\ mapNonce' = mapNonce /\ old' = old
        /\ stage' = stage /\ cur' = cur /\ val' = val /\ read' = read
    BY <1>5, <1>12 DEF awaited
  <2>2. PoolTypes'
    BY <1>1, <1>2, <1>4, <1>7, <1>12, <2>1 DEF PoolTypes
  <2>3. Adding' = Adding /\ Rivals(cur)' = Rivals(cur)
    BY <2>1 DEF Adding, Rivals
  <2>4. Stages'
    <3>1. PICK i : i = Min(Rivals(cur))
      OBVIOUS
    <3>2. ASSUME stage = "check", Rivals(cur) # {}, Replaces(cur, transactions[i])
          PROVE  Replaces(cur, transactions[i])'
      <4>1. i \in DOMAIN transactions
        <5>1. Rivals(cur) \subseteq Nat
          BY DEF Rivals
        <5>2. i \in Rivals(cur)
          BY <3>1, <3>2, <5>1, MinIn
        <5>3. QED
          BY <5>2, <1>1 DEF Rivals, PoolTypes
      <4>2. transactions[i] # t
        BY <4>1, <1>2 DEF ToSet
      <4>3. QED
        BY <3>2, <4>2, <1>2, <2>1 DEF Replaces
    <3>3. QED
      BY <1>1, <2>1, <2>3, <3>1, <3>2 DEF Stages
  <2>5. ~HasTip(queueOpt') =>
           StillTrue' /\ \A a \in Address : Ready(storageView', transactions', mapNonce', a)
    BY <1>1, <1>2, <1>7, <2>1 DEF StillTrue
  <2>6. Cardinality(Adding) \in {0, 1}
    BY AddingOne
  <2>7. Amount(transactions', orphans', w) + Cardinality(Adding') <= MaxCount + 1
    BY <1>2, <1>9, <1>10, <2>1, <2>3, <2>6
  <2>8. Apart(transactions', orphans', w, Adding')
    BY <1>2, <1>8, <2>1, <2>3
  <2>9. WithoutTip(queueOpt') = w
    BY <1>4, <2>1
  <2>10. QED
    BY <2>2, <2>4, <2>5, <2>7, <2>8, <2>9 DEF PoolIInv
<1>13. QED
  BY <1>11, <1>12

\* A new tip awaits its snapshot.
LEMMA UpdateTipBlockKeeps ==
    ASSUME PoolIInv, NEW S \in Chains, UpdateTipBlock(S)
    PROVE  PoolIInv'
<1>1. /\ tips' = tips + 1 /\ tips < MaxTips /\ loading' = {S} /\ balances' = Empty
      /\ storageView' = storageView /\ transactions' = transactions /\ orphans' = orphans
      /\ mapNonce' = mapNonce /\ queueOpt' = queueOpt
      /\ stage' = stage /\ cur' = cur /\ val' = val /\ read' = read
      /\ old' = old /\ expired' = expired /\ faults' = faults
  BY DEF UpdateTipBlock, awaited
<1>2. PoolTypes'
  <2>1. PoolTypes
    BY DEF PoolIInv
  <2>2. tips' \in 0..MaxTips
    <3>1. tips \in 0..MaxTips /\ MaxTips \in Nat
      BY <2>1, PoolConstants DEF PoolTypes
    <3>2. QED
      BY <1>1, <3>1
  <2>3. DOMAIN balances' \subseteq Address /\ balances' \in [DOMAIN balances' -> Int]
    BY <1>1 DEF Empty
  <2>4. QED
    BY <1>1, <2>1, <2>2, <2>3 DEF PoolTypes
<1>3. Adding' = Adding /\ Rivals(cur)' = Rivals(cur)
  BY <1>1 DEF Adding, Rivals
<1>4. Stages'
  BY <1>1, <1>3 DEF PoolIInv, Stages, Replaces
<1>5. StillTrue' <=> StillTrue
  BY <1>1 DEF StillTrue
<1>6. QED
  BY <1>1, <1>2, <1>3, <1>4, <1>5 DEF PoolIInv

\* The update of the tip goes before the transactions.
LEMMA TipFirst ==
    ASSUME NEW w \in Seq(Tx)
    PROVE  /\ <<TipOpt>> \o w \in Seq(Tx \cup {TipOpt})
           /\ HasTip(<<TipOpt>> \o w) /\ WithoutTip(<<TipOpt>> \o w) = w
<1>1. PICK q : q = <<TipOpt>> \o w
  OBVIOUS
<1>2. <<TipOpt>> \in Seq(Tx \cup {TipOpt}) /\ w \in Seq(Tx \cup {TipOpt})
  BY SeqMonotonic
<1>3. Len(<<TipOpt>>) = 1 /\ <<TipOpt>>[1] = TipOpt
  OBVIOUS
<1>4. /\ q \in Seq(Tx \cup {TipOpt}) /\ Len(q) = 1 + Len(w) /\ Len(w) \in Nat
      /\ \A i \in 1..(1 + Len(w)) : q[i] = IF i <= 1 THEN <<TipOpt>>[i] ELSE w[i - 1]
  BY <1>1, <1>2, <1>3, ConcatProperties
<1>5. q # <<>> /\ Head(q) = TipOpt
  <2>1. q[1] = TipOpt
    BY <1>3, <1>4
  <2>2. QED
    BY <2>1, <1>4
<1>6. Tail(q) = w
  <2>1. /\ Tail(q) \in Seq(Tx \cup {TipOpt}) /\ Len(Tail(q)) = Len(w)
        /\ \A i \in 1..Len(Tail(q)) : Tail(q)[i] = q[i + 1]
    BY <1>4, <1>5, HeadTailProperties
  <2>2. \A i \in 1..Len(w) : Tail(q)[i] = w[i]
    <3> SUFFICES ASSUME NEW i \in 1..Len(w) PROVE Tail(q)[i] = w[i]
      OBVIOUS
    <3>1. PICK j : j = i + 1
      OBVIOUS
    <3>2. j \in 1..(1 + Len(w)) /\ ~(j <= 1) /\ j - 1 = i
      BY <3>1, <1>4
    <3>3. q[j] = w[i]
      BY <3>2, <1>4
    <3>4. QED
      BY <2>1, <3>1, <3>3
  <2>3. QED
    BY <1>2, <2>1, <2>2, SeqEqual
<1>7. QED
  BY <1>1, <1>4, <1>5, <1>6 DEF HasTip, WithoutTip

\* The new tip's snapshot is there, or could not be had.
LEMMA TipLoadedKeeps ==
    ASSUME PoolIInv, TipLoaded
    PROVE  PoolIInv'
<1>1. /\ PoolTypes /\ Stages
      /\ Apart(transactions, orphans, WithoutTip(queueOpt), Adding)
      /\ Amount(transactions, orphans, WithoutTip(queueOpt)) + Cardinality(Adding) <= MaxCount + 1
  BY DEF PoolIInv
<1>2. /\ loading' = {} /\ tips' = tips
      /\ orphans' = orphans /\ balances' = balances /\ expired' = expired
  BY DEF TipLoaded
<1>3. PICK w : w = WithoutTip(queueOpt)
  OBVIOUS
<1>4. PICK q : q = <<TipOpt>> \o w
  OBVIOUS
<1>5. w \in Seq(Tx)
  BY <1>1, <1>3 DEF PoolTypes
<1>6. q \in Seq(Tx \cup {TipOpt}) /\ HasTip(q) /\ WithoutTip(q) = w
  BY <1>4, <1>5, TipFirst
<1>7. \/ storageView' \in loading /\ faults' = faults /\ AddPendingOpt(q)
      \/ /\ faults < MaxFault /\ faults' = faults + 1
         /\ UNCHANGED <<storageView, transactions, mapNonce, queueOpt, awaited, old>>
  BY <1>3, <1>4 DEF TipLoaded
<1>8. loading' \in SUBSET Chains
  BY <1>2
<1>9. Amount(transactions, orphans', w) <= MaxCount + 1
  BY <1>1, <1>2, <1>3, AmountType, AddingOne, PoolConstants
<1>10. CASE storageView' \in loading /\ faults' = faults /\ AddPendingOpt(q) /\ cur = None
  <2>1. Run(q, transactions, mapNonce)
    BY <1>10 DEF AddPendingOpt
  <2>2. Apart(transactions, orphans', WithoutTip(q), {})
    BY <1>1, <1>2, <1>3, <1>6 DEF Apart
  <2>3. storageView' \in Chains
    BY <1>1, <1>10 DEF PoolTypes
  <2>4. QED
    BY <1>1, <1>2, <1>6, <1>8, <1>9, <1>10, <2>1, <2>2, <2>3, <1>5, RunKeeps DEF PoolTypes
<1>11. CASE storageView' \in loading /\ faults' = faults /\ AddPendingOpt(q) /\ cur # None
  <2>1. /\ queueOpt' = q /\ transactions' = transactions /\ mapNonce' = mapNonce /\ old' = old
        /\ stage' = stage /\ cur' = cur /\ val' = val /\ read' = read
    BY <1>11 DEF AddPendingOpt, awaited
  <2>2. storageView' \in Chains
    BY <1>1, <1>11 DEF PoolTypes
  <2>3. PoolTypes'
    BY <1>1, <1>2, <1>5, <1>6, <1>8, <1>11, <2>1, <2>2 DEF PoolTypes
  <2>4. Adding' = Adding /\ Rivals(cur)' = Rivals(cur)
    BY <2>1 DEF Adding, Rivals
  <2>5. Stages'
    BY <1>1, <1>2, <2>1, <2>4 DEF Stages, Replaces
  <2>6. HasTip(queueOpt') /\ WithoutTip(queueOpt') = w
    BY <1>6, <2>1
  <2>7. QED
    BY <1>1, <1>2, <1>3, <2>1, <2>3, <2>4, <2>5, <2>6 DEF PoolIInv
<1>12. CASE /\ faults < MaxFault /\ faults' = faults + 1
            /\ UNCHANGED <<storageView, transactions, mapNonce, queueOpt, awaited, old>>
  <2>1. /\ storageView' = storageView /\ transactions' = transactions /\ mapNonce' = mapNonce
        /\ queueOpt' = queueOpt /\ old' = old
        /\ stage' = stage /\ cur' = cur /\ val' = val /\ read' = read
    BY <1>12 DEF awaited
  <2>2. faults' \in 0..MaxFault
    <3>1. faults \in 0..MaxFault /\ MaxFault \in Nat
      BY <1>1, PoolConstants DEF PoolTypes
    <3>2. QED
      BY <1>12, <3>1
  <2>3. PoolTypes'
    BY <1>1, <1>2, <1>8, <2>1, <2>2 DEF PoolTypes
  <2>4. Adding' = Adding /\ Rivals(cur)' = Rivals(cur)
    BY <2>1 DEF Adding, Rivals
  <2>5. Stages'
    BY <1>1, <1>2, <2>1, <2>4 DEF Stages, Replaces
  <2>6. StillTrue' <=> StillTrue
    BY <2>1 DEF StillTrue
  <2>7. QED
    BY <1>1, <1>2, <2>1, <2>3, <2>4, <2>5, <2>6 DEF PoolIInv
<1>13. QED
  BY <1>7, <1>10, <1>11, <1>12

\* Time passes for a transaction.
LEMMA ExpireKeeps ==
    ASSUME PoolIInv, NEW t \in MayExpire, Expire(t)
    PROVE  PoolIInv'
<1>1. /\ expired' = expired \cup {t}
      /\ storageView' = storageView /\ loading' = loading /\ tips' = tips
      /\ transactions' = transactions /\ orphans' = orphans /\ balances' = balances
      /\ mapNonce' = mapNonce /\ queueOpt' = queueOpt
      /\ stage' = stage /\ cur' = cur /\ val' = val /\ read' = read
      /\ old' = old /\ faults' = faults
  BY DEF Expire, awaited, chain
<1>2. PoolTypes'
  BY <1>1 DEF PoolIInv, PoolTypes
<1>3. Adding' = Adding /\ Rivals(cur)' = Rivals(cur)
  BY <1>1 DEF Adding, Rivals
<1>4. Stages'
  BY <1>1, <1>3 DEF PoolIInv, Stages, Replaces
<1>5. StillTrue' <=> StillTrue
  BY <1>1 DEF StillTrue
<1>6. QED
  BY <1>1, <1>2, <1>3, <1>4, <1>5 DEF PoolIInv

----------------------------------------------------------------------------
(* The steps of _addTx *)

\* The transaction came too late.
LEMMA TimedOutKeeps ==
    ASSUME PoolIInv, TimedOut
    PROVE  PoolIInv'
<1>1. /\ UNCHANGED <<chain, orphans, balances, expired>> /\ faults' = faults
      /\ Run(queueOpt, transactions, mapNonce)
  BY DEF TimedOut, Return
<1>2. faults' \in 0..MaxFault
  BY <1>1 DEF PoolIInv, PoolTypes
<1>3. QED
  BY <1>1, <1>2, ReturnKeeps

\* A read that fails is within the bound.
LEMMA ReadFailsType ==
    ASSUME PoolTypes
    PROVE  /\ faults' = faults => faults' \in 0..MaxFault
           /\ ReadFails => faults' \in 0..MaxFault
BY PoolConstants DEF ReadFails, PoolTypes

\* An address being added for, and what is read for it.
LEMMA ReadTypes ==
    ASSUME PoolTypes, cur # None
    PROVE  /\ cur \in Tx /\ From[cur] \in Address /\ Nonce[cur] \in Int /\ Cost[cur] \in Int
           /\ StorageNonce(storageView, From[cur]) \in Int
           /\ CallNonce(mapNonce, From[cur]) => val' \in Int /\ read' \in BOOLEAN
           /\ CallBalance(From[cur]) => val' \in Int /\ read' \in BOOLEAN
<1>1. cur \in Tx /\ From[cur] \in Address /\ Nonce[cur] \in Int /\ Cost[cur] \in Int
  BY PoolConstants DEF PoolTypes
<1>2. storageView \in Chains
  BY DEF PoolTypes
<1>3. StorageNonce(storageView, From[cur]) \in Int /\ StorageBalance(storageView, From[cur]) \in Int
  BY <1>1, <1>2, ChainTypes
<1>4. CallNonce(mapNonce, From[cur]) => val' \in Int
  BY <1>3 DEF CallNonce, PoolTypes
<1>5. CallBalance(From[cur]) => val' \in Int
  BY <1>3 DEF CallBalance, PoolTypes
<1>6. CallNonce(mapNonce, From[cur]) => read' \in BOOLEAN
  BY Zenon DEF CallNonce
<1>7. CallBalance(From[cur]) => read' \in BOOLEAN
  BY Zenon DEF CallBalance
<1>8. QED
  BY <1>1, <1>3, <1>4, <1>5, <1>6, <1>7

\* The chain's nonce has come.
LEMMA GotStorageNonceKeeps ==
    ASSUME PoolIInv, GotStorageNonce
    PROVE  PoolIInv'
<1>1. /\ PoolTypes /\ Stages
      /\ Apart(transactions, orphans, WithoutTip(queueOpt), Adding)
      /\ Amount(transactions, orphans, WithoutTip(queueOpt)) + Cardinality(Adding) <= MaxCount + 1
      /\ ~HasTip(queueOpt) =>
           StillTrue /\ \A a \in Address : Ready(storageView, transactions, mapNonce, a)
  BY DEF PoolIInv
<1>2. /\ stage = "storageNonce" /\ UNCHANGED <<chain, orphans, balances, expired>>
      /\ \/ (faults' = faults \/ ReadFails) /\ Run(queueOpt, transactions, mapNonce)
         \/ /\ Nonce[cur] > val /\ stage' = "nonce" /\ CallNonce(mapNonce, From[cur])
            /\ UNCHANGED <<transactions, mapNonce, queueOpt, cur, old, faults>>
  BY DEF GotStorageNonce, Return
<1>3. CASE (faults' = faults \/ ReadFails) /\ Run(queueOpt, transactions, mapNonce)
  <2>1. faults' \in 0..MaxFault
    BY <1>1, <1>3, ReadFailsType
  <2>2. QED
    BY <1>2, <1>3, <2>1, ReturnKeeps
<1>4. CASE /\ Nonce[cur] > val /\ stage' = "nonce" /\ CallNonce(mapNonce, From[cur])
           /\ UNCHANGED <<transactions, mapNonce, queueOpt, cur, old, faults>>
  <2>1. /\ storageView' = storageView /\ loading' = loading /\ tips' = tips /\ orphans' = orphans
        /\ balances' = balances /\ expired' = expired
        /\ transactions' = transactions /\ mapNonce' = mapNonce /\ queueOpt' = queueOpt
        /\ cur' = cur /\ old' = old /\ faults' = faults /\ stage' = "nonce"
    BY <1>2, <1>4 DEF chain
  <2>2. cur # None
    BY <1>1, <1>2 DEF PoolTypes
  <2>3. val' \in Int /\ read' \in BOOLEAN
    BY <1>1, <1>4, <2>2, ReadTypes
  <2>4. PoolTypes'
    BY <1>1, <2>1, <2>2, <2>3 DEF PoolTypes
  <2>5. Adding' = Adding
    BY <1>2, <2>1 DEF Adding
  <2>6. Stages'
    BY <1>1, <1>2, <2>1 DEF Stages
  <2>7. StillTrue => StillTrue'
    BY <1>2, <1>4, <2>1 DEF StillTrue, CallNonce
  <2>8. QED
    BY <1>1, <2>1, <2>4, <2>5, <2>6, <2>7 DEF PoolIInv
<1>5. QED
  BY <1>2, <1>3, <1>4

\* A transaction put with the orphans takes a place of its own...
LEMMA OrphanInserted ==
    ASSUME NEW a, NEW l \in Seq(Tx), OwnOrphans(l, a),
           NEW t \in Tx, From[t] = a, t \notin ToSet(l), \A u \in ToSet(l) : Nonce[u] # Nonce[t],
           NEW n \in Nat, n <= Len(l), NEW k, k = InsertAt(l, n + 1, t)
    PROVE  /\ k \in Seq(Tx) /\ Len(k) = Len(l) + 1
           /\ ToSet(k) \subseteq ToSet(l) \cup {t} /\ OwnOrphans(k, a)
<1>1. PICK i : i = n + 1
  OBVIOUS
<1>2. i \in 1..(Len(l) + 1) /\ k = InsertAt(l, i, t)
  BY <1>1
<1>3. /\ InsertAt(l, i, t) \in Seq(Tx) /\ Len(InsertAt(l, i, t)) = Len(l) + 1
      /\ ToSet(InsertAt(l, i, t)) = ToSet(l) \cup {t}
      /\ IsInjective(l) /\ t \notin ToSet(l) => IsInjective(InsertAt(l, i, t))
  BY <1>2, InsertOnce
<1>4. /\ k \in Seq(Tx) /\ Len(k) = Len(l) + 1 /\ ToSet(k) = ToSet(l) \cup {t} /\ IsInjective(k)
  BY <1>2, <1>3 DEF OwnOrphans
<1>5. OwnOrphans(k, a)
  BY <1>4 DEF OwnOrphans
<1>6. QED
  BY <1>4, <1>5

\* ... or that of one with its nonce, or none.
LEMMA OrphanReplaced ==
    ASSUME NEW a, NEW l \in Seq(Tx), OwnOrphans(l, a),
           NEW t \in Tx, From[t] = a, t \notin ToSet(l),
           NEW k \in [1..Len(l) -> Tx],
           \A i \in 1..Len(l) : \/ k[i] = l[i]
                                \/ k[i] = t /\ Nonce[l[i]] = Nonce[t]
    PROVE  /\ k \in Seq(Tx) /\ Len(k) = Len(l)
           /\ ToSet(k) \subseteq ToSet(l) \cup {t} /\ OwnOrphans(k, a)
<1>1. Len(l) \in Nat /\ DOMAIN l = 1..Len(l)
  OBVIOUS
<1>2. /\ \A i, j \in DOMAIN l : l[i] = l[j] => i = j
      /\ \A i \in DOMAIN l : From[l[i]] = a
      /\ \A i, j \in DOMAIN l : Nonce[l[i]] = Nonce[l[j]] => l[i] = l[j]
  BY DEF OwnOrphans, IsInjective, ToSet
<1>3. \A i \in 1..Len(l) : l[i] \in Tx
  OBVIOUS
<1>4. k \in Seq(Tx) /\ Len(k) = Len(l) /\ DOMAIN k = 1..Len(l)
  BY <1>1, <1>3
<1>5. \A i \in 1..Len(l) : \/ k[i] = l[i]
                           \/ k[i] = t /\ Nonce[l[i]] = Nonce[t]
  OBVIOUS
<1>6. \A i, j \in 1..Len(l) : Nonce[k[i]] = Nonce[k[j]] => i = j
  <2>1. \A i \in 1..Len(l) : Nonce[k[i]] = Nonce[l[i]]
    BY <1>5
  <2>2. QED
    BY <2>1, <1>1, <1>2
<1>7. \A i \in 1..Len(l) : From[k[i]] = a
  BY <1>1, <1>2, <1>5
<1>8. PICK d : d = DOMAIN k
  OBVIOUS
<1>9. d = 1..Len(l) /\ ToSet(k) = {k[i] : i \in d} /\ ToSet(l) = {l[i] : i \in d}
  BY <1>1, <1>4, <1>8 DEF ToSet
<1> HIDE <1>8
<1>10. OwnOrphans(k, a)
  <2>1. IsInjective(k)
    BY <1>4, <1>6 DEF IsInjective
  <2>2. \A u \in ToSet(k) : From[u] = a
    BY <1>7, <1>9
  <2>3. \A u, v \in ToSet(k) : Nonce[u] = Nonce[v] => u = v
    <3> SUFFICES ASSUME NEW u \in ToSet(k), NEW v \in ToSet(k), Nonce[u] = Nonce[v]
                 PROVE  u = v
      OBVIOUS
    <3>1. PICK i \in 1..Len(l), j \in 1..Len(l) : u = k[i] /\ v = k[j]
      BY <1>9
    <3>2. i = j
      BY <3>1, <1>6
    <3>3. QED
      BY <3>1, <3>2
  <2>4. QED
    BY <2>1, <2>2, <2>3 DEF OwnOrphans
<1>11. ToSet(k) \subseteq ToSet(l) \cup {t}
  <2> SUFFICES ASSUME NEW u \in ToSet(k) PROVE u \in ToSet(l) \cup {t}
    OBVIOUS
  <2>1. PICK i \in 1..Len(l) : u = k[i]
    BY <1>9
  <2>2. u = l[i] \/ u = t
    BY <2>1, <1>5
  <2>3. QED
    BY <2>2, <1>9
<1>12. QED
  BY <1>4, <1>10, <1>11

\* The orphans of an address with one more of its transactions.
LEMMA OrphanList ==
    ASSUME NEW a, NEW l \in Seq(Tx), OwnOrphans(l, a),
           NEW t \in Tx, From[t] = a, t \notin ToSet(l), NEW k, k = OrphansWith(l, t)
    PROVE  /\ k \in Seq(Tx) /\ Len(k) <= Len(l) + 1 /\ Len(k) \in Nat /\ Len(l) \in Nat
           /\ ToSet(k) \subseteq ToSet(l) \cup {t} /\ OwnOrphans(k, a)
<1>1. Len(l) \in Nat /\ DOMAIN l = 1..Len(l)
  OBVIOUS
<1>2. PICK same : same = {i \in 1..Len(l) : Nonce[l[i]] = Nonce[t]}
  OBVIOUS
<1>3. PICK before : before = {i \in 1..Len(l) : Nonce[l[i]] < Nonce[t]}
  OBVIOUS
<1>4. k = IF same = {} THEN InsertAt(l, Cardinality(before) + 1, t)
          ELSE [i \in 1..Len(l) |-> IF i \in same /\ Replaces(t, l[i]) THEN t ELSE l[i]]
  BY <1>2, <1>3, Zenon DEF OrphansWith
<1>5. CASE same = {}
  <2>1. PICK n \in Nat : n = Cardinality(before) /\ n <= Len(l)
    <3>1. before \in SUBSET (1..Len(l))
      BY <1>3
    <3>2. IsFiniteSet(1..Len(l)) /\ Cardinality(1..Len(l)) = Len(l)
      BY <1>1, FS_Interval
    <3>3. IsFiniteSet(before) /\ Cardinality(before) <= Cardinality(1..Len(l))
      BY <3>1, <3>2, FS_Subset
    <3>4. QED
      BY <3>2, <3>3, FS_CardinalityType
  <2>2. \A u \in ToSet(l) : Nonce[u] # Nonce[t]
    BY <1>1, <1>2, <1>5 DEF ToSet
  <2>3. k = InsertAt(l, n + 1, t)
    BY <2>1, <1>4, <1>5
  <2>4. /\ k \in Seq(Tx) /\ Len(k) = Len(l) + 1
        /\ ToSet(k) \subseteq ToSet(l) \cup {t} /\ OwnOrphans(k, a)
    BY <2>1, <2>2, <2>3, OrphanInserted
  <2>5. QED
    BY <2>4, <1>1
<1>6. CASE same # {}
  <2>1. k = [i \in 1..Len(l) |-> IF i \in same /\ Replaces(t, l[i]) THEN t ELSE l[i]]
    BY <1>4, <1>6
  <2>2. \A i \in 1..Len(l) : l[i] \in Tx
    OBVIOUS
  <2>3. k \in [1..Len(l) -> Tx]
    BY <2>1, <2>2
  <2>4. \A i \in 1..Len(l) : k[i] = l[i] \/ (k[i] = t /\ Nonce[l[i]] = Nonce[t])
    BY <2>1, <1>2
  <2>5. /\ k \in Seq(Tx) /\ Len(k) = Len(l)
        /\ ToSet(k) \subseteq ToSet(l) \cup {t} /\ OwnOrphans(k, a)
    BY <2>3, <2>4, OrphanReplaced
  <2>6. QED
    BY <2>5, <1>1
<1>7. QED
  BY <1>5, <1>6

\* One address's orphans become l, of what they were and what was being added.
LEMMA OrphansApart ==
    ASSUME NEW orph \in [Address -> Seq(Tx)], NEW a \in Address, NEW l \in Seq(Tx),
           NEW other, other = [orph EXCEPT ![a] = l],
           NEW pool, NEW waiting, NEW inHand, Apart(pool, orph, waiting, inHand),
           ToSet(l) \subseteq ToSet(orph[a]) \cup inHand, OwnOrphans(l, a)
    PROVE  /\ other \in [Address -> Seq(Tx)]
           /\ Apart(pool, other, waiting, {})
<1>1. other \in [Address -> Seq(Tx)] /\ other[a] = l /\ \A b \in Address : b # a => other[b] = orph[b]
  OBVIOUS
<1>2. \A b \in Address : OwnOrphans(other[b], b)
  BY <1>1 DEF Apart
<1>3. AllOf(other) \subseteq AllOf(orph) \cup inHand
  BY <1>1 DEF AllOf
<1>4. QED
  BY <1>1, <1>2, <1>3 DEF Apart

\* The check of the balance begins.
LEMMA CheckBegins ==
    ASSUME PoolIInv, stage = "nonce", NEW replaced,
           UNCHANGED <<chain, orphans, balances, expired>>, faults' \in 0..MaxFault,
           old' = replaced, stage' = "check", CallBalance(From[cur]),
           UNCHANGED <<transactions, mapNonce, queueOpt, cur>>,
           \/ replaced = {} /\ Nonce[cur] = val + 1
           \/ /\ Rivals(cur) # {} /\ replaced = {transactions[Min(Rivals(cur))]}
              /\ Replaces(cur, transactions[Min(Rivals(cur))])
    PROVE  PoolIInv'
<1>1. /\ PoolTypes /\ Stages
      /\ Apart(transactions, orphans, WithoutTip(queueOpt), Adding)
      /\ Amount(transactions, orphans, WithoutTip(queueOpt)) + Cardinality(Adding) <= MaxCount + 1
      /\ ~HasTip(queueOpt) =>
           StillTrue /\ \A a \in Address : Ready(storageView, transactions, mapNonce, a)
  BY DEF PoolIInv
<1>2. /\ storageView' = storageView /\ loading' = loading /\ tips' = tips /\ orphans' = orphans
      /\ balances' = balances /\ expired' = expired
      /\ transactions' = transactions /\ mapNonce' = mapNonce /\ queueOpt' = queueOpt
      /\ cur' = cur /\ stage' = "check" /\ old' = replaced
  BY DEF chain
<1>3. cur # None
  BY <1>1 DEF PoolTypes
<1>4. val' \in Int /\ read' \in BOOLEAN
  BY <1>1, <1>3, ReadTypes
<1>5. replaced \in SUBSET Tx
  <2>1. CASE Rivals(cur) # {} /\ replaced = {transactions[Min(Rivals(cur))]}
    <3>1. Rivals(cur) \subseteq 1..Len(transactions)
      BY DEF Rivals
    <3>2. Min(Rivals(cur)) \in Rivals(cur)
      BY <2>1, <3>1, MinIn
    <3>3. transactions[Min(Rivals(cur))] \in Tx
      BY <3>1, <3>2, <1>1 DEF PoolTypes
    <3>4. QED
      BY <2>1, <3>3
  <2>2. QED
    BY <2>1
<1>6. PoolTypes'
  BY <1>1, <1>2, <1>3, <1>4, <1>5 DEF PoolTypes
<1>7. Adding' = Adding /\ Rivals(cur)' = Rivals(cur)
  BY <1>2 DEF Adding, Rivals
<1>8. Stages'
  BY <1>2, <1>7 DEF Stages, Replaces
<1>9. ASSUME ~HasTip(queueOpt) PROVE StillTrue'
  <2>1. PICK a, S : a = From[cur] /\ S = StorageNonce(storageView, a)
    OBVIOUS
  <2>2. /\ Nonce[cur] > S /\ val = IF a \in DOMAIN mapNonce THEN mapNonce[a] ELSE S
    BY <1>1, <1>9, <2>1 DEF StillTrue
  <2>3. a \in Address /\ S \in Int /\ Nonce[cur] \in Int
    BY <1>1, <1>3, <2>1, ReadTypes
  <2>4. Ready(storageView, transactions, mapNonce, a)
    BY <1>1, <1>9, <2>3
  <2>5. ASSUME replaced = {} PROVE (S + 1)..(Nonce[cur] - 1) \subseteq NoncesIn(transactions, a)
    <3>1. Nonce[cur] = val + 1
      BY <2>5
    <3>2. CASE a \in DOMAIN mapNonce
      <4>1. PICK top \in Int : NoncesIn(transactions, a) = (S + 1)..top
        BY <2>1, <2>4 DEF Ready
      <4>2. val \in (S + 1)..top
        BY <2>2, <2>4, <3>2, <4>1 DEF Ready
      <4>3. QED
        BY <3>1, <4>1, <4>2, <2>3
    <3>3. CASE a \notin DOMAIN mapNonce
      BY <2>2, <2>3, <3>1, <3>3
    <3>4. QED
      BY <3>2, <3>3
  <2>6. QED
    BY <1>2, <2>1, <2>2, <2>5 DEF StillTrue
<1>10. QED
  BY <1>1, <1>2, <1>6, <1>7, <1>8, <1>9 DEF PoolIInv

\* The pool's nonce has come.
LEMMA GotNonceKeeps ==
    ASSUME PoolIInv, GotNonce
    PROVE  PoolIInv'
<1>1. /\ PoolTypes
      /\ Apart(transactions, orphans, WithoutTip(queueOpt), Adding)
      /\ Amount(transactions, orphans, WithoutTip(queueOpt)) + Cardinality(Adding) <= MaxCount + 1
  BY DEF PoolIInv
<1>2. stage = "nonce" /\ UNCHANGED <<chain, balances, expired>>
  BY DEF GotNonce
<1>3. PICK first : first = transactions[Min(Rivals(cur))]
  OBVIOUS
<1>4. \/ /\ orphans' = orphans /\ (faults' = faults \/ ReadFails)
         /\ Run(queueOpt, transactions, mapNonce)
      \/ /\ orphans' = orphans /\ (faults' = faults \/ ReadFails)
         /\ stage' = "check" /\ CallBalance(From[cur])
         /\ UNCHANGED <<transactions, mapNonce, queueOpt, cur>>
         /\ \/ old' = {} /\ Nonce[cur] = val + 1
            \/ Rivals(cur) # {} /\ old' = {first} /\ Replaces(cur, first)
      \/ AddToOrphan(cur) /\ faults' = faults /\ Run(queueOpt, transactions, mapNonce)
  BY <1>3, Zenon DEF GotNonce, Return
<1>5. faults' = faults \/ ReadFails => faults' \in 0..MaxFault
  BY <1>1, ReadFailsType
<1>6. CASE /\ orphans' = orphans /\ (faults' = faults \/ ReadFails)
           /\ Run(queueOpt, transactions, mapNonce)
  BY <1>2, <1>5, <1>6, ReturnKeeps
<1>7. CASE /\ orphans' = orphans /\ (faults' = faults \/ ReadFails)
           /\ stage' = "check" /\ CallBalance(From[cur])
           /\ UNCHANGED <<transactions, mapNonce, queueOpt, cur>>
           /\ \/ old' = {} /\ Nonce[cur] = val + 1
              \/ Rivals(cur) # {} /\ old' = {first} /\ Replaces(cur, first)
  <2>1. PICK replaced : replaced = old'
    OBVIOUS
  <2>2. QED
    BY <2>1, <1>2, <1>3, <1>5, <1>7, CheckBegins
<1>8. CASE AddToOrphan(cur) /\ faults' = faults /\ Run(queueOpt, transactions, mapNonce)
  <2>1. cur \in Tx /\ From[cur] \in Address
    BY <1>1, <1>2, ReadTypes DEF PoolTypes
  <2>2. PICK a : a = From[cur]
    OBVIOUS
  <2>3. PICK l : l = orphans[a]
    OBVIOUS
  <2>4. PICK k : orphans' = [orphans EXCEPT ![a] = k] /\ k = OrphansWith(l, cur)
    BY <1>8, <2>2, <2>3 DEF AddToOrphan
  <2>5. Adding = {cur} /\ Cardinality(Adding) = 1
    BY <1>2, FS_Singleton DEF Adding
  <2>6. l \in Seq(Tx) /\ OwnOrphans(l, a) /\ a \in Address /\ orphans \in [Address -> Seq(Tx)]
    BY <1>1, <2>1, <2>2, <2>3 DEF PoolTypes, Apart
  <2>7. cur \notin ToSet(l)
    BY <1>1, <2>3, <2>5, <2>6 DEF Apart, AllOf
  <2>8. /\ k \in Seq(Tx) /\ Len(k) <= Len(l) + 1 /\ Len(k) \in Nat /\ Len(l) \in Nat
        /\ ToSet(k) \subseteq ToSet(l) \cup {cur} /\ OwnOrphans(k, a)
    BY <2>1, <2>2, <2>4, <2>6, <2>7, OrphanList
  <2>9. orphans' \in [Address -> Seq(Tx)] /\ Apart(transactions, orphans', WithoutTip(queueOpt), {})
    BY <1>1, <2>3, <2>4, <2>5, <2>6, <2>8, OrphansApart
  <2>10. Amount(transactions, orphans', WithoutTip(queueOpt)) <= MaxCount + 1
    <3>1. PICK total, total2 : total = OrphanCount(orphans) /\ total2 = OrphanCount(orphans')
      OBVIOUS
    <3>2. total \in Int /\ total2 = total + (Len(k) - Len(l))
      <4>1. PICK other : other = orphans'
        OBVIOUS
      <4>2. other = [orphans EXCEPT ![a] = k] /\ total2 = OrphanCount(other)
        BY <2>4, <3>1, <4>1
      <4>3. OrphanCount(orphans) \in Int
            /\ OrphanCount(other) = OrphanCount(orphans) + (Len(k) - Len(orphans[a]))
        BY <2>6, <2>8, <4>2, OrphansChange
      <4>4. QED
        BY <2>3, <3>1, <4>2, <4>3
    <3>3. Len(transactions) \in Nat /\ Len(WithoutTip(queueOpt)) \in Nat /\ MaxCount \in Int
      BY <1>1, AmountType, PoolConstants
    <3>4. Len(transactions) + total + Len(WithoutTip(queueOpt)) + 1 <= MaxCount + 1
      BY <1>1, <2>5, <3>1 DEF Amount
    <3>5. Len(transactions) + total2 + Len(WithoutTip(queueOpt)) <= MaxCount + 1
      BY <3>2, <3>3, <3>4, <2>8
    <3>6. QED
      BY <3>1, <3>5 DEF Amount
  <2>11. ~HasTip(queueOpt) => \A b \in Address : Ready(storageView', transactions, mapNonce, b)
    BY <1>2 DEF PoolIInv, chain
  <2>12. /\ storageView' \in Chains /\ loading' \in SUBSET Chains /\ tips' \in 0..MaxTips
         /\ DOMAIN balances' \subseteq Address /\ balances' \in [DOMAIN balances' -> Int]
         /\ expired' \subseteq MayExpire
    BY <1>1, <1>2 DEF PoolTypes, chain
  <2>13. QED
    BY <1>1, <1>5, <1>8, <2>9, <2>10, <2>11, <2>12, RunKeeps DEF PoolTypes
<1>9. QED
  BY <1>4, <1>6, <1>7, <1>8

\* A transaction takes a place in the pool.
LEMMA AddToQueueOnce ==
    ASSUME NEW pool \in Seq(Tx), IsInjective(pool), NEW t \in Tx, t \notin ToSet(pool),
           NEW other, other = AddToQueue(pool, t)
    PROVE  /\ other \in Seq(Tx) /\ IsInjective(other)
           /\ Len(other) = Len(pool) + 1 /\ ToSet(other) = ToSet(pool) \cup {t}
<1>1. PICK n \in Nat : n = Len(pool)
  OBVIOUS
<1>2. PICK i : /\ i = 1 \/ i = n \/ i = n + 1
               /\ n = 0 => i = 1
               /\ other = InsertAt(pool, i, t)
  BY <1>1, Zenon DEF AddToQueue
<1>3. i \in 1..(Len(pool) + 1)
  BY <1>1, <1>2
<1>4. /\ InsertAt(pool, i, t) \in Seq(Tx) /\ Len(InsertAt(pool, i, t)) = Len(pool) + 1
      /\ ToSet(InsertAt(pool, i, t)) = ToSet(pool) \cup {t}
      /\ IsInjective(pool) /\ t \notin ToSet(pool) => IsInjective(InsertAt(pool, i, t))
  BY <1>3, InsertOnce
<1>5. QED
  BY <1>2, <1>4

\* The pool without the transaction that is replaced.
LEMMA WithoutOld ==
    ASSUME PoolTypes, Stages, stage = "check", IsInjective(transactions),
           NEW pool, pool = PoolWithoutOld
    PROVE  /\ pool \in Seq(Tx) /\ IsInjective(pool) /\ IsFiniteSet(old)
           /\ Len(pool) \in Nat /\ Len(pool) <= Len(transactions)
           /\ \/ old = {} /\ pool = transactions
              \/ \E o \in ToSet(transactions) :
                   /\ old = {o} /\ From[o] = From[cur] /\ Nonce[o] = Nonce[cur]
                   /\ Replaces(cur, o)
                   /\ ToSet(transactions) = ToSet(pool) \cup {o} /\ o \notin ToSet(pool)
<1>1. CASE old = {}
  <2>1. pool = transactions
    BY <1>1 DEF PoolWithoutOld
  <2>2. IsFiniteSet(old)
    BY <1>1, FS_EmptySet
  <2>3. QED
    BY <1>1, <2>1, <2>2 DEF PoolTypes
<1>2. CASE old # {}
  <2>1. PICK i : i = Min(Rivals(cur))
    OBVIOUS
  <2>2. Rivals(cur) # {} /\ old = {transactions[i]} /\ Replaces(cur, transactions[i])
    BY <1>2, <2>1 DEF Stages
  <2>3. i \in Rivals(cur)
    BY <2>1, <2>2, MinIn DEF Rivals
  <2>4. /\ i \in 1..Len(transactions) /\ From[transactions[i]] = From[cur]
        /\ Nonce[transactions[i]] = Nonce[cur]
    BY <2>3 DEF Rivals
  <2>5. pool = RemoveAt(transactions, i)
    BY <1>2, <2>1 DEF PoolWithoutOld
  <2>6. transactions \in Seq(Tx)
    BY DEF PoolTypes
  <2>7. /\ RemoveAt(transactions, i) \in Seq(Tx)
        /\ Len(RemoveAt(transactions, i)) = Len(transactions) - 1
        /\ ToSet(transactions) = ToSet(RemoveAt(transactions, i)) \cup {transactions[i]}
        /\ IsInjective(transactions) => /\ IsInjective(RemoveAt(transactions, i))
                                        /\ transactions[i] \notin ToSet(RemoveAt(transactions, i))
    BY <2>4, <2>6, RemoveOnce
  <2>8. pool \in Seq(Tx) /\ IsInjective(pool) /\ Len(pool) = Len(transactions) - 1
    BY <2>5, <2>7
  <2>9. IsFiniteSet(old)
    BY <2>2, FS_Singleton
  <2>10. Len(pool) \in Nat /\ Len(pool) <= Len(transactions)
    BY <2>6, <2>8
  <2>11. PICK o : o = transactions[i]
    OBVIOUS
  <2>12. /\ o \in ToSet(transactions) /\ old = {o} /\ From[o] = From[cur] /\ Nonce[o] = Nonce[cur]
         /\ ToSet(transactions) = ToSet(pool) \cup {o} /\ o \notin ToSet(pool)
         /\ Replaces(cur, o)
    BY <2>2, <2>4, <2>5, <2>7, <2>11
  <2>13. QED
    BY <2>8, <2>9, <2>10, <2>12
<1>3. QED
  BY <1>1, <1>2

\* One transaction for another of the same address and nonce.
LEMMA ReplacedReady ==
    ASSUME NEW S, NEW pool, NEW rest, NEW other, NEW o, NEW t, NEW nonces, NEW b,
           Ready(S, pool, nonces, b), From[t] = From[o], Nonce[t] = Nonce[o],
           ToSet(pool) = ToSet(rest) \cup {o}, ToSet(other) = ToSet(rest) \cup {t}
    PROVE  Ready(S, other, nonces, b)
<1>1. ASSUME NEW n PROVE n \in NoncesIn(pool, b) <=> n \in NoncesIn(other, b)
  BY NonceIn
<1>2. NoncesIn(pool, b) = NoncesIn(other, b)
  BY <1>1
<1>3. QED
  BY <1>2 DEF Ready

\* A transaction whose nonce leaves no gap.
LEMMA EnteredReady ==
    ASSUME NEW S \in Chains, NEW pool, NEW other, NEW t \in Tx, NEW nonces, NEW b \in Address,
           Ready(S, pool, nonces, b), ToSet(other) = ToSet(pool) \cup {t},
           Nonce[t] > StorageNonce(S, From[t]),
           (StorageNonce(S, From[t]) + 1)..(Nonce[t] - 1) \subseteq NoncesIn(pool, From[t])
    PROVE  Ready(S, other, nonces, b)
<1>1. CASE From[t] # b
  <2>1. ASSUME NEW n PROVE n \in NoncesIn(pool, b) <=> n \in NoncesIn(other, b)
    BY <1>1, NonceIn
  <2>2. NoncesIn(pool, b) = NoncesIn(other, b)
    BY <2>1
  <2>3. QED
    BY <2>2 DEF Ready
<1>2. CASE From[t] = b
  <2>1. PICK n : n = Nonce[t]
    OBVIOUS
  <2>2. PICK s : s = StorageNonce(S, b)
    OBVIOUS
  <2>3. n \in Int /\ s \in Int /\ n > s
    BY <1>2, <2>1, <2>2, ChainTypes, PoolConstants
  <2>4. PICK had : had = NoncesIn(pool, b)
    OBVIOUS
  <2>5. PICK top \in Int : s <= top /\ had = (s + 1)..top
    BY <2>2, <2>4 DEF Ready
  <2>6. (s + 1)..(n - 1) \subseteq had
    BY <1>2, <2>1, <2>2, <2>4
  <2>7. n <= top + 1
    <3>1. CASE n = s + 1
      BY <2>3, <2>5, <3>1
    <3>2. CASE n # s + 1
      <4>1. PICK m \in Int : m = n - 1
        BY <2>3
      <4>2. m \in (s + 1)..(n - 1)
        BY <2>3, <3>2, <4>1
      <4>3. m \in (s + 1)..top
        BY <2>5, <2>6, <4>2
      <4>4. QED
        BY <2>3, <2>5, <4>1, <4>3
    <3>3. QED
      BY <3>1, <3>2
  <2>8. NoncesIn(other, b) = had \cup {n}
    <3>1. ASSUME NEW m PROVE m \in NoncesIn(other, b) <=> m \in had \/ m = n
      BY <1>2, <2>1, <2>4, NonceIn
    <3>2. QED
      BY <3>1
  <2>9. PICK high \in Int : high = IF n <= top THEN top ELSE n
    BY <2>3
  <2>10. had \cup {n} = (s + 1)..high /\ s <= high
    BY <2>3, <2>5, <2>7, <2>9
  <2>11. b \in DOMAIN nonces => nonces[b] \in NoncesIn(other, b)
    BY <2>4, <2>8 DEF Ready
  <2>12. QED
    BY <2>2, <2>8, <2>9, <2>10, <2>11 DEF Ready
<1>3. QED
  BY <1>1, <1>2

\* The balance has been checked.
LEMMA GotCheckBalanceKeeps ==
    ASSUME PoolIInv, GotCheckBalance
    PROVE  PoolIInv'
<1>1. /\ PoolTypes /\ Stages
      /\ Apart(transactions, orphans, WithoutTip(queueOpt), Adding)
      /\ Amount(transactions, orphans, WithoutTip(queueOpt)) + Cardinality(Adding) <= MaxCount + 1
      /\ ~HasTip(queueOpt) =>
           StillTrue /\ \A a \in Address : Ready(storageView, transactions, mapNonce, a)
  BY DEF PoolIInv
<1>2. stage = "check" /\ UNCHANGED <<chain, orphans, balances, expired>>
  BY DEF GotCheckBalance
<1>3. \/ (faults' = faults \/ ReadFails) /\ Run(queueOpt, transactions, mapNonce)
      \/ /\ transactions' = AddToQueue(PoolWithoutOld, cur)
         /\ stage' = "added" /\ CallBalance(From[cur])
         /\ UNCHANGED <<mapNonce, queueOpt, cur, old, faults>>
  BY Zenon DEF GotCheckBalance, Return
<1>4. faults' = faults \/ ReadFails => faults' \in 0..MaxFault
  BY <1>1, ReadFailsType
<1>5. CASE (faults' = faults \/ ReadFails) /\ Run(queueOpt, transactions, mapNonce)
  BY <1>2, <1>4, <1>5, ReturnKeeps
<1>6. CASE /\ transactions' = AddToQueue(PoolWithoutOld, cur)
           /\ stage' = "added" /\ CallBalance(From[cur])
           /\ UNCHANGED <<mapNonce, queueOpt, cur, old, faults>>
  <2>1. /\ storageView' = storageView /\ loading' = loading /\ tips' = tips /\ orphans' = orphans
        /\ balances' = balances /\ expired' = expired
        /\ mapNonce' = mapNonce /\ queueOpt' = queueOpt
        /\ cur' = cur /\ old' = old /\ faults' = faults /\ stage' = "added"
    BY <1>2, <1>6 DEF chain
  <2>2. cur # None
    BY <1>1, <1>2 DEF PoolTypes
  <2>3. cur \in Tx /\ From[cur] \in Address /\ val' \in Int /\ read' \in BOOLEAN
    BY <1>1, <1>6, <2>2, ReadTypes
  <2>4. Adding = {cur} /\ Cardinality(Adding) = 1
    BY <1>2, FS_Singleton DEF Adding
  <2>5. Adding' = {} /\ Cardinality({}) = 0
    BY <2>1, FS_EmptySet DEF Adding
  <2>6. PICK pool : pool = PoolWithoutOld
    OBVIOUS
  <2>7. /\ IsInjective(transactions) /\ cur \notin ToSet(transactions)
        /\ cur \notin AllOf(orphans) /\ cur \notin ToSet(WithoutTip(queueOpt))
    BY <1>1, <2>4 DEF Apart
  <2>8. /\ pool \in Seq(Tx) /\ IsInjective(pool) /\ IsFiniteSet(old)
        /\ Len(pool) \in Nat /\ Len(pool) <= Len(transactions)
        /\ \/ old = {} /\ pool = transactions
           \/ \E o \in ToSet(transactions) :
                /\ old = {o} /\ From[o] = From[cur] /\ Nonce[o] = Nonce[cur]
                /\ Replaces(cur, o)
                /\ ToSet(transactions) = ToSet(pool) \cup {o} /\ o \notin ToSet(pool)
    BY <1>1, <1>2, <2>6, <2>7, WithoutOld
  <2>9. ToSet(pool) \subseteq ToSet(transactions)
    BY <2>8
  <2>10. PICK other : other = transactions'
    OBVIOUS
  <2>11. /\ other \in Seq(Tx) /\ IsInjective(other)
         /\ Len(other) = Len(pool) + 1 /\ ToSet(other) = ToSet(pool) \cup {cur}
    <3>1. other = AddToQueue(pool, cur)
      BY <1>6, <2>6, <2>10
    <3>2. cur \notin ToSet(pool)
      BY <2>7, <2>9
    <3>3. QED
      BY <3>1, <3>2, <2>3, <2>8, AddToQueueOnce
  <2>12. PoolTypes'
    BY <1>1, <2>1, <2>2, <2>3, <2>10, <2>11 DEF PoolTypes
  <2>13. Stages'
    BY <2>1, <2>8, <2>10, <2>11 DEF Stages
  <2>14. Apart(other, orphans, WithoutTip(queueOpt), {})
    BY <1>1, <2>7, <2>9, <2>11 DEF Apart
  <2>15. Amount(other, orphans, WithoutTip(queueOpt)) + 0 <= MaxCount + 1
    <3>1. MaxCount \in Int
      BY PoolConstants
    <3>2. PICK orphaned \in Int : orphaned = OrphanCount(orphans)
      BY <1>1, AmountType
    <3>3. Len(transactions) \in Nat /\ Len(WithoutTip(queueOpt)) \in Nat
      BY <1>1, AmountType
    <3>4. Len(transactions) + orphaned + Len(WithoutTip(queueOpt)) + 1 <= MaxCount + 1
      BY <1>1, <2>4, <3>2 DEF Amount
    <3>5. Amount(other, orphans, WithoutTip(queueOpt))
            = Len(pool) + 1 + orphaned + Len(WithoutTip(queueOpt))
      BY <2>11, <3>2 DEF Amount
    <3>6. QED
      BY <2>8, <3>1, <3>3, <3>4, <3>5
  <2>16. ASSUME ~HasTip(queueOpt), NEW b \in Address PROVE Ready(storageView, other, mapNonce, b)
    <3>1. Ready(storageView, transactions, mapNonce, b) /\ StillTrue /\ storageView \in Chains
      BY <1>1, <2>16 DEF PoolTypes
    <3>2. CASE old = {} /\ pool = transactions
      <4>1. /\ Nonce[cur] > StorageNonce(storageView, From[cur])
            /\ (StorageNonce(storageView, From[cur]) + 1)..(Nonce[cur] - 1)
                 \subseteq NoncesIn(transactions, From[cur])
        BY <1>2, <3>1, <3>2 DEF StillTrue
      <4>2. QED
        BY <2>3, <2>11, <3>1, <3>2, <4>1, EnteredReady
    <3>3. CASE \E o \in ToSet(transactions) :
                /\ old = {o} /\ From[o] = From[cur] /\ Nonce[o] = Nonce[cur]
                /\ Replaces(cur, o)
                /\ ToSet(transactions) = ToSet(pool) \cup {o} /\ o \notin ToSet(pool)
      <4>1. PICK o : /\ From[o] = From[cur] /\ Nonce[o] = Nonce[cur]
                     /\ ToSet(transactions) = ToSet(pool) \cup {o}
        BY <3>3
      <4>2. QED
        BY <2>11, <3>1, <4>1, ReplacedReady
    <3>4. QED
      BY <2>8, <3>2, <3>3
  <2>17. StillTrue'
    BY <2>1 DEF StillTrue
  <2>18. QED
    BY <2>1, <2>5, <2>10, <2>12, <2>13, <2>14, <2>15, <2>16, <2>17 DEF PoolIInv
<1>7. QED
  BY <1>3, <1>5, <1>6

\* A map with one more entry.
LEMMA EntryAdded ==
    ASSUME NEW f, DOMAIN f \subseteq Address, f \in [DOMAIN f -> Int],
           NEW a \in Address, NEW v \in Int, NEW g, g = Put(f, a, v)
    PROVE  DOMAIN g \subseteq Address /\ g \in [DOMAIN g -> Int]
BY DEF Put

\* The nonce of a transaction of the pool is remembered.
LEMMA RememberedReady ==
    ASSUME NEW S, NEW pool, NEW nonces, NEW t \in ToSet(pool), NEW b,
           NEW more, DOMAIN more = DOMAIN nonces \cup {From[t]}, more[From[t]] = Nonce[t],
           \A a \in DOMAIN nonces : a # From[t] => more[a] = nonces[a],
           Ready(S, pool, nonces, b)
    PROVE  Ready(S, pool, more, b)
<1>1. Nonce[t] \in NoncesIn(pool, From[t])
  BY NonceIn
<1>2. QED
  BY <1>1 DEF Ready

\* The balance has come.
LEMMA GotBalanceKeeps ==
    ASSUME PoolIInv, GotBalance
    PROVE  PoolIInv'
<1>1. /\ PoolTypes /\ Stages
      /\ Apart(transactions, orphans, WithoutTip(queueOpt), Adding)
      /\ Amount(transactions, orphans, WithoutTip(queueOpt)) + Cardinality(Adding) <= MaxCount + 1
      /\ ~HasTip(queueOpt) =>
           StillTrue /\ \A a \in Address : Ready(storageView, transactions, mapNonce, a)
  BY DEF PoolIInv
<1>2. PICK a : a = From[cur]
  OBVIOUS
<1>3. PICK more : more = Put(mapNonce, a, Nonce[cur])
  OBVIOUS
<1>4. PICK paid : paid = Put(balances, a, val + OldCost - Cost[cur])
  OBVIOUS
<1>5. stage = "added" /\ UNCHANGED <<chain, orphans, expired>>
  BY DEF GotBalance
<1>6. PICK nonces :
        /\ \/ balances' = paid /\ faults' = faults /\ nonces = more
           \/ ReadFails /\ balances' = balances /\ nonces = mapNonce
        /\ \/ old # {} /\ Run(queueOpt, transactions, nonces)
           \/ /\ old = {} /\ stage' = "scan" /\ CallNonce(nonces, a)
              /\ mapNonce' = nonces
              /\ UNCHANGED <<transactions, queueOpt, cur, old>>
  BY <1>2, <1>3, <1>4, Zenon DEF GotBalance
<1>7. /\ storageView' = storageView /\ loading' = loading /\ tips' = tips /\ orphans' = orphans
      /\ expired' = expired
  BY <1>5 DEF chain
<1>8. cur # None
  BY <1>1, <1>5 DEF PoolTypes
<1>9. cur \in Tx /\ a \in Address /\ Nonce[cur] \in Int /\ Cost[cur] \in Int
  BY <1>1, <1>2, <1>8, ReadTypes
<1>10. cur \in ToSet(transactions) /\ IsFiniteSet(old)
  BY <1>1, <1>5 DEF Stages
<1>11. val + OldCost - Cost[cur] \in Int
  <2>1. OldCost \in Int
    BY <1>1, <1>10, CostType DEF OldCost, PoolTypes
  <2>2. val \in Int
    BY <1>1 DEF PoolTypes
  <2>3. QED
    BY <2>1, <2>2, <1>9
<1>12. DOMAIN mapNonce \subseteq Address /\ mapNonce \in [DOMAIN mapNonce -> Int]
       /\ DOMAIN balances \subseteq Address /\ balances \in [DOMAIN balances -> Int]
  BY <1>1 DEF PoolTypes
<1>13. /\ DOMAIN more \subseteq Address /\ more \in [DOMAIN more -> Int]
       /\ DOMAIN more = DOMAIN mapNonce \cup {a} /\ more[a] = Nonce[cur]
       /\ \A b \in DOMAIN mapNonce : b # a => more[b] = mapNonce[b]
  <2>1. PICK v \in Int : v = Nonce[cur]
    BY <1>9
  <2>2. PICK m : m = mapNonce
    OBVIOUS
  <2>3. more = Put(m, a, v) /\ DOMAIN m \subseteq Address /\ m \in [DOMAIN m -> Int]
    BY <1>3, <1>12, <2>1, <2>2
  <2>4. DOMAIN more \subseteq Address /\ more \in [DOMAIN more -> Int]
    BY <1>9, <2>3, EntryAdded
  <2>5. DOMAIN more = DOMAIN m \cup {a} /\ more[a] = v
    BY <2>3 DEF Put
  <2>6. \A b \in DOMAIN m : b # a => more[b] = m[b]
    BY <2>3 DEF Put
  <2>7. QED
    BY <2>1, <2>2, <2>4, <2>5, <2>6
<1>14. DOMAIN paid \subseteq Address /\ paid \in [DOMAIN paid -> Int]
  BY <1>4, <1>9, <1>11, <1>12, EntryAdded
<1>15. DOMAIN balances' \subseteq Address /\ balances' \in [DOMAIN balances' -> Int]
  BY <1>6, <1>12, <1>14
<1>16. DOMAIN nonces \subseteq Address /\ nonces \in [DOMAIN nonces -> Int]
  BY <1>6, <1>12, <1>13
<1>17. faults' \in 0..MaxFault
  BY <1>1, <1>6, ReadFailsType
<1>18. ASSUME ~HasTip(queueOpt), NEW b \in Address PROVE Ready(storageView, transactions, nonces, b)
  <2>1. Ready(storageView, transactions, mapNonce, b)
    BY <1>1, <1>18
  <2>2. Ready(storageView, transactions, more, b)
    BY <1>2, <1>10, <1>13, <2>1, RememberedReady
  <2>3. QED
    BY <1>6, <2>1, <2>2
<1>19. Adding = {} /\ Cardinality({}) = 0
  BY <1>5, FS_EmptySet DEF Adding
<1>20. Amount(transactions, orphans, WithoutTip(queueOpt)) <= MaxCount + 1
  BY <1>1, <1>19, AmountType
<1>21. CASE Run(queueOpt, transactions, nonces)
  <2>1. Apart(transactions, orphans', WithoutTip(queueOpt), {})
    BY <1>1, <1>7, <1>19
  <2>2. Amount(transactions, orphans', WithoutTip(queueOpt)) <= MaxCount + 1
    BY <1>7, <1>20
  <2>3. ~HasTip(queueOpt) => \A b \in Address : Ready(storageView', transactions, nonces, b)
    BY <1>7, <1>18
  <2>4. QED
    BY <1>1, <1>7, <1>15, <1>16, <1>17, <1>21, <2>1, <2>2, <2>3, RunKeeps DEF PoolTypes
<1>22. CASE /\ old = {} /\ stage' = "scan" /\ CallNonce(nonces, a)
            /\ mapNonce' = nonces
            /\ UNCHANGED <<transactions, queueOpt, cur, old>>
  <2>1. StorageNonce(storageView, a) \in Int
    BY <1>1, <1>9, ChainTypes DEF PoolTypes
  <2>2. val' \in Int
    BY <1>16, <1>22, <2>1 DEF CallNonce
  <2>3. read' \in BOOLEAN
    <3>1. CallNonce(nonces, a)
      BY <1>22
    <3>2. QED
      BY <3>1, Zenon DEF CallNonce
  <2>4. PoolTypes'
    BY <1>1, <1>7, <1>8, <1>15, <1>16, <1>17, <1>22, <2>2, <2>3 DEF PoolTypes
  <2>5. Adding' = {}
    BY <1>22 DEF Adding
  <2>6. Stages' /\ StillTrue'
    BY <1>22 DEF Stages, StillTrue
  <2>7. Apart(transactions', orphans', WithoutTip(queueOpt'), Adding')
    BY <1>1, <1>7, <1>19, <1>22, <2>5
  <2>8. Amount(transactions', orphans', WithoutTip(queueOpt')) + Cardinality(Adding') <= MaxCount + 1
    BY <1>1, <1>7, <1>19, <1>20, <1>22, <2>5
  <2>9. ~HasTip(queueOpt') => \A b \in Address : Ready(storageView', transactions', mapNonce', b)
    BY <1>7, <1>18, <1>22
  <2>10. QED
    BY <2>4, <2>6, <2>7, <2>8, <2>9 DEF PoolIInv
<1>23. QED
  BY <1>6, <1>21, <1>22

\* Orphans that stay do so under the same terms.
LEMMA FewerOrphans ==
    ASSUME NEW a, NEW l, OwnOrphans(l, a), NEW k, IsInjective(k), ToSet(k) \subseteq ToSet(l)
    PROVE  OwnOrphans(k, a)
BY DEF OwnOrphans

\* The orphans left when those before the first live one are dropped.
LEMMA LiveOrphans ==
    ASSUME NEW a, NEW l \in Seq(Tx), OwnOrphans(l, a), NEW live, live \subseteq 1..Len(l),
           NEW rest, rest = IF live = {} THEN <<>> ELSE SubSeq(l, Min(live), Len(l))
    PROVE  /\ rest \in Seq(Tx) /\ OwnOrphans(rest, a) /\ ToSet(rest) \subseteq ToSet(l)
           /\ Len(rest) \in Nat /\ Len(l) \in Nat /\ Len(rest) <= Len(l)
<1>1. IsInjective(l) /\ Len(l) \in Nat
  BY DEF OwnOrphans
<1>2. CASE live = {}
  <2>1. rest = <<>> /\ ToSet(rest) = {} /\ IsInjective(rest) /\ Len(rest) = 0
    BY <1>2 DEF ToSet, IsInjective
  <2>2. OwnOrphans(rest, a)
    BY <2>1, FewerOrphans
  <2>3. <<>> \in Seq(Tx)
    OBVIOUS
  <2>4. rest \in Seq(Tx) /\ Len(rest) \in Nat /\ Len(rest) <= Len(l)
    <3>1. rest \in Seq(Tx)
      BY <1>2, <2>3, Zenon
    <3>2. Len(rest) = 0
      BY <2>1
    <3>3. QED
      BY <1>1, <3>1, <3>2
  <2>5. ToSet(rest) \subseteq ToSet(l)
    BY <2>1
  <2>6. QED
    BY <1>1, <2>2, <2>4, <2>5
<1>3. CASE live # {}
  <2>1. PICK m : m = Min(live)
    OBVIOUS
  <2>2. m \in live
    <3>1. live \subseteq Nat
      OBVIOUS
    <3>2. QED
      BY <1>3, <2>1, <3>1, MinIn
  <2>3. PICK n \in Nat : n = Len(l)
    BY <1>1
  <2>4. m \in Nat /\ m >= 1 /\ m <= n /\ m <= n + 1
    BY <2>2, <2>3
  <2>5. rest = SubSeq(l, m, n)
    BY <1>3, <2>1, <2>3
  <2>6. /\ SubSeq(l, m, n) \in Seq(Tx)
        /\ m <= n + 1 => Len(SubSeq(l, m, n)) = n - m + 1
        /\ \A t : t \in ToSet(SubSeq(l, m, n)) <=> \E k \in m..n : t = l[k]
        /\ IsInjective(l) => IsInjective(SubSeq(l, m, n))
    BY <2>3, <2>4, PartOnce
  <2>7. /\ rest \in Seq(Tx) /\ Len(rest) = n - m + 1 /\ IsInjective(rest)
        /\ \A t : t \in ToSet(rest) <=> \E k \in m..n : t = l[k]
    BY <1>1, <2>4, <2>5, <2>6
  <2>8. ToSet(rest) \subseteq ToSet(l)
    <3> SUFFICES ASSUME NEW t \in ToSet(rest) PROVE t \in ToSet(l)
      OBVIOUS
    <3>1. PICK k \in m..n : t = l[k]
      BY <2>7
    <3>2. k \in 1..Len(l)
      BY <2>3, <2>4, <3>1
    <3>3. QED
      BY <3>1, <3>2, InToSet
  <2>9. OwnOrphans(rest, a)
    BY <2>7, <2>8, FewerOrphans
  <2>10. Len(rest) \in Nat /\ Len(rest) <= Len(l)
    BY <2>3, <2>4, <2>7
  <2>11. QED
    BY <1>1, <2>7, <2>8, <2>9, <2>10
<1>4. QED
  BY <1>2, <1>3

\* The first of an address's orphans is queued.
LEMMA OrphanQueued ==
    ASSUME NEW orph \in [Address -> Seq(Tx)], NEW a \in Address, NEW t, NEW k \in Seq(Tx),
           NEW other, other = [orph EXCEPT ![a] = k],
           NEW pool, NEW waiting, NEW longer, Apart(pool, orph, waiting, {}),
           OwnOrphans(k, a), ToSet(k) \subseteq ToSet(orph[a]),
           t \in ToSet(orph[a]), t \notin ToSet(k),
           ToSet(longer) = ToSet(waiting) \cup {t}, IsInjective(longer)
    PROVE  Apart(pool, other, longer, {})
<1>1. ToSet(k) \subseteq ToSet(orph[a]) \cup {}
  OBVIOUS
<1>2. Apart(pool, other, waiting, {})
  BY <1>1, OrphansApart
<1>3. other[a] = k /\ \A b \in Address : b # a => other[b] = orph[b]
  OBVIOUS
<1>4. From[t] = a /\ \A b \in Address : OwnOrphans(orph[b], b)
  BY DEF Apart, OwnOrphans
<1>5. t \notin AllOf(other)
  <2> SUFFICES ASSUME NEW b \in Address PROVE t \notin ToSet(other[b])
    BY DEF AllOf
  <2>1. CASE b = a
    BY <1>3, <2>1
  <2>2. CASE b # a
    <3>1. other[b] = orph[b] /\ OwnOrphans(orph[b], b)
      BY <1>3, <1>4, <2>2
    <3>2. QED
      BY <1>4, <2>2, <3>1 DEF OwnOrphans
  <2>3. QED
    BY <2>1, <2>2
<1>6. t \notin ToSet(pool)
  BY DEF Apart, AllOf
<1>7. QED
  BY <1>2, <1>5, <1>6 DEF Apart

\* The orphans are scanned for the one that comes next.
LEMMA ScanOrphanKeeps ==
    ASSUME PoolIInv, ScanOrphan
    PROVE  PoolIInv'
<1>1. /\ PoolTypes
      /\ Apart(transactions, orphans, WithoutTip(queueOpt), Adding)
      /\ Amount(transactions, orphans, WithoutTip(queueOpt)) + Cardinality(Adding) <= MaxCount + 1
  BY DEF PoolIInv
<1>2. stage = "scan" /\ UNCHANGED <<chain, balances, expired>>
  BY DEF ScanOrphan
<1>3. PICK a : a = From[cur]
  OBVIOUS
<1>4. PICK l : l = orphans[a]
  OBVIOUS
<1>5. PICK live : live = {i \in 1..Len(l) : l[i] \notin expired}
  OBVIOUS
<1>6. PICK rest : rest = IF live = {} THEN <<>> ELSE SubSeq(l, Min(live), Len(l))
  OBVIOUS
<1>7. PICK next \in BOOLEAN : next <=> rest # <<>> /\ Nonce[rest[1]] = val + 1
  OBVIOUS
<1>8. \/ /\ orphans' = [orphans EXCEPT ![a] = IF next THEN Tail(rest) ELSE rest]
         /\ faults' = faults
         /\ Run(IF next THEN Append(queueOpt, rest[1]) ELSE queueOpt, transactions, mapNonce)
      \/ ReadFails /\ orphans' = [orphans EXCEPT ![a] = rest] /\ Run(queueOpt, transactions, mapNonce)
  BY <1>3, <1>4, <1>5, <1>6, <1>7, Zenon DEF ScanOrphan, Return
<1>9. cur \in Tx /\ a \in Address
  BY <1>1, <1>2, <1>3, ReadTypes DEF PoolTypes
<1>10. l \in Seq(Tx) /\ OwnOrphans(l, a) /\ orphans \in [Address -> Seq(Tx)]
  BY <1>1, <1>4, <1>9 DEF PoolTypes, Apart
<1>11. live \subseteq 1..Len(l)
  BY <1>5
<1>12. /\ rest \in Seq(Tx) /\ OwnOrphans(rest, a) /\ ToSet(rest) \subseteq ToSet(l)
       /\ Len(rest) \in Nat /\ Len(l) \in Nat /\ Len(rest) <= Len(l)
  BY <1>6, <1>10, <1>11, LiveOrphans
<1>13. faults' \in 0..MaxFault
  BY <1>1, <1>8, ReadFailsType
<1>14. Adding = {} /\ Cardinality({}) = 0
  BY <1>2, FS_EmptySet DEF Adding
<1>15. /\ storageView' \in Chains /\ loading' \in SUBSET Chains /\ tips' \in 0..MaxTips
       /\ DOMAIN balances' \subseteq Address /\ balances' \in [DOMAIN balances' -> Int]
       /\ expired' \subseteq MayExpire
  BY <1>1, <1>2 DEF PoolTypes, chain
<1>16. ~HasTip(queueOpt) => \A b \in Address : Ready(storageView', transactions, mapNonce, b)
  BY <1>2 DEF PoolIInv, chain
<1>17. PICK other : other = orphans'
  OBVIOUS
<1>18. /\ MaxCount \in Int /\ OrphanCount(orphans) \in Int
       /\ Len(transactions) \in Nat /\ Len(WithoutTip(queueOpt)) \in Nat
       /\ Len(transactions) + OrphanCount(orphans) + Len(WithoutTip(queueOpt)) <= MaxCount + 1
  <2>1. MaxCount \in Int
    BY PoolConstants
  <2>2. Amount(transactions, orphans, WithoutTip(queueOpt)) + 0 <= MaxCount + 1
    BY <1>1, <1>14
  <2>3. QED
    BY <1>1, <2>1, <2>2, AmountType DEF Amount
<1>19. ASSUME NEW k \in Seq(Tx), other = [orphans EXCEPT ![a] = k]
       PROVE  OrphanCount(other) = OrphanCount(orphans) + (Len(k) - Len(l))
  BY <1>4, <1>9, <1>10, <1>19, OrphansChange
<1>20. CASE other = [orphans EXCEPT ![a] = rest] /\ Run(queueOpt, transactions, mapNonce)
  <2>1. ToSet(rest) \subseteq ToSet(orphans[a]) \cup {}
    BY <1>4, <1>12
  <2>2. Apart(transactions, orphans, WithoutTip(queueOpt), {})
    BY <1>1, <1>14
  <2>3. other \in [Address -> Seq(Tx)] /\ Apart(transactions, other, WithoutTip(queueOpt), {})
    BY <1>9, <1>10, <1>12, <1>20, <2>1, <2>2, OrphansApart
  <2>4. OrphanCount(other) = OrphanCount(orphans) + (Len(rest) - Len(l))
    BY <1>12, <1>19, <1>20
  <2>5. Amount(transactions, other, WithoutTip(queueOpt)) <= MaxCount + 1
    BY <1>12, <1>18, <2>4 DEF Amount
  <2>6. QED
    BY <1>1, <1>13, <1>15, <1>16, <1>17, <1>20, <2>3, <2>5, RunKeeps DEF PoolTypes
<1>21. CASE /\ rest # <<>> /\ other = [orphans EXCEPT ![a] = Tail(rest)]
            /\ Run(Append(queueOpt, rest[1]), transactions, mapNonce)
  <2>1. PICK t, k, q : t = rest[1] /\ k = Tail(rest) /\ q = Append(queueOpt, t)
    OBVIOUS
  <2>2. Head(rest) = rest[1]
    BY <1>12, <1>21
  <2>3. /\ t \in Tx /\ k \in Seq(Tx) /\ Len(k) = Len(rest) - 1
        /\ ToSet(rest) = ToSet(k) \cup {t} /\ IsInjective(k) /\ t \notin ToSet(k)
    <3>1. IsInjective(rest)
      BY <1>12 DEF OwnOrphans
    <3>2. QED
      BY <1>12, <1>21, <2>1, <2>2, <3>1, TailOnce
  <2>4. /\ ToSet(k) \subseteq ToSet(rest) /\ ToSet(k) \subseteq ToSet(orphans[a])
        /\ t \in ToSet(orphans[a])
    BY <1>4, <1>12, <2>3
  <2>5. OwnOrphans(k, a)
    BY <1>12, <2>3, <2>4, FewerOrphans
  <2>6. other = [orphans EXCEPT ![a] = k] /\ Run(q, transactions, mapNonce)
    BY <1>21, <2>1
  <2>7. queueOpt \in Seq(Tx \cup {TipOpt}) /\ WithoutTip(queueOpt) \in Seq(Tx)
    BY <1>1 DEF PoolTypes
  <2>8. PICK w : w = WithoutTip(q)
    OBVIOUS
  <2>9. /\ q \in Seq(Tx \cup {TipOpt}) /\ (HasTip(q) <=> HasTip(queueOpt)) /\ w \in Seq(Tx)
        /\ Len(w) = Len(WithoutTip(queueOpt)) + 1
        /\ ToSet(w) = ToSet(WithoutTip(queueOpt)) \cup {t}
        /\ IsInjective(WithoutTip(queueOpt)) /\ t \notin ToSet(WithoutTip(queueOpt))
             => IsInjective(w)
    BY <2>1, <2>3, <2>7, <2>8, AppendTip
  <2>10. Apart(transactions, orphans, WithoutTip(queueOpt), {})
    BY <1>1, <1>14
  <2>11. IsInjective(w)
    BY <1>9, <2>4, <2>9, <2>10 DEF Apart, AllOf
  <2>12. Apart(transactions, other, w, {})
    BY <1>9, <1>10, <2>3, <2>4, <2>5, <2>6, <2>9, <2>10, <2>11, OrphanQueued
  <2>13. other \in [Address -> Seq(Tx)]
    BY <1>10, <2>3, <2>6
  <2>14. OrphanCount(other) = OrphanCount(orphans) + (Len(k) - Len(l))
    BY <2>3, <2>6, <1>19
  <2>15. Amount(transactions, other, w) <= MaxCount + 1
    <3>1. Len(k) + 1 <= Len(l) /\ Len(k) \in Int
      BY <1>12, <2>3
    <3>2. Amount(transactions, other, w) = Len(transactions) + OrphanCount(other) + Len(w)
      BY DEF Amount
    <3>3. QED
      BY <1>12, <1>18, <2>9, <2>14, <3>1, <3>2
  <2>16. ~HasTip(q) => \A b \in Address : Ready(storageView', transactions, mapNonce, b)
    BY <1>16, <2>9
  <2>17. QED
    <3>1. /\ transactions \in Seq(Tx) /\ DOMAIN mapNonce \subseteq Address
          /\ mapNonce \in [DOMAIN mapNonce -> Int] /\ WithoutTip(q) \in Seq(Tx)
      BY <1>1, <2>8, <2>9 DEF PoolTypes
    <3>2. /\ orphans' \in [Address -> Seq(Tx)] /\ Apart(transactions, orphans', WithoutTip(q), {})
          /\ Amount(transactions, orphans', WithoutTip(q)) <= MaxCount + 1
      BY <1>17, <2>8, <2>12, <2>13, <2>15
    <3>3. QED
      BY <1>13, <1>15, <2>6, <2>9, <2>16, <3>1, <3>2, RunKeeps
<1>22. \/ other = [orphans EXCEPT ![a] = rest] /\ Run(queueOpt, transactions, mapNonce)
       \/ /\ rest # <<>> /\ other = [orphans EXCEPT ![a] = Tail(rest)]
          /\ Run(Append(queueOpt, rest[1]), transactions, mapNonce)
  BY <1>7, <1>8, <1>17, ZenonT(30)
<1>23. QED
  BY <1>20, <1>21, <1>22

----------------------------------------------------------------------------
(* The invariant and what it says *)

\* Without orphans there is nothing to count.
LEMMA NoOrphans ==
    ASSUME NEW orph, orph = [a \in Address |-> <<>>]
    PROVE  OrphanCount(orph) = 0
<1>1. PICK f : f = [b \in Address |-> Len(orph[b])]
  OBVIOUS
<1>2. f \in [Address -> Int] /\ DOMAIN f = Address /\ \A a \in Address : f[a] = 0
  BY <1>1
<1>3. F!IsFiniteSet(Address)
  BY PoolConstants DEF IsFiniteSet, F!IsFiniteSet
<1>4. F!Sum(f, Address) = 0
  BY <1>2, <1>3, F!SumOfZeros
<1>5. Total(f) = F!Sum(f, Address)
  BY <1>2, TotalIsSum, Zenon
<1>6. QED
  BY <1>1, <1>4, <1>5, Zenon DEF OrphanCount

\* An empty pool on any chain.
LEMMA InitPool == PoolInit => PoolIInv
<1> SUFFICES ASSUME PoolInit PROVE PoolIInv
  OBVIOUS
<1>1. /\ storageView \in Chains /\ loading = {} /\ tips = 0
      /\ transactions = <<>> /\ queueOpt = <<>>
      /\ orphans = [a \in Address |-> <<>>]
      /\ mapNonce = Empty /\ balances = Empty
      /\ stage = "idle" /\ cur = None /\ old = {}
      /\ val = 0 /\ expired = {} /\ faults = 0
  BY DEF PoolInit
<1>2. read \in BOOLEAN
  BY Zenon DEF PoolInit
<1>3. ~HasTip(queueOpt) /\ WithoutTip(queueOpt) = <<>>
  BY <1>1 DEF HasTip, WithoutTip
<1>4. Empty \in [DOMAIN Empty -> Int] /\ DOMAIN Empty = {}
  BY DEF Empty
<1>5. MaxTips \in Nat /\ MaxFault \in Nat /\ MaxCount \in Nat
  BY PoolConstants
<1>6. <<>> \in Seq(Tx) /\ <<>> \in Seq(Tx \cup {TipOpt})
  OBVIOUS
<1>7. PoolTypes
  <2>1. storageView \in Chains /\ loading \in SUBSET Chains
    BY <1>1
  <2>2. transactions \in Seq(Tx) /\ orphans \in [Address -> Seq(Tx)]
    BY <1>1, <1>6
  <2>3. /\ DOMAIN mapNonce \subseteq Address /\ mapNonce \in [DOMAIN mapNonce -> Int]
        /\ DOMAIN balances \subseteq Address /\ balances \in [DOMAIN balances -> Int]
    BY <1>1, <1>4
  <2>4. queueOpt \in Seq(Tx \cup {TipOpt}) /\ WithoutTip(queueOpt) \in Seq(Tx)
    BY <1>1, <1>3, <1>6
  <2>5. /\ stage \in {"idle", "timeout", "storageNonce", "nonce", "check", "added", "scan"}
        /\ cur \in Tx \cup {None} /\ (cur = None <=> stage = "idle")
        /\ cur = None => queueOpt = <<>>
    BY <1>1
  <2>6. old \in SUBSET Tx /\ val \in Int /\ expired \subseteq MayExpire
    BY <1>1
  <2>7. tips \in 0..MaxTips /\ faults \in 0..MaxFault
    BY <1>1, <1>5
  <2>8. QED
    BY <1>2, <2>1, <2>2, <2>3, <2>4, <2>5, <2>6, <2>7, Zenon DEF PoolTypes
<1>8. Adding = {} /\ Cardinality({}) = 0
  BY <1>1, FS_EmptySet DEF Adding
<1>9. IsInjective(<<>>) /\ ToSet(<<>>) = {}
  BY DEF IsInjective, ToSet
<1>10. \A a \in Address : orphans[a] = <<>>
  BY <1>1
<1>11. AllOf(orphans) = {} /\ \A a \in Address : OwnOrphans(orphans[a], a)
  BY <1>9, <1>10 DEF AllOf, OwnOrphans
<1>12. Apart(<<>>, orphans, <<>>, {})
  BY <1>9, <1>11 DEF Apart
<1>13. Amount(<<>>, orphans, <<>>) + 0 <= MaxCount + 1
  <2>1. OrphanCount(orphans) = 0 /\ Len(<<>>) = 0
    BY <1>1, NoOrphans
  <2>2. QED
    BY <2>1, <1>5 DEF Amount
<1>14. Stages /\ StillTrue
  BY <1>1 DEF Stages, StillTrue
<1>15. \A a \in Address : Ready(storageView, <<>>, mapNonce, a)
  BY <1>1, <1>4, EmptyIsReady
<1>16. QED
  BY <1>1, <1>3, <1>7, <1>8, <1>12, <1>13, <1>14, <1>15 DEF PoolIInv

\* A step that changes nothing.
LEMMA IdlePool == PoolIInv /\ UNCHANGED poolVars => PoolIInv'
<1> SUFFICES ASSUME PoolIInv, UNCHANGED poolVars PROVE PoolIInv'
  OBVIOUS
<1>1. /\ storageView' = storageView /\ loading' = loading /\ tips' = tips
      /\ transactions' = transactions /\ orphans' = orphans /\ balances' = balances
      /\ mapNonce' = mapNonce /\ queueOpt' = queueOpt
      /\ stage' = stage /\ cur' = cur /\ val' = val /\ read' = read
      /\ old' = old /\ expired' = expired /\ faults' = faults
  BY DEF poolVars, chain, awaited
<1>2. PoolTypes'
  BY <1>1 DEF PoolIInv, PoolTypes
<1>3. Adding' = Adding /\ Rivals(cur)' = Rivals(cur)
  BY <1>1 DEF Adding, Rivals
<1>4. Stages'
  BY <1>1, <1>3 DEF PoolIInv, Stages, Replaces
<1>5. StillTrue' <=> StillTrue
  BY <1>1 DEF StillTrue
<1>6. QED
  BY <1>1, <1>2, <1>3, <1>4, <1>5 DEF PoolIInv

\* Every step keeps the invariant.
LEMMA NextPool == PoolIInv /\ [PoolNext]_poolVars => PoolIInv'
<1> SUFFICES ASSUME PoolIInv, [PoolNext]_poolVars PROVE PoolIInv'
  OBVIOUS
<1>1. ASSUME NEW t \in Tx, AddTransaction(t) PROVE PoolIInv'
  BY <1>1, AddTransactionKeeps
<1>2. ASSUME NEW t \in MayExpire, Expire(t) PROVE PoolIInv'
  BY <1>2, ExpireKeeps
<1>3. ASSUME NEW S \in Chains \ {storageView}, UpdateTipBlock(S) PROVE PoolIInv'
  BY <1>3, UpdateTipBlockKeeps
<1>4. CASE TipLoaded
  BY <1>4, TipLoadedKeeps
<1>5. CASE TimedOut
  BY <1>5, TimedOutKeeps
<1>6. CASE GotStorageNonce
  BY <1>6, GotStorageNonceKeeps
<1>7. CASE GotNonce
  BY <1>7, GotNonceKeeps
<1>8. CASE GotCheckBalance
  BY <1>8, GotCheckBalanceKeeps
<1>9. CASE GotBalance
  BY <1>9, GotBalanceKeeps
<1>10. CASE ScanOrphan
  BY <1>10, ScanOrphanKeeps
<1>11. CASE UNCHANGED poolVars
  BY <1>11, IdlePool
<1>12. QED
  BY <1>1, <1>2, <1>3, <1>4, <1>5, <1>6, <1>7, <1>8, <1>9, <1>10, <1>11 DEF PoolNext, Work

\* The strengthened invariant of the pool.
THEOREM PoolInvariant == PoolSpec => []PoolIInv
<1>1. PoolInit => PoolIInv
  BY InitPool
<1>2. PoolIInv /\ [PoolNext]_poolVars => PoolIInv'
  BY NextPool
<1>3. QED
  BY <1>1, <1>2, PTL DEF PoolSpec

\* The containers hold what they should.
LEMMA PoolIsTyped == PoolIInv => PoolTypeOK
<1> SUFFICES ASSUME PoolTypes PROVE PoolTypeOK
  BY DEF PoolIInv
<1>1. Queued \subseteq Tx
  BY DEF Queued, PoolTypes, ToSet
<1>2. read \in BOOLEAN
  BY Zenon DEF PoolTypes
<1>3. /\ storageView \in Chains /\ loading \in SUBSET Chains
      /\ transactions \in Seq(Tx) /\ orphans \in [Address -> Seq(Tx)]
      /\ DOMAIN mapNonce \subseteq Address /\ DOMAIN balances \subseteq Address
      /\ queueOpt \in Seq(Tx \cup {TipOpt})
      /\ stage \in {"idle", "timeout", "storageNonce", "nonce", "check", "added", "scan"}
      /\ cur \in Tx \cup {None} /\ (cur = None <=> stage = "idle")
      /\ old \in SUBSET Tx /\ val \in Int /\ expired \subseteq MayExpire
      /\ tips \in 0..MaxTips /\ faults \in 0..MaxFault
  BY DEF PoolTypes
<1>4. QED
  BY <1>1, <1>2, <1>3, Zenon DEF PoolTypeOK

\* Nothing is in flight, so no new tip waits: the pool follows the tip.
LEMMA PoolCanBeExecuted == PoolIInv => PoolFollowsTip
<1> SUFFICES ASSUME PoolIInv, stage = "idle", NEW a \in Address,
                    NEW nonces, nonces = {Nonce[t] : t \in SentBy(ToSet(transactions), a)},
                    NEW s, s = StorageNonce(storageView, a)
             PROVE  nonces = (s + 1)..(s + Cardinality(nonces))
  BY Zenon DEF PoolFollowsTip
<1>1. queueOpt = <<>> /\ storageView \in Chains
  BY DEF PoolIInv, PoolTypes
<1>2. ~HasTip(queueOpt)
  BY <1>1 DEF HasTip
<1>3. Ready(storageView, transactions, mapNonce, a)
  BY <1>2 DEF PoolIInv
<1>4. nonces = NoncesIn(transactions, a)
  BY DEF NoncesIn
<1>5. PICK top \in Int : s <= top /\ nonces = (s + 1)..top
  BY <1>3, <1>4 DEF Ready
<1>6. s \in Int
  BY <1>1, ChainTypes
<1>7. PICK low \in Int : low = s + 1
  BY <1>6
<1>8. Cardinality(low..top) = IF low > top THEN 0 ELSE top - low + 1
  BY FS_Interval
<1>9. s + Cardinality(nonces) = top
  <2>1. nonces = low..top
    BY <1>5, <1>7
  <2>2. Cardinality(nonces) = IF low > top THEN 0 ELSE top - low + 1
    BY <1>8, <2>1
  <2>3. PICK c : c = Cardinality(nonces)
    OBVIOUS
  <2>4. c = IF low > top THEN 0 ELSE top - low + 1
    BY <2>2, <2>3
  <2>5. s + c = top
    BY <1>5, <1>6, <1>7, <2>4
  <2>6. QED
    BY <2>3, <2>5
<1>10. QED
  BY <1>5, <1>9

\* The count of the invariant is the code's.
LEMMA PoolIsBounded == PoolIInv => PoolBounded
<1> SUFFICES ASSUME PoolIInv PROVE PoolBounded
  OBVIOUS
<1>1. Amount(transactions, orphans, WithoutTip(queueOpt)) + Cardinality(Adding) <= MaxCount + 1
  BY DEF PoolIInv
<1>2. QED
  BY <1>1 DEF Amount, PoolBounded, PendingCount

\* What is kept apart is in one place.
LEMMA PoolIsInOnePlace == PoolIInv => InOnePlace
<1> SUFFICES ASSUME PoolIInv PROVE InOnePlace
  OBVIOUS
<1>1. Apart(transactions, orphans, WithoutTip(queueOpt), Adding)
  BY DEF PoolIInv
<1>2. Orphans = AllOf(orphans) /\ Queued = ToSet(WithoutTip(queueOpt))
  BY DEF Orphans, AllOf, Queued
<1>3. \A a \in Address : OwnOrphans(orphans[a], a)
  BY <1>1 DEF Apart
<1>4. \A a \in Address : IsInjective(orphans[a])
  BY <1>3 DEF OwnOrphans
<1>5. \A a, b \in Address : ToSet(orphans[a]) \cap ToSet(orphans[b]) # {} => a = b
  BY <1>3 DEF OwnOrphans
<1>6. \A a \in Address : \A t, u \in ToSet(orphans[a]) : Nonce[t] = Nonce[u] => t = u
  BY <1>3 DEF OwnOrphans
<1>7. QED
  BY <1>1, <1>2, <1>4, <1>5, <1>6 DEF Apart, InOnePlace

\* PoolIsSound: with every tip, reorganisation, time-out, replacement, failed read
\* and transaction sent again, in every order, the pool keeps each submission once
\* and within its bound, and when nothing is in flight it can be executed on the
\* tip.
THEOREM PoolSound == PoolSpec => []PoolIsSound
<1>1. PoolIInv => PoolIsSound
  BY PoolIsTyped, PoolCanBeExecuted, PoolIsBounded, PoolIsInOnePlace DEF PoolIsSound
<1>2. QED
  BY <1>1, PoolInvariant, PTL

----------------------------------------------------------------------------
(* Leaving the pool *)

\* Why t may leave the pool in a step.
Excused(t) ==
    \/ t \in ToSet(queueOpt)'
    \/ t = cur' /\ stage' \in {"timeout", "storageNonce"}
    \/ \E u \in ToSet(transactions)' :
        /\ From[u] = From[t] /\ Nonce[u] = Nonce[t] /\ Replaces(u, t)

\* Under a new tip the whole pool is queued; otherwise it stays.
LEMMA RunLeaves ==
    ASSUME transactions \in Seq(Tx), NEW queue, WithoutTip(queue) \in Seq(Tx), NEW nonces,
           Run(queue, transactions, nonces),
           NEW t \in ToSet(transactions), t \notin ToSet(transactions)'
    PROVE  Excused(t)
<1>1. CASE ~HasTip(queue)
  BY <1>1, Zenon DEF Run
<1>2. CASE HasTip(queue)
  <2>1. PICK rest : rest = transactions \o WithoutTip(queue)
    OBVIOUS
  <2>2. IF rest = <<>>
        THEN /\ stage' = "idle" /\ queueOpt' = <<>>
             /\ cur' = None /\ val' = 0 /\ read' = FALSE
        ELSE /\ cur' = Head(rest) /\ queueOpt' = Tail(rest)
             /\ stage' = IF cur' \in expired' THEN "timeout" ELSE "storageNonce"
             /\ CallStorageNonce(cur')
    BY <1>2, <2>1, Zenon DEF Run
  <2>3. rest \in Seq(Tx) /\ ToSet(rest) = ToSet(transactions) \cup ToSet(WithoutTip(queue))
    BY <2>1, ConcatOnce
  <2>4. t \in ToSet(rest)
    BY <2>3
  <2>5. rest # <<>>
    BY <2>4 DEF ToSet
  <2>6. cur' = Head(rest) /\ queueOpt' = Tail(rest) /\ stage' \in {"timeout", "storageNonce"}
    BY <2>2, <2>5
  <2>7. ToSet(rest) = ToSet(Tail(rest)) \cup {Head(rest)}
    BY <2>3, <2>5, TailOnce
  <2>8. t \in ToSet(queueOpt') \/ t = cur'
    BY <2>4, <2>6, <2>7
  <2>9. QED
    BY <2>6, <2>8 DEF Excused
<1>3. QED
  BY <1>1, <1>2

\* The step of _onCheck that replaces a transaction.
LEMMA ReplacementLeaves ==
    ASSUME PoolIInv, stage = "check", transactions' = AddToQueue(PoolWithoutOld, cur),
           NEW t \in ToSet(transactions), t \notin ToSet(transactions)'
    PROVE  Excused(t)
<1>1. PoolTypes /\ Stages /\ Apart(transactions, orphans, WithoutTip(queueOpt), Adding)
  BY DEF PoolIInv
<1>2. cur \in Tx /\ Adding = {cur}
  BY <1>1 DEF PoolTypes, Adding
<1>3. IsInjective(transactions) /\ cur \notin ToSet(transactions)
  BY <1>1, <1>2 DEF Apart
<1>4. PICK pool : pool = PoolWithoutOld
  OBVIOUS
<1>5. /\ pool \in Seq(Tx) /\ IsInjective(pool)
      /\ \/ old = {} /\ pool = transactions
         \/ \E o \in ToSet(transactions) :
              /\ old = {o} /\ From[o] = From[cur] /\ Nonce[o] = Nonce[cur]
              /\ Replaces(cur, o)
              /\ ToSet(transactions) = ToSet(pool) \cup {o} /\ o \notin ToSet(pool)
  BY <1>1, <1>3, <1>4, WithoutOld
<1>6. cur \notin ToSet(pool)
  BY <1>3, <1>5
<1>7. PICK other : other = transactions'
  OBVIOUS
<1>8. ToSet(other) = ToSet(pool) \cup {cur}
  BY <1>2, <1>4, <1>5, <1>6, <1>7, AddToQueueOnce
<1>9. PICK o : /\ From[o] = From[cur] /\ Nonce[o] = Nonce[cur] /\ Replaces(cur, o)
               /\ ToSet(transactions) = ToSet(pool) \cup {o}
  BY <1>5, <1>7, <1>8
<1>10. t = o
  BY <1>7, <1>8, <1>9
<1>11. cur \in ToSet(transactions)'
  BY <1>7, <1>8
<1>12. QED
  BY <1>9, <1>10, <1>11 DEF Excused

\* Every transaction that leaves has an excuse.
LEMMA StepLeaves ==
    ASSUME PoolIInv, [PoolNext]_poolVars,
           NEW t \in ToSet(transactions), t \notin ToSet(transactions)'
    PROVE  Excused(t)
<1>1. /\ transactions \in Seq(Tx) /\ queueOpt \in Seq(Tx \cup {TipOpt})
      /\ WithoutTip(queueOpt) \in Seq(Tx) /\ transactions' # transactions
  BY DEF PoolIInv, PoolTypes
<1>2. ASSUME NEW queue, WithoutTip(queue) \in Seq(Tx), AddPendingOpt(queue) PROVE Excused(t)
  <2>1. Run(queue, transactions, mapNonce)
    BY <1>1, <1>2 DEF AddPendingOpt
  <2>2. QED
    BY <1>1, <1>2, <2>1, RunLeaves
<1>3. ASSUME NEW nonces, Run(queueOpt, transactions, nonces) PROVE Excused(t)
  BY <1>1, <1>3, RunLeaves
<1>4. ASSUME NEW u \in Tx, AddTransaction(u) PROVE Excused(t)
  <2>1. WithoutTip(Append(queueOpt, u)) \in Seq(Tx)
    BY <1>1, AppendTip
  <2>2. QED
    BY <1>2, <1>4, <2>1 DEF AddTransaction
<1>5. CASE TipLoaded
  <2>1. AddPendingOpt(<<TipOpt>> \o WithoutTip(queueOpt))
    BY <1>1, <1>5 DEF TipLoaded
  <2>2. WithoutTip(<<TipOpt>> \o WithoutTip(queueOpt)) \in Seq(Tx)
    BY <1>1, TipFirst
  <2>3. QED
    BY <1>2, <2>1, <2>2
<1>6. CASE TimedOut
  BY <1>3, <1>6 DEF TimedOut, Return
<1>7. CASE GotStorageNonce
  BY <1>1, <1>3, <1>7 DEF GotStorageNonce, Return
<1>8. CASE GotNonce
  <2>1. transactions' = transactions \/ Run(queueOpt, transactions, mapNonce)
    BY <1>8, Zenon DEF GotNonce, Return
  <2>2. QED
    BY <1>1, <1>3, <2>1
<1>9. CASE GotCheckBalance
  BY <1>3, <1>9, ReplacementLeaves DEF GotCheckBalance, Return
<1>10. CASE GotBalance
  <2>1. \/ transactions' = transactions
        \/ Run(queueOpt, transactions, mapNonce)
        \/ Run(queueOpt, transactions, Put(mapNonce, From[cur], Nonce[cur]))
    BY <1>10, Zenon DEF GotBalance
  <2>2. QED
    BY <1>1, <1>3, <2>1
<1>11. CASE ScanOrphan
  <2>1. PICK l : l = orphans[From[cur]]
    OBVIOUS
  <2>2. PICK live : live = {i \in 1..Len(l) : l[i] \notin expired}
    OBVIOUS
  <2>3. PICK rest : rest = IF live = {} THEN <<>> ELSE SubSeq(l, Min(live), Len(l))
    OBVIOUS
  <2>4. \/ Run(queueOpt, transactions, mapNonce)
        \/ rest # <<>> /\ Run(Append(queueOpt, rest[1]), transactions, mapNonce)
    BY <1>11, <2>1, <2>2, <2>3, Zenon DEF ScanOrphan, Return
  <2>5. rest # <<>> => rest[1] \in Tx
    <3>1. stage = "scan" /\ PoolTypes /\ Apart(transactions, orphans, WithoutTip(queueOpt), Adding)
      BY <1>11 DEF ScanOrphan, PoolIInv
    <3>2. cur \in Tx /\ From[cur] \in Address
      BY <3>1, ReadTypes DEF PoolTypes
    <3>3. l \in Seq(Tx) /\ OwnOrphans(l, From[cur]) /\ live \subseteq 1..Len(l)
      BY <2>1, <2>2, <3>1, <3>2 DEF PoolTypes, Apart
    <3>4. rest \in Seq(Tx)
      BY <2>3, <3>3, LiveOrphans
    <3>5. QED
      BY <3>4, FirstIn, Zenon
  <2>6. rest # <<>> => WithoutTip(Append(queueOpt, rest[1])) \in Seq(Tx)
    BY <1>1, <2>5, AppendTip
  <2>7. QED
    BY <1>1, <1>3, <2>4, <2>6, RunLeaves
<1>12. ASSUME \/ \E u \in MayExpire : Expire(u)
              \/ \E S \in Chains \ {storageView} : UpdateTipBlock(S)
              \/ UNCHANGED poolVars
       PROVE  FALSE
  BY <1>1, <1>12 DEF Expire, UpdateTipBlock, poolVars
<1>13. QED
  BY <1>4, <1>5, <1>6, <1>7, <1>8, <1>9, <1>10, <1>11, <1>12 DEF PoolNext, Work

\* LeavesForAReason: a transaction in the pool is never lost; it goes back to the
\* queue under a new tip, or makes way for one with its address and nonce.
THEOREM PoolLeaves == PoolSpec => LeavesForAReason
<1>1. ASSUME PoolIInv, [PoolNext]_poolVars,
             NEW t \in ToSet(transactions) \ ToSet(transactions)'
      PROVE  Excused(t)
  BY <1>1, StepLeaves
<1>2. PoolIInv /\ [PoolNext]_poolVars =>
        [\A t \in ToSet(transactions) \ ToSet(transactions)' :
           \/ t \in ToSet(queueOpt)'
           \/ t = cur' /\ stage' \in {"timeout", "storageNonce"}
           \/ \E u \in ToSet(transactions)' :
               /\ From[u] = From[t] /\ Nonce[u] = Nonce[t] /\ Replaces(u, t)]_poolVars
  BY <1>1 DEF Excused
<1>3. QED
  BY <1>2, PoolInvariant, PTL DEF PoolSpec, LeavesForAReason

----------------------------------------------------------------------------
(* The download of blocks *)

Name == Block \cup Peer

Lists(S) == {s \in Seq(S) : IsInjective(s)}

Partial(S, T) == UNION {[D -> T] : D \in SUBSET S}

Window == [wnd : Nat, hashes : Lists(Block), replaced : BOOLEAN]

Wire == [Peer -> Seq(Block)]

Lines == SUBSET {593, 650, 660}

Fetching ==
    [conns : Partial(Peer, Window), asked : Partial(Block, Peer), pending : Lists(Block),
     sources : Partial(Block, Lists(Peer)), known : Lists(Block), stored : SUBSET Block,
     wire : Wire, failed : Lines]

\* What FetchTypeOK, WindowsHold and NoBlockForgotten say, while the peers gone are
\* being removed: they are sources without a window.
Tracks(n, gone) ==
    /\ n \in Fetching
    /\ ToSet(n.known) = DOMAIN n.sources
    /\ \A q \in DOMAIN n.conns \ gone : n.conns[q].wnd \in 1..(3 * InitWnd)
    /\ \A b \in DOMAIN n.sources : ToSet(n.sources[b]) \subseteq DOMAIN n.conns \cup gone
    /\ \A b \in DOMAIN n.asked :
        n.asked[b] \in DOMAIN n.conns /\ b \in ToSet(n.conns[n.asked[b]].hashes)
    /\ \A b \in DOMAIN n.sources :
        n.sources[b] # <<>> => b \in ToSet(n.pending) \cup DOMAIN n.asked \cup n.stored

FetchIInv ==
    Tracks(fetch, {}) /\ DOMAIN fetch.conns \subseteq connected /\ connected \subseteq Peer

----------------------------------------------------------------------------
(* Maps and lists *)

\* What holds of 0 and goes on from each number to the next holds up to n.
LEMMA UpTo ==
    ASSUME NEW n \in Nat, NEW A, 0 \in A, \A i \in 0..n : i # n /\ i \in A => i + 1 \in A
    PROVE  0..n \subseteq A
<1> DEFINE Bad == (0..n) \ A
<1> SUFFICES ASSUME Bad # {} PROVE FALSE
  OBVIOUS
<1>1. PICK k \in Bad : \A m \in Bad : k <= m
  <2>1. Bad \subseteq Nat /\ Bad # {}
    OBVIOUS
  <2> HIDE DEF Bad
  <2>2. QED
    BY <2>1, F!LeastNat
<1>2. k \in Nat /\ k # 0 /\ k - 1 \in 0..n /\ k - 1 # n
  OBVIOUS
<1>3. k - 1 \in A
  BY <1>1, <1>2
<1>4. QED
  BY <1>1, <1>2, <1>3

KeptBody(s, S, g, i) ==
    IF i = 0 THEN <<>> ELSE IF s[i] \in S THEN Append(g[i - 1], s[i]) ELSE g[i - 1]

Kept(s, S) == CHOOSE g : g = [i \in 0..Len(s) |-> KeptBody(s, S, g, i)]

LEMMA KeepIs ==
    ASSUME NEW s \in Seq(Name), NEW S
    PROVE  Keep(S)[s] = Kept(s, S)[Len(s)]
<1>1. Keep(S) = [t \in Seq(Name) |-> Kept(t, S)[Len(t)]]
  BY Zenon DEF Keep, Kept, KeptBody, Name
<1>2. QED
  BY <1>1

\* Kept is what it is defined to be.
LEMMA KeptExists ==
    ASSUME NEW T, NEW s \in Seq(T), NEW S
    PROVE  Kept(s, S) = [i \in 0..Len(s) |-> KeptBody(s, S, Kept(s, S), i)]
<1> DEFINE N == Len(s)
           Up(k, g) == g = [i \in 0..k |-> KeptBody(s, S, g, i)]
           A == {k \in 0..N : \E g : Up(k, g)}
<1>1. N \in Nat
  OBVIOUS
<1> HIDE DEF N
<1>2. 0 \in A
  <2>1. Up(0, [i \in 0..0 |-> <<>>])
    BY DEF KeptBody
  <2>2. QED
    BY <1>1, <2>1
<1>3. ASSUME NEW k \in 0..N, k # N, k \in A PROVE k + 1 \in A
  <2>1. PICK g : Up(k, g)
    BY <1>3
  <2> DEFINE h == [i \in 0..(k + 1) |-> IF i \in 0..k THEN g[i] ELSE KeptBody(s, S, g, i)]
  <2>2. ASSUME NEW i \in 0..k PROVE g[i] = KeptBody(s, S, g, i) /\ h[i] = g[i]
    <3>1. i \in 0..(k + 1)
      BY <1>1
    <3>2. h[i] = g[i]
      BY <3>1
    <3>3. g[i] = KeptBody(s, S, g, i)
      <4> HIDE DEF h
      <4>1. QED
        BY <2>1, Zenon
    <3>4. QED
      BY <3>2, <3>3
  <2>3. ASSUME NEW i \in 0..(k + 1) PROVE h[i] = KeptBody(s, S, h, i)
    <3>1. KeptBody(s, S, h, i) = KeptBody(s, S, g, i)
      <4>1. CASE i = 0
        BY <4>1 DEF KeptBody
      <4>2. CASE i # 0
        <5>1. i - 1 \in 0..k
          BY <4>2, <1>1
        <5>2. h[i - 1] = g[i - 1]
          BY <5>1, <2>2
        <5> HIDE DEF h
        <5>3. QED
          BY <5>2, Zenon DEF KeptBody
      <4>3. QED
        BY <4>1, <4>2
    <3>2. h[i] = KeptBody(s, S, g, i)
      BY <2>2, <1>1
    <3>3. QED
      BY <3>1, <3>2
  <2>4. Up(k + 1, h)
    <3> DEFINE r == [i \in 0..(k + 1) |-> KeptBody(s, S, h, i)]
    <3>1. \A i \in 0..(k + 1) : h[i] = r[i]
      BY <2>3
    <3>2. h = r
      BY <3>1
    <3>3. QED
      BY <3>2
  <2>5. k + 1 \in 0..N
    BY <1>1, <1>3
  <2>6. QED
    BY <2>4, <2>5
<1>4. N \in A
  <2> HIDE DEF A
  <2>1. \A i \in 0..N : i # N /\ i \in A => i + 1 \in A
    BY <1>3
  <2>2. 0..N \subseteq A
    BY <1>1, <1>2, <2>1, UpTo
  <2>3. QED
    BY <1>1, <2>2
<1>5. \E g : Up(N, g)
  BY <1>4
<1>6. QED
  BY <1>5, Zenon DEF Kept, N

\* Keep keeps what it should, and a list stays one.
LEMMA KeepOnce ==
    ASSUME NEW T, T \subseteq Name, NEW s \in Seq(T), NEW S
    PROVE  /\ Keep(S)[s] \in Seq(T) /\ ToSet(Keep(S)[s]) = ToSet(s) \cap S
           /\ IsInjective(s) => IsInjective(Keep(S)[s])
<1> DEFINE N == Len(s)
           g == Kept(s, S)
           Right(i) == /\ g[i] \in Seq(T) /\ ToSet(g[i]) = {s[j] : j \in 1..i} \cap S
                       /\ IsInjective(s) => IsInjective(g[i])
           A == {i \in 0..N : Right(i)}
<1>1. N \in Nat /\ DOMAIN s = 1..N /\ \A j \in 1..N : s[j] \in T
  OBVIOUS
<1>2. \A i \in 0..N : g[i] = KeptBody(s, S, g, i)
  BY KeptExists
<1> HIDE DEF g, N
<1>3. 0 \in A
  <2>1. g[0] = <<>>
    BY <1>1, <1>2 DEF KeptBody
  <2>2. <<>> \in Seq(T) /\ ToSet(<<>>) = {} /\ IsInjective(<<>>)
    BY DEF ToSet, IsInjective
  <2>3. {s[j] : j \in 1..0} = {}
    OBVIOUS
  <2>4. Right(0)
    BY <2>1, <2>2, <2>3
  <2>5. 0 \in 0..N
    BY <1>1
  <2> HIDE DEF Right
  <2>6. QED
    BY <2>4, <2>5
<1>4. ASSUME NEW i \in 0..N, i # N, i \in A PROVE i + 1 \in A
  <2> DEFINE k == i + 1
  <2>1. k \in 1..N /\ k # 0 /\ k - 1 = i /\ s[k] \in T
    BY <1>1, <1>4
  <2>2. Right(i)
    BY <1>4
  <2>3. g[k] = IF s[k] \in S THEN Append(g[i], s[k]) ELSE g[i]
    BY <2>1, <1>2 DEF KeptBody
  <2>4. {s[j] : j \in 1..k} = {s[j] : j \in 1..i} \cup {s[k]}
    BY <2>1
  <2>5. IsInjective(s) => s[k] \notin {s[j] : j \in 1..i}
    BY <2>1, <1>1 DEF IsInjective
  <2> HIDE DEF k
  <2>6. CASE s[k] \in S
    <3>1. /\ Append(g[i], s[k]) \in Seq(T)
          /\ ToSet(Append(g[i], s[k])) = ToSet(g[i]) \cup {s[k]}
          /\ IsInjective(g[i]) /\ s[k] \notin ToSet(g[i]) => IsInjective(Append(g[i], s[k]))
      BY <2>1, <2>2, AppendOnce
    <3>2. g[k] = Append(g[i], s[k])
      BY <2>3, <2>6
    <3>3. Right(k)
      BY <3>1, <3>2, <2>2, <2>4, <2>5, <2>6
    <3>4. QED
      BY <3>3, <2>1 DEF k
  <2>7. CASE s[k] \notin S
    <3>1. Right(k)
      BY <2>2, <2>3, <2>4, <2>7
    <3>2. QED
      BY <3>1, <2>1 DEF k
  <2>8. QED
    BY <2>6, <2>7
<1>5. N \in A
  <2> HIDE DEF A
  <2>1. \A i \in 0..N : i # N /\ i \in A => i + 1 \in A
    BY <1>4
  <2>2. 0..N \subseteq A
    BY <1>1, <1>3, <2>1, UpTo
  <2>3. QED
    BY <1>1, <2>2
<1>6. Right(N)
  BY <1>5
<1>7. ToSet(s) = {s[j] : j \in 1..N}
  BY <1>1 DEF ToSet
<1>8. s \in Seq(Name)
  BY <1>1
<1>9. Keep(S)[s] = g[N]
  BY <1>8, KeepIs DEF g, N
<1>10. QED
  BY <1>6, <1>7, <1>9

\* Turning a list around.
LEMMA ReverseOnce ==
    ASSUME NEW S, NEW s \in Seq(S)
    PROVE  /\ Reverse(s) \in Seq(S) /\ ToSet(Reverse(s)) = ToSet(s)
           /\ IsInjective(s) => IsInjective(Reverse(s))
<1> DEFINE N == Len(s)
           t == Reverse(s)
<1>1. N \in Nat /\ DOMAIN s = 1..N /\ \A i \in 1..N : s[i] \in S
  OBVIOUS
<1>2. t = [i \in 1..N |-> s[(N - i) + 1]]
  BY DEF Reverse
<1> HIDE DEF N, t
<1>3. \A i \in 1..N : (N - i) + 1 \in 1..N /\ (N - ((N - i) + 1)) + 1 = i
  BY <1>1
<1>4. DOMAIN t = 1..N /\ \A i \in 1..N : t[i] = s[(N - i) + 1]
  BY <1>2
<1>5. t \in Seq(S)
  BY <1>1, <1>2, <1>3
<1>6. ToSet(t) = ToSet(s)
  BY <1>1, <1>3, <1>4 DEF ToSet
<1>7. ASSUME IsInjective(s) PROVE IsInjective(t)
  <2> SUFFICES ASSUME NEW i \in 1..N, NEW j \in 1..N, t[i] = t[j] PROVE i = j
    BY <1>4 DEF IsInjective
  <2>1. (N - i) + 1 = (N - j) + 1
    BY <1>1, <1>3, <1>4, <1>7 DEF IsInjective
  <2>2. QED
    BY <2>1, <1>1
<1>8. QED
  BY <1>5, <1>6, <1>7 DEF t

\* A partial function is a function on the part.
LEMMA PartialIs ==
    ASSUME NEW S, NEW T, NEW f
    PROVE  f \in Partial(S, T) <=> DOMAIN f \subseteq S /\ f \in [DOMAIN f -> T]
BY DEF Partial

\* Setting entries of a map.
LEMMA SetAllIs ==
    ASSUME NEW S, NEW T, NEW f \in Partial(S, T), NEW g \in Partial(S, T)
    PROVE  SetAll(f, g) \in Partial(S, T)
<1>1. /\ DOMAIN f \subseteq S /\ f \in [DOMAIN f -> T]
      /\ DOMAIN g \subseteq S /\ g \in [DOMAIN g -> T]
  BY PartialIs
<1> DEFINE h == SetAll(f, g)
<1>2. h = [x \in DOMAIN f \cup DOMAIN g |-> IF x \in DOMAIN g THEN g[x] ELSE f[x]]
  BY DEF SetAll
<1> HIDE DEF h
<1>3. DOMAIN h \subseteq S /\ h \in [DOMAIN h -> T]
  BY <1>1, <1>2
<1>4. h \in Partial(S, T)
  BY <1>3, PartialIs
<1>5. QED
  BY <1>2, <1>4 DEF h

\* The entries of a map some of which have been set.
LEMMA SetAllAt ==
    ASSUME NEW f, NEW g
    PROVE  /\ DOMAIN SetAll(f, g) = DOMAIN f \cup DOMAIN g
           /\ \A x \in DOMAIN g : SetAll(f, g)[x] = g[x]
           /\ \A x \in DOMAIN f \ DOMAIN g : SetAll(f, g)[x] = f[x]
BY DEF SetAll

\* Deleting entries of a map.
LEMMA WithoutIs ==
    ASSUME NEW S, NEW T, NEW f \in Partial(S, T), NEW D
    PROVE  Without(f, D) \in Partial(S, T)
<1>1. DOMAIN f \subseteq S /\ f \in [DOMAIN f -> T]
  BY PartialIs
<1> DEFINE h == Without(f, D)
<1>2. h = [x \in DOMAIN f \ D |-> f[x]]
  BY DEF Without
<1> HIDE DEF h
<1>3. DOMAIN h \subseteq S /\ h \in [DOMAIN h -> T]
  BY <1>1, <1>2
<1>4. h \in Partial(S, T)
  BY <1>3, PartialIs
<1>5. QED
  BY <1>4 DEF h

\* The entries of a map some of which have been deleted.
LEMMA WithoutAt ==
    ASSUME NEW f, NEW D
    PROVE  /\ DOMAIN Without(f, D) = DOMAIN f \ D
           /\ \A x \in DOMAIN f \ D : Without(f, D)[x] = f[x]
BY DEF Without

\* Changing an entry of a map.
LEMMA ExceptIs ==
    ASSUME NEW S, NEW T, NEW f \in Partial(S, T), NEW x \in DOMAIN f, NEW v \in T
    PROVE  /\ [f EXCEPT ![x] = v] \in Partial(S, T)
           /\ DOMAIN [f EXCEPT ![x] = v] = DOMAIN f
           /\ [f EXCEPT ![x] = v][x] = v
           /\ \A y \in DOMAIN f : y # x => [f EXCEPT ![x] = v][y] = f[y]
<1>1. DOMAIN f \subseteq S /\ f \in [DOMAIN f -> T]
  BY PartialIs
<1> DEFINE h == [f EXCEPT ![x] = v]
<1>2. DOMAIN h = DOMAIN f /\ h[x] = v /\ \A y \in DOMAIN f : y # x => h[y] = f[y]
  BY <1>1
<1>3. DOMAIN h \subseteq S /\ h \in [DOMAIN h -> T]
  BY <1>1, <1>2
<1> HIDE DEF h
<1>4. h \in Partial(S, T)
  BY <1>3, PartialIs
<1>5. QED
  BY <1>2, <1>4 DEF h

\* A list after others that it shares nothing with.
LEMMA ListsJoin ==
    ASSUME NEW S, NEW s \in Lists(S), NEW t \in Lists(S), ToSet(s) \cap ToSet(t) = {}
    PROVE  s \o t \in Lists(S) /\ ToSet(s \o t) = ToSet(s) \cup ToSet(t)
BY ConcatOnce DEF Lists

\* A part of a list.
LEMMA ListsKeep ==
    ASSUME NEW T, T \subseteq Name, NEW s \in Lists(T), NEW S
    PROVE  Keep(S)[s] \in Lists(T) /\ ToSet(Keep(S)[s]) = ToSet(s) \cap S
BY KeepOnce DEF Lists

\* A list without one of its elements.
LEMMA ListsDrop ==
    ASSUME NEW T, T \subseteq Name, NEW s \in Lists(T), NEW x
    PROVE  Drop(s, x) \in Lists(T) /\ ToSet(Drop(s, x)) = ToSet(s) \ {x}
BY ListsKeep DEF Drop

\* A list of one.
LEMMA ListsOne ==
    ASSUME NEW S, NEW x \in S
    PROVE  <<x>> \in Lists(S) /\ ToSet(<<x>>) = {x}
BY DEF Lists, ToSet, IsInjective

\* The first of a list, and a list of nothing.
LEMMA ListsHead ==
    ASSUME NEW S, NEW s \in Lists(S)
    PROVE  /\ ToSet(s) \subseteq S
           /\ s # <<>> => Head(s) \in S /\ Head(s) \in ToSet(s)
           /\ s = <<>> <=> ToSet(s) = {}
<1>1. s \in Seq(S)
  BY DEF Lists
<1>2. s # <<>> => Head(s) = s[1] /\ 1 \in DOMAIN s
  BY <1>1
<1>3. \A i \in DOMAIN s : s[i] \in S
  BY <1>1
<1>4. s = <<>> => DOMAIN s = {}
  BY <1>1
<1>5. QED
  BY <1>2, <1>3, <1>4 DEF ToSet

----------------------------------------------------------------------------
(* Asking *)

\* r is n after the blocks B have been asked of p.
Asks(n, r, p, B) ==
    /\ r \in Fetching
    /\ r.sources = n.sources /\ r.known = n.known /\ r.stored = n.stored
    /\ DOMAIN r.conns = DOMAIN n.conns
    /\ \A q \in DOMAIN n.conns :
        /\ r.conns[q].wnd = n.conns[q].wnd
        /\ ToSet(n.conns[q].hashes) \subseteq ToSet(r.conns[q].hashes)
    /\ B \subseteq ToSet(r.conns[p].hashes)
    /\ DOMAIN r.asked = DOMAIN n.asked \cup B
    /\ \A b \in B : r.asked[b] = p
    /\ \A b \in DOMAIN n.asked \ B : r.asked[b] = n.asked[b]

\* The fields of the node.
LEMMA Fields ==
    ASSUME NEW n \in Fetching
    PROVE  /\ n.conns \in Partial(Peer, Window) /\ n.asked \in Partial(Block, Peer)
           /\ n.pending \in Lists(Block) /\ n.sources \in Partial(Block, Lists(Peer))
           /\ n.known \in Lists(Block) /\ n.stored \in SUBSET Block
           /\ n.wire \in Wire /\ n.failed \in Lines
           /\ DOMAIN n.conns \subseteq Peer /\ n.conns \in [DOMAIN n.conns -> Window]
           /\ DOMAIN n.asked \subseteq Block /\ n.asked \in [DOMAIN n.asked -> Peer]
           /\ DOMAIN n.sources \subseteq Block
           /\ n.sources \in [DOMAIN n.sources -> Lists(Peer)]
<1>1. /\ n.conns \in Partial(Peer, Window) /\ n.asked \in Partial(Block, Peer)
      /\ n.pending \in Lists(Block) /\ n.sources \in Partial(Block, Lists(Peer))
      /\ n.known \in Lists(Block) /\ n.stored \in SUBSET Block
      /\ n.wire \in Wire /\ n.failed \in Lines
  BY DEF Fetching
<1>2. QED
  BY <1>1, PartialIs

\* The fields of a window.
LEMMA WindowFields ==
    ASSUME NEW n \in Fetching, NEW p \in DOMAIN n.conns
    PROVE  /\ p \in Peer /\ n.conns[p] \in Window /\ n.conns[p].wnd \in Nat
           /\ n.conns[p].hashes \in Lists(Block) /\ n.conns[p].replaced \in BOOLEAN
<1>1. p \in Peer /\ n.conns[p] \in Window
  BY Fields
<1>2. QED
  BY <1>1 DEF Window

\* What _requestBlockFromConnection does.
LEMMA AskIs ==
    ASSUME NEW n \in Fetching, NEW p \in DOMAIN n.conns, NEW blocks \in Lists(Block),
           NEW r, r = Ask(n, p, blocks)
    PROVE  /\ Asks(n, r, p, ToSet(blocks)) /\ r.pending = n.pending /\ r.failed = n.failed
<1> DEFINE w == n.conns[p]
           more == Keep(ToSet(blocks) \ ToSet(w.hashes))[blocks]
           hashes == w.hashes \o more
           window == [w EXCEPT !.hashes = hashes]
           conns == [n.conns EXCEPT ![p] = window]
           now == [b \in ToSet(blocks) |-> p]
           asked == SetAll(n.asked, now)
           out == IF w.replaced THEN n.wire[p] ELSE n.wire[p] \o blocks
           wire == [n.wire EXCEPT ![p] = out]
<1>1. p \in Peer /\ w \in Window /\ w.hashes \in Lists(Block)
  BY WindowFields
<1>2. /\ n.conns \in Partial(Peer, Window) /\ n.asked \in Partial(Block, Peer)
      /\ n.wire \in [Peer -> Seq(Block)] /\ DOMAIN n.conns \subseteq Peer
  BY Fields DEF Wire
<1>3. r = [n EXCEPT !.conns = conns, !.asked = asked, !.wire = wire]
  BY DEF Ask
<1>4. /\ hashes \in Lists(Block)
      /\ ToSet(hashes) = ToSet(w.hashes) \cup ToSet(blocks)
  <2> HIDE DEF w
  <2>1. Block \subseteq Name
    BY DEF Name
  <2>2. /\ more \in Lists(Block)
        /\ ToSet(more) = ToSet(blocks) \cap (ToSet(blocks) \ ToSet(w.hashes))
    BY <2>1, ListsKeep
  <2> HIDE DEF more
  <2>3. ToSet(w.hashes) \cap ToSet(more) = {}
    BY <2>2
  <2>4. hashes \in Lists(Block) /\ ToSet(hashes) = ToSet(w.hashes) \cup ToSet(more)
    BY <1>1, <2>2, <2>3, ListsJoin
  <2>5. QED
    BY <2>2, <2>4
<1>5. ToSet(blocks) \subseteq Block
  BY ListsHead
<1>6. now \in Partial(Block, Peer) /\ DOMAIN now = ToSet(blocks)
  BY <1>1, <1>5, PartialIs
<1>7. /\ asked \in Partial(Block, Peer) /\ DOMAIN asked = DOMAIN n.asked \cup ToSet(blocks)
      /\ \A b \in ToSet(blocks) : asked[b] = p
      /\ \A b \in DOMAIN n.asked \ ToSet(blocks) : asked[b] = n.asked[b]
  <2>1. \A b \in ToSet(blocks) : now[b] = p
    OBVIOUS
  <2> HIDE DEF now
  <2>2. asked \in Partial(Block, Peer)
    BY <1>2, <1>6, SetAllIs
  <2>3. /\ DOMAIN asked = DOMAIN n.asked \cup DOMAIN now
        /\ \A b \in DOMAIN now : asked[b] = now[b]
        /\ \A b \in DOMAIN n.asked \ DOMAIN now : asked[b] = n.asked[b]
    BY SetAllAt
  <2> HIDE DEF asked
  <2>4. QED
    BY <1>6, <2>1, <2>2, <2>3
<1>8. wire \in Wire
  <2>1. blocks \in Seq(Block)
    BY DEF Lists
  <2>2. out \in Seq(Block)
    BY <1>1, <1>2, <2>1
  <2> HIDE DEF out
  <2>3. QED
    BY <1>1, <1>2, <2>2 DEF Wire
<1> HIDE DEF hashes, asked, wire, now, out
<1>9. window \in Window /\ window.hashes = hashes /\ window.wnd = w.wnd
  BY <1>1, <1>4 DEF Window
<1> HIDE DEF window
<1>10. /\ conns \in Partial(Peer, Window) /\ DOMAIN conns = DOMAIN n.conns
       /\ conns[p] = window /\ \A q \in DOMAIN n.conns : q # p => conns[q] = n.conns[q]
  BY <1>2, <1>9, ExceptIs
<1> HIDE DEF conns, w
<1>11. /\ r.conns = conns /\ r.asked = asked /\ r.wire = wire /\ r.sources = n.sources
       /\ r.known = n.known /\ r.stored = n.stored /\ r.pending = n.pending
       /\ r.failed = n.failed
  BY <1>3 DEF Fetching
<1>12. r \in Fetching
  <2>1. conns \in Partial(Peer, Window) /\ asked \in Partial(Block, Peer)
    BY <1>7, <1>10
  <2>2. QED
    BY <1>3, <1>8, <2>1 DEF Fetching
<1>13. ASSUME NEW q \in DOMAIN n.conns
       PROVE  /\ r.conns[q].wnd = n.conns[q].wnd
              /\ ToSet(n.conns[q].hashes) \subseteq ToSet(r.conns[q].hashes)
  <2>1. CASE q = p
    BY <2>1, <1>4, <1>9, <1>10, <1>11 DEF w
  <2>2. CASE q # p
    BY <2>2, <1>10, <1>11
  <2>3. QED
    BY <2>1, <2>2
<1>14. ToSet(blocks) \subseteq ToSet(r.conns[p].hashes)
  BY <1>4, <1>9, <1>10, <1>11
<1>15. QED
  BY <1>7, <1>10, <1>11, <1>12, <1>13, <1>14 DEF Asks

\* The list of pending blocks is set besides.
LEMMA AsksBesides ==
    ASSUME NEW n, NEW m, NEW p, NEW B, Asks(n, m, p, B), NEW pend \in Lists(Block),
           NEW r, r = [m EXCEPT !.pending = pend]
    PROVE  Asks(n, r, p, B) /\ r.pending = pend
<1>1. m \in Fetching
  BY DEF Asks
<1>2. r \in Fetching
  BY <1>1 DEF Fetching
<1>3. /\ r.pending = pend /\ r.conns = m.conns /\ r.asked = m.asked
      /\ r.sources = m.sources /\ r.known = m.known /\ r.stored = m.stored
  BY <1>1 DEF Fetching
<1>4. QED
  BY <1>2, <1>3 DEF Asks

\* Asking for what was pending forgets nothing.
LEMMA AsksTracks ==
    ASSUME NEW n, NEW gone, Tracks(n, gone), NEW p \in DOMAIN n.conns, NEW B, NEW r,
           Asks(n, r, p, B), ToSet(n.pending) \subseteq ToSet(r.pending) \cup B
    PROVE  Tracks(r, gone)
<1>1. r \in Fetching /\ ToSet(r.known) = DOMAIN r.sources
  BY DEF Asks, Tracks
<1>2. \A q \in DOMAIN r.conns \ gone : r.conns[q].wnd \in 1..(3 * InitWnd)
  BY DEF Asks, Tracks
<1>3. \A b \in DOMAIN r.sources : ToSet(r.sources[b]) \subseteq DOMAIN r.conns \cup gone
  BY DEF Asks, Tracks
<1>4. ASSUME NEW b \in DOMAIN r.asked
      PROVE  r.asked[b] \in DOMAIN r.conns /\ b \in ToSet(r.conns[r.asked[b]].hashes)
  <2>1. CASE b \in B
    BY <2>1 DEF Asks
  <2>2. CASE b \notin B
    <3>1. b \in DOMAIN n.asked /\ r.asked[b] = n.asked[b]
      BY <1>4, <2>2 DEF Asks
    <3>2. n.asked[b] \in DOMAIN n.conns /\ b \in ToSet(n.conns[n.asked[b]].hashes)
      BY <3>1 DEF Tracks
    <3>3. QED
      BY <3>1, <3>2 DEF Asks
  <2>3. QED
    BY <2>1, <2>2
<1>5. \A b \in DOMAIN r.sources :
        r.sources[b] # <<>> => b \in ToSet(r.pending) \cup DOMAIN r.asked \cup r.stored
  BY DEF Asks, Tracks
<1>6. QED
  BY <1>1, <1>2, <1>3, <1>4, <1>5 DEF Tracks

\* Asking for pending blocks forgets none of them.
LEMMA TakeTracks ==
    ASSUME NEW n, NEW gone, Tracks(n, gone), NEW p \in DOMAIN n.conns,
           NEW blocks \in Lists(Block)
    PROVE  /\ Tracks(Take(n, p, blocks), gone)
           /\ Asks(n, Take(n, p, blocks), p, ToSet(blocks))
           /\ ToSet(Take(n, p, blocks).pending) = ToSet(n.pending) \ ToSet(blocks)
<1> DEFINE m == Ask(n, p, blocks)
           pend == Keep(ToSet(n.pending) \ ToSet(blocks))[n.pending]
           r == Take(n, p, blocks)
<1>1. n \in Fetching
  BY DEF Tracks
<1>2. Asks(n, m, p, ToSet(blocks))
  BY <1>1, AskIs
<1>3. pend \in Lists(Block) /\ ToSet(pend) = ToSet(n.pending) \ ToSet(blocks)
  <2>1. Block \subseteq Name
    BY DEF Name
  <2>2. n.pending \in Lists(Block)
    BY <1>1, Fields
  <2>3. /\ pend \in Lists(Block)
        /\ ToSet(pend) = ToSet(n.pending) \cap (ToSet(n.pending) \ ToSet(blocks))
    BY <2>1, <2>2, ListsKeep
  <2>4. QED
    BY <2>3
<1>4. r = [m EXCEPT !.pending = pend]
  BY DEF Take
<1> HIDE DEF m, pend, r
<1>5. Asks(n, r, p, ToSet(blocks)) /\ r.pending = pend
  BY <1>2, <1>3, <1>4, AsksBesides
<1>6. ToSet(n.pending) \subseteq ToSet(r.pending) \cup ToSet(blocks)
  BY <1>3, <1>5
<1>7. Tracks(r, gone)
  BY <1>5, <1>6, AsksTracks
<1>8. QED
  BY <1>3, <1>5, <1>7 DEF r

\* A failure that is noted changes nothing else.
LEMMA FailedTracks ==
    ASSUME NEW n, NEW gone, Tracks(n, gone), NEW line \in {593, 650, 660}, NEW r,
           r = [n EXCEPT !.failed = @ \cup {line}]
    PROVE  Tracks(r, gone) /\ r.conns = n.conns
<1>1. n \in Fetching /\ n.failed \cup {line} \in Lines
  BY Fields DEF Tracks, Lines
<1>2. r \in Fetching
  BY <1>1 DEF Fetching
<1>3. /\ r.pending = n.pending /\ r.conns = n.conns /\ r.asked = n.asked
      /\ r.sources = n.sources /\ r.known = n.known /\ r.stored = n.stored
  BY <1>1 DEF Fetching
<1>4. QED
  BY <1>2, <1>3 DEF Tracks

\* _onFreeBlockWnd forgets no block.
LEMMA FreeWndTracks ==
    ASSUME NEW n, NEW gone, Tracks(n, gone), NEW p \in DOMAIN n.conns
    PROVE  /\ Tracks(OnFreeBlockWnd(n, p), gone)
           /\ DOMAIN OnFreeBlockWnd(n, p).conns = DOMAIN n.conns
<1> DEFINE reached == Reached(n, p)
           blocks == Keep(reached \cap Served(n, p))[n.pending]
           taken == Take(n, p, blocks)
<1>1. blocks \in Lists(Block)
  <2>1. Block \subseteq Name
    BY DEF Name
  <2>2. n.pending \in Lists(Block)
    BY Fields DEF Tracks
  <2>3. QED
    BY <2>1, <2>2, ListsKeep
<1>2. OnFreeBlockWnd(n, p) = taken
         \/ OnFreeBlockWnd(n, p) = [taken EXCEPT !.failed = @ \cup {593}]
  <2> HIDE DEF reached
  <2>1. OnFreeBlockWnd(n, p) = IF reached \subseteq DOMAIN n.sources THEN taken
                               ELSE [taken EXCEPT !.failed = @ \cup {593}]
    BY DEF OnFreeBlockWnd, reached
  <2> HIDE DEF taken
  <2>2. QED
    BY <2>1
<1> HIDE DEF blocks
<1>3. Tracks(taken, gone) /\ Asks(n, taken, p, ToSet(blocks))
  BY <1>1, TakeTracks
<1> HIDE DEF taken
<1>4. DOMAIN taken.conns = DOMAIN n.conns
  BY <1>3 DEF Asks
<1>5. CASE OnFreeBlockWnd(n, p) = taken
  BY <1>3, <1>4, <1>5
<1>6. CASE OnFreeBlockWnd(n, p) = [taken EXCEPT !.failed = @ \cup {593}]
  <2> DEFINE r == OnFreeBlockWnd(n, p)
  <2>1. r = [taken EXCEPT !.failed = @ \cup {593}]
    BY <1>6
  <2> HIDE DEF r
  <2>2. Tracks(r, gone) /\ r.conns = taken.conns
    BY <1>3, <2>1, FailedTracks
  <2>3. QED
    BY <1>4, <2>2 DEF r
<1>7. QED
  BY <1>2, <1>5, <1>6

----------------------------------------------------------------------------
(* Removing a connection *)

Less(m, p, b) == [m EXCEPT !.sources[b] = Drop(@, p)]

\* One peer is no source of one block any more.
LEMMA DropTracks ==
    ASSUME NEW m, NEW gone, Tracks(m, gone), NEW p, NEW b \in DOMAIN m.sources
    PROVE  /\ Tracks(Less(m, p, b), gone) /\ Less(m, p, b).conns = m.conns
           /\ DOMAIN Less(m, p, b).sources = DOMAIN m.sources
           /\ ToSet(Less(m, p, b).sources[b]) = ToSet(m.sources[b]) \ {p}
           /\ \A a \in DOMAIN m.sources :
                a # b => Less(m, p, b).sources[a] = m.sources[a]
<1> DEFINE r == Less(m, p, b)
           rest == Drop(m.sources[b], p)
           sources == [m.sources EXCEPT ![b] = rest]
<1>1. m \in Fetching
  BY DEF Tracks
<1>2. /\ m.sources \in Partial(Block, Lists(Peer)) /\ m.sources[b] \in Lists(Peer)
      /\ b \in Block
  BY <1>1, Fields
<1>3. rest \in Lists(Peer) /\ ToSet(rest) = ToSet(m.sources[b]) \ {p}
  <2>1. Peer \subseteq Name
    BY DEF Name
  <2>2. QED
    BY <1>2, <2>1, ListsDrop
<1> HIDE DEF rest
<1>4. /\ sources \in Partial(Block, Lists(Peer)) /\ DOMAIN sources = DOMAIN m.sources
      /\ sources[b] = rest /\ \A a \in DOMAIN m.sources : a # b => sources[a] = m.sources[a]
  BY <1>2, <1>3, ExceptIs
<1>5. r = [m EXCEPT !.sources = sources]
  BY DEF rest, Less
<1> HIDE DEF sources, r
<1>6. r \in Fetching
  BY <1>1, <1>4, <1>5 DEF Fetching
<1>7. /\ r.sources = sources /\ r.pending = m.pending /\ r.conns = m.conns
      /\ r.asked = m.asked /\ r.known = m.known /\ r.stored = m.stored
  BY <1>1, <1>5 DEF Fetching
<1>8. ASSUME NEW a \in DOMAIN r.sources
      PROVE  /\ ToSet(r.sources[a]) \subseteq DOMAIN r.conns \cup gone
             /\ r.sources[a] # <<>> => a \in ToSet(r.pending) \cup DOMAIN r.asked \cup r.stored
  <2>1. a \in DOMAIN m.sources /\ ToSet(m.sources[a]) \subseteq DOMAIN r.conns \cup gone
    BY <1>4, <1>7 DEF Tracks
  <2>2. m.sources[a] # <<>> => a \in ToSet(r.pending) \cup DOMAIN r.asked \cup r.stored
    BY <1>7, <2>1 DEF Tracks
  <2>3. CASE a # b
    BY <1>4, <1>7, <2>1, <2>2, <2>3
  <2>4. CASE a = b
    <3>1. r.sources[a] = rest
      BY <1>4, <1>7, <2>4
    <3>2. rest # <<>> => m.sources[b] # <<>>
      BY <1>2, <1>3, ListsHead
    <3>3. QED
      BY <1>3, <2>1, <2>2, <2>4, <3>1, <3>2
  <2>5. QED
    BY <2>3, <2>4
<1>9. Tracks(r, gone)
  BY <1>4, <1>6, <1>7, <1>8 DEF Tracks
<1>10. QED
  BY <1>3, <1>4, <1>7, <1>9 DEF r

\* t is m after b has lost its source p.
Helped(m, t, p, b) ==
    /\ Tracks(t, {p}) /\ DOMAIN t.conns = DOMAIN m.conns
    /\ DOMAIN t.sources = DOMAIN m.sources
    /\ p \notin ToSet(t.sources[b])
    /\ \A a \in DOMAIN m.sources : a # b => t.sources[a] = m.sources[a]

\* A block of a peer that is gone is asked of another one that has it, or stays
\* where it is.
LEMMA TryAnotherTracks ==
    ASSUME NEW m, NEW p, Tracks(m, {p}), NEW b \in DOMAIN m.sources
    PROVE  Helped(m, TryAnother(m, p, b), p, b)
<1> DEFINE r == TryAnother(m, p, b)
           others == Less(m, p, b)
           list == others.sources[b]
           roomy == {q \in ToSet(list) : others.conns[q].wnd > Len(others.conns[q].hashes)}
           free == Keep(roomy)[list]
<1>1. r = IF free = <<>> THEN others ELSE Take(others, Head(free), <<b>>)
  BY DEF TryAnother, Less
<1> HIDE DEF others, r
<1>2. /\ Tracks(others, {p}) /\ others.conns = m.conns
      /\ DOMAIN others.sources = DOMAIN m.sources
      /\ ToSet(others.sources[b]) = ToSet(m.sources[b]) \ {p}
      /\ \A a \in DOMAIN m.sources : a # b => others.sources[a] = m.sources[a]
  BY DropTracks DEF others
<1>3. others \in Fetching /\ b \in Block
  <2>1. others \in Fetching
    BY <1>2 DEF Tracks
  <2>2. QED
    BY <1>2, <2>1, Fields
<1>4. CASE free = <<>>
  BY <1>1, <1>2, <1>4 DEF r, Helped
<1>5. CASE free # <<>>
  <2> DEFINE q == Head(free)
  <2>1. q \in ToSet(list)
    <3>1. list \in Lists(Peer)
      BY <1>2, <1>3, Fields
    <3>2. Peer \subseteq Name
      BY DEF Name
    <3> HIDE DEF list, roomy
    <3>3. free \in Lists(Peer) /\ ToSet(free) = ToSet(list) \cap roomy
      BY <3>1, <3>2, ListsKeep
    <3> HIDE DEF free
    <3>4. q \in ToSet(free)
      BY <1>5, <3>3, ListsHead
    <3>5. QED
      BY <3>3, <3>4
  <2>2. q \in DOMAIN others.conns
    BY <1>2, <2>1 DEF Tracks
  <2>3. <<b>> \in Lists(Block)
    BY <1>3, ListsOne
  <2>4. r = Take(others, q, <<b>>)
    BY <1>1, <1>5
  <2> HIDE DEF q
  <2>5. Tracks(r, {p}) /\ Asks(others, r, q, ToSet(<<b>>))
    BY <1>2, <2>2, <2>3, <2>4, TakeTracks
  <2>6. r.sources = others.sources /\ DOMAIN r.conns = DOMAIN others.conns
    BY <2>5 DEF Asks
  <2>7. p \notin ToSet(r.sources[b])
    BY <1>2, <2>6
  <2>8. QED
    BY <1>2, <2>5, <2>6, <2>7 DEF r, Helped
<1>6. QED
  BY <1>4, <1>5

\* What removing a connection does first.
LEMMA AbandonTracks ==
    ASSUME NEW n, NEW p \in Peer, Tracks(n, {p})
    PROVE  /\ Tracks(Abandon(n, p), {p}) /\ Abandon(n, p).sources = n.sources
           /\ DOMAIN Abandon(n, p).conns = DOMAIN n.conns \ {p}
<1> DEFINE gone == IF p \in DOMAIN n.conns THEN n.conns[p].hashes ELSE <<>>
           moved == Keep(ToSet(gone) \ ToSet(n.pending))[gone]
           conns == Without(n.conns, {p})
           asked == Without(n.asked, ToSet(gone))
           pend == Reverse(moved) \o n.pending
           wire == [n.wire EXCEPT ![p] = <<>>]
           r == Abandon(n, p)
<1>1. r = [n EXCEPT !.conns = conns, !.asked = asked, !.pending = pend, !.wire = wire]
  BY DEF Abandon
<1>2. n \in Fetching
  BY DEF Tracks
<1>3. gone \in Lists(Block)
  <2>1. <<>> \in Lists(Block)
    BY DEF Lists, IsInjective
  <2>2. QED
    BY <1>2, <2>1, WindowFields
<1>4. p \in DOMAIN n.conns => gone = n.conns[p].hashes
  OBVIOUS
<1> HIDE DEF gone
<1>5. pend \in Lists(Block) /\ ToSet(pend) = ToSet(gone) \cup ToSet(n.pending)
  <2>1. Block \subseteq Name
    BY DEF Name
  <2>2. /\ moved \in Lists(Block)
        /\ ToSet(moved) = ToSet(gone) \cap (ToSet(gone) \ ToSet(n.pending))
    BY <1>3, <2>1, ListsKeep
  <2> HIDE DEF moved
  <2>3. Reverse(moved) \in Lists(Block) /\ ToSet(Reverse(moved)) = ToSet(moved)
    BY <2>2, ReverseOnce DEF Lists
  <2>4. n.pending \in Lists(Block)
    BY <1>2, Fields
  <2>5. ToSet(Reverse(moved)) \cap ToSet(n.pending) = {}
    BY <2>2, <2>3
  <2>6. pend \in Lists(Block) /\ ToSet(pend) = ToSet(Reverse(moved)) \cup ToSet(n.pending)
    BY <2>3, <2>4, <2>5, ListsJoin
  <2>7. QED
    BY <2>2, <2>3, <2>6
<1> HIDE DEF pend
<1>6. /\ conns \in Partial(Peer, Window) /\ DOMAIN conns = DOMAIN n.conns \ {p}
      /\ \A q \in DOMAIN n.conns \ {p} : conns[q] = n.conns[q]
  <2>1. n.conns \in Partial(Peer, Window)
    BY <1>2, Fields
  <2>2. conns \in Partial(Peer, Window)
    BY <2>1, WithoutIs
  <2>3. QED
    BY <2>2, WithoutAt
<1> HIDE DEF conns
<1>7. /\ asked \in Partial(Block, Peer) /\ DOMAIN asked = DOMAIN n.asked \ ToSet(gone)
      /\ \A b \in DOMAIN n.asked \ ToSet(gone) : asked[b] = n.asked[b]
  <2>1. n.asked \in Partial(Block, Peer)
    BY <1>2, Fields
  <2>2. asked \in Partial(Block, Peer)
    BY <2>1, WithoutIs
  <2>3. QED
    BY <2>2, WithoutAt
<1> HIDE DEF asked
<1>8. wire \in Wire
  <2>1. n.wire \in [Peer -> Seq(Block)] /\ <<>> \in Seq(Block)
    BY <1>2, Fields DEF Wire
  <2>2. QED
    BY <2>1 DEF Wire
<1> HIDE DEF wire, r
<1>9. r \in Fetching
  <2>1. conns \in Partial(Peer, Window) /\ asked \in Partial(Block, Peer)
    BY <1>6, <1>7
  <2>2. QED
    BY <1>1, <1>2, <1>5, <1>8, <2>1 DEF Fetching
<1>10. /\ r.sources = n.sources /\ r.known = n.known /\ r.stored = n.stored
       /\ r.conns = conns /\ r.asked = asked /\ r.pending = pend
  BY <1>1, <1>2 DEF Fetching
<1>11. ToSet(r.known) = DOMAIN r.sources
  BY <1>10 DEF Tracks
<1>12. \A q \in DOMAIN r.conns \ {p} : r.conns[q].wnd \in 1..(3 * InitWnd)
  BY <1>6, <1>10 DEF Tracks
<1>13. \A b \in DOMAIN r.sources : ToSet(r.sources[b]) \subseteq DOMAIN r.conns \cup {p}
  BY <1>6, <1>10 DEF Tracks
<1>14. ASSUME NEW b \in DOMAIN r.asked
       PROVE  r.asked[b] \in DOMAIN r.conns /\ b \in ToSet(r.conns[r.asked[b]].hashes)
  <2>1. b \in DOMAIN n.asked /\ b \notin ToSet(gone) /\ r.asked[b] = n.asked[b]
    BY <1>7, <1>10
  <2>2. n.asked[b] \in DOMAIN n.conns /\ b \in ToSet(n.conns[n.asked[b]].hashes)
    BY <2>1 DEF Tracks
  <2>3. n.asked[b] # p
    BY <1>4, <2>1, <2>2
  <2>4. QED
    BY <1>6, <1>10, <2>1, <2>2, <2>3
<1>15. ASSUME NEW b \in DOMAIN r.sources, r.sources[b] # <<>>
       PROVE  b \in ToSet(r.pending) \cup DOMAIN r.asked \cup r.stored
  <2>1. b \in ToSet(n.pending) \cup DOMAIN n.asked \cup n.stored
    BY <1>10, <1>15 DEF Tracks
  <2>2. QED
    BY <1>5, <1>7, <1>10, <2>1
<1>16. Tracks(r, {p})
  BY <1>9, <1>11, <1>12, <1>13, <1>14, <1>15 DEF Tracks
<1>17. QED
  BY <1>6, <1>10, <1>16 DEF r

AskedBody(n, p, blocks, g, k) ==
    IF k = 0 THEN {Abandon(n, p)} ELSE {TryAnother(m, p, blocks[k]) : m \in g[k - 1]}

AskedAll(n, p, blocks) ==
    CHOOSE g : g = [k \in 0..Len(blocks) |-> AskedBody(n, p, blocks, g, k)]

\* Nobody has been asked in the beginning.
LEMMA AskedNone ==
    ASSUME NEW n, NEW p, NEW blocks, NEW g, NEW k, k = 0
    PROVE  AskedBody(n, p, blocks, g, k) = {Abandon(n, p)}
BY Zenon DEF AskedBody

\* One block after the others.
LEMMA AskedNext ==
    ASSUME NEW n, NEW p, NEW blocks, NEW g, NEW k, k # 0
    PROVE  AskedBody(n, p, blocks, g, k) = {TryAnother(m, p, blocks[k]) : m \in g[k - 1]}
BY Zenon DEF AskedBody

\* AskedAll is what it is defined to be.
LEMMA AskedExists ==
    ASSUME NEW n, NEW p, NEW T, NEW blocks \in Seq(T)
    PROVE  AskedAll(n, p, blocks) =
             [k \in 0..Len(blocks) |-> AskedBody(n, p, blocks, AskedAll(n, p, blocks), k)]
<1> DEFINE N == Len(blocks)
           Body(g, k) == AskedBody(n, p, blocks, g, k)
           Up(j, g) == g = [k \in 0..j |-> AskedBody(n, p, blocks, g, k)]
           A == {j \in 0..N : \E g : Up(j, g)}
<1>1. N \in Nat
  OBVIOUS
<1> HIDE DEF N
<1>2. 0 \in A
  <2> DEFINE g == [k \in 0..0 |-> {Abandon(n, p)}]
             h == [k \in 0..0 |-> Body(g, k)]
  <2>1. \A k \in 0..0 : Body(g, k) = {Abandon(n, p)}
    BY AskedNone
  <2>2. \A k \in 0..0 : h[k] = g[k]
    BY <2>1
  <2>3. g = h
    BY <2>2
  <2>4. Up(0, g)
    BY <2>3
  <2> HIDE DEF g, Up
  <2>5. 0 \in 0..N
    BY <1>1
  <2>6. QED
    BY <2>4, <2>5
<1>3. ASSUME NEW j \in 0..N, j # N, j \in A PROVE j + 1 \in A
  <2>1. PICK g : Up(j, g)
    BY <1>3
  <2> DEFINE h == [k \in 0..(j + 1) |-> IF k \in 0..j THEN g[k] ELSE Body(g, k)]
  <2>2. ASSUME NEW k \in 0..j PROVE g[k] = Body(g, k) /\ h[k] = g[k]
    <3>1. k \in 0..(j + 1)
      BY <1>1
    <3>2. h[k] = g[k]
      BY <3>1
    <3>3. g[k] = Body(g, k)
      <4> HIDE DEF h
      <4>1. QED
        BY <2>1, Zenon
    <3>4. QED
      BY <3>2, <3>3
  <2>3. ASSUME NEW k \in 0..(j + 1) PROVE h[k] = Body(h, k)
    <3>1. Body(h, k) = Body(g, k)
      <4>1. CASE k = 0
        BY <4>1 DEF AskedBody
      <4>2. CASE k # 0
        <5>1. k - 1 \in 0..j
          BY <4>2, <1>1
        <5>2. h[k - 1] = g[k - 1]
          BY <5>1, <2>2
        <5> HIDE DEF h
        <5>3. QED
          BY <5>2, Zenon DEF AskedBody
      <4>3. QED
        BY <4>1, <4>2
    <3>2. h[k] = Body(g, k)
      BY <2>2, <1>1
    <3>3. QED
      BY <3>1, <3>2
  <2>4. Up(j + 1, h)
    <3> DEFINE r == [k \in 0..(j + 1) |-> Body(h, k)]
    <3>1. \A k \in 0..(j + 1) : h[k] = r[k]
      BY <2>3
    <3>2. h = r
      BY <3>1
    <3>3. QED
      BY <3>2
  <2>5. j + 1 \in 0..N
    BY <1>1, <1>3
  <2>6. QED
    BY <2>4, <2>5
<1>4. N \in A
  <2> HIDE DEF A
  <2>1. \A j \in 0..N : j # N /\ j \in A => j + 1 \in A
    BY <1>3
  <2>2. 0..N \subseteq A
    BY <1>1, <1>2, <2>1, UpTo
  <2>3. QED
    BY <1>1, <2>2
<1>5. \E g : Up(N, g)
  BY <1>4
<1>6. QED
  BY <1>5, Zenon DEF AskedAll, N

\* Once a connection is removed its peer is a source of nothing, and every block is
\* in one of its places again.
LEMMA RemoveTracks ==
    ASSUME NEW n, NEW p \in Peer, Tracks(n, {p}), NEW r \in OnRemoveConnection(n, p)
    PROVE  Tracks(r, {}) /\ DOMAIN r.conns = DOMAIN n.conns \ {p}
<1> DEFINE blocks == Keep(Served(n, p))[n.known]
           N == Len(blocks)
           g == AskedAll(n, p, blocks)
           Done(m, k) ==
             /\ Tracks(m, {p}) /\ DOMAIN m.conns = DOMAIN n.conns \ {p}
             /\ DOMAIN m.sources = DOMAIN n.sources
             /\ \A i \in 1..k : p \notin ToSet(m.sources[blocks[i]])
             /\ \A a \in DOMAIN n.sources \ ToSet(blocks) : m.sources[a] = n.sources[a]
           A == {k \in 0..N : \A m \in g[k] : Done(m, k)}
<1>1. blocks \in Seq(Block) /\ ToSet(blocks) = Served(n, p)
  <2>1. Block \subseteq Name
    BY DEF Name
  <2>2. n.known \in Lists(Block) /\ ToSet(n.known) = DOMAIN n.sources
    BY Fields DEF Tracks
  <2>3. blocks \in Lists(Block) /\ ToSet(blocks) = ToSet(n.known) \cap Served(n, p)
    BY <2>1, <2>2, ListsKeep
  <2> HIDE DEF blocks
  <2>4. QED
    BY <2>2, <2>3 DEF Lists, Served
<1>2. OnRemoveConnection(n, p) = g[N]
  BY Zenon DEF OnRemoveConnection, AskedAll, AskedBody
<1> HIDE DEF blocks
<1>3. N \in Nat /\ DOMAIN blocks = 1..N /\ \A i \in 1..N : blocks[i] \in ToSet(blocks)
  BY <1>1 DEF ToSet
<1>4. \A k \in 0..N : g[k] = AskedBody(n, p, blocks, g, k)
  BY <1>1, AskedExists
<1> HIDE DEF N, g
<1>5. 0 \in A
  <2>1. g[0] = {Abandon(n, p)}
    BY <1>3, <1>4, AskedNone
  <2>2. Done(Abandon(n, p), 0)
    <3> DEFINE m == Abandon(n, p)
    <3>1. Tracks(m, {p}) /\ m.sources = n.sources /\ DOMAIN m.conns = DOMAIN n.conns \ {p}
      BY AbandonTracks
    <3> HIDE DEF m
    <3>2. Done(m, 0)
      BY <3>1
    <3>3. QED
      BY <3>2 DEF m
  <2> HIDE DEF Done
  <2>3. QED
    BY <1>3, <2>1, <2>2
<1>6. ASSUME NEW j \in 0..N, j # N, j \in A PROVE j + 1 \in A
  <2> DEFINE k == j + 1
  <2>1. k \in 1..N /\ k \in 0..N /\ k # 0 /\ k - 1 = j
    BY <1>3, <1>6
  <2>2. g[k] = {TryAnother(m, p, blocks[k]) : m \in g[j]}
    BY <1>4, <2>1, AskedNext
  <2>3. ASSUME NEW m \in g[j] PROVE Done(TryAnother(m, p, blocks[k]), k)
    <3> DEFINE b == blocks[k]
               t == TryAnother(m, p, b)
    <3>1. Done(m, j)
      BY <1>6
    <3>2. b \in ToSet(blocks) /\ b \in DOMAIN m.sources
      BY <1>1, <1>3, <2>1, <3>1 DEF Served
    <3> HIDE DEF b
    <3>3. /\ Tracks(t, {p}) /\ DOMAIN t.conns = DOMAIN m.conns
          /\ DOMAIN t.sources = DOMAIN m.sources
          /\ p \notin ToSet(t.sources[b])
          /\ \A a \in DOMAIN m.sources : a # b => t.sources[a] = m.sources[a]
      <4>1. Tracks(m, {p})
        BY <3>1
      <4> HIDE DEF Done, A
      <4>2. Helped(m, t, p, b)
        BY <3>2, <4>1, TryAnotherTracks
      <4>3. QED
        BY <4>2 DEF Helped
    <3> HIDE DEF t
    <3>4. ASSUME NEW i \in 1..k PROVE p \notin ToSet(t.sources[blocks[i]])
      <4>1. CASE blocks[i] = b
        BY <3>3, <4>1
      <4>2. CASE blocks[i] # b
        <5>1. i \in 1..j /\ i \in 1..N
          BY <1>3, <2>1, <4>2 DEF b
        <5>2. blocks[i] \in DOMAIN m.sources
          BY <1>1, <1>3, <3>1, <5>1 DEF Served
        <5>3. t.sources[blocks[i]] = m.sources[blocks[i]]
          BY <3>3, <4>2, <5>2
        <5>4. QED
          BY <3>1, <5>1, <5>3
      <4>3. QED
        BY <4>1, <4>2
    <3>5. \A a \in DOMAIN n.sources \ ToSet(blocks) : t.sources[a] = n.sources[a]
      BY <3>1, <3>2, <3>3
    <3>6. Done(t, k)
      BY <3>1, <3>3, <3>4, <3>5
    <3>7. QED
      BY <3>6 DEF t, b
  <2> HIDE DEF Done
  <2>4. \A m \in g[k] : Done(m, k)
    BY <2>2, <2>3
  <2> HIDE DEF k
  <2>5. k \in A
    BY <2>1, <2>4
  <2>6. QED
    BY <2>5 DEF k
<1>7. N \in A
  <2> HIDE DEF A
  <2>1. \A j \in 0..N : j # N /\ j \in A => j + 1 \in A
    BY <1>6
  <2>2. 0..N \subseteq A
    BY <1>3, <1>5, <2>1, UpTo
  <2>3. QED
    BY <1>3, <2>2
<1>8. Done(r, N)
  <2> HIDE DEF Done
  <2>1. QED
    BY <1>2, <1>7
<1>9. ASSUME NEW b \in DOMAIN r.sources PROVE p \notin ToSet(r.sources[b])
  <2>1. CASE b \in ToSet(blocks)
    <3>1. PICK i \in 1..N : blocks[i] = b
      BY <1>3, <2>1 DEF ToSet
    <3>2. QED
      BY <1>8, <3>1
  <2>2. CASE b \notin ToSet(blocks)
    <3>1. b \in DOMAIN n.sources /\ r.sources[b] = n.sources[b]
      BY <1>8, <2>2
    <3>2. QED
      BY <1>1, <2>2, <3>1 DEF Served
  <2>3. QED
    BY <2>1, <2>2
<1>10. Tracks(r, {p}) /\ p \notin DOMAIN r.conns
  BY <1>8
<1>11. DOMAIN r.conns \ {} = DOMAIN r.conns \ {p}
  BY <1>10
<1>12. \A b \in DOMAIN r.sources : ToSet(r.sources[b]) \subseteq DOMAIN r.conns \cup {}
  BY <1>9, <1>10 DEF Tracks
<1>13. Tracks(r, {})
  BY <1>10, <1>11, <1>12 DEF Tracks
<1>14. QED
  BY <1>8, <1>13

----------------------------------------------------------------------------
(* The steps of the download *)

\* The windows of n may be replaced by these, but for the sizes of those of out.
Fits(conns, n, out) ==
    /\ conns \in Partial(Peer, Window) /\ DOMAIN n.conns \subseteq DOMAIN conns
    /\ \A q \in DOMAIN n.conns : conns[q].hashes = n.conns[q].hashes
    /\ \A q \in DOMAIN conns \ out : conns[q].wnd \in 1..(3 * InitWnd)

\* r is n but for the windows and the wire.
Same(r, n, conns) ==
    /\ r.conns = conns /\ r.asked = n.asked /\ r.pending = n.pending
    /\ r.sources = n.sources /\ r.known = n.known /\ r.stored = n.stored

WithConns(n, conns, wire) == [n EXCEPT !.conns = conns, !.wire = wire]

\* Windows that change their sizes, come in addition, or whose requests are lost.
LEMMA ConnsTrack ==
    ASSUME NEW n, NEW gone, Tracks(n, gone), NEW out, gone \subseteq out,
           NEW conns, Fits(conns, n, out), NEW wire \in Wire
    PROVE  Tracks(WithConns(n, conns, wire), out) /\ Same(WithConns(n, conns, wire), n, conns)
<1> USE DEF Fits
<1> DEFINE r == WithConns(n, conns, wire)
<1>1. n \in Fetching
  BY DEF Tracks
<1>2. r \in Fetching
  BY <1>1 DEF Fetching, WithConns
<1>3. /\ r.conns = conns /\ r.asked = n.asked /\ r.pending = n.pending
      /\ r.sources = n.sources /\ r.known = n.known /\ r.stored = n.stored
  BY <1>1 DEF Fetching, WithConns
<1> HIDE DEF r
<1>4. \A b \in DOMAIN r.sources : ToSet(r.sources[b]) \subseteq DOMAIN r.conns \cup out
  BY <1>3 DEF Tracks
<1>5. ASSUME NEW b \in DOMAIN r.asked
      PROVE  r.asked[b] \in DOMAIN r.conns /\ b \in ToSet(r.conns[r.asked[b]].hashes)
  <2>1. n.asked[b] \in DOMAIN n.conns /\ b \in ToSet(n.conns[n.asked[b]].hashes)
    BY <1>3 DEF Tracks
  <2>2. QED
    BY <1>3, <2>1
<1>6. ToSet(r.known) = DOMAIN r.sources
  BY <1>3 DEF Tracks
<1>7. \A b \in DOMAIN r.sources :
        r.sources[b] # <<>> => b \in ToSet(r.pending) \cup DOMAIN r.asked \cup r.stored
  BY <1>3 DEF Tracks
<1>8. \A q \in DOMAIN r.conns \ out : r.conns[q].wnd \in 1..(3 * InitWnd)
  BY <1>3
<1>9. QED
  BY <1>2, <1>3, <1>4, <1>5, <1>6, <1>7, <1>8 DEF Tracks, Same, r

\* A request that is taken from or lost on the wire.
LEMMA WireTracks ==
    ASSUME NEW n, Tracks(n, {}), NEW p \in Peer, NEW s \in Seq(Block), NEW r,
           r = [n EXCEPT !.wire[p] = s]
    PROVE  Tracks(r, {}) /\ Same(r, n, n.conns)
<1> DEFINE wire == [n.wire EXCEPT ![p] = s]
<1>1. n \in Fetching
  BY DEF Tracks
<1>2. wire \in Wire
  BY <1>1, Fields DEF Wire
<1> HIDE DEF wire
<1>3. r = WithConns(n, n.conns, wire)
  BY <1>1 DEF wire, Fetching, WithConns
<1>4. Fits(n.conns, n, {})
  <2>1. n.conns \in Partial(Peer, Window)
    BY <1>1, Fields
  <2>2. QED
    BY <2>1 DEF Fits, Tracks
<1>5. QED
  BY <1>2, <1>3, <1>4, ConnsTrack

\* A block that is stored.
LEMMA StoredTracks ==
    ASSUME NEW n, Tracks(n, {}), NEW b \in Block, NEW r, r = [n EXCEPT !.stored = @ \cup {b}]
    PROVE  /\ Tracks(r, {}) /\ r.conns = n.conns /\ r.asked = n.asked
           /\ r.sources = n.sources /\ r.known = n.known
<1>1. n \in Fetching /\ n.stored \cup {b} \in SUBSET Block
  BY Fields DEF Tracks
<1>2. r \in Fetching
  BY <1>1 DEF Fetching
<1>3. /\ r.conns = n.conns /\ r.asked = n.asked /\ r.pending = n.pending
      /\ r.sources = n.sources /\ r.known = n.known /\ r.stored = n.stored \cup {b}
  BY <1>1 DEF Fetching
<1>4. QED
  BY <1>2, <1>3 DEF Tracks

\* A block that came from the peer it was asked of is done with.
LEMMA ReceivedTracks ==
    ASSUME NEW n, Tracks(n, {}), NEW b \in DOMAIN n.asked, NEW p, n.asked[b] = p
    PROVE  Tracks(Received(n, p, b), {}) /\ DOMAIN Received(n, p, b).conns = DOMAIN n.conns
<1> DEFINE w == n.conns[p]
           rest == Drop(w.hashes, b)
           wnd == IF w.wnd < 3 * InitWnd THEN w.wnd + 1 ELSE 3 * InitWnd
           window == [w EXCEPT !.hashes = rest, !.wnd = wnd]
           conns == [n.conns EXCEPT ![p] = window]
           asked == Without(n.asked, {b})
           sources == Without(n.sources, {b})
           known == Drop(n.known, b)
           r == Received(n, p, b)
<1>1. n \in Fetching /\ p \in DOMAIN n.conns /\ Block \subseteq Name
  BY DEF Tracks, Name
<1>2. /\ w \in Window /\ w.hashes \in Lists(Block) /\ w.wnd \in 1..(3 * InitWnd)
      /\ n.conns \in Partial(Peer, Window)
  BY <1>1, WindowFields, Fields DEF Tracks
<1>3. r = [n EXCEPT !.conns = conns, !.asked = asked, !.sources = sources, !.known = known]
  BY DEF Received
<1> HIDE DEF r, w
<1>4. rest \in Lists(Block) /\ ToSet(rest) = ToSet(w.hashes) \ {b}
  BY <1>1, <1>2, ListsDrop
<1> HIDE DEF rest
<1>5. wnd \in 1..(3 * InitWnd) /\ wnd \in Nat
  BY <1>2, FetchConstants
<1> HIDE DEF wnd
<1>6. window \in Window /\ window.hashes = rest /\ window.wnd = wnd
  BY <1>2, <1>4, <1>5 DEF Window
<1> HIDE DEF window
<1>7. /\ conns \in Partial(Peer, Window) /\ DOMAIN conns = DOMAIN n.conns
      /\ conns[p] = window /\ \A q \in DOMAIN n.conns : q # p => conns[q] = n.conns[q]
  BY <1>1, <1>2, <1>6, ExceptIs
<1> HIDE DEF conns
<1>8. /\ asked \in Partial(Block, Peer) /\ DOMAIN asked = DOMAIN n.asked \ {b}
      /\ \A a \in DOMAIN n.asked \ {b} : asked[a] = n.asked[a]
  <2>1. n.asked \in Partial(Block, Peer)
    BY <1>1, Fields
  <2>2. asked \in Partial(Block, Peer)
    BY <2>1, WithoutIs
  <2>3. QED
    BY <2>2, WithoutAt
<1> HIDE DEF asked
<1>9. /\ sources \in Partial(Block, Lists(Peer)) /\ DOMAIN sources = DOMAIN n.sources \ {b}
      /\ \A a \in DOMAIN n.sources \ {b} : sources[a] = n.sources[a]
  <2>1. n.sources \in Partial(Block, Lists(Peer))
    BY <1>1, Fields
  <2>2. sources \in Partial(Block, Lists(Peer))
    BY <2>1, WithoutIs
  <2>3. QED
    BY <2>2, WithoutAt
<1> HIDE DEF sources
<1>10. known \in Lists(Block) /\ ToSet(known) = ToSet(n.known) \ {b}
  <2>1. n.known \in Lists(Block)
    BY <1>1, Fields
  <2>2. QED
    BY <1>1, <2>1, ListsDrop
<1> HIDE DEF known
<1>11. r \in Fetching
  <2>1. /\ conns \in Partial(Peer, Window) /\ asked \in Partial(Block, Peer)
        /\ sources \in Partial(Block, Lists(Peer)) /\ known \in Lists(Block)
    BY <1>7, <1>8, <1>9, <1>10
  <2>2. QED
    BY <1>1, <1>3, <2>1 DEF Fetching
<1>12. /\ r.conns = conns /\ r.asked = asked /\ r.sources = sources /\ r.known = known
       /\ r.pending = n.pending /\ r.stored = n.stored
  BY <1>1, <1>3 DEF Fetching
<1>13. ToSet(r.known) = DOMAIN r.sources
  BY <1>9, <1>10, <1>12 DEF Tracks
<1>14. \A q \in DOMAIN r.conns : r.conns[q].wnd \in 1..(3 * InitWnd)
  BY <1>5, <1>6, <1>7, <1>12 DEF Tracks
<1>15. \A a \in DOMAIN r.sources : ToSet(r.sources[a]) \subseteq DOMAIN r.conns \cup {}
  BY <1>7, <1>9, <1>12 DEF Tracks
<1>16. ASSUME NEW a \in DOMAIN r.asked
       PROVE  r.asked[a] \in DOMAIN r.conns /\ a \in ToSet(r.conns[r.asked[a]].hashes)
  <2>1. a \in DOMAIN n.asked /\ a # b /\ r.asked[a] = n.asked[a]
    BY <1>8, <1>12
  <2>2. n.asked[a] \in DOMAIN n.conns /\ a \in ToSet(n.conns[n.asked[a]].hashes)
    BY <2>1 DEF Tracks
  <2>3. CASE n.asked[a] = p
    BY <1>4, <1>6, <1>7, <1>12, <2>1, <2>2, <2>3 DEF w
  <2>4. CASE n.asked[a] # p
    BY <1>7, <1>12, <2>1, <2>2, <2>4
  <2>5. QED
    BY <2>3, <2>4
<1>17. ASSUME NEW a \in DOMAIN r.sources, r.sources[a] # <<>>
       PROVE  a \in ToSet(r.pending) \cup DOMAIN r.asked \cup r.stored
  <2>1. a \in DOMAIN n.sources /\ a # b /\ n.sources[a] # <<>>
    BY <1>9, <1>12, <1>17
  <2>2. a \in ToSet(n.pending) \cup DOMAIN n.asked \cup n.stored
    BY <2>1 DEF Tracks
  <2>3. QED
    BY <1>8, <1>12, <2>1, <2>2
<1>18. Tracks(r, {})
  BY <1>11, <1>13, <1>14, <1>15, <1>16, <1>17 DEF Tracks
<1>19. QED
  BY <1>7, <1>12, <1>18 DEF r

\* A window of the first size.
LEMMA FirstWindow ==
    ASSUME NEW w, w = [wnd |-> InitWnd, hashes |-> <<>>, replaced |-> FALSE]
    PROVE  w \in Window /\ w.wnd \in 1..(3 * InitWnd)
<1>1. <<>> \in Lists(Block)
  BY DEF Lists, IsInjective
<1>2. InitWnd \in Nat /\ InitWnd \in 1..(3 * InitWnd)
  BY FetchConstants
<1>3. QED
  BY <1>1, <1>2 DEF Window

\* A peer that has no window gets one.
LEMMA WindowTracks ==
    ASSUME NEW n, Tracks(n, {}), NEW p \in Peer
    PROVE  /\ Tracks(WithWindow(n, p), {})
           /\ Same(WithWindow(n, p), n, WithWindow(n, p).conns)
           /\ DOMAIN WithWindow(n, p).conns = DOMAIN n.conns \cup {p}
<1> DEFINE r == WithWindow(n, p)
<1>1. CASE p \in DOMAIN n.conns
  <2>1. r = n
    BY <1>1 DEF WithWindow
  <2> HIDE DEF r
  <2>2. Tracks(r, {}) /\ Same(r, n, r.conns) /\ DOMAIN r.conns = DOMAIN n.conns \cup {p}
    BY <1>1, <2>1 DEF Same
  <2>3. QED
    BY <2>2 DEF r
<1>2. CASE p \notin DOMAIN n.conns
  <2> DEFINE w == [wnd |-> InitWnd, hashes |-> <<>>, replaced |-> FALSE]
             add == [q \in {p} |-> w]
             conns == SetAll(n.conns, add)
  <2>1. w \in Window /\ w.wnd \in 1..(3 * InitWnd)
    BY FirstWindow
  <2>2. r = [n EXCEPT !.conns = conns]
    BY <1>2 DEF WithWindow
  <2> HIDE DEF w, r
  <2>3. n \in Fetching
    BY DEF Tracks
  <2>4. n.conns \in Partial(Peer, Window) /\ n.wire \in Wire
    BY <2>3, Fields
  <2>5. DOMAIN add = {p} /\ add[p] = w /\ add \in [{p} -> Window]
    BY <2>1
  <2> HIDE DEF add
  <2>6. add \in Partial(Peer, Window)
    BY <2>5, PartialIs
  <2>7. conns \in Partial(Peer, Window)
    BY <2>4, <2>6, SetAllIs
  <2>8. /\ DOMAIN conns = DOMAIN n.conns \cup {p} /\ conns[p] = w
        /\ \A q \in DOMAIN n.conns : conns[q] = n.conns[q]
    <3>1. /\ DOMAIN conns = DOMAIN n.conns \cup DOMAIN add
          /\ \A q \in DOMAIN add : conns[q] = add[q]
          /\ \A q \in DOMAIN n.conns \ DOMAIN add : conns[q] = n.conns[q]
      BY SetAllAt
    <3> HIDE DEF conns
    <3>2. QED
      BY <1>2, <2>5, <3>1
  <2> HIDE DEF conns
  <2>9. r = WithConns(n, conns, n.wire)
    BY <2>2, <2>3 DEF WithConns, Fetching
  <2>10. Fits(conns, n, {})
    BY <2>1, <2>7, <2>8 DEF Fits, Tracks
  <2>11. Tracks(r, {}) /\ Same(r, n, conns)
    BY <2>4, <2>9, <2>10, ConnsTrack
  <2>12. Same(r, n, r.conns) /\ DOMAIN r.conns = DOMAIN n.conns \cup {p}
    BY <2>8, <2>11 DEF Same
  <2>13. QED
    BY <2>11, <2>12 DEF r
<1>3. QED
  BY <1>1, <1>2

\* A list that something new is put at the end of.
LEMMA ListsAppend ==
    ASSUME NEW S, NEW s \in Lists(S), NEW x \in S, x \notin ToSet(s)
    PROVE  Append(s, x) \in Lists(S) /\ ToSet(Append(s, x)) = ToSet(s) \cup {x}
BY AppendOnce DEF Lists

\* The sources after an announcement: of the new blocks, the peer and those before.
LEMMA AddSourceIs ==
    ASSUME NEW n, Tracks(n, {}), NEW p \in DOMAIN n.conns, NEW new \in SUBSET Block,
           \A b \in new : b \notin Served(n, p)
    PROVE  /\ AddSource(n, p, new) \in Partial(Block, Lists(Peer))
           /\ DOMAIN AddSource(n, p, new) = DOMAIN n.sources \cup new
           /\ \A b \in new : ToSet(AddSource(n, p, new)[b]) \subseteq DOMAIN n.conns
           /\ \A b \in DOMAIN n.sources \ new : AddSource(n, p, new)[b] = n.sources[b]
<1> DEFINE before(b) == IF b \in DOMAIN n.sources THEN n.sources[b] ELSE <<>>
           from == [b \in new |-> Append(before(b), p)]
           sources == AddSource(n, p, new)
<1>1. n \in Fetching
  BY DEF Tracks
<1>2. n.sources \in Partial(Block, Lists(Peer)) /\ p \in Peer
  BY <1>1, Fields
<1>3. sources = SetAll(n.sources, from)
  BY DEF AddSource
<1>4. ASSUME NEW b \in new
      PROVE  from[b] \in Lists(Peer) /\ ToSet(from[b]) \subseteq DOMAIN n.conns
  <2> DEFINE s == before(b)
  <2>1. s \in Lists(Peer) /\ p \notin ToSet(s) /\ ToSet(s) \subseteq DOMAIN n.conns
    <3>1. CASE b \in DOMAIN n.sources
      <4>1. s = n.sources[b]
        BY <3>1
      <4>2. s \in Lists(Peer)
        BY <1>1, <3>1, <4>1, Fields
      <4>3. p \notin ToSet(s)
        BY <1>4, <3>1, <4>1 DEF Served
      <4>4. ToSet(s) \subseteq DOMAIN n.conns \cup {}
        BY <3>1, <4>1 DEF Tracks
      <4>5. QED
        BY <4>2, <4>3, <4>4
    <3>2. CASE b \notin DOMAIN n.sources
      <4>1. s = <<>>
        BY <3>2
      <4>2. <<>> \in Lists(Peer) /\ ToSet(<<>>) = {}
        BY DEF Lists, IsInjective, ToSet
      <4>3. QED
        BY <4>1, <4>2
    <3>3. QED
      BY <3>1, <3>2
  <2>2. from[b] = Append(s, p)
    OBVIOUS
  <2> HIDE DEF s, from
  <2>3. Append(s, p) \in Lists(Peer) /\ ToSet(Append(s, p)) = ToSet(s) \cup {p}
    BY <1>2, <2>1, ListsAppend
  <2>4. QED
    BY <2>1, <2>2, <2>3
<1>5. DOMAIN from = new /\ from = [b \in new |-> from[b]]
  OBVIOUS
<1> HIDE DEF from, sources
<1>6. from \in Partial(Block, Lists(Peer))
  <2>1. from \in [new -> Lists(Peer)]
    BY <1>4, <1>5
  <2>2. QED
    BY <1>5, <2>1, PartialIs
<1>7. sources \in Partial(Block, Lists(Peer))
  BY <1>2, <1>3, <1>6, SetAllIs
<1>8. /\ DOMAIN sources = DOMAIN n.sources \cup DOMAIN from
      /\ \A q \in DOMAIN from : sources[q] = from[q]
      /\ \A q \in DOMAIN n.sources \ DOMAIN from : sources[q] = n.sources[q]
  <2> DEFINE all == SetAll(n.sources, from)
  <2>1. /\ DOMAIN all = DOMAIN n.sources \cup DOMAIN from
        /\ \A q \in DOMAIN from : all[q] = from[q]
        /\ \A q \in DOMAIN n.sources \ DOMAIN from : all[q] = n.sources[q]
    BY SetAllAt
  <2>2. all = sources
    BY <1>3
  <2> HIDE DEF all
  <2>3. QED
    BY <2>1, <2>2
<1>9. \A b \in new : ToSet(sources[b]) \subseteq DOMAIN n.conns
  BY <1>4, <1>5, <1>8
<1>10. QED
  BY <1>5, <1>7, <1>8, <1>9 DEF sources

\* What an announcement adds is pending, out or stored.
LEMMA AnnounceTracks ==
    ASSUME NEW n, Tracks(n, {}), NEW p \in DOMAIN n.conns, NEW headers \in Lists(Block),
           NEW new \in SUBSET (ToSet(headers) \ n.stored), \A b \in new : b \notin Served(n, p)
    PROVE  /\ Tracks(Announce(n, p, headers, new), {})
           /\ Announce(n, p, headers, new).conns = n.conns
<1> DEFINE sources == AddSource(n, p, new)
           first == Keep(new \ DOMAIN n.sources)[headers]
           requests == Keep(new \ (DOMAIN n.asked \cup ToSet(n.pending)))[headers]
           known == n.known \o first
           pend == n.pending \o requests
           r == Announce(n, p, headers, new)
<1>1. n \in Fetching /\ Block \subseteq Name
  BY DEF Tracks, Name
<1>2. n.known \in Lists(Block) /\ n.pending \in Lists(Block)
  BY <1>1, Fields
<1>3. new \subseteq Block
  BY ListsHead
<1>4. /\ sources \in Partial(Block, Lists(Peer)) /\ DOMAIN sources = DOMAIN n.sources \cup new
      /\ \A b \in new : ToSet(sources[b]) \subseteq DOMAIN n.conns
      /\ \A b \in DOMAIN n.sources \ new : sources[b] = n.sources[b]
  BY <1>3, AddSourceIs
<1>5. known \in Lists(Block) /\ ToSet(known) = ToSet(n.known) \cup (new \ DOMAIN n.sources)
  <2>1. first \in Lists(Block) /\ ToSet(first) = ToSet(headers) \cap (new \ DOMAIN n.sources)
    BY <1>1, ListsKeep
  <2> HIDE DEF first
  <2>2. ToSet(first) = new \ DOMAIN n.sources
    BY <2>1
  <2>3. ToSet(n.known) \cap ToSet(first) = {}
    BY <2>2 DEF Tracks
  <2>4. known \in Lists(Block) /\ ToSet(known) = ToSet(n.known) \cup ToSet(first)
    BY <1>2, <2>1, <2>3, ListsJoin
  <2>5. QED
    BY <2>2, <2>4
<1>6. pend \in Lists(Block) /\ ToSet(pend) = ToSet(n.pending) \cup (new \ DOMAIN n.asked)
  <2>1. /\ requests \in Lists(Block)
        /\ ToSet(requests) = ToSet(headers) \cap (new \ (DOMAIN n.asked \cup ToSet(n.pending)))
    BY <1>1, ListsKeep
  <2> HIDE DEF requests
  <2>2. ToSet(n.pending) \cap ToSet(requests) = {}
    BY <2>1
  <2>3. pend \in Lists(Block) /\ ToSet(pend) = ToSet(n.pending) \cup ToSet(requests)
    BY <1>2, <2>1, <2>2, ListsJoin
  <2>4. QED
    BY <2>1, <2>3
<1>7. r = [n EXCEPT !.sources = sources, !.known = known, !.pending = pend]
  BY DEF Announce
<1> HIDE DEF sources, known, pend, r
<1>8. r \in Fetching
  <2>1. /\ sources \in Partial(Block, Lists(Peer)) /\ known \in Lists(Block)
        /\ pend \in Lists(Block)
    BY <1>4, <1>5, <1>6
  <2>2. QED
    BY <1>1, <1>7, <2>1 DEF Fetching
<1>9. /\ r.conns = n.conns /\ r.asked = n.asked /\ r.pending = pend
      /\ r.sources = sources /\ r.known = known /\ r.stored = n.stored
  BY <1>1, <1>7 DEF Fetching
<1>10. ToSet(r.known) = DOMAIN r.sources
  BY <1>4, <1>5, <1>9 DEF Tracks
<1>11. ASSUME NEW b \in DOMAIN r.sources
       PROVE  /\ ToSet(r.sources[b]) \subseteq DOMAIN r.conns \cup {}
              /\ r.sources[b] # <<>> => b \in ToSet(r.pending) \cup DOMAIN r.asked \cup r.stored
  <2>1. CASE b \in new
    BY <1>4, <1>6, <1>9, <2>1
  <2>2. CASE b \notin new
    <3>1. b \in DOMAIN n.sources /\ r.sources[b] = n.sources[b]
      BY <1>4, <1>9, <2>2
    <3>2. /\ ToSet(n.sources[b]) \subseteq DOMAIN n.conns \cup {}
          /\ n.sources[b] # <<>> => b \in ToSet(n.pending) \cup DOMAIN n.asked \cup n.stored
      BY <3>1 DEF Tracks
    <3>3. QED
      BY <1>6, <1>9, <3>1, <3>2
  <2>3. QED
    BY <2>1, <2>2
<1>12. /\ \A q \in DOMAIN r.conns \ {} : r.conns[q].wnd \in 1..(3 * InitWnd)
       /\ \A b \in DOMAIN r.asked :
            r.asked[b] \in DOMAIN r.conns /\ b \in ToSet(r.conns[r.asked[b]].hashes)
  BY <1>9 DEF Tracks
<1>13. QED
  BY <1>8, <1>9, <1>10, <1>11, <1>12 DEF Tracks, r

\* Headers that are received are a list.
LEMMA HeadersAre ==
    ASSUME NEW h \in Headers
    PROVE  h \in Lists(Block)
BY FetchConstants DEF Lists

\* requestBlocks.
LEMMA RequestStep ==
    ASSUME FetchIInv, NEW p \in Peer, NEW h \in Headers, RequestBlocks(p, h)
    PROVE  FetchIInv'
<1> DEFINE new == {b \in ToSet(h) \ fetch.stored : b \notin Served(fetch, p)}
           n == WithWindow(fetch, p)
           m == Announce(n, p, h, new)
           r == OnFreeBlockWnd(m, p)
<1>1. Tracks(fetch, {}) /\ DOMAIN fetch.conns \subseteq connected /\ connected \subseteq Peer
  BY DEF FetchIInv
<1>2. fetch' = r /\ p \in connected /\ connected' = connected
  BY DEF RequestBlocks
<1>3. Tracks(n, {}) /\ Same(n, fetch, n.conns) /\ DOMAIN n.conns = DOMAIN fetch.conns \cup {p}
  BY <1>1, WindowTracks
<1>4. h \in Lists(Block)
  BY HeadersAre
<1>5. new \in SUBSET (ToSet(h) \ n.stored) /\ \A b \in new : b \notin Served(n, p)
  BY <1>3 DEF Same, Served
<1> HIDE DEF n, new, m, r
<1>6. Tracks(m, {}) /\ m.conns = n.conns
  <2>1. p \in DOMAIN n.conns
    BY <1>3
  <2>2. QED
    BY <1>3, <1>4, <1>5, <2>1, AnnounceTracks DEF m
<1>7. Tracks(r, {}) /\ DOMAIN r.conns = DOMAIN m.conns
  <2>1. p \in DOMAIN m.conns
    BY <1>3, <1>6
  <2>2. QED
    BY <1>6, <2>1, FreeWndTracks DEF r
<1>8. QED
  BY <1>1, <1>2, <1>3, <1>6, <1>7 DEF FetchIInv

\* _onRecvBlock.
LEMMA RecvStep ==
    ASSUME FetchIInv, NEW p \in Peer, OnRecvBlock(p)
    PROVE  FetchIInv'
<1> DEFINE b == Head(fetch.wire[p])
           n == [fetch EXCEPT !.wire[p] = Tail(@)]
           kept == [n EXCEPT !.stored = @ \cup {b}]
<1>1. Tracks(fetch, {}) /\ DOMAIN fetch.conns \subseteq connected /\ connected \subseteq Peer
  BY DEF FetchIInv
<1>2. /\ fetch.wire[p] # <<>> /\ connected' = connected
      /\ \/ fetch' = [n EXCEPT !.failed = @ \cup {650}]
         \/ fetch' = [kept EXCEPT !.failed = @ \cup {660}]
         \/ /\ b \in DOMAIN fetch.asked /\ fetch.asked[b] = p
            /\ fetch' = OnFreeBlockWnd(Received(kept, p, b), p)
  BY DEF OnRecvBlock
<1>3. b \in Block /\ Tail(fetch.wire[p]) \in Seq(Block)
  <2>1. fetch.wire \in [Peer -> Seq(Block)]
    BY <1>1, Fields DEF Tracks, Wire
  <2>2. fetch.wire[p] \in Seq(Block) /\ fetch.wire[p] # <<>>
    BY <1>2, <2>1
  <2>3. QED
    BY <2>2
<1>4. n = [fetch EXCEPT !.wire[p] = Tail(fetch.wire[p])]
  OBVIOUS
<1>5. kept = [n EXCEPT !.stored = @ \cup {b}]
  OBVIOUS
<1> HIDE DEF n, b
<1>6. Tracks(n, {}) /\ Same(n, fetch, fetch.conns)
  BY <1>1, <1>3, <1>4, WireTracks
<1> HIDE DEF kept
<1>7. Tracks(kept, {}) /\ kept.conns = n.conns /\ kept.asked = n.asked
  BY <1>3, <1>5, <1>6, StoredTracks
<1>8. CASE fetch' = [n EXCEPT !.failed = @ \cup {650}]
  <2>1. Tracks(fetch', {}) /\ fetch'.conns = n.conns
    BY <1>6, <1>8, FailedTracks
  <2>2. QED
    BY <1>1, <1>2, <1>6, <2>1 DEF FetchIInv, Same
<1>9. CASE fetch' = [kept EXCEPT !.failed = @ \cup {660}]
  <2>1. Tracks(fetch', {}) /\ fetch'.conns = kept.conns
    BY <1>7, <1>9, FailedTracks
  <2>2. QED
    BY <1>1, <1>2, <1>6, <1>7, <2>1 DEF FetchIInv, Same
<1>10. CASE /\ b \in DOMAIN fetch.asked /\ fetch.asked[b] = p
            /\ fetch' = OnFreeBlockWnd(Received(kept, p, b), p)
  <2> DEFINE got == Received(kept, p, b)
  <2>1. b \in DOMAIN kept.asked /\ kept.asked[b] = p
    BY <1>6, <1>7, <1>10 DEF Same
  <2>2. p \in DOMAIN kept.conns
    BY <1>7, <2>1 DEF Tracks
  <2>3. Tracks(got, {}) /\ DOMAIN got.conns = DOMAIN kept.conns
    BY <1>7, <2>1, ReceivedTracks
  <2>4. fetch' = OnFreeBlockWnd(got, p)
    BY <1>10
  <2> HIDE DEF got
  <2>5. Tracks(fetch', {}) /\ DOMAIN fetch'.conns = DOMAIN got.conns
    BY <2>2, <2>3, <2>4, FreeWndTracks
  <2>6. QED
    BY <1>1, <1>2, <1>6, <1>7, <2>3, <2>5 DEF FetchIInv, Same
<1>11. QED
  BY <1>2, <1>8, <1>9, <1>10

\* A peer that is about to be removed need not be right any more.
LEMMA GoneTracks ==
    ASSUME NEW n, Tracks(n, {}), NEW p
    PROVE  Tracks(n, {p})
BY DEF Tracks

\* A connection that breaks, or is closed by a ban.
LEMMA DisconnectStep ==
    ASSUME NEW n, NEW p \in Peer, Tracks(n, {p}), DOMAIN n.conns \subseteq connected,
           connected \subseteq Peer, Disconnect(n, p)
    PROVE  FetchIInv'
<1>1. connected' = connected \ {p} /\ fetch' \in OnRemoveConnection(n, p)
  BY DEF Disconnect
<1>2. Tracks(fetch', {}) /\ DOMAIN fetch'.conns = DOMAIN n.conns \ {p}
  BY <1>1, RemoveTracks
<1>3. QED
  BY <1>1, <1>2 DEF FetchIInv

\* A smaller window.
LEMMA HalvedTracks ==
    ASSUME NEW n, Tracks(n, {}), NEW p \in DOMAIN n.conns, NEW wnd \in Nat,
           wnd <= n.conns[p].wnd, NEW r, r = [n EXCEPT !.conns[p].wnd = wnd]
    PROVE  /\ Tracks(r, {p}) /\ DOMAIN r.conns = DOMAIN n.conns
           /\ wnd >= 1 => Tracks(r, {})
<1> DEFINE w == n.conns[p]
           window == [w EXCEPT !.wnd = wnd]
           conns == [n.conns EXCEPT ![p] = window]
<1>1. n \in Fetching
  BY DEF Tracks
<1>2. /\ n.conns \in Partial(Peer, Window) /\ n.wire \in Wire
      /\ w \in Window /\ w.wnd \in 1..(3 * InitWnd)
  BY <1>1, Fields DEF Tracks
<1>3. r = WithConns(n, conns, n.wire)
  <2>1. r = [n EXCEPT !.conns = conns]
    OBVIOUS
  <2> HIDE DEF conns
  <2>2. QED
    BY <1>1, <2>1 DEF WithConns, Fetching
<1> HIDE DEF w
<1>4. window \in Window /\ window.hashes = w.hashes /\ window.wnd = wnd
  BY <1>2 DEF Window
<1> HIDE DEF window
<1>5. /\ conns \in Partial(Peer, Window) /\ DOMAIN conns = DOMAIN n.conns
      /\ conns[p] = window /\ \A q \in DOMAIN n.conns : q # p => conns[q] = n.conns[q]
  BY <1>2, <1>4, ExceptIs
<1> HIDE DEF conns
<1>6. Fits(conns, n, {p})
  <2>1. \A q \in DOMAIN n.conns : conns[q].hashes = n.conns[q].hashes
    BY <1>4, <1>5 DEF w
  <2>2. QED
    BY <1>5, <2>1 DEF Fits, Tracks
<1>7. Tracks(r, {p}) /\ Same(r, n, conns)
  BY <1>2, <1>3, <1>6, ConnsTrack
<1>8. ASSUME wnd >= 1 PROVE Tracks(r, {})
  <2>1. wnd \in 1..(3 * InitWnd)
    <3>1. w.wnd \in 1..(3 * InitWnd) /\ wnd <= w.wnd /\ InitWnd \in Nat
      BY <1>2, FetchConstants DEF w
    <3>2. QED
      BY <1>8, <3>1
  <2>2. \A q \in DOMAIN conns : conns[q].wnd \in 1..(3 * InitWnd)
    BY <1>4, <1>5, <2>1 DEF Tracks
  <2>3. Fits(conns, n, {})
    BY <1>6, <2>2 DEF Fits
  <2>4. QED
    BY <1>2, <1>3, <2>3, ConnsTrack
<1>9. QED
  BY <1>5, <1>7, <1>8 DEF Same

\* _onReqTimeoutTimer.
LEMMA TimeoutStep ==
    ASSUME FetchIInv, NEW b \in Block, OnReqTimeout(b)
    PROVE  FetchIInv'
<1> DEFINE p == fetch.asked[b]
           wnd == fetch.conns[p].wnd \div 2
           n == [fetch EXCEPT !.conns[p].wnd = wnd]
<1>1. Tracks(fetch, {}) /\ DOMAIN fetch.conns \subseteq connected /\ connected \subseteq Peer
  BY DEF FetchIInv
<1>2. /\ b \in DOMAIN fetch.asked
      /\ IF wnd < 1 THEN Disconnect(n, p) ELSE fetch' = n /\ connected' = connected
  BY DEF OnReqTimeout
<1>3. p \in DOMAIN fetch.conns
  BY <1>1, <1>2 DEF Tracks
<1>4. p \in Peer /\ fetch.conns[p].wnd \in Nat
  BY <1>1, <1>3, WindowFields DEF Tracks
<1>5. n = [fetch EXCEPT !.conns[p].wnd = wnd]
  OBVIOUS
<1> HIDE DEF p, n
<1>6. wnd \in Nat /\ wnd <= fetch.conns[p].wnd
  BY <1>4
<1> HIDE DEF wnd
<1>7. /\ Tracks(n, {p}) /\ DOMAIN n.conns = DOMAIN fetch.conns
      /\ wnd >= 1 => Tracks(n, {})
  BY <1>1, <1>3, <1>5, <1>6, HalvedTracks
<1>8. CASE wnd < 1
  <2>1. Disconnect(n, p) /\ DOMAIN n.conns \subseteq connected
    BY <1>1, <1>2, <1>7, <1>8
  <2>2. QED
    BY <1>1, <1>4, <1>7, <2>1, DisconnectStep
<1>9. CASE ~(wnd < 1)
  <2>1. fetch' = n /\ connected' = connected /\ wnd >= 1
    BY <1>2, <1>6, <1>9
  <2>2. QED
    BY <1>1, <1>7, <2>1 DEF FetchIInv
<1>10. QED
  BY <1>8, <1>9

\* A connection breaks, or its peer is banned.
LEMMA ErrorStep ==
    ASSUME FetchIInv, NEW p \in Peer, ConnectionError(p)
    PROVE  FetchIInv'
<1>1. Tracks(fetch, {}) /\ DOMAIN fetch.conns \subseteq connected /\ connected \subseteq Peer
  BY DEF FetchIInv
<1>2. Disconnect(fetch, p)
  BY DEF ConnectionError
<1>3. Tracks(fetch, {p})
  BY <1>1, GoneTracks
<1>4. QED
  BY <1>1, <1>2, <1>3, DisconnectStep

\* A connection is replaced.
LEMMA ReplaceStep ==
    ASSUME FetchIInv, NEW p \in Peer, Replace(p)
    PROVE  FetchIInv'
<1> DEFINE w == fetch.conns[p]
           window == [w EXCEPT !.replaced = TRUE]
           conns == [fetch.conns EXCEPT ![p] = window]
           wire == [fetch.wire EXCEPT ![p] = <<>>]
<1>1. Tracks(fetch, {}) /\ DOMAIN fetch.conns \subseteq connected /\ connected \subseteq Peer
  BY DEF FetchIInv
<1>2. connected' = connected
  BY DEF Replace
<1>3. CASE p \notin DOMAIN fetch.conns
  <2>1. fetch' = fetch
    BY <1>3 DEF Replace
  <2>2. QED
    BY <1>1, <1>2, <2>1 DEF FetchIInv
<1>4. CASE p \in DOMAIN fetch.conns
  <2>1. fetch \in Fetching
    BY <1>1 DEF Tracks
  <2>2. /\ fetch.conns \in Partial(Peer, Window) /\ fetch.wire \in [Peer -> Seq(Block)]
        /\ w \in Window /\ w.wnd \in 1..(3 * InitWnd)
    BY <1>1, <1>4, <2>1, Fields DEF Tracks, Wire
  <2>3. fetch' = [fetch EXCEPT !.conns = conns, !.wire = wire]
    BY <1>4 DEF Replace
  <2> HIDE DEF w
  <2>4. window \in Window /\ window.hashes = w.hashes /\ window.wnd = w.wnd
    BY <2>2 DEF Window
  <2> HIDE DEF window
  <2>5. /\ conns \in Partial(Peer, Window) /\ DOMAIN conns = DOMAIN fetch.conns
        /\ conns[p] = window
        /\ \A q \in DOMAIN fetch.conns : q # p => conns[q] = fetch.conns[q]
    BY <1>4, <2>2, <2>4, ExceptIs
  <2> HIDE DEF conns
  <2>6. Fits(conns, fetch, {})
    <3>1. \A q \in DOMAIN fetch.conns : conns[q].hashes = fetch.conns[q].hashes
      BY <2>4, <2>5 DEF w
    <3>2. \A q \in DOMAIN conns : conns[q].wnd \in 1..(3 * InitWnd)
      BY <1>1, <2>2, <2>4, <2>5 DEF Tracks
    <3>3. QED
      BY <2>5, <3>1, <3>2 DEF Fits
  <2>7. wire \in Wire
    <3>1. <<>> \in Seq(Block)
      OBVIOUS
    <3>2. QED
      BY <2>2, <3>1 DEF Wire
  <2> HIDE DEF wire
  <2>8. fetch' = WithConns(fetch, conns, wire)
    BY <2>3 DEF WithConns
  <2>9. Tracks(fetch', {}) /\ Same(fetch', fetch, conns)
    BY <1>1, <2>6, <2>7, <2>8, ConnsTrack
  <2>10. QED
    BY <1>1, <1>2, <2>5, <2>9 DEF FetchIInv, Same
<1>5. QED
  BY <1>3, <1>4

\* The map without entries.
LEMMA EmptyMap ==
    ASSUME NEW S, NEW T
    PROVE  <<>> \in Partial(S, T)
<1>1. DOMAIN <<>> = {} /\ <<>> \in [{} -> T]
  OBVIOUS
<1>2. QED
  BY <1>1 DEF Partial

\* A node that has just been started tracks nothing.
LEMMA FetchStarts == FetchInit => FetchIInv
<1> SUFFICES ASSUME FetchInit PROVE FetchIInv
  OBVIOUS
<1>1. fetch \in Fetching
  <2>1. <<>> \in Partial(Peer, Window) /\ <<>> \in Partial(Block, Peer)
    BY EmptyMap
  <2>2. <<>> \in Partial(Block, Lists(Peer))
    BY EmptyMap
  <2>3. <<>> \in Lists(Block)
    BY DEF Lists, IsInjective
  <2>4. [p \in Peer |-> <<>>] \in Wire
    BY DEF Wire
  <2>5. {} \in Lines /\ {} \in SUBSET Block
    BY DEF Lines
  <2>6. QED
    BY <2>1, <2>2, <2>3, <2>4, <2>5 DEF FetchInit, Fetching
<1>2. /\ fetch.conns = <<>> /\ fetch.asked = <<>> /\ fetch.pending = <<>>
      /\ fetch.sources = <<>> /\ fetch.known = <<>> /\ connected = Peer
  BY DEF FetchInit
<1>3. DOMAIN <<>> = {} /\ ToSet(<<>>) = {}
  BY DEF ToSet
<1>4. Tracks(fetch, {})
  BY <1>1, <1>2, <1>3 DEF Tracks
<1>5. QED
  BY <1>2, <1>3, <1>4 DEF FetchIInv

\* Every step keeps what the node tracks.
LEMMA FetchSteps == FetchIInv /\ [FetchNext]_fetchVars => FetchIInv'
<1> SUFFICES ASSUME FetchIInv, [FetchNext]_fetchVars PROVE FetchIInv'
  OBVIOUS
<1>1. ASSUME NEW p \in Peer, NEW h \in Headers, RequestBlocks(p, h) PROVE FetchIInv'
  BY <1>1, RequestStep
<1>2. ASSUME NEW p \in Peer, OnRecvBlock(p) PROVE FetchIInv'
  BY <1>2, RecvStep
<1>3. ASSUME NEW p \in Peer, ConnectionError(p) PROVE FetchIInv'
  BY <1>3, ErrorStep
<1>4. ASSUME NEW p \in Peer, Replace(p) PROVE FetchIInv'
  BY <1>4, ReplaceStep
<1>5. ASSUME NEW p \in Peer, Reconnect(p) PROVE FetchIInv'
  <2>1. fetch' = fetch /\ connected' = connected \cup {p}
    BY <1>5 DEF Reconnect
  <2>2. QED
    BY <2>1 DEF FetchIInv
<1>6. ASSUME NEW b \in Block, OnReqTimeout(b) PROVE FetchIInv'
  BY <1>6, TimeoutStep
<1>7. CASE UNCHANGED fetchVars
  BY <1>7 DEF fetchVars, FetchIInv
<1>8. QED
  BY <1>1, <1>2, <1>3, <1>4, <1>5, <1>6, <1>7 DEF FetchNext

\* Whatever is announced, delivered, timed out, lost, replaced or reconnected, in any
\* order and for any number of peers and blocks: the inductive invariant of the
\* download.
THEOREM FetchInvariant == FetchSpec => []FetchIInv
BY FetchStarts, FetchSteps, PTL DEF FetchSpec

\* What the invariant says of the tables implies what the run checks.
LEMMA TracksAll == FetchIInv => BlocksAreTracked
<1> SUFFICES ASSUME FetchIInv PROVE BlocksAreTracked
  OBVIOUS
<1>1. Tracks(fetch, {}) /\ DOMAIN fetch.conns \subseteq connected /\ connected \subseteq Peer
  BY DEF FetchIInv
<1>2. fetch \in Fetching
  BY <1>1 DEF Tracks
<1>3. \A p \in DOMAIN fetch.conns :
        /\ fetch.conns[p].wnd \in 1..(3 * InitWnd)
        /\ fetch.conns[p].hashes \in Seq(Block) /\ IsInjective(fetch.conns[p].hashes)
  BY <1>1, <1>2, WindowFields DEF Tracks, Lists
<1>4. \A b \in DOMAIN fetch.sources :
        fetch.sources[b] \in Seq(Peer) /\ IsInjective(fetch.sources[b])
  BY <1>2, Fields DEF Lists
<1>5. /\ fetch.asked \in [DOMAIN fetch.asked -> Peer] /\ DOMAIN fetch.asked \subseteq Block
      /\ fetch.pending \in Seq(Block) /\ IsInjective(fetch.pending)
      /\ fetch.known \in Seq(Block) /\ IsInjective(fetch.known)
      /\ fetch.stored \subseteq Block /\ fetch.failed \subseteq {593, 650, 660}
  <2>1. /\ fetch.asked \in [DOMAIN fetch.asked -> Peer] /\ DOMAIN fetch.asked \subseteq Block
        /\ fetch.pending \in Lists(Block) /\ fetch.known \in Lists(Block)
        /\ fetch.stored \in SUBSET Block /\ fetch.failed \in Lines
    BY <1>2, Fields
  <2>2. QED
    BY <2>1 DEF Lists, Lines
<1>6. \A p \in Peer : fetch.wire[p] \in Seq(Block)
  BY <1>2, Fields DEF Wire
<1>7. FetchTypeOK
  BY <1>1, <1>3, <1>4, <1>5, <1>6 DEF FetchTypeOK, Tracks
<1>8. WindowsHold
  BY <1>1 DEF WindowsHold, Tracks
<1>9. NoBlockForgotten
  BY <1>1 DEF NoBlockForgotten, Offered, Tracks
<1>10. QED
  BY <1>7, <1>8, <1>9 DEF BlocksAreTracked

\* No assertion of the download about a window can fail, and no announced block is
\* forgotten: BlocksAreTracked for any number of peers, blocks, windows and losses.
THEOREM FetchTracked == FetchSpec => []BlocksAreTracked
BY FetchInvariant, TracksAll, PTL
=============================================================================
