-------------------------------- MODULE Dpos --------------------------------
(***************************************************************************)
(* A node of a DPOS chain (core/dpos_chain): the blocks it holds, each with*)
(* the election it leaves behind, the branch it follows, and the tip       *)
(* states with their cache (chain_state_manager.ts) from which it takes    *)
(* the irreversible block that executions and comparisons depend on.       *)
(* A block is its index in blocks.                                         *)
(***************************************************************************)
EXTENDS DposElection

CONSTANTS
    Me,                 \* the producer this node mines for
    FirstMiners, FirstCandidates, FirstSlot,
    Contents,           \* the lists of transactions blocks may have
    MaxBlocks, MaxSlot, MaxForks, MaxBusy, MaxRestarts   \* bounds

\* The handlers assert positive amounts; candidates are checked against the producers.
Transaction ==
    [op : {"mortgage", "unmortgage"}, from : Voter, amount : Nat \ {0}]
        \cup [op : {"vote"}, from : Voter, choice : SUBSET Producer]
        \cup [op : {"register"}, from : Producer]

ASSUME DposAssumption ==
    /\ IsFiniteSet(Voter) /\ IsFiniteSet(Producer)
    /\ \A txs \in Contents : txs \in Seq(Transaction)

T == INSTANCE DposTipState

VARIABLES
    blocks,    \* the blocks it has seen, a parent before its children
    tip,       \* m_tip
    sm,        \* m_stateManager: the tip states, the best one, the cache
    restarts

dposVars == <<blocks, tip, sm, restarts>>

-----------------------------------------------------------------------------
(* Headers, branches and their miners.                                     *)

Path(bs, i) ==
    LET to[j \in 1..i] == IF j = 1 THEN <<1>> ELSE Append(to[bs[j].parent], j) IN to[i]

HeaderOf(bs, i) == [id |-> i, number |-> bs[i].number, miner |-> bs[i].miner]

\* ViewContext.getElectionBlockNumber
ElectionNumber(n) == IF n = 0 THEN 0 ELSE ((n - 1) \div ReSelectionBlocks) * ReSelectionBlocks

\* The election block of a header with this number on a parent.
ElectionBlock(bs, parent, n) == Path(bs, parent)[ElectionNumber(n) + 1]

\* DposChain.getMiners: the next miners saved for the election block.
MinersAt(bs, i) ==
    bs[IF i = 1 THEN 1 ELSE ElectionBlock(bs, bs[i].parent, bs[i].number)].post.next

\* DposBlockHeader.getDueMiner
DueMiner(bs, parent, slot) ==
    LET e == ElectionBlock(bs, parent, bs[parent].number + 1)
        miners == bs[e].post.next IN
    miners[((slot - bs[e].slot) % Len(miners)) + 1]

-----------------------------------------------------------------------------
(* DposChainTipStateManager                                                *)

\* updateTip along a list of blocks, from a state whose tip is their parent.
Along(bs, s, ids) ==
    FoldLeft(LAMBDA x, i : T!UpdateTip(x, HeaderOf(bs, i), MinersAt(bs, i)), s, ids)

\* The state of a node that has seen nothing but one branch.
Linear(bs, i) == Along(bs, T!NewTipState(HeaderOf(bs, 1)), Tail(Path(bs, i)))

\* The constructor and init, buildChainStateOnBest.
NewManager(bs, i) ==
    [objs |-> <<Linear(bs, i)>>, best |-> 1, cache |-> [b \in 1..MaxBlocks |-> IF b = 1 THEN 1 ELSE 0]]

BestState(m) == m.objs[m.best]

\* The states that are still held, by the best one's name or by the cache.
Held(m) ==
    LET ids    == SetToSortSeq({m.best} \cup (Range(m.cache) \ {0}), <)
        now(o) == IF o = 0 THEN 0 ELSE CHOOSE k \in DOMAIN ids : ids[k] = o IN
    [objs  |-> [k \in DOMAIN ids |-> m.objs[ids[k]]],
     best  |-> now(m.best),
     cache |-> [b \in 1..MaxBlocks |-> now(m.cache[b])]]

\* What a build answers, with the manager it leaves.
Built(m, obj) == [m |-> m, err |-> FALSE, obj |-> obj]
Error(m) == [m |-> m, err |-> TRUE, obj |-> 0]

\* The headers are applied to the state obj of the manager, which is kept for the block from.
Extend(bs, m, obj, from, ids) ==
    IF ids # <<>> /\ m.objs[obj].tip # from THEN Error(m)
    ELSE Built([m EXCEPT !.objs[obj] = Along(bs, @, ids), !.cache[from] = obj], obj)

\* A state that was found goes on as it is; at the irreversible block there is a new one.
BuildFrom(bs, m, from, ids) ==
    IF m.cache[from] # 0
    THEN Extend(bs, [m EXCEPT !.cache[from] = 0], m.cache[from], from, ids)
    ELSE Extend(bs, [m EXCEPT !.objs = Append(@, T!NewTipState(HeaderOf(bs, from)))],
                Len(m.objs) + 1, from, ids)

\* The nearest block that has a state or is the irreversible one, unless the
\* walk comes below the irreversible number first.
BuildAlong(bs, m, path) ==
    LET below   == {k \in DOMAIN path : bs[path[k]].number < BestState(m).irr}
        usable  == {k \in DOMAIN path \ below :
                       \/ m.cache[path[k]] # 0
                       \/ path[k] = BestState(m).irrHash /\ bs[path[k]].number = BestState(m).irr} IN
    IF usable = {} THEN Error(m)
    ELSE BuildFrom(bs, m, path[Max(usable)], SubSeq(path, Max(usable) + 1, Len(path)))

\* buildChainStateOnFork
Build(bs, m, i) ==
    LET known == [m EXCEPT !.cache[BestState(m).tip] = m.best] IN
    IF known.cache[i] # 0 THEN Built(known, known.cache[i]) ELSE BuildAlong(bs, known, Path(bs, i))

\* The walk from c ends at the irreversible block of the tip's state s, or below its number.
Crosses(bs, s, c) ==
    ~(s.irrHash \in Range(Path(bs, c)) /\ bs[s.irrHash].number > s.irr)

Compared(built, irr) ==
    [m |-> built.m, err |-> built.err,
     result |-> IF built.err THEN 0 ELSE built.m.objs[built.obj].irr - irr]

\* The state of the tip first, then that of the block, which may be the same object.
CompareStates(bs, special, c) ==
    IF special.err THEN [m |-> special.m, err |-> TRUE, result |-> 0]
    ELSE IF ~Crosses(bs, special.m.objs[special.obj], c)
         THEN [m |-> special.m, err |-> FALSE, result |-> -1]
    ELSE LET other == Build(bs, special.m, c) IN
         Compared(other, IF other.err THEN 0 ELSE other.m.objs[special.obj].irr)

\* compareIrreversibleBlockNumer of block c with the best tip t: [m, err, result].
CompareIrreversible(bs, m, c, t) ==
    IF bs[c].parent = t THEN [m |-> m, err |-> FALSE, result |-> 0]
    ELSE CompareStates(bs, Build(bs, m, t), c)

\* With the same irreversible number the longer branch wins, then the later block.
ByHeight(bs, irr, c, t) ==
    IF irr.err \/ irr.result # 0 THEN irr
    ELSE [irr EXCEPT !.result = IF bs[c].number # bs[t].number THEN bs[c].number - bs[t].number
                                ELSE bs[c].slot - bs[t].slot]

\* DposChain._compareWork
CompareWork(bs, m, c, t) == ByHeight(bs, CompareIrreversible(bs, m, c, t), c, t)

-----------------------------------------------------------------------------
(* The node.                                                               *)

DposInit ==
    /\ blocks = <<[parent |-> 0, number |-> 0, slot |-> FirstSlot, miner |-> Absent, txs |-> <<>>, at |-> "verified",
                   post |-> Genesis(FirstCandidates, FirstMiners)]>>
    /\ tip = 1
    /\ sm = NewManager(blocks, 1)
    /\ restarts = 0

\* The best state after a block became the tip; an error of the manager is overwritten.
Followed(built) == IF built.err THEN built.m ELSE [built.m EXCEPT !.best = built.obj]

\* Chain._addVerifiedBlock with DposChain._onVerifiedBlock: a block that could
\* not be compared stays as it is until it comes again.
AddVerified(bs, i) ==
    \E c \in {CompareWork(bs, sm, i, tip)} :
    IF c.err
    THEN blocks' = [bs EXCEPT ![i].at = "pending"] /\ sm' = Held(c.m) /\ UNCHANGED tip
    ELSE /\ blocks' = [bs EXCEPT ![i].at = "verified"]
         /\ IF c.result > 0
            THEN tip' = i /\ sm' = Held(Followed(Build(bs, c.m, i)))
            ELSE UNCHANGED tip /\ sm' = Held(c.m)

\* A block on a parent in a slot; the execution reads the election of a block
\* that is irreversible for the node that executes it.
NewBlock(parent, slot, txs, lib) ==
    LET number == blocks[parent].number + 1
        miner  == DueMiner(blocks, parent, slot) IN
    [parent |-> parent, number |-> number, slot |-> slot, miner |-> miner, txs |-> txs, at |-> "verified",
     post |-> AfterBlock(blocks[parent].post, txs, number, miner, slot, blocks[lib].post)]

\* The bounds: how often a block is not the child of the one seen before it,
\* and how many blocks have transactions.
InBounds(bs) ==
    /\ Cardinality({i \in DOMAIN bs : bs[i].parent # i - 1}) <= MaxForks
    /\ Cardinality({i \in DOMAIN bs : bs[i].txs # <<>>}) <= MaxBusy

CanHave(parent, slot, txs) ==
    /\ Len(blocks) < MaxBlocks /\ slot <= MaxSlot
    /\ blocks[parent].at = "verified" /\ blocks[parent].slot < slot
    /\ InBounds(Append(blocks, [parent |-> parent, txs |-> txs]))
    /\ ~\E i \in DOMAIN blocks :
           blocks[i].slot = slot /\ blocks[i].miner = DueMiner(blocks, parent, slot)

\* DposMiner's timer: its slot has come, on the tip.
Mine(slot, txs) ==
    /\ CanHave(tip, slot, txs) /\ DueMiner(blocks, tip, slot) = Me
    /\ AddVerified(Append(blocks, NewBlock(tip, slot, txs, BestState(sm).irrHash)), Len(blocks) + 1)
    /\ UNCHANGED restarts

\* Another miner's block comes: it was made by a node that knew its branch only,
\* and it is verified against the irreversible block of this one.
Receive(parent, slot, txs) ==
    /\ CanHave(parent, slot, txs) /\ DueMiner(blocks, parent, slot) # Me
    /\ \E made  \in {NewBlock(parent, slot, txs, Linear(blocks, parent).irrHash)},
         again \in {NewBlock(parent, slot, txs, BestState(sm).irrHash)} :
       IF made = again THEN AddVerified(Append(blocks, made), Len(blocks) + 1)
       ELSE /\ blocks' = Append(blocks, [made EXCEPT !.at = "invalid"])
            /\ UNCHANGED <<tip, sm>>
    /\ UNCHANGED restarts

\* A block that could not be compared comes again.
ReceiveAgain(i) ==
    /\ blocks[i].at = "pending"
    /\ AddVerified(blocks, i)
    /\ UNCHANGED restarts

\* The process ends and starts again: initComponents.
Restart ==
    /\ restarts < MaxRestarts
    /\ restarts' = restarts + 1
    /\ sm' = NewManager(blocks, tip)
    /\ UNCHANGED <<blocks, tip>>

DposNext ==
    \/ \E slot \in (FirstSlot + 1)..MaxSlot, txs \in Contents :
           \/ Mine(slot, txs)
           \/ \E parent \in DOMAIN blocks : Receive(parent, slot, txs)
    \/ \E i \in DOMAIN blocks : ReceiveAgain(i)
    \/ Restart

DposSpec == DposInit /\ [][DposNext]_dposVars

-----------------------------------------------------------------------------
DposTypeOK ==
    /\ tip \in DOMAIN blocks /\ blocks[tip].at = "verified"
    /\ \A i \in DOMAIN blocks :
          /\ blocks[i].at \in {"verified", "pending", "invalid"}
          /\ IsElection(blocks[i].post)
    /\ sm.best \in DOMAIN sm.objs /\ Range(sm.cache) \subseteq 0..Len(sm.objs)
    /\ restarts \in 0..MaxRestarts

\* The votes a producer has are the stakes of those who chose it, whatever the
\* order in which they stake, vote, vote anew and take their stake back.
VotesAddUp == \A i \in DOMAIN blocks, p \in Producer :
    blocks[i].post.vote[p] = VotesOf(blocks[i].post, p)

\* A producer has a timer exactly while it is one of the next miners: a miner
\* without one would end the search for idle miners, one that has left and
\* comes back would be banned for the time it was away.
TimersMatchMiners == \A i \in DOMAIN blocks \ {1} :
    {p \in Producer : blocks[i].post.time[p] # Absent} = Range(blocks[i].post.next)

\* Only a present miner waits for its ban, as banProducer assumes: one that left
\* the list before would wait for ever.
DelayedAreMiners == \A i \in DOMAIN blocks, p \in Producer :
    blocks[i].post.candidate[p] = Delay => p \in Range(blocks[i].post.next)

\* The irreversible block of the best state is on its branch, and two thirds of
\* the block's miners have built on it there, in whatever order branches came
\* and were compared.
LibIsConfirmed ==
    LET s    == BestState(sm)
        path == Path(blocks, s.tip)
        on   == {path[k] : k \in (s.irr + 1)..Len(path)} IN
    s.irr > 0 =>
        /\ s.irrHash = path[s.irr + 1]
        /\ Cardinality({blocks[b].miner : b \in on}) >= T!NeedConfirm(MinersAt(blocks, s.irrHash))

\* Timers and ban marks follow the list of miners through every election.
RecordsMatchMiners == DposTypeOK /\ TimersMatchMiners /\ DelayedAreMiners
=============================================================================
