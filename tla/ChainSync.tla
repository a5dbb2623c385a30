----------------------------- MODULE ChainSync -----------------------------
(***************************************************************************)
(* How the chain of a node follows its peers (core/chain/chain.ts): header *)
(* synchronisation over each connection, the two queues of received        *)
(* headers and blocks, each with one loop that handles them, verification, *)
(* the choice of the best chain, and the blocks a miner of the node adds.  *)
(*                                                                         *)
(* The loops interleave at their awaits of the database (HeaderStorage)    *)
(* and of verification.  A request or an answer is one step from one       *)
(* handler to the other; peers are honest but for blocks in Bad.  Who a    *)
(* block is asked of is BlockFetch's: here it arrives from one of the      *)
(* connected peers that have announced it.                                 *)
(***************************************************************************)
EXTENDS HeaderStorage

CONSTANTS Peer,
          Tips,           \* the successive tips of each peer
          Bad,            \* blocks that fail verification
          Mined,          \* blocks a miner of this node may make
          ReqLimit,       \* headerReqLimit
          ConfirmDepth,   \* confirmDepth, also the depth of a broadcast
          InitPeers,      \* initializePeerCount
          MaxTrouble      \* bound on local failures, connections that break,
                          \* restarts and reads of other parties together

ASSUME SyncConstants ==
    /\ Tips \in [Peer -> Seq(Block)] /\ \A p \in Peer : Tips[p] # <<>>
    /\ Bad \subseteq Block \ {Genesis} /\ Mined \subseteq Block \ {Genesis}
    /\ ReqLimit \in Nat \ {0} /\ ConfirmDepth \in Nat \ {0} /\ InitPeers \in Nat
    /\ MaxTrouble \in Nat

VARIABLES
    s,      \* the tables and caches
    stored, \* m_blockStorage
    n,      \* the memory of the node:
            \*   state     m_state
            \*   tip       m_tip
            \*   conns     m_connSyncMap: state, lastRequestHeader, lastRecvHeader, moreHeaders
            \*   asked     m_requestingHeaders
            \*   headers   m_pendingHeaders
            \*   adding    what _addHeaders holds of the first of them, or None
            \*   blocks    m_pendingBlocks.sequence
            \*   block     m_pendingBlocks.adding and where _addBlock stands, or None
            \*   sources   who has announced a block that is wanted
            \*   told      the tip of the last tipBlock event
            \*   banned    the peers banned
            \*   open      the peers connected
    at,     \* index of the present tip of each peer
    trouble \* which of them there were so far

vars == <<s, stored, n, at, trouble>>

Tip(p) == Tips[p][at[p]]

TypeOK ==
    /\ StorageTypeOK(s) /\ stored \subseteq Block
    /\ n.state \in {"syncing", "synced"} /\ n.tip \in Block /\ n.told \in Block \cup {None}
    /\ n.banned \subseteq Peer /\ DOMAIN n.conns \subseteq Peer /\ DOMAIN n.asked \subseteq Peer
    /\ \A p \in DOMAIN n.conns :
        /\ n.conns[p].state \in {"syncing", "synced"} /\ n.conns[p].more \in BOOLEAN
        /\ n.conns[p].request \in Block \cup {None} /\ n.conns[p].recv \in Block \cup {None}
        /\ n.conns[p].more => n.conns[p].recv # None
        /\ n.conns[p].state = "syncing" => n.conns[p].request # None
    /\ \A i \in DOMAIN n.headers :
        /\ n.headers[i].error \in {"ok", "skipped", "notFound"} /\ n.headers[i].from \in Peer
        /\ n.headers[i].request \in Block \cup {None}
        /\ (n.headers[i].error = "ok") = (n.headers[i].line # <<>>)
    /\ n.adding # None => n.headers # <<>>
    /\ n.block = None => n.blocks = <<>>
    /\ IsInjective([i \in DOMAIN n.blocks |-> n.blocks[i].block])
    /\ n.open \subseteq Peer \ n.banned
    /\ s.undo # None => /\ n.block # None
                        /\ n.block.pc \in {"leave", "enter", "commit"}

Trouble(kind) == Len(trouble) < MaxTrouble /\ trouble' = Append(trouble, kind)

----------------------------------------------------------------------------
\* The block queue

\* The loop of _addPendingBlocks takes the next block as soon as it is free.
Pump(m) ==
    IF m.block # None \/ m.blocks = <<>> THEN m
    ELSE LET b == Head(m.blocks)
         IN  [m EXCEPT !.blocks = Tail(@),
                       !.block = [block |-> b.block, from |-> b.from,
                                  pc |-> IF b.from = None /\ b.mined THEN "decide" ELSE "check",
                                  mined |-> b.mined]]

\* _addPendingBlocks: a block that is queued or being added is not queued again.
Queue(m, b, from, mined, head) ==
    LET item == [block |-> b, from |-> from, mined |-> mined]
        known == \/ \E i \in DOMAIN m.blocks : m.blocks[i].block = b
                 \/ m.block # None /\ m.block.block = b
    IN  IF known THEN m
        ELSE Pump([m EXCEPT !.blocks = IF head THEN <<item>> \o @ ELSE Append(@, item)])

BlockDone(m) == Pump([m EXCEPT !.block = None])

\* BlockStorage: one file per block.
HasBlock(b) == b \in stored
StoreBlock(b) == stored' = stored \cup {b}

----------------------------------------------------------------------------
\* Connections

\* _onConnectionError: what is queued from the peer is dropped, but for the first
\* of each queue.
ConnectionError(m, p) ==
    LET keep(q) == IF q = <<>> THEN q
                   ELSE <<Head(q)>> \o SelectSeq(Tail(q), LAMBDA x : x.from # p)
    IN  [m EXCEPT !.conns = Without(@, {p}), !.asked = Without(@, {p}),
                  !.headers = keep(@), !.blocks = keep(@),
                  !.open = @ \ {p},
                  !.sources = [b \in Block |-> @[b] \ {p}],
                  !.adding = IF @ # None /\ Head(m.headers).from = p
                             THEN [@ EXCEPT !.detached = TRUE] ELSE @]

\* _banConnection, of a connection the chain knows.
Ban(m, p) == IF p \in DOMAIN m.conns
             THEN [ConnectionError(m, p) EXCEPT !.banned = @ \cup {p}] ELSE m

\* requestHeaders: one request of a connection at a time, a second one is skipped.
RequestHeaders(m, p, from) ==
    IF p \in DOMAIN m.asked THEN m ELSE [m EXCEPT !.asked = (p :> from) @@ @]

\* _beginSyncWithConnection
BeginSync(m, p, from) ==
    LET c == IF p \in DOMAIN m.conns THEN m.conns[p]
             ELSE [state |-> "syncing", request |-> None, recv |-> None, more |-> FALSE]
    IN  RequestHeaders([m EXCEPT !.conns =
            (p :> [c EXCEPT !.state = "syncing", !.request = from]) @@ @], p, from)

\* Mutant: the request for the next headers is not remembered.
Continue_Forgets(m, p) ==
    LET c == m.conns[p]
    IN  IF c.more THEN RequestHeaders(m, p, c.recv)
        ELSE [m EXCEPT !.conns[p] = [c EXCEPT !.state = "synced", !.more = FALSE],
                       !.state = "synced", !.told = m.tip]

\* _continueSyncWithConnection: the next headers, or this connection is through;
\* with enough of them the chain is, and says so.
ContinueSync(m, p) ==
    LET c == m.conns[p]
        done == [m EXCEPT !.conns[p] = [c EXCEPT !.state = "synced", !.more = FALSE]]
        count == Cardinality({q \in DOMAIN done.conns : done.conns[q].state = "synced"})
    IN  IF c.more
        THEN RequestHeaders([m EXCEPT !.conns[p].request = c.recv], p, c.recv)
        ELSE IF m.state = "syncing" /\ count >= InitPeers
             THEN [done EXCEPT !.state = "synced", !.told = m.tip] ELSE done

\* requestBlocks: a block in storage is handed on from there.
RequestBlocks(m, p, line) ==
    LET get(k, b) == IF HasBlock(b) THEN Queue(k, b, p, FALSE, FALSE)
                     ELSE [k EXCEPT !.sources[b] = @ \cup {p}]
    IN  IF p \in m.open THEN FoldLeft(get, m, line) ELSE m


----------------------------------------------------------------------------
\* The header queue

HeadersDone(m) == [m EXCEPT !.headers = Tail(@), !.adding = None]
Params == Head(n.headers)
Conn == n.conns[Params.from]
Known == Params.from \in DOMAIN n.conns

\* What _addHeaders does next, before it reads anything.
HeadersCase ==
    IF Params.request # None
    THEN IF ~Known THEN "drop"
         ELSE IF Conn.state = "synced" \/ Params.request # Conn.request THEN "ban"
         ELSE Params.error
    ELSE IF Known THEN IF Conn.state = "syncing" THEN "drop" ELSE "ok"
         ELSE IF Params.from \in n.open THEN "ok" ELSE "drop"

StartHeaders == n.headers # <<>> /\ n.adding = None

\* Nothing was asked, or a broadcast comes while headers are being asked for.
DropHeaders ==
    /\ StartHeaders /\ HeadersCase = "drop"
    /\ n' = HeadersDone(n) /\ UNCHANGED <<s, stored, at, trouble>>

\* Headers that were not asked for.
BanHeaders ==
    /\ StartHeaders /\ HeadersCase = "ban"
    /\ n' = HeadersDone(Ban(n, Params.from)) /\ UNCHANGED <<s, stored, at, trouble>>

\* The peer has no more.
LastHeaders ==
    /\ StartHeaders /\ HeadersCase = "skipped"
    /\ n' = HeadersDone(ContinueSync([n EXCEPT !.conns[Params.from].more = FALSE], Params.from))
    /\ UNCHANGED <<s, stored, at, trouble>>

\* Mutant: the answer is not acted on.
StepBack_GivesUp ==
    /\ StartHeaders /\ HeadersCase = "notFound"
    /\ n' = HeadersDone(n) /\ UNCHANGED <<s, stored, at, trouble>>

\* The peer does not know the header: from further down.
StepBack ==
    /\ StartHeaders /\ HeadersCase = "notFound"
    /\ LET back == Line(Conn.request, ReqLimit)
       IN  /\ s' = Loaded(s, ToSet(back))
           /\ n' = HeadersDone(IF StateOf(s, Conn.request) = None THEN n
                               ELSE BeginSync(n, Params.from, Head(back)))
    /\ UNCHANGED <<stored, at, trouble>>

LastIrreversible == IF Height[n.tip] <= ConfirmDepth THEN 0 ELSE Height[n.tip] - ConfirmDepth

\* The rest of _addHeaders, once all headers are looked at: their blocks are asked
\* for; if none has to be, the next headers (at once, so the connection is there).
HeadersAdded(m) ==
    LET a == m.adding
        p == Params.from
        recv == Last(Params.line)
        more == Len(Params.line) = ReqLimit
        got == IF a.detached THEN m
               ELSE IF a.syncing
                    THEN [m EXCEPT !.conns[p].recv = recv, !.conns[p].more = more]
                    ELSE [m EXCEPT !.conns[p].recv = recv]
    IN  HeadersDone(IF a.wanted # <<>> \/ ~a.syncing THEN RequestBlocks(got, p, a.wanted)
                    ELSE ContinueSync(got, p))

\* _verifyAndSaveHeaders looks the headers up.  Without the one before the first a peer
\* that was asked is banned, one that broadcasts is asked from the last irreversible
\* block on.  A peer with a header known to be invalid is banned.  The headers from
\* the first new one on will be saved, those before it that are not verified wanted.
LookUpHeaders ==
    /\ StartHeaders /\ HeadersCase = "ok"
    /\ LET p == Params.from
           line == Params.line
           before == Parent[Head(line)]
           known == SelectSeq(line, LAMBDA b : StateOf(s, b) # None)
           m == IF Known THEN n
                ELSE [n EXCEPT !.conns =
                    (p :> [state |-> "synced", request |-> None, recv |-> None, more |-> FALSE]) @@ @]
           a == [m EXCEPT !.adding =
                    [ix |-> Len(known) + 1, syncing |-> Params.request # None, detached |-> FALSE,
                     wanted |-> SelectSeq(known, LAMBDA b : StateOf(s, b) = "notVerified")]]
       IN  IF StateOf(s, before) = None
           THEN IF Params.request # None
                THEN n' = HeadersDone(Ban(n, p)) /\ UNCHANGED s
                ELSE /\ n' = HeadersDone(IF BestAt(s, LastIrreversible) = None THEN m
                                         ELSE BeginSync(m, p, BestAt(s, LastIrreversible)))
                     /\ s' = LoadedAt(s, LastIrreversible)
           ELSE /\ s' = Loaded(s, {before} \cup ToSet(line))
                /\ n' = IF \E b \in ToSet(known) : StateOf(s, b) = "invalid"
                        THEN HeadersDone(Ban(m, p))
                        ELSE IF known = line THEN HeadersAdded(a) ELSE a
    /\ UNCHANGED <<stored, at, trouble>>

\* One header is saved; if there is a row by now the rest is left alone.
AddHeader ==
    /\ n.adding # None /\ Answered(s)
    /\ LET b == Params.line[n.adding.ix]
           m == [n EXCEPT !.adding.ix = @ + 1, !.adding.wanted = Append(@, b)]
       IN  IF s.headers[b] # None
           THEN n' = HeadersDone(n) /\ UNCHANGED s
           ELSE /\ s' = SaveHeader(s, b)
                /\ n' = IF n.adding.ix = Len(Params.line) THEN HeadersAdded(m) ELSE m
    /\ UNCHANGED <<stored, at, trouble>>

----------------------------------------------------------------------------
\* The block queue's loop: _addBlock

Adding(pc) == n.block # None /\ n.block.pc = pc /\ Answered(s)
B == n.block.block
At(m, pc) == [m EXCEPT !.block.pc = pc]
BanSource(m) == IF m.block.from = None THEN m ELSE Ban(m, m.block.from)

\* The block and its parent are looked up: a block that is missing or invalid bans
\* its source, one that was verified before or whose parent was not is skipped, and
\* one with an invalid parent is marked before its source is banned.
CheckBlock ==
    /\ Adding("check")
    /\ LET own == StateOf(s, B)
           parent == StateOf(s, Parent[B])
       IN  /\ s' = Loaded(s, IF own = "notVerified" THEN {B, Parent[B]} ELSE {B})
           /\ n' = CASE own \in {None, "invalid"} -> BlockDone(BanSource(n))
                     [] own = "verified" -> BlockDone(n)
                     [] OTHER -> CASE parent \in {None, "notVerified"} -> BlockDone(n)
                                   [] parent = "invalid" -> At(n, "badParent")
                                   [] parent = "verified" -> At(n, "verify")
    /\ UNCHANGED <<stored, at, trouble>>

\* verifyBlock and createSnapshot.  An error in the routine gives no answer, and an
\* answer that is not OK means that the block is invalid.
VerifyBlock ==
    /\ Adding("verify")
    /\ n' = IF B \in Bad THEN At(BanSource(n), "invalid") ELSE At(n, "decide")
    /\ UNCHANGED <<s, stored, at, trouble>>

RoutineFails ==
    /\ Adding("verify")
    /\ n' = At(BanSource(n), "invalid")
    /\ Trouble("fault") /\ UNCHANGED <<s, stored, at>>

\* The storage for it cannot be created, or the snapshot, or a row cannot be written.
BlockFails ==
    /\ n.block # None
    /\ Adding("verify") \/ Adding("decide") \/ Adding("conns")
    /\ n' = BlockDone(n)
    /\ Trouble("fault") /\ UNCHANGED <<s, stored, at>>

MarkInvalid ==
    /\ Adding("invalid") \/ Adding("badParent")
    /\ s' = UpdateVerified(s, B, "invalid")
    /\ n' = At(n, IF n.block.pc = "invalid" THEN "end" ELSE "endBanned")
    /\ UNCHANGED <<stored, at, trouble>>

EndInvalid ==
    /\ Adding("end") \/ Adding("endBanned")
    /\ n' = BlockDone(IF n.block.pc = "end" THEN n ELSE BanSource(n))
    /\ UNCHANGED <<s, stored, at, trouble>>

\* _addVerifiedBlock: a block higher than the tip begins a transaction that makes
\* it the tip, any other one is a fork.
Fork ==
    /\ Adding("decide") /\ Height[B] <= Height[n.tip]
    /\ s' = UpdateVerified(s, B, "verified") /\ n' = At(n, "conns")
    /\ UNCHANGED <<stored, at, trouble>>

PreferBlock ==
    /\ Adding("decide") /\ Height[B] > Height[n.tip] /\ Free(s)
    /\ s' = Begin(Loaded(s, Chain(Parent[B]) \ s.best), B) /\ n' = At(n, "leave")
    /\ UNCHANGED <<stored, at, trouble>>

ChangeBest ==
    /\ \/ Adding("leave") /\ s' = LeaveOldBest(s, B) /\ n' = At(n, "enter")
       \/ Adding("enter") /\ s' = EnterNewBest(s, B) /\ n' = At(n, "commit")
    /\ UNCHANGED <<stored, at, trouble>>

\* A statement fails.
ChangeFails ==
    /\ Adding("leave") \/ Adding("enter") \/ Adding("commit")
    /\ Trouble("fault")
    /\ s' = Rollback(s) /\ n' = BlockDone(n)
    /\ UNCHANGED <<stored, at>>

\* COMMIT and _updateTip, which reads the block whose snapshot is kept.
UpdateTip ==
    /\ Adding("commit")
    /\ LET mork == IF Height[B] <= 2 * ConfirmDepth THEN 0 ELSE Height[B] - 2 * ConfirmDepth
       IN  s' = LoadedAt(Commit(s, B), mork)
    /\ n' = At([n EXCEPT !.tip = B], "conns")
    /\ UNCHANGED <<stored, at, trouble>>

\* The connections whose last header it is go on; a new tip is told if the block was
\* mined here or if they are all through; then the blocks in storage that follow it.
FinishBlock ==
    /\ Adding("conns")
    /\ LET last == {p \in DOMAIN n.conns : n.conns[p].recv = B}
           syncing == {p \in last : n.conns[p].state = "syncing"}
           went == FoldSet(LAMBDA p, m : ContinueSync(m, p), n, syncing)
           tell == n.tip = B /\ (n.block.mined \/ (syncing = {} /\ last # {}))
           next == SetToSeq({b \in Successors(s, B) : HasBlock(b)})
       IN  /\ n' = BlockDone(FoldLeft(LAMBDA m, b : Queue(m, b, None, FALSE, TRUE),
                                      IF tell THEN [went EXCEPT !.told = B] ELSE went, next))
           /\ s' = IF tell THEN Loaded(s, ToSet(Line(B, ConfirmDepth)) \ {B}) ELSE s
    /\ UNCHANGED <<stored, at, trouble>>

----------------------------------------------------------------------------
\* Peers and the outside

\* A connection is made: its outbound handler asks from the last irreversible block on.
Connect(p) ==
    /\ p \notin n.open \cup n.banned /\ BestAt(s, LastIrreversible) # None
    /\ n' = BeginSync([n EXCEPT !.open = @ \cup {p}], p, BestAt(s, LastIrreversible))
    /\ s' = LoadedAt(s, LastIrreversible)
    /\ UNCHANGED <<stored, at, trouble>>

\* _responseHeaders of the peer, and _onRecvHeaders here.
Answer(p) ==
    /\ p \in n.open /\ p \in DOMAIN n.asked
    /\ LET from == n.asked[p]
           tip == Tips[p][at[p]]
           above == Height[tip] - Height[from]
           error == IF from \notin Chain(tip) THEN "notFound"
                    ELSE IF from = tip THEN "skipped" ELSE "ok"
           line == IF error # "ok" THEN <<>>
                   ELSE SubSeq(Line(tip, above - 1), 1, IF above < ReqLimit THEN above ELSE ReqLimit)
       IN  n' = [n EXCEPT !.asked = Without(@, {p}),
                          !.headers = Append(@, [from |-> p, request |-> from,
                                                 error |-> error, line |-> line])]
    /\ UNCHANGED <<s, stored, at, trouble>>

\* A peer has a new tip and broadcasts it with the headers before it.  It goes on from
\* a block mined here when that was best, for only then it was told of it.
Grow(p) ==
    /\ at[p] < Len(Tips[p]) /\ at' = [at EXCEPT ![p] = @ + 1]
    /\ Mined \cap Chain(Tips[p][at[p] + 1]) \subseteq Chain(n.tip)
    /\ LET line == SelectSeq(Line(Tips[p][at[p] + 1], ConfirmDepth), LAMBDA b : b # Genesis)
       IN  n' = IF p \notin n.open THEN n
                ELSE [n EXCEPT !.headers = Append(@, [from |-> p, request |-> None,
                                                      error |-> "ok", line |-> line])]
    /\ UNCHANGED <<s, stored, trouble>>

\* A block arrives (BlockFetch).
ReceiveBlock(b) ==
    /\ StoreBlock(b)
    /\ \E p \in n.sources[b] : n' = Queue([n EXCEPT !.sources[b] = {}], b, p, FALSE, FALSE)
    /\ UNCHANGED <<s, at, trouble>>

\* addMinedBlock
Mine(b) ==
    /\ b \in Mined /\ ~HasBlock(b) /\ Parent[b] = n.tip /\ n.state = "synced" /\ s.headers[b] = None
    /\ StoreBlock(b) /\ s' = SaveHeader(s, b)
    /\ n' = Queue(n, b, None, TRUE, FALSE)
    /\ UNCHANGED <<at, trouble>>

\* A connection breaks.
Break(p) ==
    /\ p \in n.open
    /\ n' = ConnectionError(n, p)
    /\ Trouble("loss") /\ UNCHANGED <<s, stored, at>>

Read ==
    /\ Trouble("read")
    /\ \/ \E b \in Block : s' \in ReadHash(s, b)
       \/ \E h \in {Height[b] : b \in s.best} : s' \in ReadHeight(s, h)
    /\ UNCHANGED <<stored, n, at>>

EndRead ==
    /\ s.reader # None /\ s' = ReadDone(s) /\ UNCHANGED <<stored, n, at, trouble>>

----------------------------------------------------------------------------
\* initComponents, initialize and _loadChain
Started(best) ==
    [state |-> "syncing", tip |-> CHOOSE b \in best : \A c \in best : Height[c] <= Height[b],
     conns |-> <<>>, asked |-> <<>>, headers |-> <<>>, adding |-> None, blocks |-> <<>>,
     block |-> None, sources |-> [b \in Block |-> {}], told |-> None, banned |-> {},
     open |-> {}]

Init ==
    /\ s = NewStorage /\ stored = {Genesis} /\ n = Started({Genesis})
    /\ at = [p \in Peer |-> 1]
    /\ trouble = <<>>

Restart ==
    /\ Trouble("restart")
    /\ s' = Reopened(s) /\ n' = Started({b \in s'.best : s'.headers[b] # None}) /\ UNCHANGED <<stored, at>>

Handle ==
    \/ DropHeaders \/ BanHeaders \/ LastHeaders \/ StepBack \/ LookUpHeaders \/ AddHeader
    \/ CheckBlock \/ VerifyBlock \/ MarkInvalid \/ EndInvalid
    \/ Fork \/ PreferBlock \/ ChangeBest \/ UpdateTip \/ FinishBlock
    \/ EndRead

Next ==
    \/ Handle \/ Read \/ Restart
    \/ RoutineFails \/ BlockFails \/ ChangeFails
    \/ \E p \in Peer : Connect(p) \/ Answer(p) \/ Grow(p) \/ Break(p)
    \/ \E b \in Block : ReceiveBlock(b) \/ Mine(b)

\* The loops run while there is something to do; what was asked of a peer that stays
\* connected arrives.
Fairness ==
    /\ WF_vars(Handle)
    /\ \A p \in Peer : WF_vars(Answer(p))
    /\ \A b \in Block : WF_vars(ReceiveBlock(b))

Spec == Init /\ [][Next]_vars /\ Fairness

----------------------------------------------------------------------------
\* Properties

\* changeBest: outside its transaction the rows of the best chain are the line from
\* the genesis block to the tip, and the transactions listed are theirs.  Every one
\* of them has a header row that is verified, unless a transaction was rolled back
\* with the header of a block that was saved meanwhile.
BestIsOnePath ==
    s.undo = None /\ (n.block # None => n.block.pc # "commit") =>
        /\ s.best = Chain(n.tip) /\ s.txview = s.best
        /\ \A b \in s.best : s.headers[b] = "verified" \/ "fault" \in ToSet(trouble)

\* When no block is being added, no verified block is higher than the tip.
TipIsHighest ==
    n.block = None => \A b \in Block : s.headers[b] = "verified" => Height[b] <= Height[n.tip]

\* The blocks of a peer are good and no other peer has one of them.
Of(p) == UNION {Chain(Tips[p][i]) : i \in DOMAIN Tips[p]} \ {Genesis}
Alone(p) == Of(p) \cap Bad = {} /\ \A q \in Peer \ {p} : Of(p) \cap Of(q) = {}

\* _banConnection: a peer whose blocks are good is not banned, unless the node itself
\* has failed or started anew, a connection has broken, or two peers have announced a
\* block.
HonestNotBanned ==
    \A p \in n.banned : Alone(p) => {"fault", "loss", "restart"} \cap ToSet(trouble) # {}

\* _continueSyncWithConnection: the tip of a peer that is connected is verified in the
\* end, unless the node has failed, although a read of others may leave a cache out of
\* date.
FollowsPeer ==
    \A p \in Peer : Alone(p) =>
        (p \in n.open ~> \/ s.headers[Tips[p][at[p]]] = "verified"
                         \/ p \notin n.open \/ "fault" \in ToSet(trouble))

\* The best chain is one verified path and, when no block is being added, as high
\* a one as there is.
BestChainHolds == TypeOK /\ BestIsOnePath /\ TipIsHighest
=============================================================================
