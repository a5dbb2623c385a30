------------------------------ MODULE Snapshots ------------------------------
(***************************************************************************)
(* The storage manager (core/storage/storage_manager.ts), the snapshot     *)
(* managers under it (log_snapshot_manager.ts, dump_snapshot_manager.ts)   *)
(* and the parts of a chain that use them: the loop that keeps the tip's   *)
(* snapshot (chain.ts _morkSnapshot), the pending pool's view of the tip,  *)
(* the verification of a block, which works on a copy of its parent's      *)
(* snapshot, and the clients' views.                                       *)
(*                                                                         *)
(* The snapshot of a block is a file of the dump directory; one that was   *)
(* recycled is made again from the nearest ancestor that has one and the   *)
(* redo logs of the blocks between.  A file's contents are the blocks that *)
(* were applied to it, in order.  Every await is a place where another     *)
(* party may run.                                                          *)
(***************************************************************************)
EXTENDS Naturals, Sequences, FiniteSets

CONSTANTS
    None,         \* no entry, no view, no request
    Block,        \* the blocks whose headers are stored
    Genesis,      \* the root of the tree of blocks
    Parent,       \* the parent of every other block
    User,         \* the clients that ask for views
    ConfirmDepth, \* the chain's confirmDepth
    MaxAsks,      \* bound: views the clients ask for, all together
    MaxRestarts   \* bound: restarts of the node

\* A StorageDumpSnapshotView with its count of users (m_views).
View == [ref : Nat \ {0}, ready : BOOLEAN, dead : BOOLEAN]

\* The parties of the node itself, and what it keeps views in.
Own == {"chain", "mork", "pool", "cur", "ref", "got", "genesis"}

\* Every block descends from the genesis: no blocks are only each other's children.
ASSUME SnapshotsAssumption ==
    /\ Genesis \in Block
    /\ Parent \in [Block \ {Genesis} -> Block]
    /\ \A S \in SUBSET (Block \ {Genesis}) : S # {} => \E b \in S : Parent[b] \notin S
    /\ None \notin Block \cup Nat \cup View
    /\ IsFiniteSet(User) /\ User \cap Own = {}
    /\ ConfirmDepth \in Nat /\ MaxAsks \in Nat /\ MaxRestarts \in Nat

VARIABLES
    st,      \* the two managers: dump, log, entry, views, closing, spoilt, miscounted
    req,     \* party -> where its request for a view is
    chain,   \* the tip, the verified blocks and the block being added
    mork,    \* m_storageMorkRequests and m_refSnapshots
    frozen,  \* the mork loop has taken the event loop for ever
    used     \* the asks and restarts spent

vars == <<st, req, chain, mork, frozen, used>>

Party == User \cup {"chain", "mork", "pool"}

\* The blocks from the genesis to b: what b's snapshot must hold.
Path[b \in Block] == IF b = Genesis THEN <<b>> ELSE Append(Path[Parent[b]], b)

Number(b) == Len(Path[b]) - 1

Idle == [at |-> "idle", block |-> None, from |-> None, left |-> <<>>]

Asked(at, b) == [at |-> at, block |-> b, from |-> b, left |-> <<>>]

NewView == [ref |-> 1, ready |-> FALSE, dead |-> FALSE]

\* The parties that are making b's dump out of logs.
Rebuilding(b) == {p \in Party : req[p].block = b /\ req[p].at \in {"redo", "drop"}}

\* StorageLogSnapshotManager.init: every file of the dump directory is taken
\* for a snapshot; the genesis is then held for good (chain.ts _loadGenesis).
Loaded(dump, log, spoilt) ==
    [dump    |-> dump, log |-> log, spoilt |-> spoilt, miscounted |-> {},
     entry   |-> [b \in Block |-> IF b = Genesis THEN 1
                                  ELSE IF dump[b] # <<>> THEN 0 ELSE None],
     views   |-> [b \in Block |-> IF b = Genesis THEN [NewView EXCEPT !.ready = TRUE]
                                  ELSE None],
     closing |-> [b \in Block |-> 0]]

NoMork == [morking |-> {}, pending |-> {}, refs |-> {}, todo |-> {}, got |-> {}]

Init ==
    /\ st = Loaded([b \in Block |-> IF b = Genesis THEN <<b>> ELSE <<>>], {}, {})
    /\ req = [p \in Party |-> Idle]
    /\ chain = [tip |-> Genesis, cur |-> None, verified |-> {Genesis},
                adding |-> Genesis, at |-> "tip", base |-> <<>>]
    /\ mork = NoMork
    /\ frozen = FALSE
    /\ used = [asks |-> 0, restarts |-> 0]

-----------------------------------------------------------------------------
(* StorageManager._getSnapshotStorage and releaseSnapshotView.             *)

\* A request joins the view that is there, or makes one and looks for the dump.
AskView(p, b) ==
    LET v == st.views[b] IN
    /\ req[p].at = "idle"
    /\ st' = [st EXCEPT !.views[b] = IF v = None THEN NewView ELSE [v EXCEPT !.ref = @ + 1]]
    /\ req' = [req EXCEPT ![p] = Asked(
          IF v = None THEN IF st.dump[b] # <<>> THEN "found" ELSE "walk"
          ELSE IF v.ready THEN "hold" ELSE IF v.dead THEN "lost" ELSE "wait", b)]

\* A view is gone at its last release; its count in the snapshot manager goes
\* only after the storage is closed.
ReleaseViews(s, released) ==
    LET held == {b \in released : s.views[b] # None}
        last == {b \in held : s.views[b].ref = 1} IN
    [s EXCEPT
        !.views = [b \in Block |-> IF b \in last THEN None
                                   ELSE IF b \in held THEN [s.views[b] EXCEPT !.ref = @ - 1]
                                   ELSE s.views[b]],
        !.closing = [b \in Block |-> IF b \in last THEN @[b] + 1 ELSE @[b]]]

ReleaseView(s, b) == ReleaseViews(s, {b})

\* StorageLogSnapshotManager.releaseSnapshot
ReleaseEntry(s, b) ==
    IF s.entry[b] = None THEN s
    ELSE [s EXCEPT !.entry[b] = IF @ > 0 THEN @ - 1 ELSE 0]

Closed(b) ==
    /\ st.closing[b] > 0
    /\ st' = ReleaseEntry([st EXCEPT !.closing[b] = @ - 1], b)
    /\ UNCHANGED <<req, chain, mork, used>>

\* What becomes of the parties that wait for b's view.
Waiters(b, at) ==
    [q \in Party |-> IF req[q].block = b /\ req[q].at = "wait"
                     THEN [req[q] EXCEPT !.at = at] ELSE req[q]]

\* An error of getSnapshot: the view is forgotten, and nobody emits the 'init'
\* event its other holders wait for.
Refuse(p, s) ==
    LET b == req[p].block IN
    /\ st' = [s EXCEPT !.views[b] = None]
    /\ req' = [Waiters(b, "lost") EXCEPT ![p].at = "refused"]

\* An exception in getSnapshot: the view stays, and will never be ready.
Throw(p) ==
    LET b == req[p].block IN
    /\ st' = [st EXCEPT !.views[b].dead = TRUE]
    /\ req' = [Waiters(b, "lost") EXCEPT ![p].at = "thrown"]

-----------------------------------------------------------------------------
(* StorageLogSnapshotManager.getSnapshot, one action per await.            *)

\* Mutant: the view of a dump that is there is not counted.
Found_NoCount(p) ==
    LET b == req[p].block IN
    /\ req[p].at = "found"
    /\ IF st.entry[b] = None THEN Throw(p)
       ELSE req' = [req EXCEPT ![p].at = "open"] /\ UNCHANGED st
    /\ UNCHANGED <<chain, mork, used>>

\* The dump was there when it was looked for; its entry must be there now.
Found(p) ==
    LET b == req[p].block IN
    /\ req[p].at = "found"
    /\ IF st.entry[b] = None THEN Throw(p)
       ELSE /\ st' = [st EXCEPT !.entry[b] = @ + 1]
            /\ req' = [req EXCEPT ![p].at = "open"]
    /\ UNCHANGED <<chain, mork, used>>

\* Mutant: the logs are replayed in the order they were found.
Walk_NoReverse(p) ==
    LET h == req[p].from IN
    /\ req[p].at = "walk"
    /\ req' = IF st.dump[h] # <<>> THEN [req EXCEPT ![p].at = "near"]
              ELSE [req EXCEPT ![p].from = Parent[h], ![p].left = Append(@, h)]
    /\ UNCHANGED <<st, chain, mork, used>>

\* One ancestor of the search for the nearest dump.  It ends at the genesis at
\* the latest, whose dump is held for good.
Walk(p) ==
    LET h == req[p].from IN
    /\ req[p].at = "walk"
    /\ req' = IF st.dump[h] # <<>> THEN [req EXCEPT ![p].at = "near"]
              ELSE [req EXCEPT ![p].from = Parent[h], ![p].left = <<h>> \o @]
    /\ UNCHANGED <<st, chain, mork, used>>

\* The nearest dump is copied to the place of the block's own.
Near(p) ==
    LET b == req[p].block
        h == req[p].from
        bad == h \in st.spoilt \/ Rebuilding(h) # {} IN
    /\ req[p].at = "near"
    /\ IF st.dump[h] = <<>> THEN Throw(p)
       ELSE /\ st' = [st EXCEPT !.dump[b] = st.dump[h],
                                !.spoilt = IF bad THEN @ \cup {b}
                                           ELSE IF h = b THEN @ ELSE @ \ {b}]
            /\ req' = [req EXCEPT ![p].at = "redo"]
    /\ UNCHANGED <<chain, mork, used>>

\* One redo log; a log that is missing ends the request.
Redo(p) ==
    LET b == req[p].block
        left == req[p].left IN
    /\ req[p].at = "redo"
    /\ CASE left = <<>> ->
              /\ st' = [st EXCEPT !.entry[b] = 1]
              /\ req' = [req EXCEPT ![p].at = "open"]
         [] left # <<>> /\ Head(left) \notin st.log ->
              req' = [req EXCEPT ![p].at = "drop"] /\ UNCHANGED st
         [] OTHER ->
              /\ st' = [st EXCEPT !.dump[b] = IF @ = <<>> THEN @ ELSE Append(@, Head(left))]
              /\ req' = [req EXCEPT ![p].left = Tail(left)]
    /\ UNCHANGED <<chain, mork, used>>

\* The half-made file is removed.
Drop(p) ==
    LET b == req[p].block IN
    /\ req[p].at = "drop"
    /\ Refuse(p, [st EXCEPT !.dump[b] = <<>>])
    /\ UNCHANGED <<chain, mork, used>>

\* Mutant: the requests that joined the view are not told.
Open_TellsNobody(p) ==
    LET b == req[p].block IN
    /\ req[p].at = "open"
    /\ IF st.dump[b] # <<>>
       THEN /\ st' = [st EXCEPT !.views[b].ready = TRUE]
            /\ req' = [req EXCEPT ![p].at = "hold"]
       ELSE /\ st' = [ReleaseEntry(st, b) EXCEPT !.views[b] = None]
            /\ req' = [Waiters(b, "refused") EXCEPT ![p].at = "refused"]
    /\ UNCHANGED <<chain, mork, used>>

\* storage.init(true) and its 'init' event.  A file that is gone cannot be opened.
Open(p) ==
    LET b == req[p].block IN
    /\ req[p].at = "open"
    /\ IF st.dump[b] # <<>>
       THEN /\ st' = [st EXCEPT !.views[b].ready = TRUE]
            /\ req' = [Waiters(b, "hold") EXCEPT ![p].at = "hold"]
       ELSE /\ st' = [ReleaseEntry(st, b) EXCEPT !.views[b] = None]
            /\ req' = [Waiters(b, "refused") EXCEPT ![p].at = "refused"]
    /\ UNCHANGED <<chain, mork, used>>

-----------------------------------------------------------------------------
(* The clients: Chain.view.                                                *)

UserAsks(u, b) ==
    /\ used.asks < MaxAsks
    /\ AskView(u, b)
    /\ used' = [used EXCEPT !.asks = @ + 1]
    /\ UNCHANGED <<chain, mork>>

UserDone(u) ==
    /\ req[u].at \in {"hold", "refused"}
    /\ st' = IF req[u].at = "hold" THEN ReleaseView(st, req[u].block) ELSE st
    /\ req' = [req EXCEPT ![u] = Idle]
    /\ UNCHANGED <<chain, mork, used>>

-----------------------------------------------------------------------------
(* The chain: Chain._addBlock, StorageManager.createStorage and             *)
(* createSnapshot, Chain._updateTip and PendingTransactions.updateTipBlock. *)

\* A block whose parent is verified is to be verified on a copy of the
\* parent's snapshot.
Verify(b) ==
    /\ chain.at = "idle"
    /\ b \notin chain.verified /\ Parent[b] \in chain.verified
    /\ AskView("chain", Parent[b])
    /\ chain' = [chain EXCEPT !.adding = b, !.at = "copy"]
    /\ UNCHANGED <<mork, used>>

\* The copy, or the end of it: a refused parent drops the block.
Copy ==
    LET b == req["chain"].block IN
    /\ chain.at = "copy"
    /\ req["chain"].at \in {"hold", "refused"}
    /\ req' = [req EXCEPT !["chain"] = Idle]
    /\ IF req["chain"].at = "hold"
       THEN /\ st' = ReleaseView(st, b)
            /\ chain' = [chain EXCEPT !.at = "save", !.base = st.dump[b]]
       ELSE /\ chain' = [chain EXCEPT !.at = "idle", !.adding = None]
            /\ UNCHANGED st
    /\ UNCHANGED <<mork, used>>

\* createSnapshot: the dump, the log and a new entry, whatever was there.
Save ==
    LET b == chain.adding
        bad == chain.base # Path[Parent[b]] \/ Rebuilding(b) # {}
        counted == st.views[b] # None \/ st.closing[b] > 0 IN
    /\ chain.at = "save"
    /\ st' = [st EXCEPT !.dump[b] = Append(chain.base, b), !.log = @ \cup {b},
                        !.entry[b] = 0,
                        !.spoilt = IF bad THEN @ \cup {b} ELSE @ \ {b},
                        !.miscounted = IF counted THEN @ \cup {b} ELSE @]
    /\ chain' = [chain EXCEPT !.at = "add", !.base = <<>>]
    /\ UNCHANGED <<req, mork, used>>

\* _addVerifiedBlock: the header is verified, and the tip if it is higher.
Add ==
    /\ chain.at = "add"
    /\ chain' = [chain EXCEPT !.verified = @ \cup {chain.adding},
                              !.at = IF Number(chain.adding) > Number(chain.tip)
                                     THEN "tip" ELSE "idle",
                              !.tip = IF Number(chain.adding) > Number(@)
                                      THEN chain.adding ELSE @,
                              !.adding = None]
    /\ UNCHANGED <<st, req, mork, used>>

\* The snapshots to keep: the tip's and that of the block 2 * confirmDepth below.
ToMork(tip) ==
    LET n == Number(tip)
        low == IF n > 2 * ConfirmDepth THEN n - 2 * ConfirmDepth ELSE 0 IN
    {tip, Path[tip][low + 1]}

\* _morkSnapshot: a request that meets another is left in pending.
RequestMork(m, hashes) ==
    IF m.morking # {} THEN [m EXCEPT !.pending = hashes]
    ELSE [m EXCEPT !.morking = hashes, !.todo = hashes \ m.refs]

\* _updateTip: the mork loop is started, the pool asks for the tip's view.
UpdateTip ==
    /\ chain.at = "tip"
    /\ mork' = RequestMork(mork, ToMork(chain.tip))
    /\ AskView("pool", chain.tip)
    /\ chain' = [chain EXCEPT !.at = "pool"]
    /\ UNCHANGED used

\* The pool keeps the new view and releases the old; the chain goes on.
PoolDone ==
    /\ chain.at = "pool"
    /\ req["pool"].at \in {"hold", "refused"}
    /\ req' = [req EXCEPT !["pool"] = Idle]
    /\ chain' = [chain EXCEPT !.at = "idle",
                              !.cur = IF req["pool"].at = "hold" THEN req["pool"].block ELSE @]
    /\ st' = IF req["pool"].at = "hold" /\ chain.cur # None
             THEN ReleaseView(st, chain.cur) ELSE st
    /\ UNCHANGED <<mork, used>>

-----------------------------------------------------------------------------
(* The loop of Chain._morkSnapshot.                                        *)

\* The tip's view is asked for first.
MorkAsks ==
    /\ \E b \in mork.todo :
          /\ \A c \in mork.todo : Number(c) <= Number(b)
          /\ AskView("mork", b)
    /\ UNCHANGED <<chain, mork, used>>

MorkGets ==
    /\ req["mork"].at \in {"hold", "refused"}
    /\ mork' = [mork EXCEPT !.todo = @ \ {req["mork"].block},
                            !.got = IF req["mork"].at = "hold"
                                    THEN @ \cup {req["mork"].block} ELSE @]
    /\ req' = [req EXCEPT !["mork"] = Idle]
    /\ UNCHANGED <<st, chain, used>>

\* StorageLogSnapshotManager.recycle: an entry without a count loses its dump;
\* one whose dump is not there cannot lose it and stays.
Recycle(s) ==
    LET gone == {b \in Block : s.entry[b] = 0 /\ s.dump[b] # <<>>} IN
    [s EXCEPT !.dump = [b \in Block |-> IF b \in gone THEN <<>> ELSE @[b]],
              !.entry = [b \in Block |-> IF b \in gone THEN None ELSE @[b]]]

\* The end of a round: the snapshots no longer wanted are released, the rest
\* is recycled, and what is pending is begun.  Nothing empties pending: the
\* same request is begun again for ever, and once a round has nothing to ask
\* for there is no await left in the loop.
MorkEnds ==
    LET m == mork
        out == m.refs \ m.morking
        refs == (m.refs \ out) \cup m.got IN
    /\ m.morking # {} /\ m.todo = {} /\ req["mork"].at = "idle"
    /\ st' = Recycle(ReleaseViews(st, out))
    /\ mork' = [morking |-> m.pending, pending |-> m.pending, refs |-> refs,
                todo |-> m.pending \ refs, got |-> {}]
    /\ frozen' = (m.pending = m.morking /\ m.pending \subseteq refs)
    /\ UNCHANGED <<req, chain, used>>

-----------------------------------------------------------------------------
\* The files stay, and a file that was being made stays half made.
Restart ==
    /\ used.restarts < MaxRestarts
    /\ st' = Loaded(st.dump, st.log, st.spoilt \cup
                    {b \in Block : st.dump[b] # <<>> /\ Rebuilding(b) # {}})
    /\ req' = [p \in Party |-> Idle]
    /\ chain' = [chain EXCEPT !.cur = None, !.adding = None, !.at = "tip", !.base = <<>>]
    /\ mork' = NoMork
    /\ used' = [used EXCEPT !.restarts = @ + 1]

Build(p) == Found(p) \/ Walk(p) \/ Near(p) \/ Redo(p) \/ Drop(p) \/ Open(p)

Work ==
    \/ \E p \in Party : Build(p)
    \/ \E b \in Block : Closed(b)
    \/ \E u \in User : UserDone(u)
    \/ Copy \/ Save \/ Add \/ UpdateTip \/ PoolDone \/ MorkAsks \/ MorkGets

Next ==
    /\ ~frozen
    /\ \/ Work /\ UNCHANGED frozen
       \/ MorkEnds
       \/ \E u \in User, b \in Block : UserAsks(u, b) /\ UNCHANGED frozen
       \/ \E b \in Block \ {Genesis} : Verify(b) /\ UNCHANGED frozen
       \/ Restart /\ UNCHANGED frozen

\* The event loop runs whatever is ready: no callback waits for ever, unless
\* the mork loop has taken the thread.
Fairness ==
    /\ \A p \in Party : WF_vars(~frozen /\ Build(p) /\ UNCHANGED frozen)
    /\ \A u \in User : WF_vars(~frozen /\ UserDone(u) /\ UNCHANGED frozen)
    /\ WF_vars(~frozen /\ (Copy \/ Save \/ Add \/ UpdateTip \/ PoolDone) /\ UNCHANGED frozen)
    /\ WF_vars(~frozen /\ (MorkAsks \/ MorkGets) /\ UNCHANGED frozen)
    /\ WF_vars(~frozen /\ MorkEnds)

Spec == Init /\ [][Next]_vars /\ Fairness

-----------------------------------------------------------------------------
Files == Seq(Block)

TypeOK ==
    /\ st \in [dump : [Block -> Files], log : SUBSET Block, spoilt : SUBSET Block,
               miscounted : SUBSET Block, entry : [Block -> Nat \cup {None}],
               views : [Block -> View \cup {None}], closing : [Block -> Nat]]
    /\ req \in [Party ->
           [at : {"idle", "found", "walk", "near", "redo", "drop", "open",
                  "wait", "hold", "lost", "refused", "thrown"},
            block : Block \cup {None}, from : Block \cup {None}, left : Files]]
    /\ \A p \in Party : req[p].at # "idle" => req[p].block \in Block /\ req[p].from \in Block
    /\ chain \in [tip : Block, cur : Block \cup {None}, verified : SUBSET Block,
                  adding : Block \cup {None}, base : Files,
                  at : {"idle", "copy", "save", "add", "tip", "pool"}]
    /\ chain.tip \in chain.verified
    /\ chain.at \in {"copy", "save", "add"} => chain.adding \in Block \ {Genesis}
    /\ mork \in [morking : SUBSET Block, pending : SUBSET Block, refs : SUBSET Block,
                 todo : SUBSET Block, got : SUBSET Block]
    /\ frozen \in BOOLEAN

\* The holders of b's view: the parties that have it, the pool and the mork loop.
Holders(b) ==
    {p \in Party : req[p].block = b /\ req[p].at = "hold"}
    \cup (IF chain.cur = b THEN {"cur"} ELSE {})
    \cup (IF b \in mork.refs THEN {"ref"} ELSE {})
    \cup (IF b \in mork.got THEN {"got"} ELSE {})

\* A dump that nobody is making holds the blocks from the genesis to its own,
\* once each and in order, however it was made: saved after a verification, or
\* rebuilt from an ancestor's dump and the logs between.  The dumps that were
\* spoilt are left out (see README: a dump copied while it was half made, made
\* twice at once, or interrupted by a restart).
DumpIsItsBlock ==
    \A b \in Block :
        st.dump[b] # <<>> /\ Rebuilding(b) = {} /\ b \notin st.spoilt
            => st.dump[b] = Path[b]

\* A view that someone holds has its dump on disk, counted, so that no recycling
\* takes it away: recycle removes every dump without a count, and the counts are
\* raised and lowered by requests that interleave at every await.
HeldStays ==
    \A b \in Block : Holders(b) # {} /\ b \notin st.miscounted =>
        /\ st.dump[b] # <<>>
        /\ st.entry[b] # None /\ st.entry[b] > 0

Working == {"found", "walk", "near", "redo", "drop", "open", "wait"}

\* A request for a view comes to an end: it is served, refused, left behind by
\* the failure of the request it waited for, or stopped with the whole node.
EveryAskEnds ==
    \A p \in Party : (req[p].at \in Working) ~> (req[p].at \notin Working \/ frozen)
=============================================================================
