--------------------------- MODULE HeaderStorage ---------------------------
(***************************************************************************)
(* The header, best-chain and transaction tables of a chain node and the   *)
(* caches before them (core/block/header_storage.ts, tx_storage.ts), as    *)
(* functions of a record s:                                                *)
(*   headers   VERIFY_STATE of each block, None where there is no row      *)
(*   best      the blocks with a row in the best chain                     *)
(*   txview    the blocks whose transactions are listed                    *)
(*   undo      the tables as of BEGIN while a transaction is open, or None *)
(*   byHash, byHeight   m_cacheHash, m_cacheHeight                         *)
(*   reader    a read of another party whose answer is on its way, or None *)
(*                                                                         *)
(* All statements go over one connection: whoever reads sees what an open  *)
(* transaction has written, and its ROLLBACK takes back what anybody wrote *)
(* since BEGIN.  Statements are answered in the order they ran in.  The    *)
(* caches never forget by themselves: a full LRUCache drops its oldest key *)
(* from the list of ages only.                                             *)
(***************************************************************************)
EXTENDS Integers, SequencesExt, FiniteSets, TLC

CONSTANTS Block, Genesis,
          Parent,       \* preBlockHash
          Height,       \* number
          None          \* nothing: undefined, no row

ASSUME BlockTree ==
    /\ Genesis \in Block /\ Height \in [Block -> Nat] /\ Height[Genesis] = 0
    /\ Parent \in [Block \ {Genesis} -> Block]
    /\ \A b \in Block \ {Genesis} : Height[b] = Height[Parent[b]] + 1

VerifyState == {"notVerified", "verified", "invalid"}

\* LRUCache: what is set stays until it is removed; the list of ages is only a list.
CacheSet(c, k, v) == (k :> v) @@ c
Without(f, S) == [x \in DOMAIN f \ S |-> f[x]]

Tables(s) == [headers |-> s.headers, best |-> s.best, txview |-> s.txview]

StorageTypeOK(s) ==
    /\ s.headers \in [Block -> VerifyState \cup {None}]
    /\ s.best \subseteq Block /\ s.txview \subseteq Block
    /\ DOMAIN s.byHash \subseteq Block /\ \A b \in DOMAIN s.byHash : s.byHash[b] \in VerifyState
    /\ \A h \in DOMAIN s.byHeight : h \in Nat /\ s.byHeight[h] \in Block

\* createGenesis
NewStorage ==
    [headers |-> [b \in Block |-> IF b = Genesis THEN "verified" ELSE None],
     best |-> {Genesis}, txview |-> {Genesis}, undo |-> None,
     byHash |-> <<>>, byHeight |-> <<>>, reader |-> None]

\* The tables after the process has ended and started again.
Reopened(s) ==
    [(IF s.undo = None THEN Tables(s) ELSE s.undo) @@ s EXCEPT
        !.undo = None, !.byHash = <<>>, !.byHeight = <<>>, !.reader = None]

----------------------------------------------------------------------------
\* A read that ran before a statement of the chain is answered before the chain
\* goes on after it.
Overtaken(s) == IF s.reader = None THEN s ELSE [s EXCEPT !.reader.late = TRUE]
Answered(s) == s.reader # None => ~s.reader.late

----------------------------------------------------------------------------
\* Reads

\* _loadHeader of a hash: the state, None if it is not found; and the
\* cache after that of some.
StateOf(s, b) == IF b \in DOMAIN s.byHash THEN s.byHash[b] ELSE s.headers[b]
Loaded(s, B) ==
    LET found == {b \in B : StateOf(s, b) # None}
    IN  Overtaken([s EXCEPT !.byHash = [b \in found |-> StateOf(s, b)] @@ @])

\* getByHeightSql joins the two tables: a row of the best chain without its header
\* is not found.
BestRow(s, h) ==
    LET rows == {b \in s.best : Height[b] = h /\ s.headers[b] # None}
    IN  IF rows = {} THEN None ELSE CHOOSE b \in rows : TRUE

\* _loadHeader of a number
BestAt(s, h) == IF h \in DOMAIN s.byHeight THEN s.byHeight[h] ELSE BestRow(s, h)
LoadedAt(s, h) ==
    LET b == BestRow(s, h)
    IN  IF h \in DOMAIN s.byHeight \/ b = None THEN s
        ELSE Overtaken([s EXCEPT !.byHeight = CacheSet(@, h, b), !.byHash = CacheSet(@, b, s.headers[b])])

\* getHeader(b, -i): the i-th ancestor of b, the genesis block if it is not so high.
Ancestor(b, i) ==
    LET up[k \in 0..i] == IF k = 0 THEN b
                          ELSE IF up[k - 1] = Genesis THEN Genesis ELSE Parent[up[k - 1]]
    IN  up[i]

\* The blocks from the i-th ancestor of b to b.
Line(b, i) == [k \in 1..(i + 1) |-> Ancestor(b, i + 1 - k)]
Chain(b) == ToSet(Line(b, Height[b]))

\* getNextHeader
Successors(s, b) == {c \in Block \ {Genesis} : Parent[c] = b /\ s.headers[c] # None}

\* A read of another party runs, for a hash or a height the caches do not have,
\* and is answered: what it found is cached.
ReadHash(s, b) ==
    IF s.reader # None \/ b \in DOMAIN s.byHash \/ s.headers[b] = None THEN {}
    ELSE {[s EXCEPT !.reader = [block |-> b, state |-> s.headers[b], height |-> FALSE,
                                late |-> FALSE]]}

ReadHeight(s, h) ==
    LET b == BestRow(s, h)
    IN  IF s.reader # None \/ h \in DOMAIN s.byHeight \/ b = None THEN {}
        ELSE {[s EXCEPT !.reader = [block |-> b, state |-> s.headers[b], height |-> TRUE,
                                    late |-> FALSE]]}

ReadDone(s) ==
    LET r == s.reader
    IN  [s EXCEPT !.reader = None, !.byHash = CacheSet(@, r.block, r.state),
                  !.byHeight = IF r.height THEN CacheSet(@, Height[r.block], r.block) ELSE @]

----------------------------------------------------------------------------
\* Writes

\* saveHeader; an INSERT that a row of that hash refuses.
SaveHeader(s, b) == Overtaken([s EXCEPT !.headers[b] = "notVerified"])

SetState(s, b, v) == IF s.headers[b] = None THEN s ELSE [s EXCEPT !.headers[b] = v]

\* updateVerified: the caches are cleared of the block, then its row is updated.
UpdateVerified(s, b, v) ==
    Overtaken(SetState([s EXCEPT !.byHash = Without(@, {b}),
                                 !.byHeight = Without(@, {Height[b]})], b, v))

\* What changeBest adds to the best chain for the tip b, and the height of the
\* block it adds it to.
NewBranch(s, b) ==
    LET down == {i \in 0..Height[b] : Ancestor(b, i) \in s.best}
        fork == CHOOSE i \in down : \A j \in down : i <= j
    IN  {Ancestor(b, i) : i \in 0..(fork - 1)}
ForkHeight(s, b) == Height[b] - Cardinality(NewBranch(s, b))

UpTo(S, h) == {b \in S : Height[b] <= h}

\* Mutant: the transactions of the branch that is left stay listed.
Begin_KeepsOld(s, b) ==
    Overtaken([s EXCEPT !.undo = Tables(s), !.txview = @ \cup NewBranch(s, b)])

\* The lock of transactions.
Free(s) == s.undo = None

\* changeBest: BEGIN and the transactions of the new branch, the state of the tip
\* and the rows above the fork, the rows of the branch, COMMIT.
Begin(s, b) ==
    Overtaken([s EXCEPT !.undo = Tables(s),
                        !.txview = UpTo(@, ForkHeight(s, b)) \cup NewBranch(s, b)])

LeaveOldBest(s, b) ==
    Overtaken([SetState(s, b, "verified") EXCEPT !.best = UpTo(@, ForkHeight(s, b))])

EnterNewBest(s, b) == Overtaken([s EXCEPT !.best = @ \cup NewBranch(s, b)])

Commit(s, b) ==
    Overtaken([s EXCEPT !.undo = None, !.byHash = Without(@, {b}), !.byHeight = <<>>])

\* After a statement that failed: the caches stay.
Rollback(s) == Overtaken([s.undo @@ s EXCEPT !.undo = None])
=============================================================================
