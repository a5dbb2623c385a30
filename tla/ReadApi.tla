------------------------------- MODULE ReadApi -------------------------------
(***************************************************************************)
(* The questions clients ask of the catch-up server while it copies the    *)
(* chain: the read handlers of lib/storage/dbapi and the queries of        *)
(* lib/storage/StorageDataBase.ts they make.                               *)
(*                                                                         *)
(* Handlers write nothing, so one client asking one question at a time     *)
(* shows what any number of them would.  Every query and every RPC is a    *)
(* step of its own: the tables move between two of them.  A handler that   *)
(* returns without resolving is served for ever (MayHang of WRQueue); one  *)
(* that throws ends the process, which rejects to have unhandled           *)
(* rejections (index.ts).                                                  *)
(***************************************************************************)
EXTENDS SyncTables, FiniteSetsExt, SequencesExt

CONSTANTS Question,   \* [fun, addr, token, num, page, size, bad]
          Upper,      \* [name as asked -> in upper case]
          Symbol,     \* SYS_TOKEN_SYMBOL, what SYS_TOKEN is shown as
          Watched,    \* bound: the transactions executed while a client asks
          MaxWatched, \* bound: the chain's length while a client asks
          None

\* What clients send: blocks are counted from one (the genesis block is there from
\* the start), pages are numbers, and whoever asks for an address's transactions
\* says how many.
ASSUME QuestionsAsked ==
    \A q \in Question :
        /\ q.page \in Int /\ q.size \in Nat \cup {None}
        /\ q.num \in (Nat \ {0}) \cup {None}
        /\ q.fun = "getTxsByAddress" /\ q.size = None => q.bad

\* The genesis file names finitely many addresses.
ASSUME GenesisIsFinite == IsFiniteSet(Genesis)

\* The absence of a value is none of the values.
ASSUME NoneIsNothing == None \notin Nat \cup DOMAIN Canon \cup Keys

ASSUME ReadBounds == Watched \subseteq Transactions /\ MaxWatched \in 0..MaxChain

VARIABLE reader   \* the question being served and what its handler has so far

readVars == <<vars, reader>>

-----------------------------------------------------------------------------
(* Queries                                                                 *)

\* ORDER BY timestamp DESC: the timestamp of block n, and of its transaction, is n.
Newest(S) == [i \in 1..Cardinality(S) |-> CHOOSE n \in S : Cardinality({m \in S : m > n}) = i - 1]

\* The pages of a client are counted from one.
Index(page) == IF page > 0 THEN page - 1 ELSE 0

\* LIMIT size OFFSET index * size
Page(rows, index, size) ==
    LET first == index * size + 1
        last  == IF first + size - 1 > Len(rows) THEN Len(rows) ELSE first + size - 1
    IN  SubSeq(rows, first, last)

RowsOf(addr) == {k \in Keys : k[1] = addr /\ account[k] # Absent}
HoldersOf(t) == {k \in Keys : k[2] = t /\ account[k] # Absent}
TxsOf(addr) == {x[1] : x \in {y \in txAddr : y[2] = addr}}

\* Account rows as they are answered: of the rows with SYS_TOKEN the first one
\* is shown with its symbol.
Shown(keys, first) ==
    {[addr |-> k[1], token |-> IF k = first THEN Symbol ELSE k[2], value |-> account[k]] : k \in keys}

Answered(data, total) == [at |-> "answered", data |-> data, total |-> total]

Failed == Answered(None, None)

\* The rows are there, their number is asked for next.
Counting(data) == [at |-> "counting", data |-> data, total |-> None]

Hung == [at |-> "hung", data |-> None, total |-> None]

Thrown == [at |-> "thrown", data |-> None, total |-> None]

\* What the account rows keys may be shown as.
Rows(keys) ==
    LET sys == {k \in keys : k[2] = Sys}
    IN  {Shown(keys, first) : first \in IF sys = {} THEN {None} ELSE sys}

Only(data) == Answered(data, None)
OneOf(shown) == {Only(data) : data \in shown}

-----------------------------------------------------------------------------
(* The handlers up to the result of their first query: what each may make  *)
(* of it, and of its failure.                                              *)

\* getName asks the hash table but for a number or SYS_TOKEN's symbol.
LooksUp(q) == q.num = None /\ (q.addr # None \/ q.token \notin {"sys", Symbol})

\* What a name stands for: at most one thing.
Meanings(q) ==
    {kind \in {"block", "addr", "token"} :
        \/ kind = "block" /\ q.num # None /\ q.num < synced
        \/ kind = "addr" /\ q.num = None /\ q.addr # None /\ q.addr \in names
        \/ /\ kind = "token" /\ q.num = None /\ q.addr = None
           /\ LooksUp(q) => Upper[q.token] \in names}

\* An error is no list of rows: forEach throws.
GetName(q, failed) ==
    {IF q.bad \/ (failed /\ LooksUp(q)) THEN Thrown ELSE Only(Meanings(q))}

\* getAccount, getTokensByAddress
GetAccount(q, failed) == IF failed THEN {Failed} ELSE OneOf(Rows(RowsOf(q.addr)))

\* LIMIT 50, more than there are.
GetAccounts(q, failed) ==
    IF failed THEN {Failed} ELSE OneOf(Rows({k \in Keys : account[k] # Absent}))

\* getToken, getTokenInfo
GetToken(q, failed) ==
    {IF q.bad THEN Thrown
     ELSE IF ~failed /\ Upper[q.token] \in tokens THEN Only(Upper[q.token]) ELSE Failed}

\* Mutant: the name is looked up as it is spelled.
GetTokenPrice_AsSpelled(q, failed) ==
    {IF q.bad THEN Thrown
     ELSE IF ~failed /\ bancor[q.token] # Absent THEN Only(bancor[q.token]) ELSE Failed}

\* getTokenPrice, getBancorTokenParams
GetTokenPrice(q, failed) ==
    {IF q.bad THEN Thrown
     ELSE IF ~failed /\ bancor[Upper[q.token]] # Absent THEN Only(bancor[Upper[q.token]])
     ELSE Failed}

\* In an object SYS_TOKEN itself is not recognised.
RankedToken(q) ==
    IF q.token \in {"sys", Symbol} \/ (q.size = None /\ q.token = Sys) THEN Sys
    ELSE Upper[q.token]

\* A token alone is ranked whole (LIMIT 50), an object asks for a page of the
\* ranking; one that names no token is refused without an answer.
GetFortuneRanking(q, failed) ==
    LET holders == HoldersOf(RankedToken(q))
        onPage  == Len(Page(SetToSeq(holders), Index(q.page), q.size))
        pages   == UNION {Rows(keys) : keys \in kSubset(onPage, holders)}
    IN  CASE q.bad -> {Hung}
          [] ~q.bad /\ q.size = None -> IF failed THEN {Failed} ELSE OneOf(Rows(holders))
          [] ~q.bad /\ q.size # None -> {Counting(data) : data \in IF failed THEN {None} ELSE pages}

\* The transactions of a block, one here.
GetTxsByBlock(q, failed) == {IF failed THEN Failed ELSE Only({n \in txs : n = q.num})}

GetTx(q, failed) == {IF ~failed /\ q.num \in txs THEN Only(q.num) ELSE Failed}

\* Without an argument rows are read, but no count can be asked for.
GetTxsByAddress(q, failed) ==
    LET page == Page(Newest(TxsOf(q.addr)), Index(q.page), q.size)
    IN  {IF failed \/ q.bad THEN Failed
         ELSE Counting(Newest({n \in txs : \E i \in DOMAIN page : page[i] = n}))}

\* Without an argument the latest rows, more than there are; else a page.
Latest(q, rows) ==
    IF q.size = None THEN Newest(rows) ELSE Page(Newest(rows), Index(q.page), q.size)

\* getTxs, getLatestTxs
GetTxs(q, failed) == {IF failed THEN Failed ELSE Counting(Latest(q, txs))}

GetBlocks(q, failed) == {IF failed THEN Failed ELSE Only(Newest(blocks))}

GetLatestBlocks(q, failed) == {IF failed THEN Failed ELSE Counting(Latest(q, blocks))}

\* From the time of block num on, before that of block size.
GetLatestTxCount(q, failed) ==
    {IF failed THEN Failed ELSE Only(Cardinality({n \in txs : n >= q.num /\ n < q.size}))}

\* The irreversible block's number, 0 when the chain does not answer.
GetChainOverview(q, failed) ==
    {[at |-> "latest", data |-> [lib |-> n, height |-> 0], total |-> None] :
        n \in IF failed THEN {0} ELSE synced..Len(chain)}

\* getFunc, and what a name that is none of them gets.
Handle(q, failed) ==
    CASE q.fun = "getName"            -> GetName(q, failed)
      [] q.fun \in {"getAccount", "getTokensByAddress"} -> GetAccount(q, failed)
      [] q.fun = "getAccounts"        -> GetAccounts(q, failed)
      [] q.fun \in {"getToken", "getTokenInfo"} -> GetToken(q, failed)
      [] q.fun \in {"getTokenPrice", "getBancorTokenParams"} -> GetTokenPrice(q, failed)
      [] q.fun = "getFortuneRanking"  -> GetFortuneRanking(q, failed)
      [] q.fun = "getTxsByAddress"    -> GetTxsByAddress(q, failed)
      [] q.fun \in {"getTxs", "getLatestTxs"} -> GetTxs(q, failed)
      [] q.fun = "getTxsByBlock"      -> GetTxsByBlock(q, failed)
      [] q.fun = "getTx"              -> GetTx(q, failed)
      [] q.fun = "getBlocks"          -> GetBlocks(q, failed)
      [] q.fun = "getLatestBlocks"    -> GetLatestBlocks(q, failed)
      [] q.fun = "getChainOverview"   -> GetChainOverview(q, failed)
      [] q.fun = "getLatestTxCount"   -> GetLatestTxCount(q, failed)
      [] OTHER                        -> {Only("unknown")}

\* The total that goes with a page.
Count(q) ==
    CASE q.fun = "getFortuneRanking" -> Cardinality(HoldersOf(RankedToken(q)))
      [] q.fun = "getTxsByAddress"   -> Cardinality(TxsOf(q.addr))
      [] q.fun \in {"getTxs", "getLatestTxs", "getChainOverview"} -> Cardinality(txs)
      [] q.fun = "getLatestBlocks"   -> Cardinality(blocks)

-----------------------------------------------------------------------------
(* The client                                                              *)

NoClient == [at |-> "none"]

Idle == [at |-> "idle"]

ReadInit == Init /\ reader \in {NoClient, Idle}

\* A question is taken from the queue; asked remembers what had been recorded.
Ask(q) ==
    /\ reader = Idle
    /\ reader' = [at |-> "asked", q |-> q, asked |-> copied, failed |-> FALSE,
                  data |-> None, total |-> None]
    /\ UNCHANGED vars

\* What a step of the handler makes of the question.
Becomes(out, failed) ==
    /\ reader' = [reader EXCEPT !.at = out.at, !.data = out.data, !.total = out.total,
                                !.failed = @ \/ failed]
    /\ UNCHANGED vars

\* The first query is answered or fails.
FirstQuery ==
    /\ reader.at = "asked"
    /\ \E failed \in BOOLEAN : \E out \in Handle(reader.q, failed) : Becomes(out, failed)

\* Mutant: as getFortuneRanking does elsewhere, a failure returns without an answer.
LatestBlock_Returns ==
    /\ reader.at = "latest"
    /\ \/ Becomes([reader EXCEPT !.at = "counting", !.data.height = Len(chain)], FALSE)
       \/ Becomes(Hung, TRUE)

\* getChainOverview: the latest block's number, 0 when the chain does not
\* answer; what cannot be parsed is answered as a failure.
LatestBlock ==
    /\ reader.at = "latest"
    /\ \/ Becomes([reader EXCEPT !.at = "counting", !.data.height = Len(chain)], FALSE)
       \/ Becomes([reader EXCEPT !.at = "counting"], TRUE)
       \/ Becomes(Failed, TRUE)

\* The count; a failed one is no number, but 0 in the overview.
CountQuery ==
    /\ reader.at = "counting"
    /\ \/ Becomes(Answered(reader.data, Count(reader.q)), FALSE)
       \/ Becomes(Answered(reader.data, IF reader.q.fun = "getChainOverview" THEN 0 ELSE None), TRUE)

\* The client has its answer and may ask again.
Close == reader.at = "answered" /\ reader' = Idle /\ UNCHANGED vars

Serve == FirstQuery \/ LatestBlock \/ CountQuery

\* The process has ended and is started again: the next round begins behind the
\* recorded height, the client's question is lost.
Restarted ==
    /\ reader.at = "thrown"
    /\ reader' = Idle
    /\ RangeEnds /\ done' = 0 /\ batch' = [batch EXCEPT !.left = 0]
    /\ UNCHANGED <<chain, synced, copied, tables, faults>>

\* The chain and the copying go on; while a client asks they keep to the bounds.
Copy ==
    /\ Next
    /\ reader.at = "thrown" => chain' # chain
    /\ reader # NoClient =>
          /\ chain' \in Seq(Watched) /\ Len(chain') <= MaxWatched
          /\ batch' = batch
    /\ UNCHANGED reader

ReadNext == Copy \/ Serve \/ Close \/ Restarted \/ \E q \in Question : Ask(q)

\* The database driver and the RPC client call back.
ReadSpec == ReadInit /\ [][ReadNext]_readVars /\ WF_readVars(Serve)

-----------------------------------------------------------------------------
\* Properties

Good(fun) ==
    /\ reader.at = "answered" /\ reader.q.fun \in fun
    /\ ~reader.failed /\ ~reader.q.bad

\* The i-th newest of the blocks recorded when the question was asked, of those
\* that count, is at most the i-th answered.
NewestAre(rows, size, Counts(_)) ==
    LET old == Newest({n \in reader.asked : Counts(n)})
    IN  \A i \in 1..Len(old) : i <= size => i <= Len(rows) /\ rows[i] >= old[i]

Size(q) == IF q.size = None THEN MaxChain ELSE q.size

\* The balances of addr that block n changed are shown as of n or later.
Fresh(shown, addr, n) ==
    \A key \in Changes(chain[n]) : key[1] = addr =>
        LET row == RowOf(chain[n], key)
        IN  \E r \in shown : /\ r.addr = addr /\ r.value >= n
                             /\ r.token = IF row[2] = Sys THEN Symbol ELSE row[2]

\* Block n changed the parameters that are kept under name t.
Sets(n, t) == (\E u \in DOMAIN Canon : ChangesParameters(chain[n], u)) /\ TokenName(chain[n]) = t

CopiedCreation(t) ==
    \E n \in reader.asked :
        /\ chain[n].ok /\ chain[n].method \in {"createToken", "createBancorToken"}
        /\ Canon[chain[n].token] = t

\* An answer holds what had been recorded when the question was asked, whatever
\* was copied or lost while it was served: the newest transactions and blocks, the
\* account's balances, the token and its price, each under the name that the
\* handler of the transaction keeps it by.
AnswersKeepUp ==
    LET q == reader.q  data == reader.data  asked == reader.asked IN
    /\ Good({"getTx"}) => (q.num \in asked => data = q.num)
    /\ Good({"getTxsByBlock"}) => (q.num \in asked => q.num \in data)
    /\ (Good({"getTxs", "getLatestTxs", "getLatestBlocks"}) /\ Index(q.page) = 0) =>
          NewestAre(data, Size(q), LAMBDA n : TRUE)
    /\ Good({"getBlocks"}) => NewestAre(data, MaxChain, LAMBDA n : TRUE)
    /\ (Good({"getTxsByAddress"}) /\ Index(q.page) = 0) =>
          NewestAre(data, q.size, LAMBDA n : q.addr \in Parties(chain[n]))
    /\ Good({"getAccount", "getTokensByAddress"}) => \A n \in asked : Fresh(data, q.addr, n)
    /\ Good({"getTokenPrice", "getBancorTokenParams"}) =>
          \A n \in asked : Sets(n, Upper[q.token]) => (data # None /\ data >= n)
    /\ Good({"getToken", "getTokenInfo"}) => (CopiedCreation(Upper[q.token]) => data # None)
    /\ (Good({"getName"}) /\ q.num = None /\ q.addr = None) =>
          (CopiedCreation(Upper[q.token]) => data = {"token"})
    /\ (Good({"getName"}) /\ q.num # None) =>
          /\ (\E n \in asked : q.num < n) => data = {"block"}
          /\ data = {"block"} => q.num <= Len(chain)
    /\ Good({"getLatestTxCount"}) =>
          data >= Cardinality({n \in asked : n >= q.num /\ n < q.size})

\* A page and the total it comes with are read at two moments, yet the total
\* covers the page; so does the chain's height its irreversible height, and the
\* transactions counted last are at least those of the first answer.
TotalCoversPage ==
    /\ (Good({"getTxs", "getLatestTxs", "getLatestBlocks", "getTxsByAddress"})
          /\ reader.data # <<>>) =>
            Index(reader.q.page) * (IF reader.q.size = None THEN 0 ELSE reader.q.size)
                + Len(reader.data) <= reader.total
    /\ (Good({"getFortuneRanking"}) /\ reader.q.size # None) =>
          Cardinality(reader.data) <= reader.total
    /\ Good({"getChainOverview"}) =>
          reader.data.lib <= reader.data.height /\ Cardinality(reader.asked) <= reader.total

\* The handlers that leave a question without an answer: getFortuneRanking returns
\* when the object names no token; those that take a name throw without one, and
\* getName also when its look-up fails, which ends the process.
Unanswered ==
    \/ reader.at = "hung" /\ reader.q.fun = "getFortuneRanking" /\ reader.q.bad
    \/ /\ reader.at = "thrown"
       /\ \/ /\ reader.q.bad
             /\ reader.q.fun \in {"getName", "getToken", "getTokenInfo", "getTokenPrice",
                                  "getBancorTokenParams"}
          \/ reader.q.fun = "getName" /\ reader.failed

\* Every question but these is answered, whatever it asks and whatever fails
\* meanwhile: only then does the queue go on to the next one.
QuestionsAreAnswered ==
    reader.at = "asked" ~> (reader.at = "answered" \/ Unanswered)

\* What a client is answered is true of the moment it asked or of a later one,
\* and its parts agree with each other although they were read one by one.
AnswersHold == AnswersKeepUp /\ TotalCoversPage
=============================================================================
