# A TLA+ model of rfc-catchup-ts

The repository holds two programs.

* The **catch-up service** (`src/src/index.ts`, `src/src/lib`, `src/src/api`):
  one Node process that copies the irreversible blocks of the Ruff chain into
  SQLite databases, answers read queries about them over HTTP, and hands out a
  few coins ("candy") to who asks.
* The **chain core** (`src/src/core`): the node software of that chain
  (pending pool, miners, consensus, synchronisation, storage, peers). The service
  uses its error codes, addresses and transaction types; the rest is the
  program that the service's chain node runs.

Both are event driven and single threaded: everything between two awaits is
atomic, everything at an await may interleave. The models follow that grain. A
TLA+ action is what one handler does from one await to the next; "the node
process dies" is an action of its own where something outlives the process.

Paths below are relative to `src/src/`; the complete mapping from definitions
to lines is in `PROJECT.json` (`map`), the things in this code that are hard to
test in its `hazards`.

## 1. Inventory

### Catch-up service

**Request queue** (`lib/storage/queue.ts`, fed by `lib/catchup/inquiro.ts`).
State: a read list and a write list, each a doubly linked list of tasks, with a
`running` flag per item. Operations: the event handlers `read`, `write`,
`execRead`, `execWrite`, `removeRead`, `removeWrite`. `execRead` starts every
task that is not running yet; a task that ends removes its item and emits
`execRead` again. Hard: nothing looks at a list except a push on an *empty*
list and the end of a running task, so one missed event strands the rest;
handlers of one list overlap; a handler that never resolves stays listed.
Correct means: no task stranded, first in first out, each answered once, one
lane does not hold up the other.

**Task list** (`lib/storage/dl_list.ts`). State: `next` and `prev` pointers,
sentinels. `removeWrite` unlinks through the *read* list's `deleteItem`
(queue.ts:116), which works only because unlinking touches nothing but the
neighbours. `WRQueue` takes the lists for sequences.

**Candy service** (`lib/storage/dbapi/getcandy.ts`, `api/transferto.ts`).
State: the candy table (durable), the transfer on the chain, the handler's
position. A row stands for an address and a token name, `s` for SYS and the empty
name for any other token of the request. Operations: look the row up, insert it,
read the nonce, send the transfer, poll for the receipt, delete the row when it
failed, answer. Hard: handlers of the same address run side by side; two transfers
read the same nonce; the receipt may come after the last poll; the process may die
at each await.

**Start-up and catch-up loop** (`index.ts`, `lib/catchup/synchro.ts`, heights
in `lib/storage/statusdb.ts`). `main()` opens the databases, and when the
`loadedgenesis` flag is unset inserts the genesis balances and sets the flag
last; then the loop runs. State: the flag and the tables, the last irreversible
number the loop believes in, the height in memory and in the status table, the
range and group being copied. Operations: `main`, `loopTask`,
`updateBlockRangeBatch`, `updateBlockRangeGroup`, `updateBlockSingle`,
`updateBlock`, `updateTx`, `setCurrentHeight`, `loopTask2`. Hard: rows, height
and flag are separate statements; every failure path must come back to the
loop; whatever ends the process, the next one begins with `main()` on tables
that both parts have written.

**Transaction handlers and tables** (`synchro.ts` from line 459,
`lib/storage/StorageDataBase.ts`). One handler per method; each is a list of
statements on the hash, transaction, transaction-address, account, token and
bancor tables. Balances are asked of the chain *at its present height*, long
after the transaction. Hard: a block is left between two statements; the rest of its
group is skipped, and later groups go on and record their heights; what is copied again
is copied when the chain has moved on.

**Read API** (`lib/storage/dbapi/get*.ts`). State: none but the question being
served. Operations: some thirty forms of questions, of one to three queries
each. Hard: the tables are written row by row while two queries of one answer
are made; a handler that returns or throws without resolving.

**RPC wrappers and client** (`api`, `client`), **single linked list**
(`sl_list.ts`, unused): no state that outlives a request; not modelled.

### Chain core

**Pending pool** (`core/chain/pending.ts`, `core/value_chain/pending.ts`).
State: the ordered pool, the orphans per address, the next nonce and the
balance per address, the queue of operations and the one being performed.
Operations: `addTransaction`, `updateTipBlock`, `_onAddPending`, `_addTx`,
`_addPendingOpt`, `_scanOrphan`, `_onReplaceTx`. Hard: nonce and balance are
read before an await and used after it; a new tip takes the pool apart while a
transaction is half added; only the first orphan of an address is looked at.

**DBFT consensus** (`core/dbft_chain/consensus_node.ts`, `context.ts`,
`miner.ts`) and **block miner** (`core/chain/miner.ts`). State: the node's
phase, view, block under agreement and signatures; the miner's routines; the
packages on each connection. Operations: the timers, `newProposal`,
`agreeProposal`, the prepare request, prepare response and change view
packages, `updateTip`. Hard: packages meet any state, blocks go on executing
across view changes, timers run by each node's own clock, and a package that is
dropped is not sent again.

**DPOS consensus** (`core/dpos_chain`). State: stakes, votes, candidates, bans,
miners and their timers in the chain's storage; the tip states of branches with
a cache in memory. Operations: mortgage, unmortgage, vote, register, the events
at the end of a block and of a round, header verification, `_compareWork`,
confirmation. Hard: each event of a round's end reads a list another one
writes; a cached tip state is moved on to another branch and stays filed where
it was. Correct means: votes are the stakes behind them, timers and bans are
the miners', and a block is irreversible only when enough miners built on it.

**Block executor** (`core/executor`, `core/value_chain`) and **executor
routines** (`core/chain/inprocess_routine.ts`, `interprocess_routine.ts`), used
by the block miner. State: the storage, its redo log, the handles on it, the
routines with their cancellation, the child processes. Hard: a rollback replaces
the objects that handles point to; a routine's await comes back to a miner that
works on another block; a child dies or answers late.

**Storage back ends** (`core/storage_sqlite`, `core/storage_json`,
`core/storage/js_log.ts`, `core/serializable.ts`). State: lists and hashes of
values. Operations: the thirty of `IReadWritableKeyValue` in each of the two
stores and in the redo log. Hard: two implementations that must agree with each
other and with the log.

**Storage manager and snapshots** (`core/storage`, with `chain.ts` 683-772).
State: views with reference counts, snapshots, dump files, redo logs, the
requests to keep a snapshot. Hard: look-ups, rebuilds and recycling interleave;
waiters of one view depend on the first; the set to keep is never cleared.

**Chain and synchronisation** (`core/chain/chain.ts`) over **header, block and
transaction storage** (`core/block/*_storage.ts`, `lib/LRUCache.ts`,
`lib/Lock.ts`). State: the header and best tables, the transaction view, the
caches, the open transaction, the queues of headers and blocks, the state of
each connection, the tip. Hard: two loops and the miner share one database
connection and its transaction; each continues a connection; a restart finds
only the rows.

**Block download** (`core/chain/chain_node.ts` over `core/net/node.ts`). State: a
window and the blocks out per connection, the peer each block was last asked of,
the pending blocks, the sources of a block. Operations: `requestBlocks`,
`_onFreeBlockWnd`, `_onRecvBlock`, `_onRemoveConnection`, `_onReqTimeoutTimer`,
connections that break, are banned, are replaced by a second one or come back.
Hard: five tables that every handler must leave in agreement, and answers that
arrive after a loss has changed them.

**Peer network** (`core/net`, `core/net_tcp`, `core/block/*network.ts`,
`node_storage.ts`). State: the connections with an end at each node, the lists of
in- and outbound peers, bans, batches of dials, the reader's buffers. Hard: two
nodes dial each other and each decides on its own which connection stays; ends
learn of a closing late; streams are cut anywhere.

**DPOS-BFT** (`core/dpos_bft_chain`), **proof of work** (`core/pow_chain`),
**other libraries** (`core/lib`), **creator and debugger**: not modelled, see
section 6.

### How the parts interact

`Inquiro` turns an HTTP message into a task of the queue; the queue calls the
database function of that name; for `getCandy` this function sends a transfer
to the chain node. `Candy` therefore *extends* `WRQueue` and drives its write
lane: a request is on the write list exactly while its handler is alive. `Synchro` and
`SyncTables` are the same loop at two levels of detail: `Synchro` keeps heights,
ranges and groups and lets a block be absent, half copied or complete;
`SyncTables` keeps every statement of the block being copied and the position of its
group and range. `Service` composes the first with `Startup` into the process that
runs them one after the other, `ReadApi` the second with a client's questions.

In the core, the peer network reports connections to the chain; the chain asks
a peer for headers, the chain node for blocks; a verified block is executed on a
copy of its parent's snapshot, and, when it is best, becomes the tip, whose
snapshot is kept and whose number and state the pool, the consensus and the
miner go on from. `ChainSync` works on `HeaderStorage` and leaves who a block is
asked of to `BlockFetch`, its execution to `Execute` and its storage to
`Snapshots`: each takes what the others promise as the choices of its
environment. `Worker` is `Execute` with the routines in processes of their own;
`Dpos` joins the elections of `DposElection` and the confirmations of
`DposTipState`; `Dbft` composes consensus nodes and their miners.


## 2. Modules

| Module | Models | State and steps |
|---|---|---|
| `BatchServer` | what one lane of the queue promises | sets of waiting, serving and answered requests |
| `WRQueue` | `queue.ts`, `inquiro.ts` | `list` per lane, the `running` flags, the callbacks called. `Message` is an HTTP request up to the first await of the handler it may start; `Resolve` is a handler's answer, with the `remove*` and `exec*` events it emits synchronously |
| `Candy` | `getcandy.ts`, `transferto.ts`, `statusdb.ts` look-ups | `WRQueue` with its write tasks as requests and one action per await of `laGetCandy`; the chain is a set of accepted and a set of confirmed transfers with one nonce sequence. The table holds primary keys, pairs of address and token name |
| `Synchro` | `loopTask` and what it calls, the heights of `statusdb.ts` | `pc` is the await before which the loop stands; `Boot` rereads the durable height |
| `Startup` | `main()` of `index.ts` | one action per statement |
| `Service` | the process: `Startup`, then `Synchro`, over the same files | `Main` and `LoopStep` lift the steps of the two; `Started` goes from one to the other, `ProcessEnds` begins again |
| `SyncTables` | the handlers of `synchro.ts`, the tables of `StorageDataBase.ts` | a handler is the list of its statements. `LoopTask` begins a range, `Statement` executes the next statement, `SetCurrentHeight` records the block; `BlockFails` leaves its group and goes on with the next, `RangeFails` is what ends the range, a crash among them; `FetchMiners` and `WriteMiner` are `loopTask2`. `copied` is a history of the recorded blocks |
| `ReadApi` | `dbapi/get*.ts` and their queries | one client on top of `SyncTables`; one action per query or RPC of a handler |
| `Pending` | both `pending.ts` | `stage` is the await before which `_addTx` stands; `val` is what was fetched when the call was made; `TipLoaded` is the end of the await in `updateTipBlock`. A submission is the object of one call of `addTransaction`; two may have one hash |
| `Dbft` | `consensus_node.ts`, `context.ts`, `dbft_chain/miner.ts`, `chain/miner.ts` | a record per node, packages in order per connection, one action per timer, package and finished execution |
| `BlockFetch` | the block download of `chain_node.ts` | `fetch` holds the ChainNode's tables, which `Ask`, `OnFreeBlockWnd`, `Received` and `OnRemoveConnection` transform as the methods do; its `wire` are the answers a connection will bring |
| `HeaderStorage` | `header_storage.ts`, `tx_storage.ts`, the caches | the statements as functions on a record of tables, with the open transaction's undo copy and a read of another party in flight |
| `ChainSync` | `chain.ts`: synchronisation, the two queues, verification, best chain, tip | extends `HeaderStorage`; `n.header` and `n.block` are the loops' positions, `trouble` what went wrong so far |
| `Snapshots` | `storage_manager.ts`, both snapshot managers, `_morkSnapshot`, the pool's and verification's use of them | `st` is disk and counts, `req` each party's position in `getSnapshotView` or `_createStorage` |
| `Execute` | `chain/miner.ts`, `inprocess_routine.ts`, the executors, JSON storage with redo log | `routine` and `miner`; the storage of a routine is a heap of objects, handles into it and the log. A block that was executed is mined in two steps, `Mined` up to the await of its snapshot and `AddMinedBlock`, with `SaveFails` and `MineFails` for the errors of either |
| `Worker` | `interprocess_routine.ts` | extends `Execute` with the child process of each routine |
| `DposElection` | `consensus.ts`, `dpos_chain/executor.ts` | the operations and the end of a block as functions of a record of stakes, votes, bans, miners and timers |
| `DposTipState` | `chain_state.ts` | `updateTip` and confirmation as functions of a record |
| `Dpos` | a node: `chain.ts`, `chain_state_manager.ts`, `block.ts`, `executor.ts` of `dpos_chain` | extends `DposElection`, instances `DposTipState`; blocks with the election each leaves behind, the branch followed, the cache of tip states |
| `Peers` | `net/node.ts`, `net_tcp`, `network.ts`, `node_storage.ts`, the two outbound networks | a record per connection with both ends; bans, batches of dials, what the chain was told |
| `PackageStream` | `net/reader.ts`, `net/writer.ts` | the reader as a fold over the chunks of a stream |
| `Values`, `JsonKeyValue`, `SqliteKeyValue`, `KeyValue` | `serializable.ts`, `storage_json`, `storage_sqlite`, `js_log.ts` | pure operators: each of the stores' operations, and their comparison |
| `CandyProofs`, `ServiceProofs`, `SyncTablesProofs`, `DbftProofs`, `ExecuteProofs`, `SnapshotsProofs`, `PeersProofs` | | theorems about the modules they are named for, in section 4; those of `WRQueue` are in `CandyProofs`, those of `ReadApi` in `SyncTablesProofs`, those of `Pending` and `BlockFetch` in `DbftProofs`, those of `Dpos` in `ExecuteProofs` |
| `FoldProofs` | | what the folds of the community modules compute |
| `MC*` | | the instances below |

What is abstracted. A transaction, block, address or task is a name; a block of
`Dbft` is the sequence of headers that leads to it, of `Synchro` a height, of
`ChainSync` a node of a given tree. A balance of `SyncTables` is the number of
the chain transaction that last changed it, which is what staleness is about; a
file of `Snapshots` is the list of the blocks that were applied to it. Time is
whatever order time-outs and timers may fire in, because each node computes
deadlines from its own clock; `Dpos` numbers slots, as due miners depend on them.
Logging, formatting, SQL text, signatures and hashing are left out; a signature
is membership in a set. Every counter the code leaves unbounded is bounded by a
constant named `Max...`.

## 3. Runs

Each property has a mutant of a mapped definition (`PROJECT.json`) that the same
run refutes, so none holds for lack of behaviour. Type invariants are the first
part of a run's main invariant (`TasksAreServed`, `DatabaseHolds`,
`TablesKeepUp`, `PoolIsSound`, `AgreementHolds`, `BlocksAreTracked`,
`BestChainHolds`, `RecordsMatchMiners`, `PeersAgree`). Those of `Candy`,
`Startup`, `Snapshots` and `Execute` are stated in the modules but are in no run; of
these, `Snapshots` and `Execute` have theirs proved.

| Run | Question | Instance, and why it is enough |
|---|---|---|
| `queue` | no task stranded, overtaken or unlinked in another's place; each answered; both lanes are batch servers | 3 reads, 3 writes: a running, a waiting and an arriving task per lane; one write never resolves |
| `candy` | one candy per row, nobody locked out, replies true, every request answered | 3 requests of one address, 2 for SYS and 1 that names another token: a race for a row, and one for the nonce between rows; 2 RPCs and 1 statement fail, 1 crash at any await; 2 polls, receipts come before, between or after them |
| `synchro` | the whole process: only irreversible blocks stored, heights tell the truth, a failure costs at most a group, the flag means loaded, the service catches up | 2 genesis balances, 5 blocks, groups of 2 (a full, a full and a shorter group), 1 failed request, 1 failed statement in either part, 2 crashes |
| `sync_tables` | rows keep up with recorded blocks, never go back, are found under every party; what is answered meanwhile is true, agrees with itself, and comes | every method, successful and failed, sales in either spelling, 3 transactions in groups of 2, of which the first is short because of the genesis block: a failed block has one behind it in its group, and a group behind that; 1 failure at any statement; the chain may be ahead by all of them. A client asks 25 forms of questions over chains of up to 2 transactions of three kinds, enough for rows to be written between any two queries |
| `pending` | the idle pool can be executed on the tip, is bounded, holds no submission twice; nothing leaves without a reason; the queue drains | 1 address (addresses share only the count), 2 nonces, the first also with a higher fee, the second sent twice and with an expiry; limit 2, so that it is met; 2 tips forward or back at any await, 1 failed read |
| `dbft` | a mined block was signed by enough validators, the miner holds what is agreed on, an undisturbed view mines | 3 validators, quorum 2, 2 views, 2 time-outs at any moment, 2 blocks: two proposals of different views compete at one height |
| `block_fetch` | look-ups find their window, no block is forgotten, blocks arrive | 3 peers, 2 blocks, windows of 1 that grow: windows fill, and a block has a first, a second and a third source; 3 announcements, 2 losses or replacements, any number of time-outs, 1 return |
| `chain` | the best chain is one path with its transactions, the tip the highest verified block; peers with good blocks are followed and kept | 2 peers; branches of 3 blocks, the third of one bad; a mined block that competes with the second of the other, and that its peer goes on from once it is best, so that the best chain gives up one block or two; requests of 1 header, so that synchronisation takes several rounds and peers change their tips; 1 trouble of any kind (failure, break, restart, foreign read) |
| `snapshots` | a dump holds its block's state however made; what is held is not recycled; every request ends | 3 blocks: a dump may be missing between two that are there; 3 parties and 1 client ask at once, 1 restart; depth 1, so that the loop keeps two snapshots and recycles the one between them |
| `execute` | money and nonces are conserved, redo logs reproduce the state, the miner is free when its routine ends; the two stores agree | 3 routines, so that a second and a third replace the first, 2 blocks high, blocks of 1 and 2 transactions that succeed, fail and overspend; both managers, a child that dies; lists to length 3, 2 fields, 2 kinds of values |
| `dpos` | votes are stakes, timers and bans are the miners', an irreversible block is confirmed | 3 producers of which 2 mine, 1 voter, 6 blocks after the genesis block in rounds of 2, that is 3 elections, 1 fork, 2 blocks with transactions, 1 restart; slots that skip miners, so that bans and delays happen |
| `peers` | two nodes keep the same connection, the chain is told; the banned stay out; dials are reported; packages survive any cut | 3 nodes, 3 connections: both may dial each other and one of them again; clocks that differ, 1 break or ban, a third node of another chain. Streams of 2 packages with bodies to 1 and data to 2 bytes, in every cutting |

`CHECK_DEADLOCK FALSE` is given where a model stops because its inputs are used
up: requests answered (`queue`, `candy`), transactions copied (`sync_tables`),
submissions, tips, announcements and troubles used (`pending`, `block_fetch`,
`chain`), blocks and requests made (`dbft`, `snapshots`, `execute`, `dpos`),
connections dialled (`peers`). `synchro` checks for deadlock.

`StoresAgree` and `PackagesSurvive` are about pure functions of the code: they
hold in a state if the functions agree with their reference definitions on all
the bounded inputs, and are looked at only in states from which nothing else
differs.

Some properties excuse a case in which the code does not do what it should:
`HonestNotBanned` and `FollowsPeer` a failure of the node itself, the first one
also a broken connection and a restart; `EveryBlockArrives` blocks asked twice; `DumpIsItsBlock` and `HeldStays` the dumps counted as spoilt
or miscounted; `OneCandyPerRow` a transfer that was given up;
`DialsAreReported` breaks and nodes of another chain. What happens there is in
section 5. In each case TLC finds the counterexample when the excuse is taken
out.

### Fairness

* `queue`: weak fairness of every handler's answer except those of `MayHang`.
  Node runs the continuation of a promise that resolves; that a database call or
  RPC resolves is the assumption, and `MayHang` drops it for one write.
* `candy`: weak fairness of each handler's steps; every poll has a time-out.
  The chain confirms what it accepted, which no reply depends on.
* `synchro`: weak fairness of `main()`, of the loop, of what leads from one to
  the other, and of the start of a process after one has ended. `DelayPromise`
  timers fire and every request answers or fails; no failure branch is fair. The
  repository ships no supervisor, so the restart is an assumption about how the
  service is run; without it nothing can be said about what follows a crash.
* `sync_tables`: the handler of a question goes on as its queries come back. The
  copying of blocks is under no fairness.
* `pending`: storage reads come back. Nothing is assumed of new tips.
* `block_fetch`: weak fairness of the time-out of each block, as the timer of
  `chain_node.ts:69` runs every second. No peer has to answer.
* `chain`: the loops' awaits come back, a connected peer answers a request for
  headers, and an announced block arrives; the last is what `block_fetch` shows.
* `snapshots`: every await of a party comes back, and a client releases its view.
* `peers`: sockets that have not failed connect and deliver, and the turns of the
  event loop that end a batch are taken.
* `dbft`, `execute`, `dpos`: none. `QuietViewMines` is a safety property: in a
  state where only a deadline could still do something, and none has passed,
  everybody has the block.

## 4. Theorems

All theorems hold for any values of the constants that satisfy the modules'
`ASSUME`s, which TLC evaluates in the runs; where one has a further hypothesis it
is named here. Each proof has one lemma per action, or per group of actions that
do the same to the state. The inductive invariants (`IInv`, `PoolIInv`, `FetchIInv`, and
`MissInv` and `BootInv` of `ServiceProofs`) hold on the runs' instances, which TLC can
show by naming them as invariants; in `Dbft` the blocks of their quantifiers then have to
be those of `made`, and in `BlockFetch` sequences have to be bounded.

**Request queue** (`CandyProofs`): any sets of read and write tasks. `IInv` joins
`TypeOK`, `ListedOnce`, `NoTaskStranded` with two facts the steps need: a listed task
is on the list of its own lane (`OwnLane`), and a running one is listed
(`StartedIsListed`). Without the second an answer would not be known to come from an
item that is still there, and deletion by id could remove nothing and restart
nothing. `DeleteItems` and its companions say what unlinking does to a
duplicate-free sequence. `QueueStartedInOrder` needs the order as an invariant of its
own on top of `IInv`: a push starts a task only on an empty list, a completion starts
all that wait. `LanesImplement` maps the waiting, running and finished tasks of each
lane to `BatchServer`: the abstract server is idle exactly when the list is empty,
which takes `NoTaskStranded`.

**Candy** (`CandyProofs`): any requests, addresses, tokens, faults and crashes. The
handler that holds its row, or has handed it to a transfer, is the row's *owner*;
`OwnersHoldRows` says that an owner's row is there and that a row has one owner,
which is the primary key at work, and `OneCandyPerRow` follows. It needs
`SentBefore` (a transfer on the chain comes from a handler that is past `send`) and,
for who is told "already", `RowsHaveWriters`. `NoLockedOutAddress` takes
`RowsHaveReasons`: while no statement has failed, a row belongs to a handler at work,
to one lost in a crash, or to a confirmed transfer. A handler that has deleted its row
and not answered yet owns nothing. Nothing is needed about the queue in between:
handlers run in any order.

**Catch-up loop and process** (`ServiceProofs`). `RangeInv` adds to the types where
the range being copied lies: past the recorded height, not past what the chain has
made irreversible, the current block inside its group inside its range. From it follow
`OnlyIrreversibleStored`, `MemoryFollowsDisk`, their conjunction `DatabaseHolds` and
`HeightNeverBack`. `MissInv` counts what is missing behind the block being copied and
behind the recorded height against `Cost`, a group's worth for each failure so far, and
bounds what is left of a group; `FailureCostsOneGroup` is its second part.
`SynchroHeightMeansStored` proves what section 5 shows to fail in general, that every
block up to the height is stored, under the weakest assumption found,
`NoSkippedGroup`: a range never has a second group or nothing ever fails. Crashes need
no assumption. `BootInv` says how much of the genesis file is in the tables at each
statement of `main()`, for `FlagMeansLoaded`. As `main()` touches none of the loop's
variables until it starts it, and then starts it as `Boot` does, the loop's invariant
carries over: `ServiceDatabaseHolds` and `ServiceFailureCosts` are about the process.

**Tables** (`SyncTablesProofs`): any transactions in any spelling, chain length, group
size and failures, with a client that asks meanwhile. `Reached` is what a statement of a
block brings about: a row there and, if it shows a state, one not older than the block.
`Progress` says it of the statements made so far of the block being copied, although the
chain moved on since, `Recorded` of all the statements of every recorded block, however
many were skipped before or after it. That a failed block is recorded by nobody, while
the next group begins behind it, is what makes `Recorded` hold of the set `copied` and
not of all numbers up to the height. `NotNewer` says that no row is newer than the chain
nor, while miners' balances wait to be written, newer than they are: so
`RowsNeverGoBack`, an action property, holds of both kinds of writes. It takes that the
two loop tasks never overlap. `CopiedIsKept` (`TablesKeepUp`) reads off `Recorded` that
each balance and parameter a recorded block changed is kept, under the name its handler
gives it (`RowOf`: that of a sale is as spelled, section 5), and that the transaction is
found under each of its parties.

**Read API** (`SyncTablesProofs`): any questions, asked at any time while the tables are
written. `AnswersAreTrue` (`AnswersHold`) needs of the tables that rows only grow, that
what was recorded stays so (`Recorded`), that a transaction found under an address is
itself in the table of transactions, whose row is written first (`Entered`), and that the
rows of accounts are finitely many (`FewRows`). `ReaderInv` adds what each question keeps
from query to query (`Serves`): a row read is no newer than the chain and no older than
the blocks that were recorded when the question was asked, and a page's rows were all
counted. An answer is then judged by what stands between the asking and the answering.
The assumptions are `QuestionsAsked`, that the questions are among the forms the handlers
take; `GenesisIsFinite`; and `NoneIsNothing`, that no account, token or name is called
like the model's mark of an absent row. Questions that the handlers drop or throw on, and
those whose query failed, have no claim made on their answers.

**DBFT** (`DbftProofs`): any list of validators, agree rate, views and heights.
`AgreementHolds` joins the types with `MinedWasAgreed`, a mined block has signatures of
enough validators, and `MinerHoldsBlock`, what is agreed on is the block the miner
holds. The invariant has what the packages on the way carry (`Packages`: proposals come
from the block's miner, responses from validators that signed), what a context holds
(`Context`: its block extends the tip and every signature, early ones included, is its
validator's), that a block is proposed before it is executed and agreed on
(`ProposedOnce`), and that copy numbers tell apart blocks alike.

**Pending pool** (`DbftProofs`): any submissions with any hashes, addresses, nonces, fees
and costs, any funds and limits, any chains and any order of tips, time-outs and failed reads.
`PoolIInv` says where an addition stands. `Stages` is what is known of the transaction in
hand before each await, as that the one it replaces is still the first of its nonce.
`Apart` has each submission in one container once, and the orphans of an address its
own, one for each nonce; nothing of the kind holds of hashes, as `_isExist` looks neither
at the queue nor at the transaction in hand; `Amount` is the bound, with the transaction in hand counted.
What was read of the chain is used after an await, and is then true only in part:
`StillTrue` and `Ready` hold *unless a new tip waits in the queue*. The first says that
what was read is the tip's, that the nonce to be added is above it, and that all nonces
below are in the pool; the second that the pool's nonces follow the chain's without a
gap, the remembered one among them. While a new tip waits both may be false, and
nothing is lost by it: the loop takes the tip first, forgets the nonces and queues the
pool again. `RunKeeps` is that argument, and every return of `_addTx` goes through it.
`PoolSound` (`PoolIsSound`) follows because an idle pool has no queue. `PoolLeaves`
(`LeavesForAReason`, an action property) takes from the same invariant that what a
replacement removes is what it was checked against. That a nonce may be in the pool twice
(section 5) does not contradict `Ready`, which is about the set of nonces.

**Block download** (`DbftProofs`): any peers, blocks, lists of headers and first window,
and any order of announcements, answers, time-outs, losses and replacements.
`FetchTracked` (`BlocksAreTracked`) is about five tables that every method changes
together. What makes its invariant inductive is that it is stated with a set of peers
*that are gone* (`Tracks`): while `_onRemoveConnection` goes through the blocks of a lost
peer, the blocks it has not come to still name that peer as a source, although its window
is deleted. `Tracks(n, {p})` holds from the deletion to the last block, after which no
block has `p` and the exception can be dropped. The window of a peer that is being banned
may be zero for the same reason. That the blocks asked of a lost peer go back to the
pending ones, and that a block leaves these only for the requests of a peer that has a
window, gives `NoBlockForgotten`; that nobody becomes a source without a window gives
`WindowsHold`, the assertion of `chain_node.ts:696` and the look-up of 722. Nothing is
assumed of the assertions that do fail (section 5): the invariant holds in spite of them.

**Executor** (`ExecuteProofs`): any accounts, contents and number of routines, in the
node's process or in one of their own (`WorkerSpec`). `RoutineOk` says for each phase of a
routine what its storage has become: its parent's state after the first k transactions,
its sum of balances, its nonces, and a redo log which, applied to the parent's state,
gives the live state, also after a rollback that leaves handles behind, and while its
block waits for its snapshot. `ChildOk` says the
same of the answer a child process holds. `Execute.MoneyConserved`, `NoncesAreUsed`,
`RedoMatches` and `MinerIsWorking` follow. Conservation needs nothing of the amounts.
That no balance goes below zero, the last part of `MoneyConserved`, is claimed if
`NaturalAmounts` holds: no transaction has a negative value, fee or cost, which the
executors take for granted and do not check.

**Votes** (`ExecuteProofs`): any voters, producers, lists of transactions and branches.
`DposVotesAddUp` (`VotesAddUp`) says that the running totals the code keeps are the sums
they stand for. Each operation moves the total of every producer by the difference between
the new and the old share of one voter (`VotesMove`, from `SumChange`), although `vote`
does it in two halves, with the old choice and with the new one, and `unmortgage` first
takes the votes back and then forgets the choice. A block is the fold of its transactions
(`AllCount`, from `FoldAppend`), and nothing that follows them touches stakes, choices or
votes (`PostBlockStays`). `DposAssumption` has amounts positive, as the code asserts, and
choices among the producers.

**Snapshots** (`SnapshotsProofs`): any tree of blocks, clients, views and restarts, and
any order of the awaits. *Claims* are those who will release a view: parties that make
it, wait for it or have it, the pool, the mork loop, the genesis. A view counts its
claims (`ClaimsAreCounted`), so it is forgotten only when there are none, so nobody else
makes a view that is being made (`MakersAreAlone`), so a maker's entry is its own. An
entry counts the opened view and each of those being closed (`EntriesAreCounted`), which
gives `HeldStays`. `WalksLead` and `RedoLeads` carry the blocks still to be replayed from
the search for an ancestor to the last log: path of the block = what the dump holds
followed by what is left; when nothing is left, `DumpIsItsBlock`. `SnapshotsAssumption`
makes the blocks a tree: every set of blocks without the genesis has one whose parent
is not in it. From it `PathIs` proves that the recursive function `Path` unfolds.

**Peers** (`PeersProofs`): any nodes, configurations, clocks, genesis blocks and numbers
of connections, failures and bans. `RemoteIsListed` and `OpenIsRemote` say that a node's
map and the ends of its connections agree: what the map holds is listed, if perhaps
dead, and a live end is the one the map holds, so that a node never has two with a peer.
`ChainsKnow` has the chains told of live ends while nothing broke; from these follows
`LiveIsTold`. `SurvivorAgreed` is about a *peaceful* pair: no failure, no ban, one chain,
and connections whose times differ. For these `Settled` says how far a connection has
come (`Stage`), that there is at most one each way, and that an end is only given up for
an older connection the other way whose accepting end stays open (`Beaten`). When the
handshakes are over such a connection cannot itself have been given up, as it would be
beaten in its turn by the one it beat, although each end took its decision alone and in
its own order. `PairStep` reduces a step to the pair it is on; `PeacefulBefore`, that
trouble once had stays, lets the invariant speak of the present only. `BannedStayOut` is
an action property: the chain is told of a peer by a version, for which the ban is looked
up, or by a batch, whose members share the node that dials (`Batches`).

**Folds** (`FoldProofs`): what the sums and folds of the other modules compute. They
are defined by recursion over sets, and induction is not available to the prover here, so
each fact is proved from the smallest counterexample there would be. `SumChange`: a sum
changes by what one of its terms does, a sum of zeros is zero (`SumOfZeros`: no
orphans). `FoldAppend`: one more element is one more
application.

Model-checked only:

* all liveness, which is out of the prover's reach: `EveryRequestAnswered`,
  `EveryCandyAnswered`, `ServiceCatchesUp`, `QueueDrains`, `EveryBlockArrives`,
  `FollowsPeer`, `EveryAskEnds`, `DialsAreReported`, `QuestionsAreAnswered`; and
  `QuietViewMines`, which speaks of what is ENABLED;
* `PackagesSurvive` and `StoresAgree`, whose operators are recursive or compare two
  computations over data of any depth;
* `RecordsMatchMiners` and `LibIsConfirmed`, which rest on what the tip states of a node
  and their cache keep; and `BestChainHolds` and `HonestNotBanned`, which rest on the
  tables of `HeaderStorage`, the largest state of the project.

## 5. Where the code does not do what it seems to

Met while modelling, or by runs of the same modules without an excuse, with
other constants or with a stronger property. None of them is a run of the
project.

**Queue and candy.** `getcandy.ts:4` distributes to one address once, but the row that
remembers it is that of an address and a token name (`statusdb.ts:30`), the name comes
from the request (`getcandy.ts:27`), and the candy is SYS for any: an address that asks
for SYS and for another token is paid twice with nothing failing, as TLC finds when
`OneCandyPerRow` counts the transfers of an address. It is paid twice also
for one token after `MAX_CONFIRM_TIMES` polls, when the row is deleted while the transfer
is still pending (`getcandy.ts:67`): that is confirmed, and the address asks again. A
completion starts all waiting writes at once, though `queue.ts:63` speaks of one at a
time. A failed candy look-up leaves its promise unresolved (`statusdb.ts:98`).

**Catch-up loop.** A block whose rows fail leaves its group by `break`
(`synchro.ts:235`), the group resolves `RESULT_OK`, the range goes on, and the
height passes a gap that nothing comes back to; `FailureCostsOneGroup` is the
bound that does hold. "Obsolete storage!" also ends the process when the first
LIB request after a restart fails (`synchro.ts:197`). A block with an unknown
method fails for ever (`synchro.ts:514`). One handler of eight looks a bancor
token up as the client spelled it (`synchro.ts:1011`), which the project's own client
sends as typed (`api/sellBancorToken.ts:43`): the seller's balance and the token's
parameters after the sale are in rows of that spelling, and those of the upper-case name
stay as they were; parties that appear only
in token transfers are not entered in the hash table (`synchro.ts:672`).

**Start-up.** After a crash between the first genesis INSERT and the flag every
start fails at `index.ts:97`, as the INSERTs meet their own rows. `init` goes on
after a failed read of the flag (`statusdb.ts:146`): the service then runs
without the genesis balances, and a later load meets rows the loop has written.

**Read API.** `getName` with a number throws and ends the process
(`getname.ts:22`), as do four token handlers without an argument, and `getName` for any
name whose look-up fails, as it takes the error for a list of rows (`getname.ts:47`);
`getFortuneRanking` with an object that has no token never resolves (51-54).
`getName` takes a height below the recorded one only, and for a block each of these,
those that were skipped among them (`getname.ts:61`); the ranking of 's' as an
object finds nothing; a failed count gives a total of null; a page whose query
fails has an error for its data.

**Pool.** After a replacement the pool may hold two transactions of one nonce, or
the replacement behind later nonces, because `txOld` is not passed on and the
nonce is moved back (`value_chain/pending.ts:49`, `98`). Balances are forgotten
before the new snapshot is there, so an add in flight writes an old one back
(`value_chain/pending.ts:53`). An orphan whose predecessor is mined elsewhere is
not looked at again. A transaction sent again while its first submission is queued or
being added is queued too (`pending.ts:141`), and both may end in the pool when the
memory of submissions (`pending.ts:87`) is over. The error of `getNonce` is ignored (`pending.ts:228`).
`PoolFollowsTip` is therefore about the *set* of nonces, not their order.

**DBFT.** A late vote sets the view back (`consensus_node.ts:438`); a view that is
entered twice gets two proposals and two signatures of one node; a stale block may
be proposed in another view, as `newProposal` does not look; `changeViewSent` is
left by the next timer without votes; nodes forget what they signed when the view
changes, so with time-outs two blocks of a height can be mined although
`dbft_chain/chain.ts:243` calls the tip irreversible; `updateMiners` keeps the tail
of the candidates (`context.ts:214`).

**Block download.** `chain_node.ts:593` asserts that a pending block has sources.
When a source is lost, `_onRemoveConnection` (`697`) asks another one also for
blocks that a third peer was asked for. Such a block stays among the third peer's
hashes after the second one delivered it; when the third is lost it is pending
again, its sources deleted, and every later `_onFreeBlockWnd` stops at it (the
assertions of 650 and 660 fail in the same way, earlier). `_onFreeBlockWnd` asks
for one block even if the window is full; `blockTimeout` defaults to 10000 and is
compared with seconds; an assertion that fails in `requestBlocks` rejects
`_addHeaders`, whose queue then never goes on.

**Chain.** A connection is continued by both loops when the last block of a batch is
finished while its headers are found verified (`chain.ts:1186`, `996`, `1072`); the
answer to the second request bans the peer (`chain_node.ts:614`). A failure of the
node itself is taken for an invalid block (`chain.ts:1155`), which stays marked.
The header cache is emptied before the UPDATE (`header_storage.ts:319`): the header
of a mined fork block that is read meanwhile stays cached with its old state, and a
block built on it would be passed over; no peer is told of such a block, so that
`FollowsPeer` holds all the same. The rollback of a failed `changeBest` also takes back a header that was
saved meanwhile, so that a best row may be above a missing header row. A
connection whose block is bad may be left as it is rather than banned. After a
crash between `changeBest` and `saveMiners` (`chain.ts:1252-1257`) a DPOS node has a tip
without its miners.

**Snapshots.** A rebuild that starts from a dump still being made copies half of it;
a crash leaves such a file listed as good; waiters of a `getSnapshot` that failed
wait for ever (`storage_manager.ts:153`); a dump found and then recycled leaves a dead
view behind; `createSnapshot` sets the count of a present entry to 0
(`log_snapshot_manager.ts:92`); the set to keep is not cleared, so that `_morkSnapshot`
begins again without an await and freezes the process (`chain.ts:737`); the promise of a
redo whose replay throws never settles.

**Execution.** After a rollback, handles fetched before it write into objects that
are no longer in the tree; the votes a DPOS block records later through one are
lost. Between the await of the storage and its use, the miner's context may be
another's or gone (`miner.ts:221`). Filters of block listeners are promises and
always true (`executor/handler.ts`). `SqliteStorage` cannot begin a transaction (its
database for them is commented out, `storage.ts:443`), though the chain uses it
(`chain.ts:401`); `Execute` models `JsonStorage`. A redo log declares its variables in
a block of their own. Nothing listens for the exit of a routine's process
(`interprocess_routine.ts:414`): one that is killed or dies never resolves, a cancel
during `prepareExternParams` kills nothing, and a message that cannot be sent leaves
the child on a storage the parent removes.

**Stores and values.** `lpush` on two or more rows of SQLite meets unique(name, field)
and fails half-way, as does `lpushx` of fewer values than rows; `hclean` does not
quote its table's name and always fails; negative or too large indexes and missing
keys are answered differently by the two stores; `toJsonStorage` has a typing error
in its SQL. `undefined`, `NaN` and maps are not kept, and a key or string
with an apostrophe breaks the statement or the log's expression it is put in.

**DPOS.** `getValidCandidates` (`consensus.ts:231`) compares with `>= NoBan` and
excludes nobody; the options are checked as `minCreateor` and read as `minCreator`;
`buildChainStateOnFork` files a state under the crossing header and goes on changing
it; its loop need not end when a block is received again; the constructor pairs the
number 0 with the irreversible block's hash; `numbers.sort()` sorts by digits;
`confirmInfo.unshift()` does nothing; `prepareExternParams` takes the irreversible block
of the node's best branch, not of the executed one; errors of `updateBestChainTip` are
overwritten; a delayed miner that mines again is still banned, and a ban's end is
overwritten by a delay. That two thirds of the miners also *imply* a confirmed block
holds in rounds of 2 and fails in rounds of 3. `LRUCache` never drops an evicted key
from its map and its list drifts.

**Peers.** `net_tcp/node.ts:43` removes every error listener of the socket,
`TcpConnection`'s own included, so that an outbound connection that fails stays on the lists. A peer of
another genesis is closed without a word, and the dial is never answered. The error
of a failed dial makes the chain forget a peer that has another live
connection. `isBan` is inverted for bans with an end, and `ban` inserts at the wrong
place. `Version.compare` has a typing error, and its random number is not
transmitted. The reader goes on after a wrong magic (`reader.ts:68`).

## 6. Not modelled, and the plan

Left out for good: the HTTP and RPC layers and the client, the unused list of
`sl_list.ts`, the codecs, hashes and containers of `core/lib` except cache and
lock, proof of work (a search over hashes and arithmetic on difficulty), the chain
creator and debugger, the examples. Left out so far: DPOS-BFT (signatures of tips,
over the states of `Dpos`).

Modelled in part. *Task list*: as sequences, not as pointers. *DBFT*: all nodes start
at view 0 of the same tip, executions succeed, one validator set; candidates,
elections and the header storage are left out. *Block miner*: without the genesis
block. *Chain node*: block download only. *Chain*: without the views for
clients; peers are honest but for invalid blocks. *Snapshots*: redo logs are
local, header reads succeed. *Executor*: views are pure reads; the script
`routine/executor_routine.js` of a child is not in the repository, and is taken to do
what `interprocess_routine.ts` offers for it. *Stores*: files, digests and
`toJsonStorage` are left out. *Peers*: back-pressure of the writer, broadcast, option
parsing and the creation of networks are left out, and so is the random choice among
more static peers than are needed.

Composition by promise. `ChainSync` takes a block's arrival from `BlockFetch` and its
verification as a free choice of valid, invalid or failed; `Snapshots` takes the tip as
a choice among verified blocks; `Execute` takes the order of blocks from the miner's
callers. Their joint state space is beyond an explicit-state checker; what each
assumes of the other is named above.

What is left is the proof of `RecordsMatchMiners` and of `LibIsConfirmed`, which both need
an invariant of the tip states: that what they keep of a block is so on the block's branch,
whichever state a fork was built from. That a delayed producer is a miner
(`DelayedAreMiners`) takes besides that the irreversible block is on the branch of the block
whose election reads it.

`HeaderStorage`, the largest state, stays with TLC, and `ChainSync` with it.
