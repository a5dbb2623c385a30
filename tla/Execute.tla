------------------------------- MODULE Execute -------------------------------
(***************************************************************************)
(* The execution of blocks: the miner that starts and cancels routines     *)
(* (core/chain/miner.ts, inprocess_routine.ts), the block and transaction  *)
(* executors of a value chain (core/executor, core/value_chain), and the   *)
(* storage they work on with its redo log (storage_json, storage/logger.ts,*)
(* js_log.ts).                                                             *)
(*                                                                         *)
(* A key-value object is a handle on the object of the storage's tree it   *)
(* was fetched from.  A rollback puts copies of the tree's objects in      *)
(* their place: a handle fetched before it goes on reading and writing the *)
(* object that is no longer in the tree.  heap holds every object there    *)
(* was, the last one is in the tree; a handle is an index of heap and the  *)
(* number of the variable that names it in the redo log.                   *)
(***************************************************************************)
EXTENDS Integers, Sequences, FiniteSets, SequencesExt, FiniteSetsExt

CONSTANTS
    None,        \* no routine, no payee
    Account,     \* the addresses of the users
    Sys,         \* ValueChain.sysAddress
    Coinbase,    \* whom the fees and the wage go to
    Balance,     \* the balances of the genesis
    Wage,        \* the wage of a block
    Content,     \* the blocks there are to execute
    Name,        \* the names of the routines, one each
    MaxHeight    \* bound: blocks of the chain

\* A transaction, with whom its listener pays, what it spends and if it succeeds.
Tx == [from : Account, nonce : Int, value : Int, fee : Int, pays : Account \cup {None},
       cost : Int, ok : BOOLEAN]

ASSUME ExecuteAssumption ==
    /\ IsFiniteSet(Account) /\ Coinbase \in Account /\ Sys \notin Account
    /\ Balance \in [Account \cup {Sys} -> Nat] /\ Wage \in Nat /\ MaxHeight \in Nat
    /\ Content \subseteq [event : {"none", "ok", "fail"}, txs : Seq(Tx)]
    /\ None \notin Name

\* Nobody sends, offers or spends less than nothing: what the executors take for
\* granted, and do not look at.
NaturalAmounts ==
    \A c \in Content : \A i \in DOMAIN c.txs :
        {c.txs[i].value, c.txs[i].fee, c.txs[i].cost} \subseteq Nat

VARIABLES
    chain,    \* the tip's state, its height and the transactions below it
    miner,    \* m_state and m_stateContext
    routine   \* name -> the routine

vars == <<chain, miner, routine>>

Holder == Account \cup {Sys}

-----------------------------------------------------------------------------
(* JsonStorage and the logger around it.                                   *)

\* A storage opened on a state, with its logger: nothing is fetched or logged yet.
NewStorage(state) == [heap |-> <<state>>, saved |-> state, log |-> <<>>, var |-> 0]

Live(s) == Last(s.heap)

Logged(s, entry) == [s EXCEPT !.log = Append(@, entry)]

\* getReadWritableKeyValue: a handle on the object that is in the tree.
Fetch(s) == [Logged(s, [op |-> "fetch", var |-> s.var]) EXCEPT !.var = @ + 1]
Handle(s) == [obj |-> Len(s.heap), var |-> s.var]

\* kv.set through a handle, logged first.
Put(s, h, table, key, value) ==
    [Logged(s, [op |-> "set", var |-> h.var, table |-> table, key |-> key, value |-> value])
        EXCEPT !.heap[h.obj][table][key] = value]

BeginTx(s) == [Logged(s, [op |-> "begin"]) EXCEPT !.saved = Live(s)]
CommitTx(s) == Logged(s, [op |-> "commit"])

\* Mutant: a rollback that is not logged.
RollbackTx_Unlogged(s) == [s EXCEPT !.heap = Append(@, s.saved)]

\* JsonStorageTransaction.rollback: the saved copies take the objects' place.
RollbackTx(s) == [Logged(s, [op |-> "rollback"]) EXCEPT !.heap = Append(@, s.saved)]

\* One line of the redo log evaluated on a storage; bound gives the object each
\* variable was fetched from.
Replayed(r, e) ==
    CASE e.op = "fetch"    -> [r EXCEPT !.bound = Append(@, Len(r.heap))]
      [] e.op = "set"      -> [r EXCEPT !.heap[r.bound[e.var + 1]][e.table][e.key] = e.value]
      [] e.op = "begin"    -> [r EXCEPT !.saved = Last(r.heap)]
      [] e.op = "commit"   -> r
      [] e.op = "rollback" -> [r EXCEPT !.heap = Append(@, r.saved)]

\* JStorageLogger.redoOnStorage on a storage that holds state.
Redo(state, log) ==
    Last(FoldLeft(Replayed, [heap |-> <<state>>, saved |-> state, bound |-> <<>>], log).heap)

-----------------------------------------------------------------------------
(* Context of a value chain: balances through one handle.                  *)

BalanceOf(s, h, a) == s.heap[h.obj].bal[a]

\* Mutant: the receiver's balance is read before the sender's is written.
Transfer_ReadsFirst(s, h, from, to, amount) ==
    IF BalanceOf(s, h, from) < amount THEN [s |-> s, err |-> TRUE]
    ELSE LET paid == Put(s, h, "bal", from, BalanceOf(s, h, from) - amount) IN
         [s |-> Put(paid, h, "bal", to, BalanceOf(s, h, to) + amount), err |-> FALSE]

\* transferTo: [s, err].
Transfer(s, h, from, to, amount) ==
    IF BalanceOf(s, h, from) < amount THEN [s |-> s, err |-> TRUE]
    ELSE LET paid == Put(s, h, "bal", from, BalanceOf(s, h, from) - amount) IN
         [s |-> Put(paid, h, "bal", to, BalanceOf(paid, h, to) + amount), err |-> FALSE]

\* executeMinerWageEvent
IssueWage(s) ==
    LET f == Fetch(s) IN
    Put(f, Handle(s), "bal", Coinbase, BalanceOf(f, Handle(s), Coinbase) + Wage)

\* EventExecutor.execute: the listener pays nothing; when it fails its
\* transaction is rolled back.
ExecuteEvent(s, event) ==
    CASE event = "none" -> s
      [] event = "ok"   -> CommitTx(BeginTx(s))
      [] event = "fail" -> RollbackTx(BeginTx(s))

-----------------------------------------------------------------------------
(* ValueTransactionExecutor.execute                                        *)

\* _dealNonce: the nonce counts whatever becomes of the transaction.
DealNonce(s, tx) == Put(Fetch(s), Handle(s), "nonce", tx.from, tx.nonce)

\* context.cost: what the listener may spend is bounded by the fee.
Cost(tx) == IF tx.cost > tx.fee THEN tx.fee ELSE tx.cost

\* The listener: it spends, pays what it was sent on to someone through the
\* handle the block was begun with, and succeeds or not.
Listen(s, ext, tx) ==
    IF tx.cost > tx.fee THEN [s |-> s, err |-> TRUE]
    ELSE LET paid == IF tx.pays = None THEN [s |-> s, err |-> FALSE]
                     ELSE Transfer(s, ext, Sys, tx.pays, tx.value) IN
         [s |-> paid.s, err |-> paid.err \/ ~tx.ok]

\* What follows the nonce: the value goes to the system, the listener runs, its
\* writes are kept or not, and the cost goes to the coinbase.
ExecuteBody(s, ext, tx) ==
    LET kv   == Handle(s)
        f    == Fetch(s)
        sent == Transfer(BeginTx(f), kv, tx.from, Sys, tx.value)
        ran  == Listen(sent.s, ext, tx)
        kept == IF ran.err THEN RollbackTx(ran.s) ELSE CommitTx(ran.s)
        paid == Transfer(kept, kv, tx.from, Coinbase, Cost(tx)) IN
    IF BalanceOf(f, kv, tx.from) < tx.value + tx.fee
    THEN [s |-> f, err |-> FALSE, receipt |-> [code |-> "not enough", cost |-> 0]]
    ELSE [s |-> paid.s, err |-> paid.err,
          receipt |-> [code |-> IF ran.err THEN "failed" ELSE "ok", cost |-> Cost(tx)]]

\* Mutant: the nonce is set inside the transaction.
ExecuteTx_NonceInside(s, ext, tx) ==
    IF tx.nonce # Live(s).nonce[tx.from] + 1
    THEN [s |-> Fetch(s), err |-> TRUE, receipt |-> None]
    ELSE LET done == ExecuteBody(s, ext, tx) IN
         IF done.receipt.code # "ok" THEN done
         ELSE [done EXCEPT !.s = DealNonce(done.s, tx)]

\* A transaction whose nonce is not the next one is an error of the whole block.
ExecuteTx(s, ext, tx) ==
    IF tx.nonce # Live(s).nonce[tx.from] + 1
    THEN [s |-> Fetch(s), err |-> TRUE, receipt |-> None]
    ELSE ExecuteBody(DealNonce(s, tx), ext, tx)

-----------------------------------------------------------------------------
(* InprocessRoutine and Miner._createExecuteRoutine.                       *)

NoRoutine == [at |-> "none", content |-> None, parent |-> None, todo |-> <<>>,
              s |-> None, ext |-> None, receipts |-> <<>>, cancelSet |-> FALSE]

\* The state of the chain at a height: what the blocks of the chain made of it.
Init ==
    /\ chain = [state |-> [bal |-> Balance, nonce |-> [a \in Account |-> -1]],
                height |-> 0, txs |-> <<>>]
    /\ miner = [state |-> "idle", name |-> None, routine |-> None]
    /\ routine = [n \in Name |-> NoRoutine]

Idle == [state |-> "idle", name |-> None, routine |-> None]

\* _checkCancel: another routine has become the miner's.
Canceled(n) == miner.state = "idle" \/ miner.name # n

\* _setIdle
SetIdle(n) == IF Canceled(n) THEN miner ELSE Idle

\* _onCancel and InprocessRoutine.cancel: only a routine the context knows, and
\* only while the block is executed.
AfterCancel ==
    LET old == miner.routine IN
    IF miner.state # "executing" \/ old = None THEN routine
    ELSE IF routine[old].at = "ready" THEN [routine EXCEPT ![old].at = "finished"]
    ELSE [routine EXCEPT ![old].cancelSet = TRUE]

\* A block is to be made: the routine that was being executed is cancelled.
Create(n, c) ==
    /\ routine[n].at = "none"
    /\ \A k \in Name : k < n => routine[k].at # "none"
    /\ chain.height < MaxHeight
    /\ routine' = [AfterCancel EXCEPT ![n] =
          [NoRoutine EXCEPT !.at = "storage", !.content = c, !.todo = c.txs,
                            !.parent = [state |-> chain.state, height |-> chain.height]]]
    /\ miner' = [state |-> "executing", name |-> n, routine |-> None]
    /\ UNCHANGED chain

\* createStorage has answered.  The routine is put in the context that is there,
\* whoever's it is; there may be none any more.
StorageMade(n) ==
    /\ routine[n].at = "storage"
    /\ IF miner.state = "idle"
       THEN /\ routine' = [routine EXCEPT ![n].at = "thrown"]
            /\ UNCHANGED miner
       ELSE /\ routine' = [routine EXCEPT ![n].at = "ready",
                                          ![n].s = NewStorage(routine[n].parent.state)]
            /\ miner' = [miner EXCEPT !.routine = n]
    /\ UNCHANGED chain

\* createStorage has failed.
StorageFails(n) ==
    /\ routine[n].at = "storage"
    /\ routine' = [routine EXCEPT ![n].at = "failed"]
    /\ miner' = SetIdle(n)
    /\ UNCHANGED chain

\* Mutant: a failed routine leaves the miner as it was.
Fail_StaysBusy(n) ==
    /\ routine' = [routine EXCEPT ![n].at = "failed"]
    /\ UNCHANGED <<chain, miner>>

\* The end of a routine that made no block: its storage is removed.
Fail(n) ==
    /\ routine' = [routine EXCEPT ![n] = [NoRoutine EXCEPT !.at = "failed"]]
    /\ miner' = SetIdle(n)
    /\ UNCHANGED chain

\* execute: the handle of the listeners is fetched, the wage paid, the event run.
Start(n) ==
    LET s == routine[n].s IN
    /\ routine[n].at = "ready"
    /\ routine' = [routine EXCEPT ![n].at = "running",
                      ![n].s = ExecuteEvent(IssueWage(Fetch(s)), routine[n].content.event),
                      ![n].ext = Handle(s)]
    /\ UNCHANGED <<chain, miner>>

\* A routine that was cancelled before it began.
StartFinished(n) == routine[n].at = "finished" /\ Fail(n)

\* executeTransaction, or the end of a cancelled or failed execution.
RunTx(n) ==
    LET r == routine[n]
        done == ExecuteTx(r.s, r.ext, Head(r.todo)) IN
    /\ r.at = "running" /\ r.todo # <<>>
    /\ IF r.cancelSet \/ done.err THEN Fail(n)
       ELSE /\ routine' = [routine EXCEPT ![n].s = done.s, ![n].todo = Tail(@),
                                          ![n].receipts = Append(@, done.receipt)]
            /\ UNCHANGED <<chain, miner>>

\* The block is executed: it is mined if the routine is still the miner's.
Executed(n) ==
    LET r == routine[n] IN
    /\ r.at = "running" /\ r.todo = <<>>
    /\ IF r.cancelSet \/ Canceled(n) THEN Fail(n)
       ELSE /\ routine' = [routine EXCEPT ![n].at = "mining"]
            /\ miner' = [miner EXCEPT !.state = "mining", !.routine = None]
            /\ UNCHANGED chain

\* _mineBlock has answered: the miner is free before the block is saved.
Mined(n) ==
    /\ routine[n].at = "mining"
    /\ IF Canceled(n) THEN Fail(n)
       ELSE /\ routine' = [routine EXCEPT ![n].at = "saving"]
            /\ miner' = SetIdle(n)
            /\ UNCHANGED chain

\* _mineBlock has failed.
MineFails(n) == routine[n].at = "mining" /\ Fail(n)

\* createSnapshot and the header's save have answered: the chain takes the block,
\* unless it has grown in the meantime.
AddMinedBlock(n) ==
    LET r == routine[n] IN
    /\ r.at = "saving"
    /\ routine' = [routine EXCEPT ![n].at = "mined"]
    /\ chain' = IF r.parent.height < chain.height THEN chain
                ELSE [state |-> Live(r.s), height |-> chain.height + 1,
                      txs |-> chain.txs \o r.content.txs]
    /\ UNCHANGED miner

\* createSnapshot or the header's save has failed: the block is given up.
SaveFails(n) ==
    /\ routine[n].at = "saving"
    /\ routine' = [routine EXCEPT ![n].at = "failed"]
    /\ UNCHANGED <<chain, miner>>

\* What becomes of an executed block, by whichever manager.
Finish(n) == Mined(n) \/ MineFails(n) \/ AddMinedBlock(n) \/ SaveFails(n)

Work(n) == StorageMade(n) \/ Start(n) \/ StartFinished(n) \/ RunTx(n) \/ Executed(n) \/ Finish(n)

Next == \E n \in Name :
    \/ \E c \in Content : Create(n, c)
    \/ StorageFails(n)
    \/ Work(n)

Spec == Init /\ [][Next]_vars

-----------------------------------------------------------------------------
\* Where a routine may be while its miner has to wait for it; the phases
\* "preparing" and "waiting" are those of a routine in another process (Worker).
AtWork == {"storage", "ready", "finished", "running", "preparing", "waiting", "mining"}

State == [bal : [Holder -> Int], nonce : [Account -> Int]]

TypeOK ==
    /\ chain.state \in State /\ chain.height \in 0..MaxHeight
    /\ miner.state \in {"idle", "executing", "mining"} /\ (miner.state = "idle") = (miner.name = None)
    /\ miner.name \in Name \cup {None} /\ miner.routine \in Name \cup {None}
    /\ \A n \in Name : routine[n].at \in
          {"none", "saving", "mined", "failed", "thrown"} \cup AtWork

Total(bal) == MapThenSumSet(LAMBDA a : bal[a], Holder)

HasRun(n) == routine[n].at \in {"running", "mining", "saving", "mined"}

\* No transaction, wage or rollback makes or loses money: the balances in the
\* tree always add up to those of the genesis and a wage for every block,
\* although a transfer writes its two balances one after the other and may
\* write them into an object a rollback has taken out of the tree.  No balance
\* goes below zero, as long as no amount is.
MoneyConserved ==
    /\ Total(chain.state.bal) = Total(Balance) + chain.height * Wage
    /\ \A n \in Name : HasRun(n) =>
          /\ Total(Live(routine[n].s).bal) = Total(routine[n].parent.state.bal) + Wage
          /\ NaturalAmounts => \A a \in Holder : Live(routine[n].s).bal[a] >= 0

\* The transactions of a sequence that a sends.
SentBy(txs, a) == {i \in DOMAIN txs : txs[i].from = a}

\* Every transaction of the chain has used one nonce of its sender, whatever
\* became of it: a failed transaction's writes are taken back, its nonce stays,
\* so that it can never be executed a second time.
NoncesAreUsed ==
    \A a \in Account : chain.state.nonce[a] + 1 = Cardinality(SentBy(chain.txs, a))

\* Replaying a block's redo log on its parent's state gives the state the
\* execution gave: a snapshot rebuilt from logs is the one that was saved.  The
\* log names handles, not contents, and a rollback changes what they stand for.
RedoMatches ==
    \A n \in Name : HasRun(n) =>
        Redo(routine[n].parent.state, routine[n].s.log) = Live(routine[n].s)

\* The miner is never busy for a routine that has ended, so that it is free
\* again when its routine is: an execution that was replaced, cancelled or put
\* into another's context neither frees the miner of its successor nor leaves it
\* busy for ever.
MinerIsWorking ==
    miner.state # "idle" =>
        routine[miner.name].at \in AtWork
=============================================================================
