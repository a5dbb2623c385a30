------------------------------ MODULE Pending ------------------------------
(***************************************************************************)
(* The pool of pending transactions of a value chain node:                 *)
(* PendingTransactions (core/chain/pending.ts) as ValuePendingTransactions *)
(* (core/value_chain/pending.ts) extends it.                               *)
(*                                                                         *)
(* Operations wait in m_queueOpt and _addPendingOpt performs one at a time *)
(* (m_currAdding).  Adding a transaction awaits five reads: the value is   *)
(* fetched when the call is made and used when the await resumes, and      *)
(* submissions and new tips come in between.  A step is the code from one  *)
(* await to the next.  The state of the chain at a tip is the set of the   *)
(* transactions executed up to it; reorganisations are allowed.            *)
(*                                                                         *)
(* What the containers hold are the objects {tx, ct} addTransaction makes, *)
(* one for each submission, with an age of its own.  A transaction sent    *)
(* again is another submission of the same hash.                           *)
(***************************************************************************)
EXTENDS Integers, SequencesExt

CONSTANTS Address,
          Tx,                \* the submissions of transactions
          Hash,              \* the hash of a submission's transaction
          From, Nonce, Fee,  \* attributes of a transaction, as functions
          Cost,              \* its value plus its fee
          Funds,             \* balance of an address before its transactions
          MayExpire,         \* submissions that may outlive m_txLiveTime
          MaxCount,          \* m_maxPengdingCount
          MaxTips,           \* bound on new tips
          MaxFault           \* bound on failed storage reads

TipOpt == "updateTip"  \* the queued operation; the others are transactions
None == "none"         \* m_currAdding is undefined

ASSUME PoolConstants ==
    /\ IsFiniteSet(Address) /\ TipOpt \notin Tx /\ None \notin Tx
    /\ From \in [Tx -> Address]
    /\ \A t, u \in Tx : Hash[t] = Hash[u] =>
          <<From[t], Nonce[t], Fee[t], Cost[t]>> = <<From[u], Nonce[u], Fee[u], Cost[u]>>
    /\ Nonce \in [Tx -> Nat] /\ Fee \in [Tx -> Nat] /\ Cost \in [Tx -> Nat]
    /\ Funds \in [Address -> Nat] /\ MayExpire \subseteq Tx
    /\ MaxCount \in Nat /\ MaxTips \in Nat /\ MaxFault \in Nat

VARIABLES storageView,   \* m_storageView: transactions executed at the tip
          loading,       \* the snapshot updateTipBlock is awaiting, if any
          transactions,  \* m_transactions
          orphans,       \* m_orphanTx
          mapNonce,      \* m_mapNonce
          balances,      \* m_balance
          queueOpt,      \* m_queueOpt
          stage, cur,    \* the await _addTx of m_currAdding stands before
          old,           \* txOld: the transaction it replaces, if any
          val, read,     \* what the awaited call fetched; read from storage?
          expired,       \* transactions for which _isTimeout holds
          tips, faults

chain == <<storageView, loading, tips>>
awaited == <<stage, cur, val, read>>
poolVars == <<chain, transactions, orphans, mapNonce, balances, queueOpt,
              awaited, old, expired, faults>>

\* The code's maps by address.
Empty == [a \in {} |-> 0]
Put(m, a, n) == [b \in {a} \cup DOMAIN m |-> IF b = a THEN n ELSE m[b]]

Total(f) == MapThenSumSet(LAMBDA x : f[x], DOMAIN f)
CostOf(S) == Total([t \in S |-> Cost[t]])

SentBy(S, a) == {t \in S : From[t] = a}
StorageNonce(S, a) == Cardinality(SentBy(S, a)) - 1
StorageBalance(S, a) == Funds[a] - CostOf(SentBy(S, a))

\* The transactions a chain can have executed (executor/transaction.ts): each
\* address's nonces count up from 0, and it can pay.
Chains ==
    {S \in SUBSET Tx : IsFiniteSet(S) /\ \A a \in Address :
        /\ {Nonce[t] : t \in SentBy(S, a)} = 0..StorageNonce(S, a)
        /\ StorageBalance(S, a) >= 0}

\* A new tip waits at the head of the queue, before the transactions.
HasTip(queue) == queue # <<>> /\ Head(queue) = TipOpt
WithoutTip(queue) == IF HasTip(queue) THEN Tail(queue) ELSE queue

Orphans == UNION {ToSet(orphans[a]) : a \in Address}
Queued == ToSet(WithoutTip(queueOpt))
Adding == IF stage \in {"timeout", "storageNonce", "nonce", "check"} THEN {cur} ELSE {}
Known == ToSet(transactions) \cup Orphans \cup Queued \cup Adding

\* The pool's containers hold transactions; m_currAdding is set exactly while
\* _addPendingOpt stands before one of the awaits, or the queue would never be
\* taken up again.
PoolTypeOK ==
    /\ storageView \in Chains /\ loading \in SUBSET Chains
    /\ transactions \in Seq(Tx)
    /\ orphans \in [Address -> Seq(Tx)]
    /\ DOMAIN mapNonce \subseteq Address /\ DOMAIN balances \subseteq Address
    /\ queueOpt \in Seq(Tx \cup {TipOpt}) /\ Queued \subseteq Tx
    /\ stage \in {"idle", "timeout", "storageNonce", "nonce", "check", "added", "scan"}
    /\ cur \in Tx \cup {None} /\ (cur = None <=> stage = "idle")
    /\ old \in SUBSET Tx
    /\ val \in Int /\ read \in BOOLEAN
    /\ expired \subseteq MayExpire
    /\ tips \in 0..MaxTips /\ faults \in 0..MaxFault

PoolInit ==
    /\ storageView \in Chains /\ loading = {} /\ tips = 0
    /\ transactions = <<>> /\ queueOpt = <<>>
    /\ orphans = [a \in Address |-> <<>>]
    /\ mapNonce = Empty /\ balances = Empty
    /\ stage = "idle" /\ cur = None /\ old = {}
    /\ val = 0 /\ read = FALSE
    /\ expired = {} /\ faults = 0

----------------------------------------------------------------------------
\* Calls made before an await

\* getStorageNonce, getNonce and getBalance: the view, or the map's entry if it
\* has one, as it is when the call is made.
CallStorageNonce(t) ==
    /\ val' = StorageNonce(storageView', From[t])
    /\ read' = TRUE

CallNonce(m, a) ==
    /\ val' = IF a \in DOMAIN m THEN m[a] ELSE StorageNonce(storageView, a)
    /\ read' = (a \notin DOMAIN m)

CallBalance(a) ==
    /\ val' = IF a \in DOMAIN balances THEN balances[a]
                                       ELSE StorageBalance(storageView, a)
    /\ read' = (a \notin DOMAIN balances)

\* The await resumes with an error: only storage fails.
ReadFails ==
    /\ read /\ faults < MaxFault
    /\ faults' = faults + 1

----------------------------------------------------------------------------
\* The queue of operations

\* Mutant: a new tip leaves the pool as it is.
Run_NoRequeue(queue, pool, nonces) ==
    LET tip == HasTip(queue)
        rest == WithoutTip(queue)
    IN  /\ transactions' = pool
        /\ mapNonce' = IF tip THEN Empty ELSE nonces
        /\ old' = {}
        /\ IF rest = <<>>
           THEN /\ stage' = "idle" /\ queueOpt' = <<>>
                /\ cur' = None /\ val' = 0 /\ read' = FALSE
           ELSE /\ cur' = Head(rest) /\ queueOpt' = Tail(rest)
                /\ stage' = IF cur' \in expired' THEN "timeout" ELSE "storageNonce"
                /\ CallStorageNonce(cur')

\* Mutant: m_currAdding is not reset.
Run_KeepsCurrent(queue, pool, nonces) ==
    LET tip == HasTip(queue)
        rest == (IF tip THEN pool ELSE <<>>) \o WithoutTip(queue)
    IN  /\ transactions' = IF tip THEN <<>> ELSE pool
        /\ mapNonce' = IF tip THEN Empty ELSE nonces
        /\ old' = {}
        /\ IF rest = <<>>
           THEN /\ stage' = "idle" /\ queueOpt' = <<>>
                /\ UNCHANGED cur /\ val' = 0 /\ read' = FALSE
           ELSE /\ cur' = Head(rest) /\ queueOpt' = Tail(rest)
                /\ stage' = IF cur' \in expired' THEN "timeout" ELSE "storageNonce"
                /\ CallStorageNonce(cur')

\* The loop of _addPendingOpt takes the next operation of the queue.  A new tip
\* forgets the nonces and puts the whole pool back into the queue, before the
\* transactions that wait there.
Run(queue, pool, nonces) ==
    LET tip == HasTip(queue)
        rest == (IF tip THEN pool ELSE <<>>) \o WithoutTip(queue)
    IN  /\ transactions' = IF tip THEN <<>> ELSE pool
        /\ mapNonce' = IF tip THEN Empty ELSE nonces
        /\ old' = {}
        /\ IF rest = <<>>
           THEN /\ stage' = "idle" /\ queueOpt' = <<>>
                /\ cur' = None /\ val' = 0 /\ read' = FALSE
           ELSE /\ cur' = Head(rest) /\ queueOpt' = Tail(rest)
                /\ stage' = IF cur' \in expired' THEN "timeout" ELSE "storageNonce"
                /\ CallStorageNonce(cur')

\* _addPendingOpt: queue the operation; the loop starts unless it is running.
AddPendingOpt(queue) ==
    IF cur = None
    THEN Run(queue, transactions, mapNonce)
    ELSE queueOpt' = queue /\ UNCHANGED <<transactions, mapNonce, awaited, old>>

\* _addTx returns and changes nothing more.
Return == Run(queueOpt, transactions, mapNonce)

OrphanCount(orph) == Total([a \in Address |-> Len(orph[a])])
PendingCount == Len(transactions) + OrphanCount(orphans)

HasRoom == PendingCount + Len(queueOpt) < MaxCount

\* _isExist looks for the hash in the pool and in the sender's orphans, and
\* neither in the queue nor at the transaction being added.
IsExist(t) ==
    \E u \in ToSet(transactions) \cup ToSet(orphans[From[t]]) : Hash[u] = Hash[t]

\* addTransaction makes a new object for each call.  Within two minutes of a
\* submission m_txRecord may refuse the next one of that hash: time is left out,
\* and it forgets any hash sooner when many come.
AddTransaction(t) ==
    /\ HasRoom /\ ~IsExist(t)
    /\ t \notin Known
    /\ expired' = expired \ {t}
    /\ UNCHANGED <<chain, orphans, balances, faults>>
    /\ AddPendingOpt(Append(queueOpt, t))

\* updateTipBlock forgets the balances at once and awaits the snapshot...
UpdateTipBlock(S) ==
    /\ loading = {} /\ tips < MaxTips
    /\ tips' = tips + 1
    /\ loading' = {S}
    /\ balances' = Empty
    /\ UNCHANGED <<storageView, transactions, orphans, mapNonce, queueOpt,
                   awaited, old, expired, faults>>

\* ... then replaces the view and queues the update first, in the place of one
\* that has not been performed.
TipLoaded ==
    /\ loading # {} /\ loading' = {}
    /\ UNCHANGED <<tips, orphans, balances, expired>>
    /\ \/ /\ storageView' \in loading
          /\ UNCHANGED faults
          /\ AddPendingOpt(<<TipOpt>> \o WithoutTip(queueOpt))
       \/ /\ faults < MaxFault /\ faults' = faults + 1
          /\ UNCHANGED <<storageView, transactions, mapNonce, queueOpt, awaited, old>>

----------------------------------------------------------------------------
\* _addTx, from await to await

TimedOut ==
    /\ stage = "timeout"
    /\ UNCHANGED <<chain, orphans, balances, expired, faults>>
    /\ Return

\* The storage nonce has come: older transactions are dropped.
GotStorageNonce ==
    /\ stage = "storageNonce"
    /\ UNCHANGED <<chain, orphans, balances, expired>>
    /\ \/ Nonce[cur] <= val /\ UNCHANGED faults /\ Return
       \/ /\ Nonce[cur] > val
          /\ stage' = "nonce" /\ CallNonce(mapNonce, From[cur])
          /\ UNCHANGED <<transactions, mapNonce, queueOpt, cur, old, faults>>
       \/ ReadFails /\ Return

\* _checkSmallNonceTx, or the other one has timed out
Replaces(t, u) == u \in expired \/ Fee[t] > Fee[u]

\* _addToOrphanMayNonceExist: insert by nonce, or replace.
OrphansWith(l, t) ==
    LET same == {i \in 1..Len(l) : Nonce[l[i]] = Nonce[t]}
        before == {i \in 1..Len(l) : Nonce[l[i]] < Nonce[t]}
    IN  IF same = {} THEN InsertAt(l, Cardinality(before) + 1, t)
        ELSE [i \in 1..Len(l) |->
                IF i \in same /\ Replaces(t, l[i]) THEN t ELSE l[i]]

AddToOrphan(t) ==
    LET a == From[t]
    IN  orphans' = [orphans EXCEPT ![a] = OrphansWith(orphans[a], t)]

\* The places in the pool of transactions with the address and nonce of t: the
\* code takes the first.
Rivals(t) == {i \in 1..Len(transactions) :
                From[transactions[i]] = From[t] /\ Nonce[transactions[i]] = Nonce[t]}

\* The pool's nonce has come.  When that read fails the code goes on with an
\* undefined nonce, which compares false with everything.
GotNonce ==
    LET first == transactions[Min(Rivals(cur))]
        Check(replaced) ==
            /\ old' = replaced
            /\ stage' = "check" /\ CallBalance(From[cur])
            /\ UNCHANGED <<transactions, mapNonce, queueOpt, cur>>
        MayNonceExist ==
            IF Rivals(cur) # {} /\ Replaces(cur, first) THEN Check({first}) ELSE Return
    IN  /\ stage = "nonce"
        /\ UNCHANGED <<chain, balances, expired>>
        /\ \/ /\ Nonce[cur] = val + 1 /\ Check({})
              /\ UNCHANGED <<orphans, faults>>
           \/ /\ Nonce[cur] > val + 1
              /\ AddToOrphan(cur) /\ Return /\ UNCHANGED faults
           \/ /\ Nonce[cur] <= val /\ MayNonceExist
              /\ UNCHANGED <<orphans, faults>>
           \/ ReadFails /\ MayNonceExist /\ UNCHANGED orphans

\* _addToQueue: the loop overwrites pos, so the last transaction alone decides,
\* and the place of a replaced transaction is not kept.
AddToQueue(pool, t) ==
    LET n == Len(pool)
        After(u) == IF From[u] = From[t] THEN Nonce[u] < Nonce[t] ELSE Fee[u] >= Fee[t]
    IN  InsertAt(pool, IF n = 0 THEN 1 ELSE IF After(pool[n]) THEN n + 1 ELSE n, t)

OldCost == CostOf(old)

\* The pool after txOld has been spliced out, if there is one.
PoolWithoutOld ==
    IF old = {} THEN transactions ELSE RemoveAt(transactions, Min(Rivals(cur)))

\* Mutant: the replaced transaction is removed before the balance is checked.
GotCheckBalance_DropsFirst ==
    /\ stage = "check"
    /\ UNCHANGED <<chain, orphans, balances, expired>>
    /\ \/ val < Cost[cur] - OldCost /\ UNCHANGED faults
          /\ Run(queueOpt, PoolWithoutOld, mapNonce)
       \/ /\ val >= Cost[cur] - OldCost
          /\ transactions' = AddToQueue(PoolWithoutOld, cur)
          /\ stage' = "added" /\ CallBalance(From[cur])
          /\ UNCHANGED <<mapNonce, queueOpt, cur, old, faults>>
       \/ ReadFails /\ Return

\* _onCheck has the balance: the transaction enters the pool if it can be paid.
GotCheckBalance ==
    /\ stage = "check"
    /\ UNCHANGED <<chain, orphans, balances, expired>>
    /\ \/ val < Cost[cur] - OldCost /\ UNCHANGED faults /\ Return
       \/ /\ val >= Cost[cur] - OldCost
          /\ transactions' = AddToQueue(PoolWithoutOld, cur)
          /\ stage' = "added" /\ CallBalance(From[cur])
          /\ UNCHANGED <<mapNonce, queueOpt, cur, old, faults>>
       \/ ReadFails /\ Return

\* _onAddedTx has the balance.  It does not pass txOld on, so a replacement
\* sets the nonce as well; the orphans are looked at only without one.
GotBalance ==
    LET a == From[cur]
        Then(nonces) ==
            IF old # {} THEN Run(queueOpt, transactions, nonces)
            ELSE /\ stage' = "scan" /\ CallNonce(nonces, a)
                 /\ mapNonce' = nonces
                 /\ UNCHANGED <<transactions, queueOpt, cur, old>>
    IN  /\ stage = "added"
        /\ UNCHANGED <<chain, orphans, expired>>
        /\ \/ /\ balances' = Put(balances, a, val + OldCost - Cost[cur])
              /\ UNCHANGED faults
              /\ Then(Put(mapNonce, a, Nonce[cur]))
           \/ ReadFails /\ UNCHANGED balances /\ Then(mapNonce)

\* _scanOrphan: drop what has timed out, queue the orphan that comes next.
ScanOrphan ==
    LET a == From[cur]
        l == orphans[a]
        live == {i \in 1..Len(l) : l[i] \notin expired}
        rest == IF live = {} THEN <<>> ELSE SubSeq(l, Min(live), Len(l))
        next == rest # <<>> /\ Nonce[rest[1]] = val + 1
    IN  /\ stage = "scan"
        /\ UNCHANGED <<chain, balances, expired>>
        /\ \/ /\ orphans' = [orphans EXCEPT ![a] = IF next THEN Tail(rest) ELSE rest]
              /\ UNCHANGED faults
              /\ Run(IF next THEN Append(queueOpt, rest[1]) ELSE queueOpt,
                     transactions, mapNonce)
           \/ ReadFails /\ orphans' = [orphans EXCEPT ![a] = rest] /\ Return

----------------------------------------------------------------------------

\* m_txLiveTime passes for a submission.
Expire(t) ==
    /\ t \in Known \ expired
    /\ expired' = expired \cup {t}
    /\ UNCHANGED <<chain, transactions, orphans, mapNonce, balances, queueOpt,
                   awaited, old, faults>>

Work == \/ TimedOut \/ GotStorageNonce \/ GotNonce \/ GotCheckBalance
        \/ GotBalance \/ ScanOrphan

PoolNext == \/ \E t \in Tx : AddTransaction(t)
        \/ \E t \in MayExpire : Expire(t)
        \/ \E S \in Chains \ {storageView} : UpdateTipBlock(S)
        \/ TipLoaded \/ Work

PoolSpec == PoolInit /\ [][PoolNext]_poolVars

\* Storage reads come back.
PoolFairSpec == PoolSpec /\ WF_poolVars(Work) /\ WF_poolVars(TipLoaded)

----------------------------------------------------------------------------
\* Properties

\* When nothing is in flight the pool can be executed on the tip: each
\* address's nonces follow the chain's without a gap and none has been mined,
\* whatever tips, reorganisations, time-outs and replacements came in between
\* the awaits of what was being added.
PoolFollowsTip ==
    stage = "idle" => \A a \in Address :
        LET nonces == {Nonce[t] : t \in SentBy(ToSet(transactions), a)}
            top == StorageNonce(storageView, a) + Cardinality(nonces)
        IN  nonces = (StorageNonce(storageView, a) + 1)..top

\* m_maxPengdingCount bounds the pool with its orphans and its queue; only the
\* transaction being added is not counted (pending.ts 81).
PoolBounded ==
    PendingCount + Len(WithoutTip(queueOpt)) + Cardinality(Adding) <= MaxCount + 1

\* A submission is in one place only, so none is added twice, however the pool
\* is taken apart and queued again, replaced and scanned between the awaits; the
\* orphans of an address have one transaction of a nonce.  Two submissions of a
\* hash may be in different places, and both in the pool.
InOnePlace ==
    /\ IsInjective(transactions) /\ IsInjective(WithoutTip(queueOpt))
    /\ \A a \in Address : IsInjective(orphans[a])
    /\ \A a \in Address : \A t, u \in ToSet(orphans[a]) : Nonce[t] = Nonce[u] => t = u
    /\ \A a, b \in Address : ToSet(orphans[a]) \cap ToSet(orphans[b]) # {} => a = b
    /\ ToSet(transactions) \cap (Orphans \cup Queued \cup Adding) = {}
    /\ Orphans \cap (Queued \cup Adding) = {}
    /\ Queued \cap Adding = {}

\* A transaction leaves the pool only to be looked at again under a new tip, or
\* for one of the same address and nonce that pays more or came after its time.
LeavesForAReason ==
    [][\A t \in ToSet(transactions) \ ToSet(transactions)' :
        \/ t \in ToSet(queueOpt)'
        \/ t = cur' /\ stage' \in {"timeout", "storageNonce"}
        \/ \E u \in ToSet(transactions)' :
            /\ From[u] = From[t] /\ Nonce[u] = Nonce[t] /\ Replaces(u, t)]_poolVars

\* Whatever is queued is dealt with, however often new tips refill the queue.
QueueDrains == \A t \in Tx : t \in ToSet(queueOpt) ~> t \notin ToSet(queueOpt)

\* The pool is what a block can be made of, each transaction once, and bounded.
PoolIsSound == PoolTypeOK /\ PoolFollowsTip /\ PoolBounded /\ InOnePlace
=============================================================================
