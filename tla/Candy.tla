------------------------------- MODULE Candy -------------------------------
(***************************************************************************)
(* The candy service: laGetCandy (lib/storage/dbapi/getcandy.ts) run by    *)
(* the write lane of the request queue, over the durable candy table       *)
(* (lib/storage/statusdb.ts) and the transfer the chain confirms later     *)
(* (api/transferto.ts, checkReceipt in api/common.ts).                     *)
(*                                                                         *)
(* Each await of the handler ends an atomic step.  The chain node is       *)
(* external: it hands out the candy account's next nonce, accepts a        *)
(* transfer only with that nonce and confirms accepted transfers at some   *)
(* later moment.                                                           *)
(***************************************************************************)
EXTENDS WRQueue, FiniteSets

CONSTANTS AddressOf,      \* [WriteTask -> address]
          TokenOf,        \* [WriteTask -> tokenName]: "s" for SYS, "empty" for
                          \* any other token; the candy is SYS all the same
          MaxPolls,       \* MAX_CONFIRM_TIMES
          MaxRpcFault,    \* bound on failed RPCs and lost replies
          MaxDbFault,     \* bound on failed statements on the candy table
          MaxCrash        \* bound on process crashes

ASSUME CandyConstants ==
    /\ IsFiniteSet(WriteTask) /\ TokenOf \in [WriteTask -> {"s", "empty"}] /\ MaxPolls \in Nat \ {0}
    /\ MaxRpcFault \in Nat /\ MaxDbFault \in Nat /\ MaxCrash \in Nat

VARIABLES pc,          \* where each request's handler is
          polls,       \* receipts asked for so far
          nonce,       \* nonce of the request's transfer
          reply,       \* what the client was told
          table,       \* durable: the candy table's rows, by primary key
          undone,      \* history: requests whose row has been deleted again
          pool,        \* chain: accepted transfers, not yet confirmed
          confirmed,   \* chain: confirmed transfers
          rpcFaults, dbFaults, crashes   \* failures so far

queue == <<list, running, finished>>
chain == <<pool, confirmed>>
faults == <<rpcFaults, dbFaults, crashes>>
candyVars == <<queue, pc, polls, nonce, reply, table, undone, chain, faults>>

\* getCandy requests, at most one task each.
Request == WriteTask

\* The primary key of the candy table: name and token.
Row(t) == <<AddressOf[t], TokenOf[t]>>
Rows == {Row(t) : t \in Request}

\* "check" .. "undo": the await the handler is about to perform; "answer": the
\* DELETE is done; "stuck": waits for a promise nothing resolves; "lost": died
\* in a crash
Place == {"check", "insert", "nonce", "send", "poll", "undo", "answer",
          "stuck", "done", "lost"}

\* The handlers' places, counters and replies, the candy table and the chain's
\* transfers have their types; a receipt is asked for at most MaxPolls times.
CandyTypeOK ==
    /\ TypeOK
    /\ pc \in [Request -> Place]
    /\ polls \in [Request -> 0..MaxPolls]
    /\ nonce \in [Request -> 0..Cardinality(Request)]
    /\ reply \in [Request -> {"none", "success", "already", "failed"}]
    /\ table \subseteq Rows /\ undone \subseteq Request
    /\ pool \subseteq Request /\ confirmed \subseteq Request
    /\ rpcFaults \in 0..MaxRpcFault /\ dbFaults \in 0..MaxDbFault
    /\ crashes \in 0..MaxCrash

CandyInit ==
    /\ Init
    /\ pc = [t \in Request |-> "check"]
    /\ polls = [t \in Request |-> 0]
    /\ nonce = [t \in Request |-> 0]
    /\ reply = [t \in Request |-> "none"]
    /\ table = {} /\ undone = {} /\ pool = {} /\ confirmed = {}
    /\ rpcFaults = 0 /\ dbFaults = 0 /\ crashes = 0

----------------------------------------------------------------------------
\* Failures

RpcFails ==
    /\ rpcFaults < MaxRpcFault
    /\ rpcFaults' = rpcFaults + 1
    /\ UNCHANGED <<dbFaults, crashes>>

DbFails ==
    /\ dbFaults < MaxDbFault
    /\ dbFaults' = dbFaults + 1
    /\ UNCHANGED <<rpcFaults, crashes>>

----------------------------------------------------------------------------
\* Steps of one handler

\* The queue has called the handler of t and it stands before await p.
At(t, p) == t \in running /\ pc[t] = p

Goto(t, p) == pc' = [pc EXCEPT ![t] = p]

\* Mutant: every reply says success.
ReplyWith_Success(t, r) ==
    /\ Goto(t, "done")
    /\ reply' = [reply EXCEPT ![t] = "success"]
    /\ Resolve(t)

\* Mutant: the promise is never resolved.
ReplyWith_Unresolved(t, r) ==
    /\ Goto(t, "done")
    /\ UNCHANGED <<reply, queue>>

\* The handler's promise resolves; the queue answers the client.
ReplyWith(t, r) ==
    /\ Goto(t, "done")
    /\ reply' = [reply EXCEPT ![t] = r]
    /\ Resolve(t)

Submit(t) ==
    /\ pc[t] = "check"
    /\ Message(t)
    /\ UNCHANGED <<pc, polls, nonce, reply, table, undone, chain, faults>>

\* getCandyTable.  A failed SELECT comes back as RESULT_DB_TABLE_GET_FAILED,
\* which none of its three branches resolves.
Check(t) ==
    /\ At(t, "check")
    /\ \/ /\ Row(t) \in table
          /\ ReplyWith(t, "already")
          /\ UNCHANGED faults
       \/ /\ Row(t) \notin table
          /\ Goto(t, "insert")
          /\ UNCHANGED <<queue, reply, faults>>
       \/ /\ DbFails
          /\ Goto(t, "stuck")
          /\ UNCHANGED <<queue, reply>>
    /\ UNCHANGED <<polls, nonce, table, undone, chain>>

\* Mutant: INSERT OR REPLACE.
Insert_OrReplace(t) ==
    /\ At(t, "insert")
    /\ table' = table \cup {Row(t)}
    /\ Goto(t, "nonce")
    /\ UNCHANGED <<queue, reply, polls, nonce, undone, chain, faults>>

\* insertCandyTable: the primary key refuses a second row of an address and token.
Insert(t) ==
    /\ At(t, "insert")
    /\ \/ /\ Row(t) \notin table
          /\ table' = table \cup {Row(t)}
          /\ Goto(t, "nonce")
          /\ UNCHANGED <<queue, reply, faults>>
       \/ /\ \/ Row(t) \in table /\ UNCHANGED faults
             \/ DbFails
          /\ ReplyWith(t, "failed")
          /\ UNCHANGED table
    /\ UNCHANGED <<polls, nonce, undone, chain>>

\* transferTo asks for the account's nonce.
GetNonce(t) ==
    /\ At(t, "nonce")
    /\ \/ /\ nonce' = [nonce EXCEPT ![t] = Cardinality(pool \cup confirmed) + 1]
          /\ Goto(t, "send")
          /\ UNCHANGED faults
       \/ /\ RpcFails
          /\ Goto(t, "undo")
          /\ UNCHANGED nonce
    /\ UNCHANGED <<queue, reply, polls, table, undone, chain>>

\* The chain accepts the transfer with the next nonce.  Another one with a
\* nonce already taken is answered OK and dropped when its fee is no higher.
Accept(t) ==
    pool' = IF nonce[t] = Cardinality(pool \cup confirmed) + 1
            THEN pool \cup {t} ELSE pool

\* transferTo sends the transaction; the reply may be lost after delivery.
Send(t) ==
    /\ At(t, "send")
    /\ \/ Accept(t) /\ Goto(t, "poll") /\ UNCHANGED faults
       \/ RpcFails /\ Goto(t, "undo") /\ (Accept(t) \/ UNCHANGED pool)
    /\ UNCHANGED <<queue, reply, polls, nonce, table, undone, confirmed>>

LastPoll(t) == polls[t] + 1 = MaxPolls

\* No receipt yet, or no answer.
NoReceipt(t) == \/ t \notin confirmed /\ UNCHANGED faults
                \/ RpcFails

\* checkReceipt: success on a receipt, give up after MaxPolls tries, although
\* the transfer may still be confirmed.
Poll(t) ==
    /\ At(t, "poll")
    /\ \/ /\ t \in confirmed
          /\ ReplyWith(t, "success")
          /\ UNCHANGED <<polls, faults>>
       \/ /\ ~LastPoll(t)
          /\ NoReceipt(t)
          /\ polls' = [polls EXCEPT ![t] = @ + 1]
          /\ UNCHANGED <<queue, pc, reply>>
       \/ /\ LastPoll(t)
          /\ NoReceipt(t)
          /\ Goto(t, "undo")
          /\ UNCHANGED <<queue, polls, reply>>
    /\ UNCHANGED <<nonce, table, undone, chain>>

\* Mutant: the row stays.
Undo_KeepsRow(t) ==
    /\ At(t, "undo")
    /\ Goto(t, "answer")
    /\ UNCHANGED <<queue, reply, polls, nonce, table, undone, chain, faults>>

\* The transfer failed: removeCandyTable, whether or not that works.
Undo(t) ==
    /\ At(t, "undo")
    /\ Goto(t, "answer")
    /\ \/ table' = table \ {Row(t)} /\ undone' = undone \cup {t} /\ UNCHANGED faults
       \/ DbFails /\ UNCHANGED <<table, undone>>
    /\ UNCHANGED <<queue, reply, polls, nonce, chain>>

\* The client is told, once the DELETE has come back.
Answer(t) ==
    /\ At(t, "answer")
    /\ ReplyWith(t, "failed")
    /\ UNCHANGED <<polls, nonce, table, undone, chain, faults>>

----------------------------------------------------------------------------
\* Environment

\* The chain confirms an accepted transfer.
Confirm(t) ==
    /\ t \in pool
    /\ pool' = pool \ {t}
    /\ confirmed' = confirmed \cup {t}
    /\ UNCHANGED <<queue, pc, polls, nonce, reply, table, undone, faults>>

\* The process dies and is started again: the queue and every handler are
\* gone, the table and the chain are not.
Crash ==
    /\ crashes < MaxCrash
    /\ crashes' = crashes + 1
    /\ list' = [l \in DOMAIN list |-> <<>>]
    /\ pc' = [t \in Request |->
                IF t \in Items(list["write"]) THEN "lost" ELSE pc[t]]
    /\ UNCHANGED <<running, finished, polls, nonce, reply, table, undone, chain, rpcFaults,
                   dbFaults>>

Step(t) == \/ Check(t) \/ Insert(t) \/ GetNonce(t) \/ Send(t) \/ Poll(t)
           \/ Undo(t) \/ Answer(t)

CandyNext == (\E t \in Request : Submit(t) \/ Step(t) \/ Confirm(t)) \/ Crash

CandySpec == CandyInit /\ [][CandyNext]_candyVars

\* Handlers go on as their awaits resolve; the chain mines what it accepted.
CandyFairSpec ==
    CandySpec /\ \A t \in Request : WF_candyVars(Step(t)) /\ WF_candyVars(Confirm(t))

----------------------------------------------------------------------------
\* Properties

\* The chain holds the transfer of a request for row r, and the row has not
\* been deleted again.
Held(r) == {t \in (pool \cup confirmed) \ undone : Row(t) = r}

\* An address gets the candy once for each tokenName, unless the handler has
\* deleted its row and the chain confirms the transfer all the same: at most one
\* other transfer for a row is ever accepted, although handlers of one address
\* run side by side, replies are lost and the process dies between insert and
\* receipt or between the DELETE and its answer; and the row that turns later
\* requests away outlives them.
OneCandyPerRow ==
    \A r \in Rows : Cardinality(Held(r)) <= 1 /\ (Held(r) # {} => r \in table)

\* Nobody is told of a success the chain does not hold, and "already got" is
\* said only of an address and token somebody else's handler recorded.
ReplyIsTrue ==
    \A t \in Request :
        /\ reply[t] = "success" => t \in confirmed
        /\ reply[t] = "already" =>
             \E u \in Request \ {t} : Row(u) = Row(t) /\ pc[u] # "check"

\* A failure leaves nothing behind: once every handler has come to its end a
\* recorded row is a paid one, so whoever was told "failed" may ask again,
\* unless the DELETE itself failed.
NoLockedOutAddress ==
    (dbFaults = 0 /\ \A t \in Request : pc[t] \in {"check", "done"} /\ t \notin pool)
        => \A r \in table : \E t \in confirmed : Row(t) = r

\* Every getCandy request is answered, whatever the chain node does.  A crash
\* loses it; and a lookup that fails (statusdb.ts 98) answers neither its own
\* request nor those that wait behind it on the write list.
EveryCandyAnswered ==
    \A t \in Request :
        Listed(t) ~> \/ t \in finished \/ pc[t] = "lost"
                           \/ \E u \in Request : pc[u] = "stuck"

=============================================================================
