------------------------------- MODULE Worker -------------------------------
(***************************************************************************)
(* Blocks executed in a process of their own (core/chain/                  *)
(* interprocess_routine.ts), for the same miner: the storage is closed, the *)
(* block written to a file, a child forked and sent where both are; the    *)
(* child answers with the files of the executed block and of its redo log. *)
(* The chain is given one manager or the other and keeps it.               *)
(*                                                                         *)
(* The script the child runs is not in the repository: it is taken to do   *)
(* what the class offers for it, decodeParams, run and encodeResult.       *)
(***************************************************************************)
EXTENDS Execute

VARIABLES
    manager,   \* the routine manager of the chain
    child      \* name -> the process of the routine and what it has sent

workerVars == <<vars, manager, child>>

NoChild == [at |-> "none", result |-> None]

WorkerInit ==
    /\ Init
    /\ manager \in {"inprocess", "interprocess"}
    /\ child = [n \in Name |-> NoChild]

\* WorkerProxy.cancel: the process is killed, if there is one.  It listens to
\* nothing: what it has sent will still come, what it has not never will.
Kill(n) == IF child[n].at = "running" THEN [child EXCEPT ![n].at = "dead"] ELSE child

\* A block is to be made while another is being executed: that one's cancel.
CreateWorker(n, c) ==
    /\ Create(n, c)
    /\ child' = IF miner.state = "executing" /\ miner.routine # None
                THEN Kill(miner.routine) ELSE child

\* _executeOrVerify up to the await of the external parameters.
Prepare(n) ==
    /\ routine[n].at = "ready"
    /\ routine' = [routine EXCEPT ![n].at = "preparing"]
    /\ UNCHANGED <<chain, miner, child>>

\* WorkerProxy.run: the block is written and the child sent its parameters; a
\* cancel that came before has killed nothing.
Fork(n) ==
    /\ routine[n].at = "preparing"
    /\ routine' = [routine EXCEPT ![n].at = "waiting"]
    /\ child' = [child EXCEPT ![n].at = "running"]
    /\ UNCHANGED <<chain, miner>>

\* The parameters or the block could not be encoded or written.
EncodeFails(n) ==
    /\ routine[n].at = "preparing"
    /\ Fail(n)
    /\ UNCHANGED child

\* send found its channel full: the routine is given up, the child runs on and
\* nobody takes what it answers.
SendFails(n) ==
    /\ routine[n].at = "preparing"
    /\ Fail(n)
    /\ child' = [child EXCEPT ![n].at = "orphan"]

\* decodeParams: the child opens the storage the parent has closed, as it is.
Opened(n) == NewStorage(routine[n].s.saved)

\* One transaction of a block that is executed in one go.
AfterTx(r, tx) ==
    IF r.err THEN r
    ELSE LET done == ExecuteTx(r.s, r.ext, tx) IN [r EXCEPT !.s = done.s, !.err = done.err]

\* run: the child executes the block on the storage and closes it.
RunBlock(n) ==
    LET s == Opened(n) IN
    FoldLeft(AfterTx, [s |-> ExecuteEvent(IssueWage(Fetch(s)), routine[n].content.event),
                       ext |-> Handle(s), err |-> FALSE], routine[n].content.txs)

\* encodeResult: the files and the message that names them; on an error, in the
\* execution or before and after it, there are none.
ChildEnds(n) ==
    /\ child[n].at = "running"
    /\ \E result \in {None, RunBlock(n)} :
          child' = [child EXCEPT ![n] = [at |-> "done",
              result |-> IF result = None THEN None
                         ELSE IF result.err THEN None ELSE result.s]]
    /\ UNCHANGED <<chain, miner, routine>>

\* The child dies without an answer.
ChildDies(n) ==
    /\ child[n].at = "running"
    /\ child' = [child EXCEPT ![n].at = "dead"]
    /\ UNCHANGED <<chain, miner, routine>>

\* decodeResult cannot read what the message names.
Unreadable(n) ==
    /\ routine[n].at = "waiting" /\ child[n].at = "done"
    /\ Fail(n)
    /\ child' = [child EXCEPT ![n] = [at |-> "read", result |-> None]]

\* decodeResult and the miner's check: the files are read and removed, the
\* storage gets the child's redo log and the block goes on to be mined, unless
\* the routine was cancelled.
Answer(n) ==
    LET result == child[n].result IN
    /\ routine[n].at = "waiting" /\ child[n].at = "done"
    /\ child' = [child EXCEPT ![n] = [at |-> "read", result |-> None]]
    /\ IF routine[n].cancelSet \/ result = None \/ Canceled(n) THEN Fail(n)
       ELSE /\ routine' = [routine EXCEPT ![n].at = "mining", ![n].s = result]
            /\ miner' = [miner EXCEPT !.state = "mining", !.routine = None]
            /\ UNCHANGED chain

WorkerNext ==
    \/ manager = "inprocess" /\ Next /\ UNCHANGED <<manager, child>>
    \/ /\ manager = "interprocess"
       /\ UNCHANGED manager
       /\ \E n \in Name :
            \/ \E c \in Content : CreateWorker(n, c)
            \/ StorageFails(n) /\ UNCHANGED child
            \/ StorageMade(n) /\ UNCHANGED child
            \/ StartFinished(n) /\ UNCHANGED child
            \/ Prepare(n)
            \/ Fork(n)
            \/ EncodeFails(n)
            \/ SendFails(n)
            \/ ChildEnds(n)
            \/ ChildDies(n)
            \/ Unreadable(n)
            \/ Answer(n)
            \/ Finish(n) /\ UNCHANGED child

WorkerSpec == WorkerInit /\ [][WorkerNext]_workerVars

=============================================================================
