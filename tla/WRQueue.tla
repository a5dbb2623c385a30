------------------------------ MODULE WRQueue ------------------------------
(***************************************************************************)
(* The request queue of the catch-up server (lib/storage/queue.ts) and the *)
(* HTTP entry that feeds it (lib/catchup/inquiro.ts).                      *)
(*                                                                         *)
(* Every HTTP request becomes a task on one of two lists.  The events      *)
(* 'write'/'read', 'execWrite'/'execRead' and 'removeWrite'/'removeRead'   *)
(* are emitted synchronously, so a handler and everything it emits is one  *)
(* atomic step; the only asynchronous point is the await of the database   *)
(* function in execRead and execWrite.                                     *)
(***************************************************************************)
EXTENDS Naturals, Sequences

CONSTANTS ReadTask,    \* requests served through the read list
          WriteTask,   \* getCandy requests
          MayHang      \* tasks whose database function may never resolve

ASSUME TasksDisjoint == ReadTask \cap WriteTask = {}
ASSUME HangingTasks == MayHang \subseteq ReadTask \cup WriteTask

Task == ReadTask \cup WriteTask
Lane == {"read", "write"}

VARIABLES list,      \* per lane, the linked list in arrival order
          running,   \* tasks whose running flag is set
          finished   \* tasks whose callback has been called

vars == <<list, running, finished>>

----------------------------------------------------------------------------

\* Mutant: every task goes to the read list.
LaneOf_Shared(t) == "read"

LaneOf(t) == IF t \in WriteTask THEN "write" ELSE "read"

Items(s) == {s[i] : i \in 1..Len(s)}

\* Mutant: the oldest item is removed, whichever was answered.
Delete_Oldest(s, t) == IF s = <<>> THEN s ELSE Tail(s)

\* deleteItem of the item found by searchItem
Delete(s, t) ==
    LET at == CHOOSE i \in 1..Len(s) : s[i] = t
    IN  IF t \in Items(s)
        THEN [i \in 1..(Len(s) - 1) |-> IF i < at THEN s[i] ELSE s[i + 1]]
        ELSE s

\* getTasks, then execRead/execWrite up to its await: every task of the list
\* that is not running is started
Started(s, run) == {t \in Items(s) : t \notin run}

\* The two lists, the running flags and the answered tasks have their types:
\* a list stays a sequence whatever is unlinked from it (dl_list.ts 153-162).
TypeOK ==
    /\ list \in [Lane -> Seq(Task)]
    /\ running \subseteq Task
    /\ finished \subseteq Task

Init ==
    /\ list = [l \in Lane |-> <<>>]
    /\ running = {}
    /\ finished = {}

\* A request arrives: createTask, then the 'write' or 'read' handler.
Message(t) ==
    LET l == LaneOf(t)
        pushed == Append(list[l], t)
    IN  /\ t \notin Items(list[l]) \cup finished
        /\ list' = [list EXCEPT ![l] = pushed]
        /\ running' = IF Len(pushed) = 1
                      THEN running \cup Started(pushed, running)
                      ELSE running
        /\ UNCHANGED finished

\* Mutant: a completion does not emit the exec event.
Resolve_NoExec(t) ==
    /\ t \in running \ finished
    /\ finished' = finished \cup {t}
    /\ list' = [list EXCEPT ![LaneOf(t)] = Delete(@, t)]
    /\ UNCHANGED running

\* The awaited function resolves: callback, remove event, exec event.
Resolve(t) ==
    LET l == LaneOf(t)
        rest == Delete(list[l], t)
    IN  /\ t \in running \ finished
        /\ finished' = finished \cup {t}
        /\ list' = [list EXCEPT ![l] = rest]
        /\ running' = running \cup Started(rest, running)

Next == \E t \in Task : Message(t) \/ Resolve(t)

\* The database driver and the RPC client call back for every task outside
\* MayHang; nothing obliges clients to send requests.
Fairness == \A t \in Task \ MayHang : WF_vars(Resolve(t))

Spec == Init /\ [][Next]_vars

FairSpec == Spec /\ Fairness

----------------------------------------------------------------------------
\* Properties

Waiting(l) == Items(list[l]) \ running
Serving(l) == Items(list[l]) \cap running

\* No task is stranded: a list is looked at only when a task is pushed on an
\* empty list or a running one finishes (queue.ts 64-81, 179-193), so a list
\* with a waiting task must always hold a running one that will look again.
NoTaskStranded == \A l \in Lane : Waiting(l) # {} => Serving(l) # {}

\* Tasks are started first in, first out (queue.ts 44): no task runs while one
\* that came earlier on the same list is still waiting.
StartedInOrder ==
    \A l \in Lane : \A i, j \in 1..Len(list[l]) :
        i < j /\ list[l][j] \in running => list[l][i] \in running

\* A finished task has left its list and a listed task is on one list once:
\* what lets removeRead/removeWrite find the right item by its id.
ListedOnce ==
    \A l \in Lane :
        /\ Items(list[l]) \cap finished = {}
        /\ \A i, j \in 1..Len(list[l]) : list[l][i] = list[l][j] => i = j

\* The queue as a whole serves its tasks: none is stranded, none is overtaken, and
\* what is unlinked is what was answered.
TasksAreServed == TypeOK /\ NoTaskStranded /\ StartedInOrder /\ ListedOnce

Listed(t) == t \in Items(list[LaneOf(t)])

\* Every request that reaches the queue is answered, however requests
\* interleave (queue.ts 171-194).  The one excuse is a task of the same list
\* whose function never resolves: a stuck getCandy does not hold up a read.
EveryRequestAnswered ==
    \A t \in Task : Listed(t) ~>
        \/ t \in finished
        \/ \E h \in MayHang : LaneOf(h) = LaneOf(t) /\ Listed(h)

\* Each lane implements the batch server (queue.ts 120-194).
ReadLane == INSTANCE BatchServer WITH
    Request <- ReadTask, waiting <- Waiting("read"),
    serving <- Serving("read"), answered <- finished \cap ReadTask
WriteLane == INSTANCE BatchServer WITH
    Request <- WriteTask, waiting <- Waiting("write"),
    serving <- Serving("write"), answered <- finished \cap WriteTask

ReadLaneIsBatchServer == ReadLane!Spec
WriteLaneIsBatchServer == WriteLane!Spec

\* Both lists keep the batch server's promise at once, each blind to the other:
\* a completion on one starts nothing on the other (queue.ts 120-168).
LanesAreBatchServers == ReadLaneIsBatchServer /\ WriteLaneIsBatchServer
=============================================================================
