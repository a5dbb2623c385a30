------------------------------ MODULE Synchro ------------------------------
(***************************************************************************)
(* The catch-up loop: loopTask of lib/catchup/synchro.ts copies the        *)
(* irreversible blocks of the main chain into the local database, and the  *)
(* status table (lib/storage/statusdb.ts) remembers how far it got.        *)
(*                                                                         *)
(* Every await is the end of a step.  The chain node is external: its last *)
(* irreversible block number only grows.  A block in the database is       *)
(* "rows" once its hash and block rows are written and "full" once all its *)
(* transactions are.                                                       *)
(***************************************************************************)
EXTENDS Naturals, FiniteSets

CONSTANTS MaxLIB,        \* bound: last irreversible block reached by the chain
          Batch,         \* blocks per getBlocks request (nBatch)
          MaxRpcFault,   \* bound on failed RPCs
          MaxDbFault,    \* bound on failed database statements
          MaxCrash       \* bound on process crashes

ASSUME SynchroConstants ==
    /\ MaxLIB \in Nat /\ Batch \in Nat \ {0}
    /\ MaxRpcFault \in Nat /\ MaxDbFault \in Nat /\ MaxCrash \in Nat

VARIABLES lib,         \* chain: last irreversible block number
          known,       \* nCurrentLIBHeight
          height,      \* nCurrentHeight, in memory
          dbHeight,    \* durable: the currentheight row
          stored,      \* durable: what the database holds of each block
          pc,          \* the await the loop stands before
          cur,         \* block being copied
          groupEnd,    \* last block of the group that was fetched
          stop,        \* last block of the range
          rpcFaults, dbFaults, crashes

durable == <<dbHeight, stored>>
range == <<cur, groupEnd, stop>>
faults == <<rpcFaults, dbFaults, crashes>>
vars == <<lib, known, height, durable, pc, range, faults>>

Heights == 0..MaxLIB

\* Heights stay within the chain's, the range being copied included, and a
\* block is in one of the three states the loop leaves it in.
TypeOK ==
    /\ lib \in Heights /\ known \in Heights
    /\ height \in Heights /\ dbHeight \in Heights
    /\ stored \in [Heights -> {"none", "rows", "full"}]
    /\ pc \in {"loop", "fetch", "rows", "txs", "save", "saved", "miners", "down"}
    /\ cur \in Heights /\ groupEnd \in Heights /\ stop \in Heights
    /\ rpcFaults \in 0..MaxRpcFault
    /\ dbFaults \in 0..MaxDbFault
    /\ crashes \in 0..MaxCrash

Init ==
    /\ lib \in Heights
    /\ known = 0 /\ height = 0 /\ dbHeight = 0
    /\ stored = [h \in Heights |-> "none"]
    /\ pc = "loop"
    /\ cur = 0 /\ groupEnd = 0 /\ stop = 0
    /\ rpcFaults = 0 /\ dbFaults = 0 /\ crashes = 0

----------------------------------------------------------------------------
\* Failures

RpcFails ==
    /\ rpcFaults < MaxRpcFault
    /\ rpcFaults' = rpcFaults + 1
    /\ UNCHANGED <<dbFaults, crashes>>

DbFails ==
    /\ dbFaults < MaxDbFault
    /\ dbFaults' = dbFaults + 1
    /\ UNCHANGED <<rpcFaults, crashes>>

----------------------------------------------------------------------------
\* The loop

\* updateBlockRangeBatch(from, to), or updateBlockSingle when to = from.
CopyRange(from, to) ==
    /\ pc' = "fetch"
    /\ cur' = from /\ stop' = to
    /\ UNCHANGED groupEnd

\* loopTask after getLIBNumber answered or failed: n is what it now believes
\* the last irreversible block to be.
Dispatch(n) ==
    \/ height = 0 /\ CopyRange(0, n)
    \/ height > 0 /\ height < n /\ CopyRange(height + 1, n)
    \/ height > 0 /\ height = n /\ pc' = "miners" /\ UNCHANGED range
    \/ height > 0 /\ height > n /\ pc' = "down" /\ UNCHANGED range

LoopTask ==
    /\ pc = "loop"
    /\ \/ known' = lib /\ UNCHANGED faults
       \/ UNCHANGED known /\ RpcFails
    /\ Dispatch(known')
    /\ UNCHANGED <<lib, height, durable>>

\* Delay, loopTask2 (miners' balances) and delay again, failing or not.
LoopTask2 ==
    /\ pc = "miners"
    /\ pc' = "loop"
    /\ UNCHANGED <<lib, known, height, durable, range, faults>>

\* The range is given up, or done; the loop goes on either way.
EndRange == pc' = "miners" /\ UNCHANGED range

\* Mutant: the last group of a range is as long as the others.
LastOfGroup_Unclamped == cur + Batch - 1

LastOfGroup == IF cur + Batch - 1 > stop THEN stop ELSE cur + Batch - 1

\* updateBlockRangeGroup: one getBlocks request per group; getBlock when the
\* range is a single block.
FetchGroup ==
    /\ pc = "fetch"
    /\ \/ /\ pc' = "rows"
          /\ groupEnd' = LastOfGroup
          /\ UNCHANGED <<cur, stop, faults>>
       \/ RpcFails /\ EndRange
    /\ UNCHANGED <<lib, known, height, durable>>

\* Mutant: groups are Batch + 1 apart.
NextGroup_Skips ==
    IF groupEnd + 1 < stop
    THEN pc' = "fetch" /\ cur' = groupEnd + 2 /\ UNCHANGED <<groupEnd, stop>>
    ELSE EndRange

\* The group is over, resolved as RESULT_OK: take the next one.
NextGroup ==
    IF groupEnd < stop
    THEN pc' = "fetch" /\ cur' = groupEnd + 1 /\ UNCHANGED <<groupEnd, stop>>
    ELSE EndRange

\* syncBlockData or updateBlock writes the hash row and the block row.  When it
\* fails the group is left by a break, which is not reported to the range.
WriteRows ==
    /\ pc = "rows"
    /\ \/ /\ stored' = [stored EXCEPT ![cur] = IF @ = "none" THEN "rows" ELSE @]
          /\ pc' = "txs"
          /\ UNCHANGED <<range, faults>>
       \/ DbFails /\ NextGroup /\ UNCHANGED stored
    /\ UNCHANGED <<lib, known, height, dbHeight>>

\* updateTx: the block's transactions, with their receipts and accounts.
WriteTxs ==
    /\ pc = "txs"
    /\ \/ /\ stored' = [stored EXCEPT ![cur] = "full"]
          /\ pc' = "save"
          /\ UNCHANGED <<range, faults>>
       \/ (DbFails \/ RpcFails) /\ NextGroup /\ UNCHANGED stored
    /\ UNCHANGED <<lib, known, height, dbHeight>>

\* setCurrentHeight: a failure gives the whole range up.
SaveHeight ==
    /\ pc = "save"
    /\ \/ dbHeight' = cur /\ pc' = "saved" /\ UNCHANGED <<range, faults>>
       \/ DbFails /\ EndRange /\ UNCHANGED dbHeight
    /\ UNCHANGED <<lib, known, height, stored>>

\* The row is written; the height in memory follows.
Saved ==
    /\ pc = "saved"
    /\ height' = cur
    /\ IF cur < groupEnd
       THEN pc' = "rows" /\ cur' = cur + 1 /\ UNCHANGED <<groupEnd, stop>>
       ELSE NextGroup
    /\ UNCHANGED <<lib, known, durable, faults>>

----------------------------------------------------------------------------
\* Environment

ChainGrows ==
    /\ lib < MaxLIB
    /\ lib' = lib + 1
    /\ UNCHANGED <<known, height, durable, pc, range, faults>>

\* A new process reads the status table; it knows no LIB yet.
Boot ==
    /\ height' = dbHeight
    /\ known' = 0
    /\ pc' = "loop"
    /\ UNCHANGED <<lib, durable, range>>

Crash ==
    /\ crashes < MaxCrash
    /\ crashes' = crashes + 1
    /\ Boot
    /\ UNCHANGED <<rpcFaults, dbFaults>>

\* "Obsolete storage!" rejects a promise nobody handles and ends the process
\* (index.ts); whoever runs the service starts it again.
Restart == pc = "down" /\ Boot /\ UNCHANGED faults

Loop == \/ LoopTask \/ LoopTask2 \/ FetchGroup \/ WriteRows \/ WriteTxs
        \/ SaveHeight \/ Saved

Next == Loop \/ ChainGrows \/ Crash \/ Restart

Spec == Init /\ [][Next]_vars

\* Timers fire and awaits resolve, so the loop never stops by itself, and a
\* process that ended is started again.
FairSpec == Spec /\ WF_vars(Loop) /\ WF_vars(Restart)

----------------------------------------------------------------------------
\* Properties

\* What the height stands for (README.md 4, "to catchup with ruffchain main
\* line"): every block up to it is in the database with its transactions.
HeightMeansStored ==
    height > 0 => \A h \in 0..height : stored[h] = "full"

\* The height the readers see and the durable one differ only while the block
\* just copied is being recorded, so a crash loses at most that one block's
\* record, never a block.
MemoryFollowsDisk ==
    /\ height # dbHeight => pc = "saved" /\ dbHeight = cur /\ height < dbHeight
    /\ dbHeight > 0 => stored[dbHeight] = "full"

\* Only irreversible blocks are copied, although the number the loop believes
\* in is the one of an earlier request.
OnlyIrreversibleStored ==
    \A h \in Heights : stored[h] # "none" => h <= lib

\* What is in the database is irreversible, and the heights say so of what is
\* there, across crashes between any two statements.
DatabaseHolds == TypeOK /\ OnlyIrreversibleStored /\ MemoryFollowsDisk

\* A failure costs at most the group it happens in (synchro.ts 235): behind the
\* height no more blocks are missing than the groups of the failures so far
\* held, whatever ranges were retried or processes died in between.
FailureCostsOneGroup ==
    height > 0 => Cardinality({h \in 0..height : stored[h] # "full"})
                    <= Batch * (rpcFaults + dbFaults)

\* The recorded height never goes back, not even over a restart.
HeightNeverBack == [][dbHeight' >= dbHeight /\ height' >= height]_vars
=============================================================================
