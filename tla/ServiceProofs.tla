--------------------------- MODULE ServiceProofs ---------------------------
(***************************************************************************)
(* Proofs about the catch-up loop, for any chain length, group size and    *)
(* number of faults and crashes, and about the service as a process, for   *)
(* any genesis file and any number of failed statements, requests and      *)
(* crashes: what the loaded flag promises, and that what is proved of the  *)
(* loop alone holds of the loop that main() starts and restarts.           *)
(***************************************************************************)
EXTENDS Service, TLAPS, FiniteSetTheorems

----------------------------------------------------------------------------
(* The loop.                                                               *)

\* The loop is inside a range / inside a group it has fetched.
Copying == pc \in {"fetch", "rows", "txs", "save", "saved"}
InGroup == pc \in {"rows", "txs", "save", "saved"}

\* Where the range being copied lies: past the recorded height, within what
\* the chain has made irreversible.
RangeInv ==
    /\ known <= lib /\ dbHeight <= lib
    /\ Copying => height <= cur /\ cur <= stop /\ stop <= lib
    /\ InGroup => cur <= groupEnd /\ groupEnd <= stop
    /\ pc \in {"save", "saved"} => stored[cur] = "full"
    /\ pc = "saved" => dbHeight = cur

IInv == TypeOK /\ OnlyIrreversibleStored /\ MemoryFollowsDisk /\ RangeInv

\* Nothing has been fetched when the loop starts.
LEMMA InitIInv == Init => IInv
BY SynchroConstants
DEF Init, IInv, TypeOK, OnlyIrreversibleStored, MemoryFollowsDisk, RangeInv,
    Copying, InGroup, Heights, range, durable, faults

\* The LIB is asked for and a range of blocks chosen.
LEMMA LoopTaskIInv == IInv /\ LoopTask => IInv'
<1> SUFFICES ASSUME IInv, LoopTask PROVE IInv'
  OBVIOUS
<1> USE SynchroConstants
    DEF IInv, LoopTask, durable, range, faults, RpcFails, Heights
<1>1. known' \in Heights /\ known' <= lib
  BY DEF TypeOK, RangeInv
<1>2. /\ rpcFaults' \in 0..MaxRpcFault /\ dbFaults' \in 0..MaxDbFault
      /\ crashes' \in 0..MaxCrash
  BY DEF TypeOK
<1>3. \/ pc' = "fetch" /\ cur' = 0 /\ stop' = known' /\ groupEnd' = groupEnd
           /\ height = 0
      \/ pc' = "fetch" /\ cur' = height + 1 /\ stop' = known'
           /\ groupEnd' = groupEnd /\ height < known'
      \/ pc' \in {"miners", "down"} /\ UNCHANGED <<cur, stop, groupEnd>>
  BY DEF Dispatch, CopyRange
<1>4. TypeOK'
  BY <1>1, <1>2, <1>3 DEF TypeOK
<1>5. OnlyIrreversibleStored'
  BY DEF OnlyIrreversibleStored
<1>6. MemoryFollowsDisk'
  BY DEF MemoryFollowsDisk
<1>7. RangeInv'
  BY <1>1, <1>3 DEF RangeInv, Copying, InGroup, TypeOK
<1>8. QED
  BY <1>4, <1>5, <1>6, <1>7

\* The blocks of a group arrive, or do not.
LEMMA FetchGroupIInv == IInv /\ FetchGroup => IInv'
<1> SUFFICES ASSUME IInv, FetchGroup PROVE IInv'
  OBVIOUS
<1> USE SynchroConstants
    DEF IInv, FetchGroup, LastOfGroup, durable, range, faults, RpcFails,
        Heights, EndRange
<1>1. TypeOK'
  BY DEF TypeOK, RangeInv, Copying
<1>2. OnlyIrreversibleStored'
  BY DEF OnlyIrreversibleStored
<1>3. MemoryFollowsDisk'
  BY DEF MemoryFollowsDisk
<1>4. RangeInv'
  BY DEF RangeInv, Copying, InGroup, TypeOK
<1>5. QED
  BY <1>1, <1>2, <1>3, <1>4

\* Leaving a group forward, whatever the outcome of its last block.
LEMMA NextGroupRange ==
    ASSUME TypeOK, RangeInv, InGroup, NextGroup
    PROVE  /\ cur' \in Heights /\ groupEnd' \in Heights /\ stop' \in Heights
           /\ \/ pc' = "fetch" /\ cur' > cur /\ cur' <= stop' /\ stop' = stop
              \/ pc' = "miners"
BY SynchroConstants
DEF NextGroup, EndRange, TypeOK, RangeInv, Heights, range, InGroup, Copying

\* The hash row and the block row are written.
LEMMA WriteRowsIInv == IInv /\ WriteRows => IInv'
<1> SUFFICES ASSUME IInv, WriteRows PROVE IInv'
  OBVIOUS
<1> USE SynchroConstants DEF IInv, durable, range, faults, Heights
<1>1. CASE /\ stored' = [stored EXCEPT ![cur] = IF @ = "none" THEN "rows" ELSE @]
           /\ pc = "rows" /\ pc' = "txs"
           /\ UNCHANGED <<range, faults, lib, known, height, dbHeight>>
  <2>1. TypeOK'
    BY <1>1 DEF TypeOK
  <2>2. OnlyIrreversibleStored'
    BY <1>1 DEF OnlyIrreversibleStored, TypeOK, RangeInv, Copying
  <2>3. MemoryFollowsDisk'
    BY <1>1 DEF MemoryFollowsDisk, TypeOK
  <2>4. RangeInv'
    BY <1>1 DEF RangeInv, Copying, InGroup, TypeOK
  <2>5. QED
    BY <2>1, <2>2, <2>3, <2>4
<1>2. CASE /\ pc = "rows" /\ DbFails /\ NextGroup
           /\ UNCHANGED <<stored, lib, known, height, dbHeight>>
  <2>1. /\ cur' \in Heights /\ groupEnd' \in Heights /\ stop' \in Heights
        /\ \/ pc' = "fetch" /\ cur' > cur /\ cur' <= stop' /\ stop' = stop
           \/ pc' = "miners"
    BY <1>2, NextGroupRange DEF InGroup
  <2>2. TypeOK'
    BY <1>2, <2>1 DEF TypeOK, DbFails
  <2>3. OnlyIrreversibleStored'
    BY <1>2 DEF OnlyIrreversibleStored
  <2>4. MemoryFollowsDisk'
    BY <1>2 DEF MemoryFollowsDisk
  <2>5. RangeInv'
    BY <1>2, <2>1 DEF RangeInv, Copying, InGroup, TypeOK
  <2>6. QED
    BY <2>2, <2>3, <2>4, <2>5
<1>3. QED
  BY <1>1, <1>2 DEF WriteRows

\* The transactions of a block are written.
LEMMA WriteTxsIInv == IInv /\ WriteTxs => IInv'
<1> SUFFICES ASSUME IInv, WriteTxs PROVE IInv'
  OBVIOUS
<1> USE SynchroConstants DEF IInv, durable, range, faults, Heights
<1>1. CASE /\ stored' = [stored EXCEPT ![cur] = "full"]
           /\ pc = "txs" /\ pc' = "save"
           /\ UNCHANGED <<range, faults, lib, known, height, dbHeight>>
  <2>1. TypeOK'
    BY <1>1 DEF TypeOK
  <2>2. OnlyIrreversibleStored'
    BY <1>1 DEF OnlyIrreversibleStored, TypeOK, RangeInv, Copying
  <2>3. MemoryFollowsDisk'
    BY <1>1 DEF MemoryFollowsDisk, TypeOK
  <2>4. RangeInv'
    BY <1>1 DEF RangeInv, Copying, InGroup, TypeOK
  <2>5. QED
    BY <2>1, <2>2, <2>3, <2>4
<1>2. CASE /\ pc = "txs" /\ (DbFails \/ RpcFails) /\ NextGroup
           /\ UNCHANGED <<stored, lib, known, height, dbHeight>>
  <2>1. /\ cur' \in Heights /\ groupEnd' \in Heights /\ stop' \in Heights
        /\ \/ pc' = "fetch" /\ cur' > cur /\ cur' <= stop' /\ stop' = stop
           \/ pc' = "miners"
    BY <1>2, NextGroupRange DEF InGroup
  <2>2. TypeOK'
    BY <1>2, <2>1 DEF TypeOK, DbFails, RpcFails
  <2>3. OnlyIrreversibleStored'
    BY <1>2 DEF OnlyIrreversibleStored
  <2>4. MemoryFollowsDisk'
    BY <1>2 DEF MemoryFollowsDisk
  <2>5. RangeInv'
    BY <1>2, <2>1 DEF RangeInv, Copying, InGroup, TypeOK
  <2>6. QED
    BY <2>2, <2>3, <2>4, <2>5
<1>3. QED
  BY <1>1, <1>2 DEF WriteTxs

\* The height is written to the status table.
LEMMA SaveHeightIInv == IInv /\ SaveHeight => IInv'
<1> SUFFICES ASSUME IInv, SaveHeight PROVE IInv'
  OBVIOUS
<1> USE SynchroConstants
    DEF IInv, SaveHeight, EndRange, durable, range, faults, Heights
<1>1. TypeOK'
  BY DEF TypeOK, DbFails
<1>2. OnlyIrreversibleStored'
  BY DEF OnlyIrreversibleStored
<1>3. MemoryFollowsDisk'
  BY DEF MemoryFollowsDisk, RangeInv, Copying, TypeOK
<1>4. RangeInv'
  BY DEF RangeInv, Copying, InGroup, TypeOK
<1>5. QED
  BY <1>1, <1>2, <1>3, <1>4

\* The height in memory follows, and the loop goes on to the next block.
LEMMA SavedIInv == IInv /\ Saved => IInv'
<1> SUFFICES ASSUME IInv, Saved PROVE IInv'
  OBVIOUS
<1> USE SynchroConstants DEF IInv, Saved, durable, range, faults, Heights
<1>1. /\ cur' \in Heights /\ groupEnd' \in Heights /\ stop' \in Heights
      /\ \/ pc' = "fetch" /\ cur' > cur /\ cur' <= stop' /\ stop' = stop
         \/ pc' = "rows" /\ cur' = cur + 1 /\ cur < groupEnd
              /\ stop' = stop /\ groupEnd' = groupEnd
         \/ pc' = "miners"
  <2>1. CASE cur < groupEnd
    BY <2>1 DEF RangeInv, TypeOK, InGroup, Copying
  <2>2. CASE ~(cur < groupEnd)
    BY <2>2, NextGroupRange DEF InGroup
  <2>3. QED
    BY <2>1, <2>2
<1>2. TypeOK'
  BY <1>1 DEF TypeOK
<1>3. OnlyIrreversibleStored'
  BY DEF OnlyIrreversibleStored
<1>4. MemoryFollowsDisk'
  BY DEF MemoryFollowsDisk, RangeInv
<1>5. RangeInv'
  BY <1>1 DEF RangeInv, Copying, InGroup, TypeOK
<1>6. QED
  BY <1>2, <1>3, <1>4, <1>5

\* The chain grows, and the process ends and starts again.
LEMMA EnvironmentIInv ==
    IInv /\ (LoopTask2 \/ ChainGrows \/ Crash \/ Restart) => IInv'
<1> SUFFICES ASSUME IInv, LoopTask2 \/ ChainGrows \/ Crash \/ Restart
             PROVE  IInv'
  OBVIOUS
<1> USE SynchroConstants
    DEF IInv, LoopTask2, ChainGrows, Crash, Restart, Boot, durable, range,
        faults, Heights
<1>1. TypeOK'
  BY SMTT(30) DEF TypeOK
<1>2. OnlyIrreversibleStored'
  BY DEF OnlyIrreversibleStored, TypeOK
<1>3. MemoryFollowsDisk'
  BY DEF MemoryFollowsDisk
<1>4. RangeInv'
  BY DEF RangeInv, Copying, InGroup, TypeOK
<1>5. QED
  BY <1>1, <1>2, <1>3, <1>4

\* Every step of the loop and of its surroundings.
LEMMA NextIInv == IInv /\ [Next]_vars => IInv'
<1> SUFFICES ASSUME IInv, [Next]_vars PROVE IInv'
  OBVIOUS
<1>1. CASE Next
  BY <1>1, LoopTaskIInv, FetchGroupIInv, WriteRowsIInv, WriteTxsIInv,
     SaveHeightIInv, SavedIInv, EnvironmentIInv DEF Next, Loop
<1>2. CASE UNCHANGED vars
  BY <1>2
  DEF vars, durable, range, faults, IInv, TypeOK, OnlyIrreversibleStored,
      MemoryFollowsDisk, RangeInv, Copying, InGroup
<1>3. QED
  BY <1>1, <1>2

\* The loop's inductive invariant.
LEMMA SynchroInvariant == Spec => []IInv
BY InitIInv, NextIInv, PTL DEF Spec

----------------------------------------------------------------------------
\* Theorems

\* The loop's variables keep their types: in particular it never copies a block
\* the chain has not made irreversible yet.
THEOREM SynchroTypeOK == Spec => []TypeOK
<1>1. IInv => TypeOK
  BY DEF IInv
<1>2. QED
  BY <1>1, SynchroInvariant, PTL

\* Only irreversible blocks reach the database, however stale the number the
\* loop believes in and wherever it failed or died before.
THEOREM SynchroOnlyIrreversible == Spec => []OnlyIrreversibleStored
<1>1. IInv => OnlyIrreversibleStored
  BY DEF IInv
<1>2. QED
  BY <1>1, SynchroInvariant, PTL

\* The height in memory and the one on disk differ only in the instant after
\* the save, and the recorded block is in the database in full.
THEOREM SynchroMemoryFollowsDisk == Spec => []MemoryFollowsDisk
<1>1. IInv => MemoryFollowsDisk
  BY DEF IInv
<1>2. QED
  BY <1>1, SynchroInvariant, PTL

\* Neither height goes back, whatever fails or dies.
THEOREM SynchroHeightNeverBack == Spec => HeightNeverBack
<1>1. IInv /\ [Next]_vars => [dbHeight' >= dbHeight /\ height' >= height]_vars
  <2> SUFFICES ASSUME IInv, Next
               PROVE  dbHeight' >= dbHeight /\ height' >= height
    OBVIOUS
  <2>1. TypeOK
    BY DEF IInv
  <2>2. CASE SaveHeight
    BY <2>2, <2>1
    DEF SaveHeight, IInv, MemoryFollowsDisk, RangeInv, Copying, TypeOK, Heights
  <2>3. CASE Saved
    BY <2>3, <2>1
    DEF Saved, IInv, RangeInv, Copying, TypeOK, Heights, durable
  <2>4. CASE Crash \/ Restart
    BY <2>4, <2>1
    DEF Crash, Restart, Boot, IInv, MemoryFollowsDisk, TypeOK, Heights, durable
  <2>5. CASE LoopTask \/ LoopTask2 \/ FetchGroup \/ WriteRows \/ WriteTxs
             \/ ChainGrows
    BY <2>5, <2>1
    DEF LoopTask, LoopTask2, FetchGroup, WriteRows, WriteTxs, ChainGrows,
        TypeOK, Heights, durable
  <2>6. QED
    BY <2>2, <2>3, <2>4, <2>5 DEF Next, Loop
<1>2. QED
  BY <1>1, SynchroInvariant, PTL DEF Spec, HeightNeverBack

----------------------------------------------------------------------------
\* When the recorded height means what it should

\* No range has more than one group, or nothing ever fails: the two ways to
\* stay clear of the break that leaves a group and goes on with the next.
NoSkippedGroup ==
    Batch > MaxLIB \/ (MaxRpcFault = 0 /\ MaxDbFault = 0)

\* Every block behind the one being copied is complete; with one group per
\* range the group ends where the range does.
CopiedInv ==
    /\ HeightMeansStored
    /\ Copying => \A h \in 0..(cur - 1) : stored[h] = "full"
    /\ Batch > MaxLIB /\ InGroup => groupEnd = stop

\* What has been copied below the saved height stays so.
LEMMA NextCopied ==
    ASSUME NoSkippedGroup, IInv, CopiedInv, [Next]_vars
    PROVE  CopiedInv'
<1> USE SynchroConstants DEF durable, range, faults, Heights
<1>1. TypeOK /\ RangeInv /\ MemoryFollowsDisk
  BY DEF IInv
<1>2. CASE LoopTask
  <2>1. \/ pc' = "fetch" /\ cur' = 0 /\ height = 0
        \/ pc' = "fetch" /\ cur' = height + 1 /\ height > 0
        \/ pc' \in {"miners", "down"}
    BY <1>2 DEF LoopTask, Dispatch, CopyRange
  <2>2. height' = height /\ stored' = stored
    BY <1>2 DEF LoopTask
  <2>3. \A h \in 0..(cur' - 1) : pc' = "fetch" => stored[h] = "full"
    BY <1>1, <2>1 DEF CopiedInv, HeightMeansStored, TypeOK
  <2>4. QED
    BY <2>1, <2>2, <2>3
    DEF CopiedInv, HeightMeansStored, Copying, InGroup
<1>3. CASE FetchGroup
  <2>1. height' = height /\ stored' = stored /\ cur' = cur /\ stop' = stop
    BY <1>3 DEF FetchGroup, EndRange
  <2>2. pc' = "rows" /\ Batch > MaxLIB => groupEnd' = stop'
    BY <1>1, <1>3 DEF FetchGroup, LastOfGroup, EndRange, TypeOK
  <2>3. pc = "fetch" /\ pc' \in {"rows", "miners"}
    BY <1>3 DEF FetchGroup, EndRange
  <2>4. QED
    BY <2>1, <2>2, <2>3 DEF CopiedInv, HeightMeansStored, Copying, InGroup
<1>4. ASSUME DbFails \/ RpcFails, NextGroup, InGroup,
             UNCHANGED <<height, stored>>
      PROVE  CopiedInv'
  <2>1. Batch > MaxLIB
    BY <1>1, <1>4 DEF NoSkippedGroup, DbFails, RpcFails, TypeOK
  <2>2. groupEnd = stop
    BY <1>4, <2>1 DEF CopiedInv
  <2>3. pc' = "miners"
    BY <1>1, <1>4, <2>2 DEF NextGroup, EndRange, TypeOK
  <2>4. QED
    BY <1>4, <2>3 DEF CopiedInv, HeightMeansStored, Copying, InGroup
<1>5. CASE WriteRows
  <2>1. CASE /\ stored' = [stored EXCEPT ![cur] = IF @ = "none" THEN "rows" ELSE @]
             /\ pc = "rows" /\ pc' = "txs"
             /\ UNCHANGED <<range, faults, lib, known, height, dbHeight>>
    <3>1. \A h \in Heights : stored[h] = "full" => stored'[h] = "full"
      BY <1>1, <2>1 DEF TypeOK
    <3>2. height <= MaxLIB /\ cur <= MaxLIB
      BY <1>1 DEF TypeOK
    <3>3. QED
      BY <1>1, <2>1, <3>1, <3>2
      DEF CopiedInv, HeightMeansStored, Copying, InGroup, TypeOK
  <2>2. QED
    BY <1>4, <1>5, <2>1 DEF WriteRows, InGroup
<1>6. CASE WriteTxs
  <2>1. CASE /\ stored' = [stored EXCEPT ![cur] = "full"]
             /\ pc = "txs" /\ pc' = "save"
             /\ UNCHANGED <<range, faults, lib, known, height, dbHeight>>
    <3>1. \A h \in Heights : stored[h] = "full" => stored'[h] = "full"
      BY <1>1, <2>1 DEF TypeOK
    <3>2. height <= MaxLIB /\ cur <= MaxLIB
      BY <1>1 DEF TypeOK
    <3>3. QED
      BY <1>1, <2>1, <3>1, <3>2
      DEF CopiedInv, HeightMeansStored, Copying, InGroup, TypeOK
  <2>2. QED
    BY <1>4, <1>6, <2>1 DEF WriteTxs, InGroup
<1>7. CASE SaveHeight
  BY <1>7
  DEF SaveHeight, EndRange, CopiedInv, HeightMeansStored, Copying, InGroup
<1>8. CASE Saved
  <2>1. \A h \in 0..cur : stored[h] = "full"
    BY <1>1, <1>8 DEF Saved, CopiedInv, RangeInv, Copying, TypeOK
  <2>2. height' = cur /\ stored' = stored
    BY <1>8 DEF Saved
  <2>3. \/ pc' = "rows" /\ cur' = cur + 1 /\ groupEnd' = groupEnd /\ stop' = stop
        \/ pc' = "fetch" /\ cur' = groupEnd + 1 /\ groupEnd < stop
             /\ groupEnd <= cur
        \/ pc' = "miners"
    BY <1>1, <1>8 DEF Saved, NextGroup, EndRange, TypeOK
  <2>4. groupEnd >= cur
    BY <1>1, <1>8 DEF Saved, RangeInv, InGroup
  <2>5. HeightMeansStored'
    BY <2>1, <2>2 DEF HeightMeansStored
  <2>6. Copying' => \A h \in 0..(cur' - 1) : stored'[h] = "full"
    BY <1>1, <2>1, <2>2, <2>3, <2>4 DEF Copying, TypeOK
  <2>7. (Batch > MaxLIB /\ InGroup)' => groupEnd' = stop'
    BY <1>8, <2>3 DEF CopiedInv, InGroup, Saved
  <2>8. QED
    BY <2>5, <2>6, <2>7 DEF CopiedInv
<1>9. CASE Crash \/ Restart
  <2>1. height' = dbHeight /\ stored' = stored /\ pc' = "loop"
    BY <1>9 DEF Crash, Restart, Boot
  <2>2. dbHeight > 0 => \A h \in 0..dbHeight : stored[h] = "full"
    <3>1. CASE height = dbHeight
      BY <3>1 DEF CopiedInv, HeightMeansStored
    <3>2. CASE height # dbHeight
      BY <1>1, <3>2
      DEF MemoryFollowsDisk, RangeInv, CopiedInv, Copying, TypeOK
    <3>3. QED
      BY <3>1, <3>2
  <2>3. QED
    BY <2>1, <2>2 DEF CopiedInv, HeightMeansStored, Copying, InGroup
<1>10. CASE LoopTask2 \/ ChainGrows \/ UNCHANGED vars
  BY <1>10
  DEF LoopTask2, ChainGrows, vars, CopiedInv, HeightMeansStored, Copying,
      InGroup
<1>11. QED
  BY <1>2, <1>3, <1>5, <1>6, <1>7, <1>8, <1>9, <1>10 DEF Next, Loop

\* The database holds only irreversible blocks, the recorded one in full, and the
\* two heights differ only in the instant after the save.
THEOREM SynchroDatabaseHolds == Spec => []DatabaseHolds
BY SynchroTypeOK, SynchroOnlyIrreversible, SynchroMemoryFollowsDisk, PTL DEF DatabaseHolds

\* Every block up to the recorded height is in the database with its
\* transactions, over every failure and crash, provided that a range never has
\* a second group or that no statement or request fails (synchro.ts 209-259).
THEOREM SynchroHeightMeansStored ==
    ASSUME NoSkippedGroup
    PROVE  Spec => []HeightMeansStored
<1>1. Init => CopiedInv
  BY DEF Init, CopiedInv, HeightMeansStored, Copying, InGroup
<1>2. IInv /\ CopiedInv /\ [Next]_vars => CopiedInv'
  BY NoSkippedGroup, NextCopied
<1>3. CopiedInv => HeightMeansStored
  BY DEF CopiedInv
<1>4. QED
  BY <1>1, <1>2, <1>3, SynchroInvariant, PTL DEF Spec

----------------------------------------------------------------------------
\* What a failure costs when ranges do have several groups

\* The blocks below n that are not complete.
MissingBelow(n) == {h \in Heights : h < n /\ stored[h] # "full"}

\* What the failures so far may have cost.
Cost == Batch * (rpcFaults + dbFaults)

\* Behind the block being copied and behind the height no more is missing than
\* the failures account for; what is left of a group is no longer than one.
MissInv ==
    /\ Copying => Cardinality(MissingBelow(cur)) <= Cost
    /\ height > 0 => Cardinality(MissingBelow(height + 1)) <= Cost
    /\ InGroup => groupEnd < cur + Batch

\* Missing blocks can be counted, and fewer of them are counted lower.
LEMMA MissingCounts ==
    ASSUME TypeOK
    PROVE  /\ \A n \in Nat : IsFiniteSet(MissingBelow(n)) /\ Cardinality(MissingBelow(n)) \in Nat
           /\ \A n \in Nat : \A some \in SUBSET MissingBelow(n) :
                 IsFiniteSet(some) /\ Cardinality(some) \in Nat
                   /\ Cardinality(some) <= Cardinality(MissingBelow(n))
<1>1. IsFiniteSet(Heights)
  BY SynchroConstants, FS_Interval DEF Heights
<1>2. \A n \in Nat : IsFiniteSet(MissingBelow(n))
  BY <1>1, FS_Subset DEF MissingBelow
<1>3. QED
  BY <1>2, FS_Subset, FS_CardinalityType

\* A group's blocks added to the missing ones add at most a group's length.
LEMMA MissingGroup ==
    ASSUME TypeOK, NEW m \in Heights, NEW n \in Heights, m <= n, n < m + Batch
    PROVE  Cardinality(MissingBelow(n + 1)) <= Cardinality(MissingBelow(m)) + Batch
<1>1. IsFiniteSet(m..n) /\ Cardinality(m..n) <= Batch /\ Cardinality(m..n) \in Nat
  BY SynchroConstants, FS_Interval, FS_CardinalityType DEF Heights
<1>2. IsFiniteSet(MissingBelow(m)) /\ Cardinality(MissingBelow(m)) \in Nat
  BY MissingCounts DEF Heights
<1>3. IsFiniteSet(MissingBelow(m) \cup (m..n))
      /\ Cardinality(MissingBelow(m) \cup (m..n))
           = Cardinality(MissingBelow(m)) + Cardinality(m..n) - Cardinality(MissingBelow(m) \cap (m..n))
  BY <1>1, <1>2, FS_Union
<1>4. Cardinality(MissingBelow(m) \cap (m..n)) \in Nat
  BY <1>2, FS_Subset, FS_CardinalityType
<1>5. MissingBelow(n + 1) \subseteq MissingBelow(m) \cup (m..n)
  BY DEF MissingBelow, Heights
<1>6. Cardinality(MissingBelow(n + 1)) <= Cardinality(MissingBelow(m) \cup (m..n))
      /\ Cardinality(MissingBelow(n + 1)) \in Nat
  BY <1>3, <1>5, FS_Subset, FS_CardinalityType
<1>7. QED
  BY <1>1, <1>2, <1>3, <1>4, <1>6, SynchroConstants

\* Every failure adds the cost of one group, and nothing takes a cost away.
LEMMA CostGrows ==
    /\ TypeOK => Cost \in Nat
    /\ TypeOK /\ (RpcFails \/ DbFails) => Cost' = Cost + Batch
    /\ (UNCHANGED <<rpcFaults, dbFaults>>) => Cost' = Cost
<1>1. \A b, x \in Nat : b * x \in Nat /\ b * (x + 1) = b * x + b
  OBVIOUS
<1>2. ASSUME TypeOK PROVE rpcFaults + dbFaults \in Nat /\ Batch \in Nat
  BY <1>2, SynchroConstants DEF TypeOK
<1>3. TypeOK => Cost \in Nat
  BY <1>1, <1>2 DEF Cost
<1>4. ASSUME TypeOK, RpcFails \/ DbFails PROVE Cost' = Cost + Batch
  <2>1. rpcFaults' + dbFaults' = (rpcFaults + dbFaults) + 1
    BY <1>4, SynchroConstants DEF RpcFails, DbFails, TypeOK
  <2>2. QED
    BY <1>1, <1>2, <1>4, <2>1 DEF Cost
<1>5. (UNCHANGED <<rpcFaults, dbFaults>>) => Cost' = Cost
  BY DEF Cost
<1>6. QED
  BY <1>3, <1>4, <1>5

\* A group that is left after a failure costs its blocks and pays for them.
LEMMA LeaveGroupMissing ==
    ASSUME IInv, MissInv, InGroup, RpcFails \/ DbFails, NextGroup,
           UNCHANGED <<height, stored>>
    PROVE  MissInv'
<1> USE SynchroConstants
<1>1. TypeOK /\ RangeInv
  BY DEF IInv
<1>2. Cost' = Cost + Batch /\ Cost \in Nat
  BY <1>1, CostGrows
<1>3. Copying /\ cur <= groupEnd /\ groupEnd < cur + Batch /\ cur \in Heights /\ groupEnd \in Heights
  BY <1>1 DEF InGroup, Copying, RangeInv, MissInv, TypeOK
<1>4. Cardinality(MissingBelow(groupEnd + 1)) <= Cost'
  <2>1. Cardinality(MissingBelow(cur)) <= Cost
    BY <1>3 DEF MissInv
  <2>2. groupEnd + 1 \in Nat /\ cur \in Nat
    BY <1>3 DEF Heights
  <2>3. Cardinality(MissingBelow(cur)) \in Nat /\ Cardinality(MissingBelow(groupEnd + 1)) \in Nat
    BY <1>1, <2>2, MissingCounts
  <2>4. QED
    BY <1>1, <1>2, <1>3, <2>1, <2>3, MissingGroup
<1>5. \A n : MissingBelow(n)' = MissingBelow(n)
  BY DEF MissingBelow
<1>6. \/ pc' = "fetch" /\ cur' = groupEnd + 1
      \/ pc' = "miners"
  BY DEF NextGroup, EndRange
<1>7. height > 0 => Cardinality(MissingBelow(height + 1)) <= Cost'
  BY <1>1, <1>2, MissingCounts DEF MissInv, TypeOK, Heights
<1>8. QED
  BY <1>4, <1>5, <1>6, <1>7 DEF MissInv, Copying, InGroup

\* No step of the loop, the chain or the process loses more than it may.
LEMMA NextMissing ==
    ASSUME IInv, MissInv, [Next]_vars
    PROVE  MissInv'
<1> USE SynchroConstants DEF durable, range, faults
<1>1. TypeOK /\ RangeInv /\ MemoryFollowsDisk
  BY DEF IInv
<1>2. Cost \in Nat
  BY <1>1, CostGrows
<1>3. \A n : MissingBelow(n)' = {h \in Heights : h < n /\ stored'[h] # "full"}
  BY DEF MissingBelow
<1>4. CASE LoopTask
  <2>1. \/ pc' = "fetch" /\ cur' = 0
        \/ pc' = "fetch" /\ cur' = height + 1 /\ height > 0
        \/ pc' \in {"miners", "down"}
    BY <1>4 DEF LoopTask, Dispatch, CopyRange
  <2>2. height' = height /\ \A n : MissingBelow(n)' = MissingBelow(n)
    BY <1>4 DEF LoopTask, MissingBelow
  <2>3. Cost' >= Cost /\ Cost' \in Nat
    BY <1>1, <1>2, <1>4, CostGrows DEF LoopTask
  <2>4. MissingBelow(0) = {}
    BY DEF MissingBelow, Heights
  <2>5. Cardinality(MissingBelow(0)) = 0
    BY <2>4, FS_EmptySet
  <2>6. height > 0 => Cardinality(MissingBelow(height + 1)) <= Cost'
    BY <1>1, <1>2, <2>3, MissingCounts DEF MissInv, TypeOK, Heights
  <2>7. QED
    BY <2>1, <2>2, <2>3, <2>5, <2>6 DEF MissInv, Copying, InGroup
<1>5. CASE FetchGroup
  <2>1. /\ height' = height /\ cur' = cur
        /\ \A n : MissingBelow(n)' = MissingBelow(n)
    BY <1>5 DEF FetchGroup, EndRange, MissingBelow
  <2>2. Cost' >= Cost /\ Cost' \in Nat
    BY <1>1, <1>2, <1>5, CostGrows DEF FetchGroup
  <2>3. Copying /\ cur \in Heights
    BY <1>1, <1>5 DEF FetchGroup, Copying, TypeOK
  <2>4. pc' \in {"rows", "miners"} /\ (pc' = "rows" => groupEnd' < cur + Batch)
    BY <1>1, <1>5 DEF FetchGroup, LastOfGroup, EndRange, TypeOK, Heights
  <2>5. Cardinality(MissingBelow(cur)) <= Cost'
    BY <1>1, <1>2, <2>2, <2>3, MissingCounts DEF MissInv, Heights
  <2>6. height > 0 => Cardinality(MissingBelow(height + 1)) <= Cost'
    BY <1>1, <1>2, <2>2, MissingCounts DEF MissInv, TypeOK, Heights
  <2>7. QED
    BY <2>1, <2>4, <2>5, <2>6 DEF MissInv, Copying, InGroup
<1>6. CASE WriteRows \/ WriteTxs
  <2>1. CASE /\ \/ stored' = [stored EXCEPT ![cur] = IF @ = "none" THEN "rows" ELSE @]
                \/ stored' = [stored EXCEPT ![cur] = "full"]
             /\ pc \in {"rows", "txs"} /\ pc' \in {"txs", "save"}
             /\ UNCHANGED <<range, faults, lib, known, height, dbHeight>>
    <3>1. \A n : MissingBelow(n)' \subseteq MissingBelow(n)
      BY <1>1, <1>3, <2>1 DEF MissingBelow, TypeOK
    <3>2. Cost' = Cost
      BY <2>1, CostGrows
    <3>3. \A n \in Nat : Cardinality(MissingBelow(n)') <= Cardinality(MissingBelow(n))
                          /\ Cardinality(MissingBelow(n)') \in Nat /\ Cardinality(MissingBelow(n)) \in Nat
      BY <1>1, <3>1, MissingCounts
    <3>4. cur' = cur /\ cur \in Nat /\ height' = height /\ height + 1 \in Nat
      BY <1>1, <2>1 DEF TypeOK, Heights
    <3>5. Copying /\ InGroup
      BY <2>1 DEF Copying, InGroup
    <3>6. Cardinality(MissingBelow(cur)') <= Cost'
      BY <1>2, <3>2, <3>3, <3>4, <3>5 DEF MissInv
    <3>7. height > 0 => Cardinality(MissingBelow(height + 1)') <= Cost'
      BY <1>2, <3>2, <3>3, <3>4 DEF MissInv
    <3>8. QED
      BY <2>1, <3>5, <3>6, <3>7 DEF MissInv
  <2>2. CASE pc \in {"rows", "txs"} /\ (RpcFails \/ DbFails) /\ NextGroup /\ UNCHANGED <<stored, height>>
    BY <2>2, LeaveGroupMissing DEF InGroup
  <2>3. QED
    BY <1>6, <2>1, <2>2 DEF WriteRows, WriteTxs
<1>7. CASE SaveHeight
  <2>1. /\ height' = height /\ cur' = cur /\ groupEnd' = groupEnd
        /\ \A n : MissingBelow(n)' = MissingBelow(n)
        /\ pc = "save" /\ pc' \in {"saved", "miners"}
    BY <1>7 DEF SaveHeight, EndRange, MissingBelow
  <2>2. Cost' >= Cost /\ Cost' \in Nat
    BY <1>1, <1>2, <1>7, CostGrows DEF SaveHeight
  <2>3. cur \in Nat /\ height + 1 \in Nat
    BY <1>1 DEF TypeOK, Heights
  <2>4. Copying => Cardinality(MissingBelow(cur)) <= Cost'
    BY <1>1, <1>2, <2>2, <2>3, MissingCounts DEF MissInv
  <2>5. height > 0 => Cardinality(MissingBelow(height + 1)) <= Cost'
    BY <1>1, <1>2, <2>2, <2>3, MissingCounts DEF MissInv
  <2>6. QED
    BY <2>1, <2>4, <2>5 DEF MissInv, Copying, InGroup
<1>8. ASSUME pc = "saved" PROVE Cardinality(MissingBelow(cur + 1)) <= Cost
  <2>1. stored[cur] = "full" /\ cur \in Heights
    BY <1>1, <1>8 DEF RangeInv, TypeOK
  <2>2. MissingBelow(cur + 1) = MissingBelow(cur)
    BY <2>1 DEF MissingBelow, Heights
  <2>3. QED
    BY <1>8, <2>2 DEF MissInv, Copying
<1>9. CASE Saved
  <2>1. /\ height' = cur /\ Cost' = Cost
        /\ \A n : MissingBelow(n)' = MissingBelow(n)
    BY <1>9, CostGrows DEF Saved, MissingBelow
  <2>2. cur <= groupEnd /\ groupEnd < cur + Batch /\ cur \in Heights /\ groupEnd \in Heights
    BY <1>1, <1>9 DEF Saved, RangeInv, InGroup, TypeOK, MissInv
  <2>3. \/ pc' = "rows" /\ cur' = cur + 1 /\ groupEnd' = groupEnd
        \/ pc' = "fetch" /\ cur' = cur + 1
        \/ pc' = "miners"
    BY <1>9, <2>2 DEF Saved, NextGroup, EndRange, Heights
  <2>4. QED
    BY <1>8, <1>9, <2>1, <2>2, <2>3 DEF Saved, MissInv, Copying, InGroup, Heights
<1>10. CASE Crash \/ Restart
  <2>1. /\ height' = dbHeight /\ pc' = "loop" /\ Cost' = Cost
        /\ \A n : MissingBelow(n)' = MissingBelow(n)
    BY <1>10, CostGrows DEF Crash, Restart, Boot, MissingBelow
  <2>2. dbHeight > 0 => Cardinality(MissingBelow(dbHeight + 1)) <= Cost
    BY <1>1, <1>8 DEF MemoryFollowsDisk, MissInv
  <2>3. QED
    BY <2>1, <2>2 DEF MissInv, Copying, InGroup
<1>11. CASE LoopTask2 \/ ChainGrows \/ UNCHANGED vars
  BY <1>11
  DEF LoopTask2, ChainGrows, vars, MissInv, MissingBelow, Cost, Copying, InGroup
<1>12. QED
  BY <1>4, <1>5, <1>6, <1>7, <1>9, <1>10, <1>11 DEF Next, Loop

\* The blocks the invariant counts are those the property counts.
LEMMA MissingIsCounted == TypeOK /\ MissInv => FailureCostsOneGroup
<1> SUFFICES ASSUME TypeOK, MissInv PROVE FailureCostsOneGroup
  OBVIOUS
<1>1. {h \in 0..height : stored[h] # "full"} = MissingBelow(height + 1)
  BY SynchroConstants DEF MissingBelow, TypeOK, Heights
<1>2. QED
  BY <1>1 DEF FailureCostsOneGroup, MissInv, Cost

\* A failure costs at most the group it happens in (the break of synchro.ts 235
\* leaves a group unfinished and the range goes on): behind the height there
\* are never more missing blocks than failures times the group size.
THEOREM SynchroFailureCosts == Spec => []FailureCostsOneGroup
<1>1. Init => MissInv
  BY DEF Init, MissInv, Copying, InGroup
<1>2. IInv /\ MissInv /\ [Next]_vars => MissInv'
  BY NextMissing
<1>3. IInv /\ MissInv => FailureCostsOneGroup
  BY MissingIsCounted DEF IInv
<1>4. QED
  BY <1>1, <1>2, <1>3, SynchroInvariant, PTL DEF Spec

----------------------------------------------------------------------------
(* The process.                                                            *)

\* The first n pre-balances are loaded.
LoadedTo(n) == \A i \in 1..n : PreBalances[i] \in accounts \cap names

\* How much of the genesis file is in the tables at each statement of main().
\* Nothing is said of a process that serves or is down, except by the flag: the
\* rows it stands for are only ever added to.
MainInv ==
    /\ next \in 1..(Len(PreBalances) + 1)
    /\ main \in {"heightRow", "flagRow", "sysName"} => next = 1
    /\ main \in {"account", "name"} =>
         next <= Len(PreBalances) /\ LoadedTo(next - 1) /\ S!Sys \in names
    /\ main = "name" => PreBalances[next] \in accounts
    /\ main \in {"token", "setFlag"} => LoadedTo(Len(PreBalances)) /\ S!Sys \in names
    /\ main = "setFlag" => tokenRow

BootInv == MainInv /\ FlagMeansLoaded

----------------------------------------------------------------------------
\* Start-up

\* A table only grows, so what is loaded stays loaded.
LEMMA LoadedStays ==
    ASSUME names \subseteq names', accounts \subseteq accounts',
           tokenRow => tokenRow', FlagMeansLoaded, flagRow' = flagRow
    PROVE  FlagMeansLoaded'
BY DEF FlagMeansLoaded, S!GenesisLoaded, S!Addresses

\* main(): each statement leaves the tables as the next one expects them.
LEMMA MainBootInv == BootInv /\ Main => BootInv'
<1> SUFFICES ASSUME BootInv, Main PROVE BootInv'
  OBVIOUS
<1> USE ServiceConstants
    DEF BootInv, MainInv, LoadedTo, S!durable, S!Fault, S!KeyTaken, S!AfterBalance
<1>1. Len(PreBalances) \in Nat
  OBVIOUS
<1>2. CASE S!HeightRow \/ S!FlagRow
  <2>1. flagRow' = "one" => flagRow = "one"
    BY <1>2 DEF S!HeightRow, S!FlagRow
  <2>2. UNCHANGED <<names, accounts, tokenRow, next>> /\ next = 1
    BY <1>2 DEF S!HeightRow, S!FlagRow
  <2>3. main' \in {"flagRow", "sysName", "serving", "down"}
    BY <1>2 DEF S!HeightRow, S!FlagRow
  <2>4. MainInv'
    BY <2>2, <2>3
  <2>5. FlagMeansLoaded'
    BY <2>1, <2>2 DEF FlagMeansLoaded, S!GenesisLoaded, S!Addresses
  <2>6. QED
    BY <2>4, <2>5
<1>3. CASE S!SysName
  <2>1. FlagMeansLoaded'
    BY <1>3, LoadedStays DEF S!SysName
  <2>2. MainInv'
    BY <1>1, <1>3 DEF S!SysName
  <2>3. QED
    BY <2>1, <2>2
<1>4. CASE S!Account
  <2>1. FlagMeansLoaded'
    BY <1>4, LoadedStays DEF S!Account
  <2>2. MainInv'
    BY <1>1, <1>4 DEF S!Account
  <2>3. QED
    BY <2>1, <2>2
<1>5. CASE S!Name
  <2>1. FlagMeansLoaded'
    BY <1>5, LoadedStays DEF S!Name
  <2>2. CASE main' = "down"
    BY <1>5, <2>1, <2>2 DEF S!Name
  <2>3. CASE /\ names' = names \cup {PreBalances[next]} /\ next' = next + 1
             /\ main = "name" /\ main' = S!AfterBalance(next + 1)
             /\ UNCHANGED <<accounts, tokenRow>>
    <3>1. \A i \in 1..next : PreBalances[i] \in accounts' \cap names'
      BY <1>1, <2>3
    <3>2. MainInv'
      BY <1>1, <2>3, <3>1
    <3>3. QED
      BY <2>1, <3>2
  <2>4. QED
    BY <1>5, <2>2, <2>3 DEF S!Name
<1>6. CASE S!Token
  <2>1. FlagMeansLoaded'
    BY <1>6, LoadedStays DEF S!Token
  <2>2. MainInv'
    BY <1>1, <1>6 DEF S!Token
  <2>3. QED
    BY <2>1, <2>2
<1>7. CASE S!SetFlag
  <2>1. UNCHANGED <<names, accounts, tokenRow, next>> /\ main' \in {"serving", "down"}
    BY <1>7 DEF S!SetFlag
  <2>2. LoadedTo(Len(PreBalances)) /\ S!Sys \in names /\ tokenRow
    BY <1>7 DEF S!SetFlag
  <2>3. FlagMeansLoaded'
    BY <2>1, <2>2 DEF FlagMeansLoaded, S!GenesisLoaded, S!Addresses
  <2>4. QED
    BY <2>1, <2>3
<1>8. QED
  BY <1>2, <1>3, <1>4, <1>5, <1>6, <1>7 DEF Main, S!Main

\* The loop adds rows of its own, a process that ends or starts adds none.
LEMMA OthersBootInv ==
    ASSUME BootInv,
           LoopStep \/ ProcessEnds \/ CrashInMain \/ Started \/ UNCHANGED bootVars
    PROVE  BootInv'
<1> USE ServiceConstants DEF BootInv, MainInv, LoadedTo, S!durable, tables, bootVars
<1>1. CASE LoopStep
  <2>1. names \subseteq names' /\ accounts \subseteq accounts'
    BY <1>1 DEF LoopStep, CopiedRows
  <2>2. UNCHANGED <<main, next, flagRow, tokenRow>> /\ main = "serving"
    BY <1>1 DEF LoopStep
  <2>3. QED
    BY <2>1, <2>2, LoadedStays
<1>2. CASE ProcessEnds \/ CrashInMain
  <2>1. UNCHANGED <<next, names, accounts, tokenRow, flagRow>> /\ main' = "down"
    BY <1>2 DEF ProcessEnds, CrashInMain, S!Crash
  <2>2. QED
    BY <2>1, LoadedStays
<1>3. CASE Started
  <2>1. UNCHANGED <<names, accounts, tokenRow, flagRow>> /\ main' = "heightRow" /\ next' = 1
    BY <1>3 DEF Started, S!Restart
  <2>2. QED
    BY <2>1, LoadedStays
<1>4. CASE UNCHANGED bootVars
  BY <1>4, LoadedStays
<1>5. QED
  BY <1>1, <1>2, <1>3, <1>4

\* The flag is set last: a database that says the genesis file was loaded holds
\* every balance of it, its name and the SYS row, wherever main() (index.ts)
\* failed or died before and whatever the loop wrote meanwhile.
THEOREM ServiceFlagMeansLoaded == ServiceSpec => []FlagMeansLoaded
<1>1. ServiceInit => BootInv
  BY ServiceConstants
  DEF ServiceInit, S!Init, BootInv, MainInv, LoadedTo, FlagMeansLoaded
<1>2. BootInv /\ [ServiceNext]_serviceVars => BootInv'
  <2> SUFFICES ASSUME BootInv, [ServiceNext]_serviceVars PROVE BootInv'
    OBVIOUS
  <2>1. CASE UNCHANGED serviceVars
    BY <2>1
    DEF serviceVars, bootVars, tables, BootInv, MainInv, LoadedTo, FlagMeansLoaded,
        S!GenesisLoaded, S!Addresses
  <2>2. CASE Main
    BY <2>2, MainBootInv
  <2>3. CASE LoopStep \/ ProcessEnds \/ CrashInMain \/ Started \/ UNCHANGED bootVars
    BY <2>3, OthersBootInv
  <2>4. QED
    BY <2>1, <2>2, <2>3 DEF ServiceNext
<1>3. BootInv => FlagMeansLoaded
  BY DEF BootInv
<1>4. QED
  BY <1>1, <1>2, <1>3, PTL DEF ServiceSpec

----------------------------------------------------------------------------
\* The loop inside the process

\* A step of the service is a step of the loop's specification, or a crash of
\* main(), which the loop takes no notice of.
LEMMA ServiceStep ==
    ASSUME ServiceNext \/ UNCHANGED serviceVars
    PROVE  \/ [Next]_vars
           \/ UNCHANGED loopVars /\ crashes < MaxCrash /\ crashes' = crashes + 1
<1>1. CASE Main \/ Started
  BY <1>1
  DEF Main, S!Main, S!HeightRow, S!FlagRow, S!SysName, S!Account, S!Name, S!Token,
      S!SetFlag, Started, S!Restart, loopVars, vars, faults
<1>2. CASE LoopStep \/ ProcessEnds \/ ChainGrows
  BY <1>2 DEF LoopStep, ProcessEnds, Next
<1>3. CASE CrashInMain
  BY <1>3 DEF CrashInMain, S!Crash
<1>4. CASE UNCHANGED serviceVars
  BY <1>4 DEF serviceVars
<1>5. QED
  BY <1>1, <1>2, <1>3, <1>4 DEF ServiceNext

\* The loop's invariants are those of the service.
THEOREM ServiceLoopInvariant == ServiceSpec => [](IInv /\ MissInv)
<1>1. ServiceInit => IInv /\ MissInv
  BY InitIInv DEF ServiceInit, Init, MissInv, Copying, InGroup
<1>2. IInv /\ MissInv /\ [ServiceNext]_serviceVars => IInv' /\ MissInv'
  <2> SUFFICES ASSUME IInv, MissInv, [ServiceNext]_serviceVars PROVE IInv' /\ MissInv'
    OBVIOUS
  <2>1. CASE [Next]_vars
    BY <2>1, NextIInv, NextMissing
  <2>2. CASE UNCHANGED loopVars /\ crashes < MaxCrash /\ crashes' = crashes + 1
    <3>1. IInv'
      BY <2>2, SynchroConstants
      DEF loopVars, durable, range, IInv, TypeOK, OnlyIrreversibleStored, MemoryFollowsDisk,
          RangeInv, Copying, InGroup
    <3>2. MissInv'
      BY <2>2
      DEF loopVars, durable, range, MissInv, MissingBelow, Cost, Copying, InGroup
    <3>3. QED
      BY <3>1, <3>2
  <2>3. QED
    BY <2>1, <2>2, ServiceStep
<1>3. QED
  BY <1>1, <1>2, PTL DEF ServiceSpec

\* What the database holds is irreversible and its recorded block complete, also
\* in the processes that main() starts over the files of the last one.
THEOREM ServiceDatabaseHolds == ServiceSpec => []DatabaseHolds
<1>1. IInv => DatabaseHolds
  BY DEF IInv, DatabaseHolds
<1>2. QED
  BY <1>1, ServiceLoopInvariant, PTL

\* And a failure costs at most the group it happens in, over all of them.
THEOREM ServiceFailureCosts == ServiceSpec => []FailureCostsOneGroup
<1>1. IInv /\ MissInv => FailureCostsOneGroup
  BY MissingIsCounted DEF IInv
<1>2. QED
  BY <1>1, ServiceLoopInvariant, PTL
=============================================================================
