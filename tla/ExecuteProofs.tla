---------------------------- MODULE ExecuteProofs ----------------------------
(***************************************************************************)
(* Proofs about the execution of blocks, in the chain's own process or in  *)
(* another, for any accounts, any blocks of any payments and any number of *)
(* routines; and about the votes that the blocks of a DPOS chain count,    *)
(* for any voters, producers and branches.                                 *)
(***************************************************************************)
EXTENDS Worker, Dpos, FiniteSetTheorems, SequenceTheorems, TLAPS

\* What the fold that replays a log, and the one that runs a block, compute.
R == INSTANCE FoldProofs WITH Op <- Replayed
B == INSTANCE FoldProofs WITH Op <- AfterTx

Entry == [op : {"fetch"}, var : Nat]
           \cup [op : {"begin", "commit", "rollback"}]
           \cup [op : {"set"}, var : Nat, table : {"bal", "nonce"}, key : Holder, value : Int]

Log == Seq(Entry)
Heap == Seq(State) \ {<<>>}

Storage == [heap : Heap, saved : State, log : Log, var : Nat]
Handles == [obj : Nat \ {0}, var : Nat]

----------------------------------------------------------------------------
\* Replaying a log

Replay(state, log) ==
    FoldLeft(Replayed, [heap |-> <<state>>, saved |-> state, bound |-> <<>>], log)

\* Replaying an empty log changes nothing; replaying one more entry replays it
\* on what the others gave.
LEMMA ReplayStep ==
    ASSUME NEW state
    PROVE  /\ Replay(state, <<>>) = [heap |-> <<state>>, saved |-> state, bound |-> <<>>]
           /\ \A log \in Log, e \in Entry :
                Replay(state, Append(log, e)) = Replayed(Replay(state, log), e)
<1> DEFINE base == [heap |-> <<state>>, saved |-> state, bound |-> <<>>]
<1>1. \A log : Replay(state, log) = R!Fold(base, log)
  BY Zenon DEF Replay, R!Fold, FoldLeft, MapThenFoldSet, R!FoldLeft, R!MapThenFoldSet, Max, R!Max
<1> HIDE DEF base
<1>2. R!Fold(base, <<>>) = base
  BY R!FoldEmpty
<1>3. \A log \in Seq(Entry), e \in Entry :
         R!Fold(base, Append(log, e)) = Replayed(R!Fold(base, log), e)
  BY R!FoldAppend
<1>4. QED
  BY <1>1, <1>2, <1>3 DEF base, Log

\* What the fields of a storage are.
LEMMA StorageFields ==
    ASSUME NEW s \in Storage
    PROVE  /\ s.log \in Log /\ s.heap \in Heap /\ s.saved \in State /\ s.var \in Nat
           /\ Len(s.heap) \in Nat \ {0}
           /\ \A e \in Entry : Append(s.log, e) \in Log
<1>1. s.log \in Log /\ s.heap \in Heap /\ s.saved \in State /\ s.var \in Nat
  BY DEF Storage
<1>2. Len(s.heap) \in Nat \ {0}
  BY <1>1 DEF Heap
<1>3. \A e \in Entry : Append(s.log, e) \in Log
  BY <1>1 DEF Log
<1>4. QED
  BY <1>1, <1>2, <1>3

\* A storage is its fields, whatever becomes of some of them.
LEMMA StorageRecord ==
    ASSUME NEW s \in Storage
    PROVE  /\ s = [heap |-> s.heap, saved |-> s.saved, log |-> s.log, var |-> s.var]
           /\ \A log : [s EXCEPT !.log = log]
                = [heap |-> s.heap, saved |-> s.saved, log |-> log, var |-> s.var]
<1>1. s = [heap |-> s.heap, saved |-> s.saved, log |-> s.log, var |-> s.var]
  BY DEF Storage
<1>2. ASSUME NEW log
      PROVE  [s EXCEPT !.log = log]
                = [heap |-> s.heap, saved |-> s.saved, log |-> log, var |-> s.var]
  BY <1>1
<1>3. QED
  BY <1>1, <1>2

\* The objects that the variables of a storage's log were fetched from.
Bound(s, state) == Replay(state, s.log).bound

\* What the entries of a storage's log make of the state it was opened on is what
\* the storage holds.
Faithful(s, state) ==
    /\ Replay(state, s.log) = [heap |-> s.heap, saved |-> s.saved, bound |-> Bound(s, state)]
    /\ Bound(s, state) \in Seq(1..Len(s.heap)) /\ Len(Bound(s, state)) = s.var

\* A handle is in order when its variable was fetched from its object.
InOrder(s, state, h) ==
    /\ h \in Handles /\ h.obj <= Len(s.heap) /\ h.var < s.var
    /\ Bound(s, state)[h.var + 1] = h.obj

Kept(s, t, state) == \A h \in Handles : InOrder(s, state, h) => InOrder(t, state, h)

----------------------------------------------------------------------------
\* The operations of a storage

\* A handle that is fetched is in order, and so is every other one.
LEMMA FetchStep ==
    ASSUME NEW state, NEW s \in Storage, Faithful(s, state)
    PROVE  /\ Fetch(s) \in Storage /\ Faithful(Fetch(s), state)
           /\ Fetch(s).heap = s.heap /\ Fetch(s).saved = s.saved
           /\ InOrder(Fetch(s), state, Handle(s)) /\ Kept(s, Fetch(s), state)
<1> DEFINE e == [op |-> "fetch", var |-> s.var]
           b == Bound(s, state)
<1>1. PICK t : t = Fetch(s)
  OBVIOUS
<1>2. e \in Entry /\ e.op = "fetch"
  BY DEF Entry, Storage
<1>4. /\ s.log \in Log /\ s.heap \in Heap /\ s.saved \in State /\ s.var \in Nat
      /\ Len(s.heap) \in Nat \ {0} /\ Append(s.log, e) \in Log
  BY <1>2, StorageFields
<1>3. /\ t \in Storage /\ t.heap = s.heap /\ t.saved = s.saved
      /\ t.log = Append(s.log, e) /\ t.var = s.var + 1
  <2>1. t = [[s EXCEPT !.log = Append(s.log, e)] EXCEPT !.var = s.var + 1]
    BY <1>1 DEF Fetch, Logged, Storage
  <2> HIDE DEF e
  <2>2. s = [heap |-> s.heap, saved |-> s.saved, log |-> s.log, var |-> s.var]
    BY DEF Storage
  <2>3. t = [heap |-> s.heap, saved |-> s.saved, log |-> Append(s.log, e), var |-> s.var + 1]
    BY <2>1, <2>2
  <2>4. QED
    BY <1>4, <2>3 DEF Storage
<1>5. Replay(state, t.log) = Replayed(Replay(state, s.log), e)
  <2> HIDE DEF e
  <2>1. QED
    BY <1>2, <1>3, <1>4, ReplayStep, ZenonT(60)
<1>6. Replay(state, t.log) = [heap |-> s.heap, saved |-> s.saved, bound |-> Append(b, Len(s.heap))]
  <2> HIDE DEF e
  <2>1. Replay(state, s.log) = [heap |-> s.heap, saved |-> s.saved, bound |-> b]
    BY DEF Faithful
  <2> HIDE DEF b
  <2>2. PICK r : r = Replay(state, s.log)
    OBVIOUS
  <2>3. Replayed(r, e) = [r EXCEPT !.bound = Append(r.bound, Len(r.heap))]
    BY <1>2 DEF Replayed
  <2>4. r.heap = s.heap /\ r.bound = b
    BY <2>1, <2>2
  <2>5. Replayed(r, e) = [r EXCEPT !.bound = Append(b, Len(s.heap))]
    BY <2>3, <2>4
  <2>6. ASSUME NEW v
        PROVE  [r EXCEPT !.bound = v] = [heap |-> s.heap, saved |-> s.saved, bound |-> v]
    BY <2>1, <2>2
  <2>7. QED
    BY <1>5, <2>2, <2>5, <2>6, Zenon
<1>7. Bound(t, state) = Append(b, Len(s.heap))
  BY <1>6 DEF Bound
<1> HIDE DEF e
<1>8. b \in Seq(1..Len(s.heap)) /\ Len(b) = s.var
  BY DEF Faithful
<1> HIDE DEF b
<1>9. /\ Append(b, Len(s.heap)) \in Seq(1..Len(s.heap))
      /\ Len(Append(b, Len(s.heap))) = s.var + 1
      /\ Append(b, Len(s.heap))[s.var + 1] = Len(s.heap)
      /\ \A i \in 1..s.var : Append(b, Len(s.heap))[i] = b[i]
  BY <1>4, <1>8
<1>10. Faithful(t, state)
  BY <1>3, <1>6, <1>7, <1>9 DEF Faithful
<1>11. InOrder(t, state, Handle(s))
  BY <1>3, <1>4, <1>7, <1>9 DEF InOrder, Handle, Handles
<1>12. Kept(s, t, state)
  <2>1. ASSUME NEW h \in Handles, InOrder(s, state, h) PROVE InOrder(t, state, h)
    <3>1. h.var + 1 \in 1..s.var /\ h.var \in Nat
      BY <1>4, <2>1 DEF InOrder, Handles
    <3>2. QED
      BY <1>3, <1>4, <1>7, <1>9, <2>1, <3>1 DEF InOrder, b
  <2>2. QED
    BY <2>1 DEF Kept
<1>13. QED
  BY <1>1, <1>3, <1>10, <1>11, <1>12

\* An entry of the log that fetches nothing, with what it does to the objects.
LEMMA EntryStep ==
    ASSUME NEW state, NEW s \in Storage, Faithful(s, state), NEW e \in Entry,
           NEW heap \in Heap, NEW saved \in State, Len(heap) >= Len(s.heap),
           NEW t,
           t = [heap |-> heap, saved |-> saved, log |-> Append(s.log, e), var |-> s.var],
           Replayed(Replay(state, s.log), e) =
               [heap |-> heap, saved |-> saved, bound |-> Bound(s, state)]
    PROVE  t \in Storage /\ Faithful(t, state) /\ Kept(s, t, state)
<1>1. /\ s.log \in Log /\ s.heap \in Heap /\ s.saved \in State /\ s.var \in Nat
      /\ Len(s.heap) \in Nat \ {0} /\ Append(s.log, e) \in Log
  BY StorageFields
<1>2. /\ t \in Storage /\ t.heap = heap /\ t.saved = saved
      /\ t.log = Append(s.log, e) /\ t.var = s.var
  BY <1>1 DEF Storage
<1>3. Replay(state, t.log) = [heap |-> heap, saved |-> saved, bound |-> Bound(s, state)]
  <2>1. Replay(state, Append(s.log, e)) = Replayed(Replay(state, s.log), e)
    BY <1>1, ReplayStep
  <2>2. QED
    BY <1>2, <2>1
<1>4. Bound(t, state) = Bound(s, state)
  BY <1>3 DEF Bound
<1>5. Bound(s, state) \in Seq(1..Len(heap))
  <2>1. 1..Len(s.heap) \subseteq 1..Len(heap)
    BY <1>1 DEF Heap
  <2>2. QED
    BY <2>1 DEF Faithful
<1>6. Faithful(t, state)
  BY <1>2, <1>3, <1>4, <1>5 DEF Faithful
<1>7. Kept(s, t, state)
  BY <1>1, <1>2, <1>4 DEF Kept, InOrder, Handles, Heap
<1>8. QED
  BY <1>2, <1>6, <1>7

\* The objects once a balance, or a nonce, of one of them is written.
BalSet(heap, i, key, value) ==
    [heap EXCEPT ![i] = [bal |-> [heap[i].bal EXCEPT ![key] = value], nonce |-> heap[i].nonce]]
NonceSet(heap, i, key, value) ==
    [heap EXCEPT ![i] = [bal |-> heap[i].bal, nonce |-> [heap[i].nonce EXCEPT ![key] = value]]]

WriteAt(heap, i, table, key, value) == [heap EXCEPT ![i][table][key] = value]

\* What is written through a handle is what an assignment to a field of the
\* object is.
LEMMA Written ==
    ASSUME NEW heap \in Heap, NEW i \in 1..Len(heap), NEW value \in Int
    PROVE  /\ \A key \in Holder :
                /\ WriteAt(heap, i, "bal", key, value) = BalSet(heap, i, key, value)
                /\ BalSet(heap, i, key, value) \in Heap
                /\ Len(BalSet(heap, i, key, value)) = Len(heap)
           /\ \A key \in Account :
                /\ WriteAt(heap, i, "nonce", key, value) = NonceSet(heap, i, key, value)
                /\ NonceSet(heap, i, key, value) \in Heap
                /\ Len(NonceSet(heap, i, key, value)) = Len(heap)
<1>1. heap[i] \in State /\ heap \in Seq(State) /\ heap # <<>>
  BY DEF Heap
<1>2. /\ heap[i] = [bal |-> heap[i].bal, nonce |-> heap[i].nonce]
      /\ heap[i].bal \in [Holder -> Int] /\ heap[i].nonce \in [Account -> Int]
  BY <1>1 DEF State
<1>3. ASSUME NEW o \in State
      PROVE  /\ [heap EXCEPT ![i] = o] \in Heap
             /\ Len([heap EXCEPT ![i] = o]) = Len(heap)
  BY <1>1 DEF Heap
<1>4. ASSUME NEW key \in Holder
      PROVE  /\ WriteAt(heap, i, "bal", key, value) = BalSet(heap, i, key, value)
             /\ BalSet(heap, i, key, value) \in Heap
             /\ Len(BalSet(heap, i, key, value)) = Len(heap)
  <2> DEFINE f == [heap[i].bal EXCEPT ![key] = value]
             o == [bal |-> f, nonce |-> heap[i].nonce]
  <2>1. f \in [Holder -> Int]
    BY <1>2
  <2>2. [heap[i] EXCEPT !["bal"][key] = value] = [heap[i] EXCEPT !.bal = f]
    BY <1>2
  <2> HIDE DEF f
  <2>3. o \in State
    BY <1>2, <2>1 DEF State
  <2>4. [heap[i] EXCEPT !.bal = f] = o
    BY <1>2
  <2>5. WriteAt(heap, i, "bal", key, value) = [heap EXCEPT ![i] = o]
    BY <1>1, <2>2, <2>4 DEF WriteAt
  <2>6. BalSet(heap, i, key, value) = [heap EXCEPT ![i] = o]
    BY DEF BalSet, f
  <2> HIDE DEF o
  <2>7. [heap EXCEPT ![i] = o] \in Heap /\ Len([heap EXCEPT ![i] = o]) = Len(heap)
    BY <1>3, <2>3
  <2>8. QED
    BY <2>5, <2>6, <2>7, Zenon
<1>5. ASSUME NEW key \in Account
      PROVE  /\ WriteAt(heap, i, "nonce", key, value) = NonceSet(heap, i, key, value)
             /\ NonceSet(heap, i, key, value) \in Heap
             /\ Len(NonceSet(heap, i, key, value)) = Len(heap)
  <2> DEFINE f == [heap[i].nonce EXCEPT ![key] = value]
             o == [bal |-> heap[i].bal, nonce |-> f]
  <2>1. f \in [Account -> Int]
    BY <1>2
  <2>2. [heap[i] EXCEPT !["nonce"][key] = value] = [heap[i] EXCEPT !.nonce = f]
    BY <1>2
  <2> HIDE DEF f
  <2>3. o \in State
    BY <1>2, <2>1 DEF State
  <2>4. [heap[i] EXCEPT !.nonce = f] = o
    BY <1>2
  <2>5. WriteAt(heap, i, "nonce", key, value) = [heap EXCEPT ![i] = o]
    BY <1>1, <2>2, <2>4 DEF WriteAt
  <2>6. NonceSet(heap, i, key, value) = [heap EXCEPT ![i] = o]
    BY DEF NonceSet, f
  <2> HIDE DEF o
  <2>7. [heap EXCEPT ![i] = o] \in Heap /\ Len([heap EXCEPT ![i] = o]) = Len(heap)
    BY <1>3, <2>3
  <2>8. QED
    BY <2>5, <2>6, <2>7, Zenon
<1>6. QED
  BY <1>4, <1>5

\* A write through a handle that is in order is logged as what it does.
LEMMA PutStep ==
    ASSUME NEW state, NEW s \in Storage, Faithful(s, state), NEW h, InOrder(s, state, h),
           NEW table \in {"bal", "nonce"}, NEW key \in Holder, NEW value \in Int,
           NEW heap \in Heap, Len(heap) = Len(s.heap),
           heap = WriteAt(s.heap, h.obj, table, key, value),
           NEW t, t = Put(s, h, table, key, value)
    PROVE  /\ t \in Storage /\ Faithful(t, state) /\ Kept(s, t, state)
           /\ t.heap = heap /\ t.saved = s.saved
<1> DEFINE e == [op |-> "set", var |-> h.var, table |-> table, key |-> key, value |-> value]
<1>1. /\ s.log \in Log /\ s.heap \in Heap /\ s.saved \in State /\ s.var \in Nat
      /\ Len(s.heap) \in Nat \ {0}
  BY StorageFields
<1>2. /\ e \in Entry /\ e.op = "set" /\ e.var = h.var /\ e.table = table /\ e.key = key
      /\ e.value = value
  BY DEF Entry, InOrder, Handles
<1>3. PICK log : log = Append(s.log, e)
  OBVIOUS
<1>4. t = [[s EXCEPT !.log = log] EXCEPT !.heap[h.obj][table][key] = value]
  BY <1>3 DEF Put, Logged
<1> HIDE DEF e
<1>5. t = [heap |-> heap, saved |-> s.saved, log |-> Append(s.log, e), var |-> s.var]
  <2>1. [s EXCEPT !.log = log]
          = [heap |-> s.heap, saved |-> s.saved, log |-> log, var |-> s.var]
    BY StorageRecord
  <2>2. t = [heap |-> heap, saved |-> s.saved, log |-> log, var |-> s.var]
    BY <1>4, <2>1 DEF WriteAt
  <2>3. QED
    BY <1>3, <2>2
<1>6. Replayed(Replay(state, s.log), e)
          = [heap |-> heap, saved |-> s.saved, bound |-> Bound(s, state)]
  <2>1. PICK r : r = Replay(state, s.log)
    OBVIOUS
  <2>2. r = [heap |-> s.heap, saved |-> s.saved, bound |-> Bound(s, state)]
    BY <2>1 DEF Faithful
  <2>3. Replayed(r, e) = [r EXCEPT !.heap[r.bound[e.var + 1]][e.table][e.key] = e.value]
    BY <1>2 DEF Replayed
  <2>4. r.bound[e.var + 1] = h.obj
    BY <1>2, <2>2 DEF InOrder
  <2>5. Replayed(r, e) = [r EXCEPT !.heap = heap]
    BY <1>2, <2>2, <2>3, <2>4 DEF WriteAt
  <2>6. QED
    BY <2>1, <2>2, <2>5
<1>7. QED
  <2>1. t \in Storage /\ Faithful(t, state) /\ Kept(s, t, state)
    <3>1. Len(heap) >= Len(s.heap)
      BY <1>1
    <3>2. QED
      BY <1>1, <1>2, <1>5, <1>6, <3>1, EntryStep, Zenon
  <2>2. QED
    BY <1>5, <2>1

\* A storage whose log says what it holds.
Sound(s, state) == s \in Storage /\ Faithful(s, state)

\* A balance that is written through a handle in order is logged as what it does.
LEMMA BalStep ==
    ASSUME NEW state, NEW s, Sound(s, state), NEW h, InOrder(s, state, h),
           NEW key \in Holder, NEW value \in Int, NEW t, t = Put(s, h, "bal", key, value)
    PROVE  /\ Sound(t, state) /\ Kept(s, t, state)
           /\ t.heap = BalSet(s.heap, h.obj, key, value) /\ t.saved = s.saved
<1>1. s \in Storage /\ Faithful(s, state)
  BY DEF Sound
<1>2. s.heap \in Heap /\ h.obj \in 1..Len(s.heap)
  BY <1>1, StorageFields DEF InOrder, Handles
<1>3. PICK heap : heap = BalSet(s.heap, h.obj, key, value)
  OBVIOUS
<1>4. heap \in Heap /\ Len(heap) = Len(s.heap) /\ heap = WriteAt(s.heap, h.obj, "bal", key, value)
  <2>1. /\ WriteAt(s.heap, h.obj, "bal", key, value) = BalSet(s.heap, h.obj, key, value)
        /\ BalSet(s.heap, h.obj, key, value) \in Heap
        /\ Len(BalSet(s.heap, h.obj, key, value)) = Len(s.heap)
    BY <1>2, Written, Zenon
  <2>2. QED
    BY <1>3, <2>1, Zenon
<1>5. t \in Storage /\ Faithful(t, state) /\ Kept(s, t, state) /\ t.heap = heap /\ t.saved = s.saved
  <2>1. PICK table \in {"bal", "nonce"} : table = "bal"
    OBVIOUS
  <2>2. heap = WriteAt(s.heap, h.obj, table, key, value) /\ t = Put(s, h, table, key, value)
    BY <1>4, <2>1
  <2>3. QED
    BY <1>1, <1>2, <1>4, <2>2, PutStep
<1>6. QED
  BY <1>3, <1>5 DEF Sound

\* A nonce that is written through a handle in order is logged as what it does.
LEMMA NonceStep ==
    ASSUME NEW state, NEW s, Sound(s, state), NEW h, InOrder(s, state, h),
           NEW key \in Account, NEW value \in Int, NEW t, t = Put(s, h, "nonce", key, value)
    PROVE  /\ Sound(t, state) /\ Kept(s, t, state)
           /\ t.heap = NonceSet(s.heap, h.obj, key, value) /\ t.saved = s.saved
<1>1. s \in Storage /\ Faithful(s, state)
  BY DEF Sound
<1>2. s.heap \in Heap /\ h.obj \in 1..Len(s.heap) /\ key \in Holder
  BY <1>1, StorageFields DEF InOrder, Handles, Holder
<1>3. PICK heap : heap = NonceSet(s.heap, h.obj, key, value)
  OBVIOUS
<1>4. heap \in Heap /\ Len(heap) = Len(s.heap) /\ heap = WriteAt(s.heap, h.obj, "nonce", key, value)
  <2>1. /\ WriteAt(s.heap, h.obj, "nonce", key, value) = NonceSet(s.heap, h.obj, key, value)
        /\ NonceSet(s.heap, h.obj, key, value) \in Heap
        /\ Len(NonceSet(s.heap, h.obj, key, value)) = Len(s.heap)
    BY <1>2, Written, Zenon
  <2>2. QED
    BY <1>3, <2>1, Zenon
<1>5. t \in Storage /\ Faithful(t, state) /\ Kept(s, t, state) /\ t.heap = heap /\ t.saved = s.saved
  <2>1. PICK table \in {"bal", "nonce"} : table = "nonce"
    OBVIOUS
  <2>2. heap = WriteAt(s.heap, h.obj, table, key, value) /\ t = Put(s, h, table, key, value)
    BY <1>4, <2>1
  <2>3. QED
    BY <1>1, <1>2, <1>4, <2>2, PutStep
<1>6. QED
  BY <1>3, <1>5 DEF Sound

\* The beginning of a transaction, its commit and its rollback.
LEMMA MarkStep ==
    ASSUME NEW state, NEW s, Sound(s, state)
    PROVE  /\ Sound(BeginTx(s), state) /\ Kept(s, BeginTx(s), state)
           /\ BeginTx(s).heap = s.heap /\ BeginTx(s).saved = Live(s)
           /\ Sound(CommitTx(s), state) /\ Kept(s, CommitTx(s), state)
           /\ CommitTx(s).heap = s.heap /\ CommitTx(s).saved = s.saved
           /\ Sound(RollbackTx(s), state) /\ Kept(s, RollbackTx(s), state)
           /\ RollbackTx(s).heap = Append(s.heap, s.saved) /\ RollbackTx(s).saved = s.saved
           /\ Live(RollbackTx(s)) = s.saved
<1>1. s \in Storage /\ Faithful(s, state)
  BY DEF Sound
<1>2. /\ s.log \in Log /\ s.heap \in Heap /\ s.saved \in State /\ s.var \in Nat
      /\ Len(s.heap) \in Nat \ {0}
  BY <1>1, StorageFields
<1>3. Live(s) = s.heap[Len(s.heap)] /\ Live(s) \in State
  BY <1>2 DEF Live, Last, Heap
<1>4. /\ Append(s.heap, s.saved) \in Heap /\ Len(Append(s.heap, s.saved)) = Len(s.heap) + 1
      /\ Append(s.heap, s.saved)[Len(s.heap) + 1] = s.saved
  BY <1>2 DEF Heap
<1>5. PICK r : r = Replay(state, s.log)
  OBVIOUS
<1>6. /\ r = [heap |-> s.heap, saved |-> s.saved, bound |-> Bound(s, state)]
      /\ r.heap = s.heap /\ r.saved = s.saved /\ r.bound = Bound(s, state)
  BY <1>1, <1>5 DEF Faithful
<1>7. PICK live : live = Live(s)
  OBVIOUS
<1>8. PICK heap : heap = Append(s.heap, s.saved)
  OBVIOUS
<1>9. [op |-> "begin"] \in Entry /\ [op |-> "commit"] \in Entry /\ [op |-> "rollback"] \in Entry
  BY DEF Entry
<1>10. /\ Sound(BeginTx(s), state) /\ Kept(s, BeginTx(s), state)
       /\ BeginTx(s).heap = s.heap /\ BeginTx(s).saved = Live(s)
  <2>1. PICK log : log = Append(s.log, [op |-> "begin"])
    OBVIOUS
  <2>2. BeginTx(s) = [heap |-> s.heap, saved |-> live, log |-> log, var |-> s.var]
    <3>1. [s EXCEPT !.log = log]
            = [heap |-> s.heap, saved |-> s.saved, log |-> log, var |-> s.var]
      BY <1>1, StorageRecord
    <3>2. BeginTx(s) = [[s EXCEPT !.log = log] EXCEPT !.saved = live]
      BY <1>7, <2>1 DEF BeginTx, Logged
    <3>3. QED
      BY <3>1, <3>2
  <2>3. Replayed(r, [op |-> "begin"]) = [heap |-> s.heap, saved |-> live, bound |-> Bound(s, state)]
    <3>1. Last(r.heap) = live
      BY <1>6, <1>7 DEF Live
    <3>2. Replayed(r, [op |-> "begin"]) = [r EXCEPT !.saved = live]
      BY <3>1 DEF Replayed
    <3>3. QED
      BY <1>6, <3>2
  <2>4. PICK e : e = [op |-> "begin"]
    OBVIOUS
  <2>5. PICK t : t = BeginTx(s)
    OBVIOUS
  <2>6. t \in Storage /\ Faithful(t, state) /\ Kept(s, t, state)
    <3>1. live \in State /\ s.heap \in Heap /\ Len(s.heap) >= Len(s.heap) /\ e \in Entry
      BY <1>2, <1>3, <1>7, <1>9, <2>4
    <3>2. t = [heap |-> s.heap, saved |-> live, log |-> Append(s.log, e), var |-> s.var]
      BY <2>1, <2>2, <2>4, <2>5
    <3>3. Replayed(Replay(state, s.log), e)
            = [heap |-> s.heap, saved |-> live, bound |-> Bound(s, state)]
      BY <1>5, <2>3, <2>4
    <3>4. QED
      BY <1>1, <3>1, <3>2, <3>3, EntryStep, Zenon
  <2>7. t.heap = s.heap /\ t.saved = live
    BY <2>2, <2>5
  <2>8. QED
    BY <1>7, <2>5, <2>6, <2>7 DEF Sound
<1>11. /\ Sound(CommitTx(s), state) /\ Kept(s, CommitTx(s), state)
       /\ CommitTx(s).heap = s.heap /\ CommitTx(s).saved = s.saved
  <2>1. PICK log : log = Append(s.log, [op |-> "commit"])
    OBVIOUS
  <2>2. CommitTx(s) = [heap |-> s.heap, saved |-> s.saved, log |-> log, var |-> s.var]
    <3>1. CommitTx(s) = [s EXCEPT !.log = log]
      BY <2>1 DEF CommitTx, Logged
    <3>2. QED
      BY <1>1, <3>1, StorageRecord
  <2>3. Replayed(r, [op |-> "commit"])
          = [heap |-> s.heap, saved |-> s.saved, bound |-> Bound(s, state)]
    BY <1>6 DEF Replayed
  <2>4. PICK e : e = [op |-> "commit"]
    OBVIOUS
  <2>5. PICK t : t = CommitTx(s)
    OBVIOUS
  <2>6. t \in Storage /\ Faithful(t, state) /\ Kept(s, t, state)
    <3>1. s.saved \in State /\ s.heap \in Heap /\ Len(s.heap) >= Len(s.heap) /\ e \in Entry
      BY <1>2, <1>9, <2>4
    <3>2. t = [heap |-> s.heap, saved |-> s.saved, log |-> Append(s.log, e), var |-> s.var]
      BY <2>1, <2>2, <2>4, <2>5
    <3>3. Replayed(Replay(state, s.log), e)
            = [heap |-> s.heap, saved |-> s.saved, bound |-> Bound(s, state)]
      BY <1>5, <2>3, <2>4
    <3>4. QED
      BY <1>1, <3>1, <3>2, <3>3, EntryStep, Zenon
  <2>7. t.heap = s.heap /\ t.saved = s.saved
    BY <2>2, <2>5
  <2>8. QED
    BY <2>5, <2>6, <2>7 DEF Sound
<1>12. /\ Sound(RollbackTx(s), state) /\ Kept(s, RollbackTx(s), state)
       /\ RollbackTx(s).heap = Append(s.heap, s.saved) /\ RollbackTx(s).saved = s.saved
  <2>1. PICK log : log = Append(s.log, [op |-> "rollback"])
    OBVIOUS
  <2>2. RollbackTx(s) = [heap |-> heap, saved |-> s.saved, log |-> log, var |-> s.var]
    <3>1. [s EXCEPT !.log = log]
            = [heap |-> s.heap, saved |-> s.saved, log |-> log, var |-> s.var]
      BY <1>1, StorageRecord
    <3>2. RollbackTx(s) = [[s EXCEPT !.log = log] EXCEPT !.heap = Append(@, s.saved)]
      BY <2>1 DEF RollbackTx, Logged
    <3>3. RollbackTx(s) = [[s EXCEPT !.log = log] EXCEPT !.heap = heap]
      BY <1>8, <3>1, <3>2
    <3>4. QED
      BY <3>1, <3>3
  <2>3. Replayed(r, [op |-> "rollback"])
          = [heap |-> heap, saved |-> s.saved, bound |-> Bound(s, state)]
    <3>1. Replayed(r, [op |-> "rollback"]) = [r EXCEPT !.heap = Append(r.heap, r.saved)]
      BY DEF Replayed
    <3>2. Replayed(r, [op |-> "rollback"]) = [r EXCEPT !.heap = heap]
      BY <1>6, <1>8, <3>1
    <3>3. QED
      BY <1>6, <3>2
  <2>4. PICK e : e = [op |-> "rollback"]
    OBVIOUS
  <2>5. PICK t : t = RollbackTx(s)
    OBVIOUS
  <2>6. t \in Storage /\ Faithful(t, state) /\ Kept(s, t, state)
    <3>1. s.saved \in State /\ heap \in Heap /\ Len(heap) >= Len(s.heap) /\ e \in Entry
      BY <1>2, <1>4, <1>8, <1>9, <2>4
    <3>2. t = [heap |-> heap, saved |-> s.saved, log |-> Append(s.log, e), var |-> s.var]
      BY <2>1, <2>2, <2>4, <2>5
    <3>3. Replayed(Replay(state, s.log), e)
            = [heap |-> heap, saved |-> s.saved, bound |-> Bound(s, state)]
      BY <1>5, <2>3, <2>4
    <3>4. QED
      BY <1>1, <3>1, <3>2, <3>3, EntryStep, Zenon
  <2>7. t.heap = heap /\ t.saved = s.saved
    BY <2>2, <2>5
  <2>8. QED
    BY <1>8, <2>5, <2>6, <2>7 DEF Sound
<1>13. Live(RollbackTx(s)) = s.saved
  BY <1>4, <1>12 DEF Live, Last
<1>14. QED
  BY <1>10, <1>11, <1>12, <1>13

----------------------------------------------------------------------------
\* Money

\* A balance that changes changes the total by as much.
LEMMA TotalChange ==
    ASSUME NEW bal \in [Holder -> Int], NEW a \in Holder, NEW v \in Int
    PROVE  Total(bal) \in Int /\ Total([bal EXCEPT ![a] = v]) = Total(bal) + (v - bal[a])
<1>1. \A f : Total(f) = R!Sum(f, Holder)
  BY Zenon DEF Total, R!Sum, MapThenSumSet, MapThenFoldSet, R!MapThenSumSet, R!MapThenFoldSet
<1>2. IsFiniteSet(Holder)
  BY ExecuteAssumption, FS_AddElement DEF Holder
<1>3. /\ R!Sum(bal, Holder) \in Int
      /\ R!Sum([bal EXCEPT ![a] = v], Holder) = R!Sum(bal, Holder) + (v - bal[a])
  <2>1. R!IsFiniteSet(Holder)
    BY <1>2 DEF IsFiniteSet, R!IsFiniteSet
  <2>2. QED
    BY <2>1, R!SumChange
<1>4. QED
  BY <1>1, <1>3

\* A state whose balances add up, and none of which is below zero.
Good(o, total) ==
    /\ Total(o.bal) = total
    /\ NaturalAmounts => \A a \in Holder : o.bal[a] >= 0

AllGood(heap, total) == \A i \in 1..Len(heap) : Good(heap[i], total)

SameNonces(g, heap) ==
    Len(g) = Len(heap) /\ \A i \in 1..Len(heap) : g[i].nonce = heap[i].nonce

\* What the objects are once a balance of one of them has been written.
LEMMA BalAt ==
    ASSUME NEW heap \in Heap, NEW i \in 1..Len(heap), NEW key \in Holder, NEW value \in Int,
           NEW g, g = BalSet(heap, i, key, value),
           NEW bal, bal = [heap[i].bal EXCEPT ![key] = value]
    PROVE  /\ g \in Heap /\ Len(g) = Len(heap) /\ Len(heap) \in Nat \ {0}
           /\ heap[i].bal \in [Holder -> Int] /\ bal \in [Holder -> Int] /\ g[i].bal = bal
           /\ \A j \in 1..Len(heap) : j # i => g[j] = heap[j]
           /\ SameNonces(g, heap)
<1>1. heap \in Seq(State) /\ heap # <<>> /\ Len(heap) \in Nat \ {0} /\ DOMAIN heap = 1..Len(heap)
  BY DEF Heap
<1>2. heap[i] \in State
  BY <1>1
<1>3. heap[i].bal \in [Holder -> Int]
  BY <1>2 DEF State
<1>4. bal \in [Holder -> Int]
  BY <1>3
<1>5. g \in Heap /\ Len(g) = Len(heap)
  BY Written
<1>6. PICK o : o = [bal |-> bal, nonce |-> heap[i].nonce]
  OBVIOUS
<1>7. g = [heap EXCEPT ![i] = o]
  BY <1>6 DEF BalSet
<1>8. g[i] = o /\ \A j \in 1..Len(heap) : j # i => g[j] = heap[j]
  BY <1>1, <1>7
<1>9. g[i].bal = bal /\ g[i].nonce = heap[i].nonce
  BY <1>6, <1>8
<1>10. SameNonces(g, heap)
  BY <1>5, <1>8, <1>9 DEF SameNonces
<1>11. QED
  BY <1>1, <1>3, <1>4, <1>5, <1>8, <1>9, <1>10

\* A transfer keeps the total of every object, of those a rollback has taken out
\* of the tree as well, and no nonce changes.
LEMMA TransferStep ==
    ASSUME NEW state, NEW s, Sound(s, state), NEW h, InOrder(s, state, h),
           NEW from \in Holder, NEW to \in Holder, NEW amount \in Int, NaturalAmounts => amount >= 0,
           NEW total \in Int, AllGood(s.heap, total), NEW d, d = Transfer(s, h, from, to, amount)
    PROVE  /\ Sound(d.s, state) /\ Kept(s, d.s, state) /\ d.err \in BOOLEAN
           /\ AllGood(d.s.heap, total) /\ SameNonces(d.s.heap, s.heap) /\ d.s.saved = s.saved
<1>1. s.heap \in Heap /\ h.obj \in 1..Len(s.heap)
  BY StorageFields DEF InOrder, Handles, Sound
<1> DEFINE heap == s.heap
           i    == h.obj
           bal  == heap[i].bal
<1>2. bal \in [Holder -> Int] /\ Len(heap) \in Nat \ {0}
  <2>1. heap \in Seq(State) /\ heap # <<>>
    BY <1>1 DEF Heap
  <2>2. heap[i] \in State
    BY <1>1, <2>1
  <2>3. QED
    BY <2>1, <2>2 DEF State
<1>3. CASE bal[from] < amount
  <2>1. d.s = s /\ d.err = TRUE
    BY <1>3 DEF Transfer, BalanceOf
  <2>2. QED
    BY <2>1 DEF Kept, SameNonces
<1>4. CASE ~(bal[from] < amount)
  <2>1. PICK v \in Int : v = bal[from] - amount
    BY <1>2
  <2>2. PICK p : p = Put(s, h, "bal", from, v)
    OBVIOUS
  <2>3. /\ Sound(p, state) /\ Kept(s, p, state) /\ p.saved = s.saved
        /\ p.heap = BalSet(heap, i, from, v)
    BY <2>2, BalStep
  <2>4. PICK paid : paid = [bal EXCEPT ![from] = v]
    OBVIOUS
  <2>5. /\ p.heap \in Heap /\ Len(p.heap) = Len(heap) /\ paid \in [Holder -> Int]
        /\ p.heap[i].bal = paid /\ SameNonces(p.heap, heap)
        /\ \A j \in 1..Len(heap) : j # i => p.heap[j] = heap[j]
    <3>1. PICK g \in Heap : g = heap
      BY <1>1
    <3>2. PICK n \in 1..Len(g) : n = i
      BY <1>1, <3>1
    <3>3. PICK k : k = p.heap
      OBVIOUS
    <3>4. k = BalSet(g, n, from, v) /\ paid = [g[n].bal EXCEPT ![from] = v]
      BY <2>3, <2>4, <3>1, <3>2, <3>3
    <3>5. /\ k \in Heap /\ Len(k) = Len(g) /\ paid \in [Holder -> Int]
          /\ k[n].bal = paid /\ SameNonces(k, g)
          /\ \A j \in 1..Len(g) : j # n => k[j] = g[j]
      BY <3>4, BalAt
    <3>6. QED
      BY <3>1, <3>2, <3>3, <3>5
  <2>6. InOrder(p, state, h)
    BY <2>3 DEF Kept, InOrder
  <2>7. PICK w \in Int : w = paid[to] + amount
    BY <2>5
  <2>8. PICK q : q = Put(p, h, "bal", to, w)
    OBVIOUS
  <2>9. d.s = q /\ d.err = FALSE
    BY <1>4, <2>1, <2>2, <2>5, <2>7, <2>8 DEF Transfer, BalanceOf
  <2>10. /\ Sound(q, state) /\ Kept(p, q, state) /\ q.saved = s.saved
         /\ q.heap = BalSet(p.heap, i, to, w)
    BY <2>3, <2>6, <2>8, BalStep
  <2>11. PICK kept : kept = [paid EXCEPT ![to] = w]
    OBVIOUS
  <2>12. /\ Len(q.heap) = Len(p.heap) /\ q.heap[i].bal = kept /\ SameNonces(q.heap, p.heap)
         /\ \A j \in 1..Len(heap) : j # i => q.heap[j] = p.heap[j]
    <3>1. i \in 1..Len(p.heap)
      BY <1>1, <2>5
    <3>2. kept = [p.heap[i].bal EXCEPT ![to] = w]
      BY <2>5, <2>11
    <3>3. PICK g \in Heap : g = p.heap
      BY <2>5
    <3>4. i \in 1..Len(g) /\ q.heap = BalSet(g, i, to, w) /\ kept = [g[i].bal EXCEPT ![to] = w]
      BY <2>10, <3>1, <3>2, <3>3
    <3>5. PICK k : k = q.heap
      OBVIOUS
    <3>6. /\ Len(k) = Len(g) /\ k[i].bal = kept /\ SameNonces(k, g)
          /\ \A j \in 1..Len(g) : j # i => k[j] = g[j]
      <4>1. k = BalSet(g, i, to, w)
        BY <3>4, <3>5
      <4>2. PICK n \in 1..Len(g) : n = i
        BY <3>4
      <4>3. k = BalSet(g, n, to, w) /\ kept = [g[n].bal EXCEPT ![to] = w]
        BY <3>4, <4>1, <4>2
      <4>4. /\ Len(k) = Len(g) /\ k[n].bal = kept /\ SameNonces(k, g)
            /\ \A j \in 1..Len(g) : j # n => k[j] = g[j]
        BY <4>3, BalAt
      <4>5. QED
        BY <4>2, <4>4
    <3>7. QED
      BY <2>5, <3>3, <3>5, <3>6
  <2>13. Good(q.heap[i], total)
    <3>1. Total(bal) = total /\ (NaturalAmounts => \A a \in Holder : bal[a] >= 0)
      BY <1>1 DEF AllGood, Good
    <3>2. Total(paid) = Total(bal) + (v - bal[from]) /\ Total(bal) \in Int
      BY <1>2, <2>4, TotalChange
    <3>3. Total(kept) = Total(paid) + (w - paid[to]) /\ Total(paid) \in Int
      BY <2>5, <2>11, TotalChange
    <3>4. bal[from] \in Int /\ paid[to] \in Int
      BY <1>2, <2>5
    <3>5. Total(kept) = total
      BY <2>1, <2>7, <3>1, <3>2, <3>3, <3>4
    <3>6. ASSUME NaturalAmounts, NEW a \in Holder PROVE kept[a] >= 0
      <4>1. v >= 0 /\ \A b \in Holder : bal[b] >= 0
        BY <1>4, <2>1, <3>1, <3>4, <3>6
      <4>2. \A b \in Holder : paid[b] = IF b = from THEN v ELSE bal[b]
        BY <1>2, <2>4
      <4>3. w >= 0
        BY <2>7, <3>4, <3>6, <4>1, <4>2
      <4>4. kept[a] = IF a = to THEN w ELSE paid[a]
        BY <2>5, <2>11
      <4>5. QED
        BY <4>1, <4>2, <4>3, <4>4
    <3>7. QED
      BY <2>12, <3>5, <3>6 DEF Good
  <2>14. AllGood(q.heap, total)
    BY <2>5, <2>12, <2>13 DEF AllGood
  <2>15. SameNonces(q.heap, heap)
    BY <2>5, <2>12 DEF SameNonces
  <2>16. Kept(s, q, state)
    BY <2>3, <2>10 DEF Kept
  <2>17. QED
    BY <2>9, <2>10, <2>14, <2>15, <2>16
<1>5. QED
  BY <1>3, <1>4

----------------------------------------------------------------------------
\* The executors

\* What an execution keeps from s to t: the log says what the storage holds,
\* handles stay in order and every object adds up.
Safe(s, t, state, total) == Sound(t, state) /\ Kept(s, t, state) /\ AllGood(t.heap, total)

\* What is kept twice is kept.
LEMMA SafeTwice ==
    ASSUME NEW s, NEW t, NEW u, NEW state, NEW total,
           Safe(s, t, state, total), Safe(t, u, state, total)
    PROVE  Safe(s, u, state, total)
BY DEF Safe, Kept

\* The object in the tree is one of the objects there are.
LEMMA LiveObject ==
    ASSUME NEW s, NEW state, Sound(s, state)
    PROVE  /\ Len(s.heap) \in Nat \ {0} /\ Live(s) = s.heap[Len(s.heap)] /\ Live(s) \in State
           /\ s.saved \in State
           /\ \A t : SameNonces(t.heap, s.heap) => Live(t).nonce = Live(s).nonce
           /\ \A total : AllGood(s.heap, total) => Good(Live(s), total)
<1>1. /\ s.heap \in Heap /\ s.saved \in State /\ Len(s.heap) \in Nat \ {0}
      /\ Len(s.heap) \in 1..Len(s.heap)
  BY StorageFields DEF Sound
<1>2. \A t : Live(t) = t.heap[Len(t.heap)]
  BY DEF Live, Last
<1>3. Live(s) \in State
  BY <1>1, <1>2 DEF Heap
<1>4. QED
  BY <1>1, <1>2, <1>3 DEF SameNonces, AllGood

\* The marks of a transaction keep what is kept; a rollback, if what it takes back
\* to adds up.
LEMMA SafeMarks ==
    ASSUME NEW s, NEW state, NEW total, Sound(s, state), AllGood(s.heap, total)
    PROVE  /\ Safe(s, BeginTx(s), state, total) /\ Good(BeginTx(s).saved, total)
           /\ Safe(s, CommitTx(s), state, total) /\ Live(CommitTx(s)) = Live(s)
           /\ Good(s.saved, total) => Safe(s, RollbackTx(s), state, total)
<1>1. PICK b : b = BeginTx(s)
  OBVIOUS
<1>2. Safe(s, b, state, total) /\ Good(b.saved, total)
  BY <1>1, MarkStep, LiveObject DEF Safe
<1>3. PICK c : c = CommitTx(s)
  OBVIOUS
<1>4. Safe(s, c, state, total) /\ c.heap = s.heap
  BY <1>3, MarkStep DEF Safe
<1>5. Live(c) = Live(s)
  BY <1>4 DEF Live
<1>6. ASSUME Good(s.saved, total) PROVE Safe(s, RollbackTx(s), state, total)
  <2>1. PICK t : t = RollbackTx(s)
    OBVIOUS
  <2>2. Sound(t, state) /\ Kept(s, t, state) /\ t.heap = Append(s.heap, s.saved)
    BY <2>1, MarkStep
  <2>3. s.heap \in Seq(State) /\ s.saved \in State
    BY StorageFields DEF Sound, Heap
  <2>4. AllGood(t.heap, total)
    <3>1. PICK o \in State : o = s.saved
      BY <2>3
    <3>2. PICK heap \in Seq(State) : heap = s.heap
      BY <2>3
    <3>3. /\ Len(Append(heap, o)) = Len(heap) + 1 /\ Append(heap, o)[Len(heap) + 1] = o
          /\ \A i \in 1..Len(heap) : Append(heap, o)[i] = heap[i]
          /\ Len(heap) \in Nat
      OBVIOUS
    <3>4. Good(o, total) /\ \A i \in 1..Len(heap) : Good(heap[i], total)
      BY <1>6, <3>1, <3>2 DEF AllGood
    <3>5. QED
      BY <2>2, <3>1, <3>2, <3>3, <3>4 DEF AllGood
  <2>5. QED
    BY <2>1, <2>2, <2>4 DEF Safe
<1>7. QED
  BY <1>1, <1>2, <1>3, <1>4, <1>5, <1>6

\* A transaction of no negative amount, if there are none.
Amounts(tx) == NaturalAmounts => tx.value >= 0 /\ tx.fee >= 0 /\ tx.cost >= 0

\* The listener of a transaction keeps what is kept, and every nonce.
LEMMA ListenStep ==
    ASSUME NEW state, NEW s, Sound(s, state), NEW ext, InOrder(s, state, ext),
           NEW tx \in Tx, Amounts(tx), NEW total \in Int, AllGood(s.heap, total),
           NEW d, d = Listen(s, ext, tx)
    PROVE  /\ Safe(s, d.s, state, total) /\ d.err \in BOOLEAN
           /\ SameNonces(d.s.heap, s.heap) /\ d.s.saved = s.saved
<1>1. tx.value \in Int /\ tx.pays \in Account \cup {None} /\ tx.ok \in BOOLEAN
  BY DEF Tx
<1>2. Safe(s, s, state, total) /\ SameNonces(s.heap, s.heap)
  BY DEF Safe, Kept, SameNonces
<1>3. CASE tx.cost > tx.fee
  BY <1>2, <1>3 DEF Listen
<1>4. CASE ~(tx.cost > tx.fee) /\ tx.pays = None
  <2>1. d.s = s /\ d.err = (FALSE \/ ~tx.ok)
    BY <1>4 DEF Listen
  <2>2. QED
    BY <1>1, <1>2, <2>1
<1>5. CASE ~(tx.cost > tx.fee) /\ tx.pays # None
  <2>1. PICK paid : paid = Transfer(s, ext, Sys, tx.pays, tx.value)
    OBVIOUS
  <2>2. d.s = paid.s /\ d.err = (paid.err \/ ~tx.ok)
    BY <1>5, <2>1 DEF Listen
  <2>3. Sys \in Holder /\ tx.pays \in Holder
    BY <1>1, <1>5 DEF Holder
  <2>4. PICK to \in Holder : to = tx.pays
    BY <2>3
  <2>5. PICK amount \in Int : amount = tx.value
    BY <1>1
  <2>6. (NaturalAmounts => amount >= 0) /\ paid = Transfer(s, ext, Sys, to, amount)
    BY <2>1, <2>4, <2>5 DEF Amounts
  <2>7. /\ Sound(paid.s, state) /\ Kept(s, paid.s, state) /\ paid.err \in BOOLEAN
        /\ AllGood(paid.s.heap, total) /\ SameNonces(paid.s.heap, s.heap) /\ paid.s.saved = s.saved
    BY <2>3, <2>6, TransferStep
  <2>8. QED
    BY <1>1, <2>2, <2>7 DEF Safe
<1>6. QED
  BY <1>3, <1>4, <1>5

\* A fetch keeps what is kept.
LEMMA SafeFetch ==
    ASSUME NEW s, NEW state, NEW total, Sound(s, state), AllGood(s.heap, total)
    PROVE  /\ Safe(s, Fetch(s), state, total) /\ InOrder(Fetch(s), state, Handle(s))
           /\ Fetch(s).heap = s.heap /\ Fetch(s).saved = s.saved
<1>1. PICK f : f = Fetch(s)
  OBVIOUS
<1>2. f \in Storage /\ Faithful(f, state) /\ f.heap = s.heap /\ f.saved = s.saved /\ Kept(s, f, state)
      /\ InOrder(f, state, Handle(s))
  BY <1>1, FetchStep DEF Sound
<1>3. QED
  BY <1>1, <1>2 DEF Safe, Sound

\* A transaction, after its nonce is counted, keeps what is kept; the nonces in the
\* tree are those there were, whether it is committed or rolled back.
LEMMA BodyStep ==
    ASSUME NEW state, NEW s, Sound(s, state), NEW ext, InOrder(s, state, ext),
           NEW tx \in Tx, Amounts(tx), NEW total \in Int, AllGood(s.heap, total),
           NEW d, d = ExecuteBody(s, ext, tx)
    PROVE  Safe(s, d.s, state, total) /\ d.err \in BOOLEAN /\ Live(d.s).nonce = Live(s).nonce
<1>1. PICK kv : kv = Handle(s)
  OBVIOUS
<1>2. PICK f : f = Fetch(s)
  OBVIOUS
<1>3. Safe(s, f, state, total) /\ InOrder(f, state, kv) /\ f.heap = s.heap
  BY <1>1, <1>2, SafeFetch
<1>4. Live(f) = Live(s)
  BY <1>3 DEF Live
<1>5. CASE BalanceOf(f, kv, tx.from) < tx.value + tx.fee
  <2>1. d.s = f /\ d.err = FALSE
    BY <1>1, <1>2, <1>5 DEF ExecuteBody
  <2>2. QED
    BY <1>3, <1>4, <2>1
<1>6. CASE ~(BalanceOf(f, kv, tx.from) < tx.value + tx.fee)
  <2>1. /\ tx.from \in Account /\ tx.from \in Holder /\ Sys \in Holder /\ Coinbase \in Holder
        /\ tx.value \in Int /\ tx.fee \in Int /\ tx.cost \in Int
    BY ExecuteAssumption DEF Tx, Holder
  <2>2. PICK from \in Holder : from = tx.from
    BY <2>1
  <2>3. PICK value \in Int : value = tx.value
    BY <2>1
  <2>4. PICK cost \in Int : cost = Cost(tx)
    BY <2>1 DEF Cost
  <2>5. (NaturalAmounts => value >= 0) /\ (NaturalAmounts => cost >= 0)
    BY <2>1, <2>3, <2>4 DEF Amounts, Cost
  <2>6. PICK b : b = BeginTx(f)
    OBVIOUS
  <2>7. Safe(f, b, state, total) /\ Good(b.saved, total) /\ b.heap = f.heap /\ b.saved = Live(f)
    BY <1>3, <2>6, SafeMarks, MarkStep DEF Safe
  <2>8. InOrder(b, state, kv) /\ InOrder(b, state, ext)
    BY <1>3, <2>7 DEF Safe, Kept, InOrder
  <2>9. PICK sent : sent = Transfer(b, kv, from, Sys, value)
    OBVIOUS
  <2>10. /\ Safe(b, sent.s, state, total) /\ SameNonces(sent.s.heap, b.heap)
         /\ sent.s.saved = b.saved
    BY <2>1, <2>5, <2>7, <2>8, <2>9, TransferStep DEF Safe
  <2>11. InOrder(sent.s, state, kv) /\ InOrder(sent.s, state, ext)
    BY <2>8, <2>10 DEF Safe, Kept, InOrder
  <2>12. PICK ran : ran = Listen(sent.s, ext, tx)
    OBVIOUS
  <2>13. PICK t : t = sent.s
    OBVIOUS
  <2>14. /\ Safe(t, ran.s, state, total) /\ ran.err \in BOOLEAN
         /\ SameNonces(ran.s.heap, t.heap) /\ ran.s.saved = t.saved
    BY <2>10, <2>11, <2>12, <2>13, ListenStep DEF Safe
  <2>15. PICK r : r = ran.s
    OBVIOUS
  <2>16. /\ Sound(r, state) /\ AllGood(r.heap, total) /\ r.saved = Live(s) /\ Good(r.saved, total)
         /\ Live(r).nonce = Live(s).nonce
    <3>1. Live(t).nonce = Live(b).nonce
      BY <2>7, <2>10, <2>13, LiveObject DEF Safe
    <3>2. Live(r).nonce = Live(t).nonce
      BY <2>10, <2>13, <2>14, <2>15, LiveObject DEF Safe
    <3>3. Live(b) = Live(f)
      BY <2>7 DEF Live
    <3>4. QED
      BY <1>4, <2>7, <2>10, <2>13, <2>14, <2>15, <3>1, <3>2, <3>3 DEF Safe
  <2>17. PICK kept : kept = IF ran.err THEN RollbackTx(r) ELSE CommitTx(r)
    OBVIOUS
  <2>18. Safe(r, kept, state, total) /\ Live(kept).nonce = Live(s).nonce
    <3>1. CASE ran.err
      BY <2>16, <2>17, <3>1, SafeMarks, MarkStep
    <3>2. CASE ~ran.err
      BY <2>16, <2>17, <3>2, SafeMarks
    <3>3. QED
      BY <2>14, <3>1, <3>2
  <2>19. InOrder(kept, state, kv)
    BY <2>11, <2>13, <2>14, <2>15, <2>18 DEF Safe, Kept, InOrder
  <2>20. PICK paid : paid = Transfer(kept, kv, from, Coinbase, cost)
    OBVIOUS
  <2>21. /\ Safe(kept, paid.s, state, total) /\ paid.err \in BOOLEAN
         /\ SameNonces(paid.s.heap, kept.heap)
    BY <2>1, <2>5, <2>18, <2>19, <2>20, TransferStep DEF Safe
  <2>22. Live(paid.s).nonce = Live(s).nonce
    BY <2>18, <2>21, LiveObject DEF Safe
  <2>23. d.s = paid.s /\ d.err = paid.err
    BY <1>1, <1>2, <1>6, <2>2, <2>3, <2>4, <2>6, <2>9, <2>12, <2>15, <2>17, <2>20 DEF ExecuteBody
  <2>24. Safe(s, paid.s, state, total)
    BY <1>3, <2>7, <2>10, <2>13, <2>14, <2>15, <2>18, <2>21, SafeTwice
  <2>25. QED
    BY <2>21, <2>22, <2>23, <2>24
<1>7. QED
  BY <1>5, <1>6

\* A transaction of a block keeps what is kept, and uses one nonce of its sender or
\* makes the block fail.
LEMMA TxStep ==
    ASSUME NEW state, NEW s, Sound(s, state), NEW ext, InOrder(s, state, ext),
           NEW tx \in Tx, Amounts(tx), NEW total \in Int, AllGood(s.heap, total),
           NEW d, d = ExecuteTx(s, ext, tx)
    PROVE  /\ Safe(s, d.s, state, total) /\ d.err \in BOOLEAN
           /\ ~d.err => Live(d.s).nonce = [Live(s).nonce EXCEPT ![tx.from] = @ + 1]
<1>1. PICK kv : kv = Handle(s)
  OBVIOUS
<1>2. PICK f : f = Fetch(s)
  OBVIOUS
<1>3. /\ Safe(s, f, state, total) /\ InOrder(f, state, kv)
      /\ f.heap = s.heap
  BY <1>1, <1>2, SafeFetch
<1>4. CASE tx.nonce # Live(s).nonce[tx.from] + 1
  <2>1. d.s = f /\ d.err = TRUE
    BY <1>2, <1>4 DEF ExecuteTx
  <2>2. QED
    BY <1>3, <2>1
<1>5. CASE tx.nonce = Live(s).nonce[tx.from] + 1
  <2>1. PICK from \in Account : from = tx.from
    BY DEF Tx
  <2>2. PICK nonce \in Int : nonce = tx.nonce
    BY DEF Tx
  <2>3. PICK n : n = Put(f, kv, "nonce", from, nonce)
    OBVIOUS
  <2>4. /\ Sound(n, state) /\ Kept(f, n, state)
        /\ n.heap = NonceSet(f.heap, kv.obj, from, nonce)
    BY <1>3, <2>3, NonceStep DEF Safe
  <2>5. PICK heap \in Heap : heap = s.heap
    BY StorageFields DEF Sound
  <2>6. /\ Len(heap) \in Nat \ {0} /\ heap \in Seq(State) /\ DOMAIN heap = 1..Len(heap)
        /\ heap[Len(heap)] \in State
    BY DEF Heap
  <2>7. PICK o : o = [bal |-> heap[Len(heap)].bal, nonce |-> [heap[Len(heap)].nonce EXCEPT ![from] = nonce]]
    OBVIOUS
  <2>8. n.heap = [heap EXCEPT ![Len(heap)] = o]
    BY <1>1, <1>3, <2>4, <2>5, <2>7 DEF NonceSet, Handle
  <2>9. Len(n.heap) = Len(heap) /\ n.heap[Len(heap)] = o /\ \A j \in 1..Len(heap) : j # Len(heap) => n.heap[j] = heap[j]
    <3>1. n.heap \in Heap /\ Len(n.heap) = Len(heap)
      BY <1>1, <1>3, <2>4, <2>5, <2>6, Written DEF Handle
    <3> DEFINE l == Len(heap)
    <3>2. l \in 1..Len(heap)
      BY <2>6
    <3> HIDE DEF l
    <3>3. PICK g : g = [heap EXCEPT ![l] = o]
      OBVIOUS
    <3>4. \A j \in 1..Len(heap) : g[j] = IF j = l THEN o ELSE heap[j]
      BY <2>6, <3>3
    <3>5. n.heap = g
      BY <2>8, <3>3 DEF l
    <3>6. QED
      BY <3>1, <3>2, <3>4, <3>5 DEF l
  <2>10. Good(o, total)
    <3>1. Good(heap[Len(heap)], total)
      BY <2>5, <2>6 DEF AllGood
    <3>2. o.bal = heap[Len(heap)].bal
      BY <2>7
    <3>3. QED
      BY <3>1, <3>2 DEF Good
  <2>11. AllGood(n.heap, total)
    BY <2>5, <2>6, <2>9, <2>10 DEF AllGood
  <2>12. Live(n).nonce = [Live(s).nonce EXCEPT ![tx.from] = @ + 1]
    <3>1. Live(n) = o /\ Live(s) = heap[Len(heap)]
      BY <2>5, <2>9 DEF Live, Last
    <3>2. o.nonce = [Live(s).nonce EXCEPT ![from] = nonce]
      BY <2>7, <3>1
    <3>3. QED
      BY <1>5, <2>1, <2>2, <3>1, <3>2
  <2>13. Safe(s, n, state, total)
    BY <1>3, <2>4, <2>11, SafeTwice DEF Safe
  <2>14. InOrder(n, state, ext)
    BY <2>13 DEF Safe, Kept, InOrder
  <2>15. d = ExecuteBody(n, ext, tx)
    BY <1>1, <1>2, <1>5, <2>1, <2>2, <2>3 DEF ExecuteTx, DealNonce
  <2>16. Safe(n, d.s, state, total) /\ d.err \in BOOLEAN /\ Live(d.s).nonce = Live(n).nonce
    BY <2>4, <2>11, <2>14, <2>15, BodyStep
  <2>17. QED
    BY <2>12, <2>13, <2>16, SafeTwice
<1>6. QED
  BY <1>4, <1>5

\* A block begins with its wage, and with what the event makes of it.
LEMMA StartStep ==
    ASSUME NEW state \in State, NEW total \in Int, Good(state, total),
           NEW event \in {"none", "ok", "fail"}, NEW s, s = NewStorage(state),
           NEW t, t = ExecuteEvent(IssueWage(Fetch(s)), event)
    PROVE  /\ Sound(t, state) /\ AllGood(t.heap, total + Wage) /\ InOrder(t, state, Handle(s))
           /\ Live(t).nonce = state.nonce
<1>1. s \in Storage /\ s.heap = <<state>> /\ s.saved = state /\ s.log = <<>> /\ s.var = 0
  <2>1. <<state>> \in Seq(State) /\ <<state>> # <<>>
    OBVIOUS
  <2>2. <<state>> \in Heap
    BY <2>1 DEF Heap
  <2>3. <<>> \in Log
    BY DEF Log
  <2>4. QED
    BY <2>2, <2>3 DEF NewStorage, Storage
<1>2. Sound(s, state)
  <2>1. Replay(state, s.log) = [heap |-> s.heap, saved |-> s.saved, bound |-> <<>>]
    BY <1>1, ReplayStep
  <2>2. Bound(s, state) = <<>>
    BY <2>1 DEF Bound
  <2>3. Bound(s, state) \in Seq(1..Len(s.heap)) /\ Len(Bound(s, state)) = s.var
    BY <1>1, <2>2
  <2>4. QED
    BY <1>1, <2>1, <2>2, <2>3 DEF Sound, Faithful
<1>3. AllGood(s.heap, total)
  BY <1>1 DEF AllGood
<1>4. PICK f : f = Fetch(s)
  OBVIOUS
<1>5. Safe(s, f, state, total) /\ InOrder(f, state, Handle(s)) /\ f.heap = s.heap
  BY <1>2, <1>3, <1>4, SafeFetch
<1>6. PICK g : g = Fetch(f)
  OBVIOUS
<1>7. PICK h : h = Handle(f)
  OBVIOUS
<1>8. Safe(f, g, state, total) /\ InOrder(g, state, h) /\ g.heap = f.heap
  BY <1>5, <1>6, <1>7, SafeFetch DEF Safe
<1>9. InOrder(g, state, Handle(s))
  BY <1>5, <1>8 DEF Safe, Kept, InOrder
<1>10. PICK bal \in [Holder -> Int] : bal = state.bal
  BY DEF State
<1>11. Coinbase \in Holder /\ Wage \in Int /\ Wage >= 0
  BY ExecuteAssumption DEF Holder
<1>12. PICK v \in Int : v = bal[Coinbase] + Wage
  BY <1>11
<1>13. PICK w : w = Put(g, h, "bal", Coinbase, v)
  OBVIOUS
<1>14. h.obj = 1 /\ g.heap = <<state>>
  BY <1>1, <1>5, <1>7, <1>8 DEF Handle
<1>15. w = IssueWage(f)
  BY <1>6, <1>7, <1>10, <1>12, <1>13, <1>14 DEF IssueWage, BalanceOf
<1>16. Sound(w, state) /\ Kept(g, w, state) /\ w.heap = BalSet(g.heap, h.obj, Coinbase, v)
  BY <1>8, <1>11, <1>13, BalStep DEF Safe
<1>17. PICK paid : paid = [bal EXCEPT ![Coinbase] = v]
  OBVIOUS
<1>18. w.heap = <<[bal |-> paid, nonce |-> state.nonce]>>
  BY <1>10, <1>14, <1>16, <1>17 DEF BalSet
<1>19. AllGood(w.heap, total + Wage)
  <2>1. Total(paid) = Total(bal) + (v - bal[Coinbase]) /\ Total(bal) = total
    BY <1>10, <1>11, <1>17, TotalChange DEF Good
  <2>2. bal[Coinbase] \in Int
    BY <1>11
  <2>3. Total(paid) = total + Wage
    BY <1>11, <1>12, <2>1, <2>2
  <2>4. NaturalAmounts => \A a \in Holder : paid[a] >= 0
    BY <1>10, <1>11, <1>12, <1>17, <2>2 DEF Good
  <2>5. Good([bal |-> paid, nonce |-> state.nonce], total + Wage)
    BY <2>3, <2>4 DEF Good
  <2>6. PICK o : o = [bal |-> paid, nonce |-> state.nonce]
    OBVIOUS
  <2>7. w.heap = <<o>> /\ Good(o, total + Wage)
    BY <1>18, <2>5, <2>6
  <2>8. QED
    BY <2>7 DEF AllGood
<1>20. Live(w).nonce = state.nonce
  BY <1>18 DEF Live, Last
<1>21. InOrder(w, state, Handle(s))
  BY <1>9, <1>16 DEF Kept, InOrder
<1>22. PICK e : e = BeginTx(w)
  OBVIOUS
<1>23. PICK all \in Int : all = total + Wage
  BY <1>11
<1>24. /\ Safe(w, e, state, all) /\ Good(e.saved, all) /\ e.heap = w.heap /\ e.saved = Live(w)
  BY <1>16, <1>19, <1>22, <1>23, SafeMarks, MarkStep
<1>25. Live(e) = Live(w)
  BY <1>24 DEF Live
<1>26. /\ Safe(e, CommitTx(e), state, all) /\ Live(CommitTx(e)) = Live(e)
       /\ Safe(e, RollbackTx(e), state, all) /\ Live(RollbackTx(e)) = e.saved
  BY <1>24, SafeMarks, MarkStep DEF Safe
<1>27. t = IF event = "none" THEN w ELSE IF event = "ok" THEN CommitTx(e) ELSE RollbackTx(e)
  BY <1>4, <1>15, <1>22 DEF ExecuteEvent
<1>28. Safe(w, t, state, all) /\ Live(t).nonce = Live(w).nonce
  <2>1. CASE event = "none"
    BY <1>16, <1>19, <1>23, <1>27, <2>1 DEF Safe, Kept
  <2>2. CASE event = "ok"
    BY <1>24, <1>25, <1>26, <1>27, <2>2, SafeTwice
  <2>3. CASE event = "fail"
    BY <1>24, <1>25, <1>26, <1>27, <2>3, SafeTwice
  <2>4. QED
    BY <2>1, <2>2, <2>3
<1>29. QED
  BY <1>20, <1>21, <1>23, <1>28 DEF Safe, Kept, InOrder

----------------------------------------------------------------------------
\* The transactions of a block

\* How many of the first k transactions a sends.
Count(txs, k, a) == Cardinality({i \in 1..k : txs[i].from = a})

\* One more transaction is one more of its sender.
LEMMA CountStep ==
    ASSUME NEW txs, NEW a, NEW k \in Nat
    PROVE  /\ Count(txs, 0, a) = 0 /\ Count(txs, k, a) \in Nat
           /\ Count(txs, k + 1, a) = Count(txs, k, a) + IF txs[k + 1].from = a THEN 1 ELSE 0
<1> DEFINE S(n) == {i \in 1..n : txs[i].from = a}
<1>0. \A m : Count(txs, m, a) = Cardinality(S(m))
  BY DEF Count
<1>1. Cardinality({}) = 0
  BY FS_EmptySet
<1>2. S(0) = {}
  OBVIOUS
<1>3. IsFiniteSet(S(k)) /\ Cardinality(S(k)) \in Nat
  <2>1. IsFiniteSet(1..k) /\ S(k) \in SUBSET (1..k)
    BY FS_Interval
  <2> HIDE DEF S
  <2>2. QED
    BY <2>1, FS_Subset, FS_CardinalityType, Zenon
<1>4. CASE txs[k + 1].from = a
  <2>1. S(k + 1) = S(k) \cup {k + 1} /\ k + 1 \notin S(k)
    BY <1>4
  <2> HIDE DEF S
  <2>2. Cardinality(S(k + 1)) = Cardinality(S(k)) + 1
    BY <1>3, <2>1, FS_AddElement
  <2>3. QED
    BY <1>0, <1>1, <1>2, <1>3, <1>4, <2>2
<1>5. CASE txs[k + 1].from # a
  <2>1. S(k + 1) = S(k)
    BY <1>5
  <2> HIDE DEF S
  <2>2. QED
    BY <1>0, <1>1, <1>2, <1>3, <1>5, <2>1
<1>6. QED
  BY <1>4, <1>5

\* Each of the first k transactions has used a nonce of its sender.
Used(nonce, state, txs, k) ==
    \A a \in Account : nonce[a] = state.nonce[a] + Count(txs, k, a)

\* What a storage is in which k of a block's transactions have been executed.
Ran(s, state, total, txs, k) ==
    Sound(s, state) /\ AllGood(s.heap, total) /\ Used(Live(s).nonce, state, txs, k)

\* The same while the block is executed: its listeners' handle is in order.
Running(s, ext, state, total, txs, k) ==
    Ran(s, state, total, txs, k) /\ InOrder(s, state, ext)

\* It executes the next one, or fails.
LEMMA RunStep ==
    ASSUME NEW state \in State, NEW s, NEW ext, NEW total \in Int, NEW txs \in Seq(Tx),
           NEW k \in Nat, k < Len(txs), Amounts(txs[k + 1]), Running(s, ext, state, total, txs, k),
           NEW d, d = ExecuteTx(s, ext, txs[k + 1])
    PROVE  d.err \in BOOLEAN /\ (~d.err => Running(d.s, ext, state, total, txs, k + 1))
<1>1. PICK tx \in Tx : tx = txs[k + 1]
  OBVIOUS
<1>2. Amounts(tx) /\ d = ExecuteTx(s, ext, tx) /\ tx.from \in Account
  BY <1>1 DEF Tx
<1>3. /\ Safe(s, d.s, state, total) /\ d.err \in BOOLEAN
      /\ ~d.err => Live(d.s).nonce = [Live(s).nonce EXCEPT ![tx.from] = @ + 1]
  BY <1>2, TxStep DEF Running, Ran
<1>4. PICK nonce \in [Account -> Int] : nonce = Live(s).nonce
  <2>1. Live(s) \in State
    BY LiveObject DEF Running, Ran
  <2>2. QED
    BY <2>1 DEF State
<1>5. ASSUME ~d.err, NEW a \in Account
      PROVE  Live(d.s).nonce[a] = state.nonce[a] + Count(txs, k + 1, a)
  <2>1. nonce[a] = state.nonce[a] + Count(txs, k, a)
    BY <1>4 DEF Running, Ran, Used
  <2>2. Live(d.s).nonce[a] = IF a = tx.from THEN nonce[a] + 1 ELSE nonce[a]
    BY <1>2, <1>3, <1>4, <1>5
  <2>3. /\ Count(txs, k, a) \in Nat
        /\ Count(txs, k + 1, a) = Count(txs, k, a) + IF tx.from = a THEN 1 ELSE 0
    BY <1>1, CountStep
  <2>4. state.nonce[a] \in Int /\ nonce[a] \in Int
    BY DEF State
  <2>5. CASE a = tx.from
    BY <2>1, <2>2, <2>3, <2>4, <2>5
  <2>6. CASE a # tx.from
    BY <2>1, <2>2, <2>3, <2>4, <2>6
  <2>7. QED
    BY <2>5, <2>6
<1>6. QED
  BY <1>3, <1>5 DEF Running, Ran, Used, Safe, Kept, InOrder

\* A block that begins has executed none of its transactions.
LEMMA BlockStart ==
    ASSUME NEW state \in State, NEW total \in Int, Good(state, total), NEW c \in Content,
           NEW s, s = NewStorage(state)
    PROVE  Running(ExecuteEvent(IssueWage(Fetch(s)), c.event), Handle(s), state, total + Wage, c.txs, 0)
<1>1. PICK event \in {"none", "ok", "fail"} : event = c.event
  BY ExecuteAssumption
<1>2. PICK t : t = ExecuteEvent(IssueWage(Fetch(s)), event)
  OBVIOUS
<1>3. /\ Sound(t, state) /\ AllGood(t.heap, total + Wage) /\ InOrder(t, state, Handle(s))
      /\ Live(t).nonce = state.nonce
  BY <1>2, StartStep
<1>4. \A a \in Account : Count(c.txs, 0, a) = 0 /\ state.nonce[a] \in Int
  BY CountStep DEF State
<1>5. QED
  BY <1>1, <1>2, <1>3, <1>4 DEF Running, Ran, Used

\* A block that a child executes in one go is executed or fails.
LEMMA BlockRuns ==
    ASSUME NEW n, NEW state \in State, NEW total \in Int, Good(state, total), NEW c \in Content,
           routine[n].content = c, routine[n].s = NewStorage(state)
    PROVE  /\ RunBlock(n).err \in BOOLEAN
           /\ ~RunBlock(n).err => Ran(RunBlock(n).s, state, total + Wage, c.txs, Len(c.txs))
<1>1. PICK s : s = NewStorage(state)
  OBVIOUS
<1>2. Opened(n) = s
  BY <1>1 DEF Opened, NewStorage
<1>3. PICK ext : ext = Handle(s)
  OBVIOUS
<1>4. PICK t : t = ExecuteEvent(IssueWage(Fetch(s)), c.event)
  OBVIOUS
<1>5. PICK base : base = [s |-> t, ext |-> ext, err |-> FALSE]
  OBVIOUS
<1>6. PICK txs \in Seq(Tx) : txs = c.txs
  BY ExecuteAssumption
<1>7. RunBlock(n) = FoldLeft(AfterTx, base, txs)
  BY <1>2, <1>3, <1>4, <1>5, <1>6 DEF RunBlock
<1>8. FoldLeft(AfterTx, base, txs) = B!Fold(base, txs)
  BY Zenon DEF B!Fold, FoldLeft, MapThenFoldSet, B!FoldLeft, B!MapThenFoldSet, Max, B!Max
<1>9. PICK all \in Int : all = total + Wage
  BY ExecuteAssumption
<1>10. Running(t, ext, state, all, txs, 0)
  BY <1>1, <1>3, <1>4, <1>6, <1>9, BlockStart
<1> DEFINE F(k) == B!Fold(base, SubSeq(txs, 1, k))
           P(k) == /\ F(k).err \in BOOLEAN
                   /\ F(k).ext = ext /\ DOMAIN F(k) = {"s", "ext", "err"}
                   /\ ~F(k).err => Running(F(k).s, ext, state, all, txs, k)
<1>11. P(0)
  <2>1. SubSeq(txs, 1, 0) = <<>>
    OBVIOUS
  <2>2. F(0) = base
    BY <2>1, B!FoldEmpty
  <2> HIDE DEF F
  <2>3. PICK r : r = F(0)
    OBVIOUS
  <2>4. r.err = FALSE /\ r.s = t /\ r.ext = ext /\ DOMAIN r = {"s", "ext", "err"}
    BY <1>5, <2>2, <2>3
  <2>5. QED
    BY <1>10, <2>3, <2>4
<1>12. ASSUME NEW k \in Nat, k < Len(txs), P(k) PROVE P(k + 1)
  <2>1. PICK tx \in Tx : tx = txs[k + 1]
    BY <1>12
  <2>2. PICK done : done = SubSeq(txs, 1, k)
    OBVIOUS
  <2>3. done \in Seq(Tx) /\ SubSeq(txs, 1, k + 1) = Append(done, tx)
    BY <1>12, <2>1, <2>2
  <2>4. F(k + 1) = AfterTx(B!Fold(base, done), tx)
    <3>1. B!Fold(base, Append(done, tx)) = AfterTx(B!Fold(base, done), tx)
      BY <2>3, B!FoldAppend
    <3>2. QED
      BY <2>3, <3>1
  <2>5. F(k + 1) = AfterTx(F(k), tx)
    BY <2>2, <2>4
  <2> HIDE DEF F
  <2>6. CASE F(k).err
    <3>1. F(k + 1) = F(k)
      BY <2>5, <2>6 DEF AfterTx
    <3>2. QED
      BY <1>12, <2>6, <3>1
  <2>7. CASE ~F(k).err
    <3>1. PICK r : r = F(k)
      OBVIOUS
    <3>2. r.ext = ext /\ DOMAIN r = {"s", "ext", "err"} /\ Running(r.s, ext, state, all, txs, k)
      BY <1>12, <2>7, <3>1
    <3>3. PICK d : d = ExecuteTx(r.s, ext, txs[k + 1])
      OBVIOUS
    <3>4. Amounts(txs[k + 1])
      BY <1>6, <1>12 DEF Amounts, NaturalAmounts
    <3>5. d.err \in BOOLEAN /\ (~d.err => Running(d.s, ext, state, all, txs, k + 1))
      BY <1>12, <3>2, <3>3, <3>4, RunStep
    <3>6. F(k + 1) = [r EXCEPT !.s = d.s, !.err = d.err]
      <4>1. r.ext = ext /\ ~r.err
        BY <2>7, <3>1, <3>2
      <4>2. F(k + 1) = AfterTx(r, tx) /\ d = ExecuteTx(r.s, r.ext, tx)
        BY <2>1, <2>5, <3>1, <3>3, <4>1
      <4>3. QED
        BY <4>1, <4>2 DEF AfterTx
    <3>7. PICK q : q = F(k + 1)
      OBVIOUS
    <3>8. q.s = d.s /\ q.ext = ext /\ q.err = d.err /\ DOMAIN q = {"s", "ext", "err"}
      BY <3>2, <3>6, <3>7
    <3>9. QED
      BY <3>5, <3>7, <3>8
  <2>8. QED
    BY <1>12, <2>6, <2>7
<1>13. P(Len(txs))
  <2> HIDE DEF P
  <2> DEFINE Bad == {k \in 0..Len(txs) : ~P(k)}
  <2>1. Bad = {}
    <3> SUFFICES ASSUME Bad # {} PROVE FALSE
      OBVIOUS
    <3>1. Len(txs) \in Nat /\ Bad \subseteq Nat
      OBVIOUS
    <3>2. PICK k \in Bad : \A m \in Bad : k <= m
      BY <3>1, R!LeastNat
    <3>3. k # 0 /\ k \in Nat /\ k <= Len(txs)
      BY <1>11, <3>1
    <3>4. k - 1 \in Nat /\ k - 1 < Len(txs) /\ P(k - 1)
      BY <3>1, <3>2, <3>3
    <3>5. P((k - 1) + 1)
      BY <1>12, <3>4
    <3>6. (k - 1) + 1 = k
      BY <3>3
    <3>7. QED
      BY <3>5, <3>6
  <2>2. QED
    BY <2>1
<1>14. SubSeq(txs, 1, Len(txs)) = txs
  OBVIOUS
<1>15. QED
  <2>1. F(Len(txs)) = RunBlock(n)
    BY <1>7, <1>8, <1>14
  <2> HIDE DEF F
  <2>2. QED
    BY <1>6, <1>9, <1>13, <2>1 DEF Running

\* The nonces that the transactions of two sequences use.
LEMMA CountBoth ==
    ASSUME NEW p \in Seq(Tx), NEW q \in Seq(Tx), NEW a
    PROVE  Cardinality(SentBy(p \o q, a)) = Cardinality(SentBy(p, a)) + Count(q, Len(q), a)
<1> DEFINE pq   == p \o q
           P(k) == Count(pq, Len(p) + k, a) = Count(p, Len(p), a) + Count(q, k, a)
<1>1. /\ pq \in Seq(Tx) /\ Len(pq) = Len(p) + Len(q) /\ Len(p) \in Nat /\ Len(q) \in Nat
      /\ \A i \in 1..Len(p) : pq[i] = p[i]
      /\ \A i \in 1..Len(q) : pq[Len(p) + i] = q[i]
  OBVIOUS
<1>2. ASSUME NEW txs \in Seq(Tx) PROVE Cardinality(SentBy(txs, a)) = Count(txs, Len(txs), a)
  <2>1. DOMAIN txs = 1..Len(txs)
    OBVIOUS
  <2>2. QED
    BY <2>1, Zenon DEF SentBy, Count
<1> HIDE DEF pq
<1>3. \A txs : \A k \in Nat : Count(txs, 0, a) = 0 /\ Count(txs, k, a) \in Nat
  BY CountStep
<1>4. P(0)
  <2>1. Count(pq, Len(p), a) = Count(p, Len(p), a)
    <3>1. {i \in 1..Len(p) : pq[i].from = a} = {i \in 1..Len(p) : p[i].from = a}
      BY <1>1
    <3>2. QED
      BY <3>1 DEF Count
  <2>2. QED
    BY <1>1, <1>3, <2>1
<1>5. ASSUME NEW k \in Nat, k < Len(q), P(k) PROVE P(k + 1)
  <2>1. Len(p) + k \in Nat /\ Len(p) + (k + 1) = (Len(p) + k) + 1 /\ k + 1 \in 1..Len(q)
    BY <1>1, <1>5
  <2>2. pq[(Len(p) + k) + 1] = q[k + 1]
    BY <1>1, <2>1
  <2>3. Count(pq, (Len(p) + k) + 1, a) =
          Count(pq, Len(p) + k, a) + IF pq[(Len(p) + k) + 1].from = a THEN 1 ELSE 0
    BY <2>1, CountStep
  <2>4. Count(q, k + 1, a) = Count(q, k, a) + IF q[k + 1].from = a THEN 1 ELSE 0
    BY CountStep
  <2>5. Count(p, Len(p), a) \in Nat /\ Count(q, k, a) \in Nat
    BY <1>1, <1>3
  <2>6. CASE q[k + 1].from = a
    BY <1>5, <2>1, <2>2, <2>3, <2>4, <2>5, <2>6
  <2>7. CASE q[k + 1].from # a
    BY <1>5, <2>1, <2>2, <2>3, <2>4, <2>5, <2>7
  <2>8. QED
    BY <2>6, <2>7
<1>6. P(Len(q))
  <2> HIDE DEF P
  <2> DEFINE Bad == {k \in 0..Len(q) : ~P(k)}
  <2>1. Bad = {}
    <3> SUFFICES ASSUME Bad # {} PROVE FALSE
      OBVIOUS
    <3>1. Bad \subseteq Nat
      OBVIOUS
    <3>2. PICK k \in Bad : \A m \in Bad : k <= m
      BY <3>1, R!LeastNat
    <3>3. k # 0 /\ k \in Nat /\ k <= Len(q)
      BY <1>1, <1>4, <3>1
    <3>4. k - 1 \in Nat /\ k - 1 < Len(q) /\ P(k - 1)
      BY <1>1, <3>1, <3>2, <3>3
    <3>5. P((k - 1) + 1)
      BY <1>5, <3>4
    <3>6. (k - 1) + 1 = k
      BY <3>3
    <3>7. QED
      BY <3>5, <3>6
  <2>2. QED
    BY <1>1, <2>1
<1>7. QED
  BY <1>1, <1>2, <1>6 DEF pq

----------------------------------------------------------------------------
\* The inductive invariant

Solvent(state) == state \in State /\ Good(state, Total(state.bal))

\* The tip: its balances add up, and each of its transactions has used a nonce.
ChainOk(ch) ==
    /\ DOMAIN ch = {"state", "height", "txs"}
    /\ Solvent(ch.state) /\ Total(ch.state.bal) = Total(Balance) + ch.height * Wage
    /\ ch.height \in 0..MaxHeight /\ ch.txs \in Seq(Tx)
    /\ \A a \in Account : ch.state.nonce[a] + 1 = Cardinality(SentBy(ch.txs, a))

\* The parent of a routine: the tip, as long as the chain has not grown.
ParentOk(p, ch) ==
    /\ Solvent(p.state)
    /\ p.height \in Nat /\ p.height < MaxHeight /\ p.height <= ch.height
    /\ p.height = ch.height => p.state = ch.state

RanOk(s, r, k) == Ran(s, r.parent.state, Total(r.parent.state.bal) + Wage, r.content.txs, k)

\* A routine, in each of its phases.
RoutineOk(r, ch) ==
    /\ DOMAIN r = {"at", "content", "parent", "todo", "s", "ext", "receipts", "cancelSet"}
    /\ r.at \in {"none", "saving", "mined", "failed", "thrown"} \cup AtWork
    /\ r.at \in AtWork \cup {"saving", "mined"} => r.content \in Content /\ ParentOk(r.parent, ch)
    /\ r.at \in {"storage", "ready"} => r.todo = r.content.txs
    /\ r.at \in {"ready", "preparing", "waiting"} => r.s = NewStorage(r.parent.state)
    /\ r.at = "running" => \E k \in 0..Len(r.content.txs) :
          /\ RanOk(r.s, r, k) /\ InOrder(r.s, r.parent.state, r.ext)
          /\ r.todo = SubSeq(r.content.txs, k + 1, Len(r.content.txs))
    /\ r.at \in {"mining", "saving", "mined"} => RanOk(r.s, r, Len(r.content.txs))

\* A child that may answer is waited for; what it answers is its routine's block,
\* executed.
ChildOk(c, r) ==
    /\ DOMAIN c = {"at", "result"}
    /\ c.at \in {"running", "done"} => r.at = "waiting"
    /\ c.at = "done" /\ c.result # None => RanOk(c.result, r, Len(r.content.txs))

MinerOk(m) ==
    /\ DOMAIN m = {"state", "name", "routine"}
    /\ m.state \in {"idle", "executing", "mining"} /\ (m.state = "idle") = (m.name = None)
    /\ m.name \in Name \cup {None} /\ m.routine \in Name \cup {None}

IInv ==
    /\ DOMAIN routine = Name /\ DOMAIN child = Name
    /\ ChainOk(chain) /\ MinerOk(miner) /\ MinerIsWorking
    /\ \A n \in Name : RoutineOk(routine[n], chain)
    /\ \A n \in Name : ChildOk(child[n], routine[n])

----------------------------------------------------------------------------
\* The actions

\* The phases of a routine are distinct, and a new one is a routine.
LEMMA NewRoutine ==
    /\ DOMAIN NoRoutine = {"at", "content", "parent", "todo", "s", "ext", "receipts", "cancelSet"}
    /\ NoRoutine.at = "none"
BY DEF NoRoutine

\* A step of one routine and its child alone.
LEMMA Local ==
    ASSUME IInv, NEW n \in Name, DOMAIN routine' = Name, DOMAIN child' = Name, chain' = chain,
           \A k \in Name : k # n => routine'[k] = routine[k] /\ child'[k] = child[k],
           RoutineOk(routine'[n], chain), ChildOk(child'[n], routine'[n]),
           MinerOk(miner'), MinerIsWorking'
    PROVE  IInv'
<1>1. ChainOk(chain')
  BY DEF IInv
<1>2. ASSUME NEW k \in Name
      PROVE  RoutineOk(routine'[k], chain') /\ ChildOk(child'[k], routine'[k])
  <2>1. CASE k = n
    BY <2>1
  <2>2. CASE k # n
    BY <2>2 DEF IInv
  <2>3. QED
    BY <2>1, <2>2
<1>3. QED
  BY <1>1, <1>2 DEF IInv

\* A miner that waits for its routine goes on waiting while that is at work.
LEMMA Busy ==
    ASSUME IInv, NEW n \in Name, miner' = miner, routine'[n].at \in AtWork,
           \A k \in Name : k # n => routine'[k] = routine[k]
    PROVE  MinerOk(miner') /\ MinerIsWorking'
<1>1. MinerOk(miner) /\ MinerIsWorking
  BY DEF IInv
<1>2. ASSUME miner.state # "idle" PROVE routine'[miner.name].at \in AtWork
  <2>1. miner.name \in Name /\ routine[miner.name].at \in AtWork
    BY <1>1, <1>2 DEF MinerOk, MinerIsWorking
  <2>2. QED
    BY <2>1
<1>3. QED
  BY <1>1, <1>2 DEF MinerIsWorking

\* A routine that ends frees the miner that waits for it, and no other's.
LEMMA Freed ==
    ASSUME IInv, NEW n \in Name, miner' = SetIdle(n),
           \A k \in Name : k # n => routine'[k] = routine[k]
    PROVE  MinerOk(miner') /\ MinerIsWorking'
<1>1. MinerOk(miner) /\ MinerIsWorking
  BY DEF IInv
<1>2. CASE Canceled(n)
  <2>1. miner' = miner /\ (miner.state = "idle" \/ miner.name # n)
    BY <1>2 DEF SetIdle, Canceled
  <2>2. ASSUME miner.state # "idle" PROVE routine'[miner.name].at \in AtWork
    <3>1. miner.name \in Name /\ routine[miner.name].at \in AtWork
      BY <1>1, <2>2 DEF MinerOk, MinerIsWorking
    <3>2. QED
      BY <2>1, <2>2, <3>1
  <2>3. QED
    BY <1>1, <2>1, <2>2 DEF MinerIsWorking
<1>3. CASE ~Canceled(n)
  <2>1. miner' = Idle
    BY <1>3 DEF SetIdle
  <2>2. MinerOk(Idle) /\ Idle.state = "idle"
    BY DEF MinerOk, Idle
  <2>3. QED
    BY <2>1, <2>2 DEF MinerIsWorking
<1>4. QED
  BY <1>2, <1>3

\* A routine whose block is executed keeps the miner that waits for it.
LEMMA ToMining ==
    ASSUME IInv, NEW n \in Name, ~Canceled(n), routine'[n].at = "mining",
           miner' = [miner EXCEPT !.state = "mining", !.routine = None]
    PROVE  MinerOk(miner') /\ MinerIsWorking'
<1>1. MinerOk(miner) /\ miner.name = n
  BY DEF IInv, Canceled
<1>2. PICK m : m = miner'
  OBVIOUS
<1>3. m.name = n /\ m.state = "mining" /\ m.routine = None /\ DOMAIN m = {"state", "name", "routine"}
  BY <1>1, <1>2 DEF MinerOk
<1>4. MinerOk(m)
  BY <1>3, ExecuteAssumption DEF MinerOk
<1>5. QED
  BY <1>2, <1>3, <1>4 DEF MinerIsWorking, AtWork

\* A routine that fails, with a child that does not answer any more.
LEMMA FailStep ==
    ASSUME IInv, NEW n \in Name, Fail(n), DOMAIN child' = Name,
           \A k \in Name : k # n => child'[k] = child[k],
           DOMAIN child'[n] = {"at", "result"}, child'[n].at \notin {"running", "done"}
    PROVE  IInv'
<1>1. PICK r : r = [NoRoutine EXCEPT !.at = "failed"]
  OBVIOUS
<1>2. /\ r.at = "failed"
      /\ DOMAIN r = {"at", "content", "parent", "todo", "s", "ext", "receipts", "cancelSet"}
  BY <1>1, NewRoutine
<1>3. routine' = [routine EXCEPT ![n] = r] /\ miner' = SetIdle(n) /\ chain' = chain
  BY <1>1 DEF Fail
<1>4. DOMAIN routine' = Name /\ routine'[n] = r /\ \A k \in Name : k # n => routine'[k] = routine[k]
  BY <1>3 DEF IInv
<1>5. RoutineOk(r, chain)
  BY <1>2 DEF RoutineOk, AtWork
<1>6. ChildOk(child'[n], r)
  BY DEF ChildOk
<1>7. MinerOk(miner') /\ MinerIsWorking'
  BY <1>3, <1>4, Freed
<1>8. QED
  BY <1>3, <1>4, <1>5, <1>6, <1>7, Local

\* The child of a routine that waits for none does not answer.
LEMMA NoAnswer ==
    ASSUME IInv, NEW n \in Name, routine[n].at # "waiting"
    PROVE  DOMAIN child[n] = {"at", "result"} /\ child[n].at \notin {"running", "done"}
BY DEF IInv, ChildOk

\* A routine without a storage has ended, and frees its miner.
LEMMA StorageFailsStep ==
    ASSUME IInv, NEW n \in Name, StorageFails(n), UNCHANGED child PROVE IInv'
<1>1. PICK r : r = [routine[n] EXCEPT !.at = "failed"]
  OBVIOUS
<1>2. DOMAIN routine[n] = {"at", "content", "parent", "todo", "s", "ext", "receipts", "cancelSet"}
  BY DEF IInv, RoutineOk
<1>3. /\ r.at = "failed"
      /\ DOMAIN r = {"at", "content", "parent", "todo", "s", "ext", "receipts", "cancelSet"}
  BY <1>1, <1>2
<1>4. /\ routine' = [routine EXCEPT ![n] = r] /\ miner' = SetIdle(n) /\ chain' = chain
      /\ routine[n].at = "storage"
  BY <1>1 DEF StorageFails
<1>5. DOMAIN routine' = Name /\ routine'[n] = r /\ \A k \in Name : k # n => routine'[k] = routine[k]
  BY <1>4 DEF IInv
<1>6. RoutineOk(r, chain)
  BY <1>3 DEF RoutineOk, AtWork
<1>7. ChildOk(child'[n], r)
  BY <1>4, NoAnswer DEF ChildOk
<1>8. MinerOk(miner') /\ MinerIsWorking'
  BY <1>4, <1>5, Freed
<1>9. DOMAIN child' = Name
  BY DEF IInv
<1>10. QED
  BY <1>4, <1>5, <1>6, <1>7, <1>8, <1>9, Local

\* A routine with a storage of its parent's state is put in whatever context there is.
LEMMA StorageMadeStep ==
    ASSUME IInv, NEW n \in Name, StorageMade(n), UNCHANGED child PROVE IInv'
<1>1. PICK o : o = routine[n]
  OBVIOUS
<1>2. /\ o.at = "storage" /\ RoutineOk(o, chain) /\ chain' = chain
      /\ DOMAIN o = {"at", "content", "parent", "todo", "s", "ext", "receipts", "cancelSet"}
  BY <1>1 DEF StorageMade, IInv, RoutineOk
<1>3. DOMAIN child' = Name /\ DOMAIN child[n] = {"at", "result"} /\ child[n].at \notin {"running", "done"}
  BY <1>1, <1>2, NoAnswer DEF IInv
<1>4. CASE miner.state = "idle"
  <2>1. PICK r : r = [o EXCEPT !.at = "thrown"]
    OBVIOUS
  <2>2. /\ r.at = "thrown"
        /\ DOMAIN r = {"at", "content", "parent", "todo", "s", "ext", "receipts", "cancelSet"}
    BY <1>2, <2>1
  <2>3. routine' = [routine EXCEPT ![n] = r] /\ miner' = miner
    BY <1>1, <1>4, <2>1 DEF StorageMade
  <2>4. DOMAIN routine' = Name /\ routine'[n] = r /\ \A k \in Name : k # n => routine'[k] = routine[k]
    BY <2>3 DEF IInv
  <2>5. RoutineOk(r, chain) /\ ChildOk(child'[n], r)
    BY <1>3, <2>2 DEF RoutineOk, AtWork, ChildOk
  <2>6. MinerOk(miner') /\ MinerIsWorking'
    BY <1>4, <2>3 DEF IInv, MinerIsWorking
  <2>7. QED
    BY <1>2, <1>3, <2>4, <2>5, <2>6, Local
<1>5. CASE miner.state # "idle"
  <2>1. PICK s : s = NewStorage(o.parent.state)
    OBVIOUS
  <2>2. PICK r : r = [o EXCEPT !.at = "ready", !.s = s]
    OBVIOUS
  <2>3. /\ r.at = "ready" /\ r.s = s /\ r.parent = o.parent /\ r.content = o.content
        /\ r.todo = o.todo
        /\ DOMAIN r = {"at", "content", "parent", "todo", "s", "ext", "receipts", "cancelSet"}
    BY <1>2, <2>2
  <2>4. routine' = [routine EXCEPT ![n] = r] /\ miner' = [miner EXCEPT !.routine = n]
    BY <1>1, <1>5, <2>1, <2>2 DEF StorageMade
  <2>5. DOMAIN routine' = Name /\ routine'[n] = r /\ \A k \in Name : k # n => routine'[k] = routine[k]
    BY <2>4 DEF IInv
  <2>6. RoutineOk(r, chain) /\ ChildOk(child'[n], r)
    BY <1>2, <1>3, <2>1, <2>3 DEF RoutineOk, AtWork, ChildOk
  <2>7. PICK m : m = miner'
    OBVIOUS
  <2>8. MinerOk(miner) /\ MinerIsWorking
    BY DEF IInv
  <2>9. /\ m.state = miner.state /\ m.name = miner.name /\ m.routine = n
        /\ DOMAIN m = {"state", "name", "routine"}
    BY <2>4, <2>7, <2>8 DEF MinerOk
  <2>10. MinerOk(m)
    BY <2>8, <2>9 DEF MinerOk
  <2>11. routine'[miner.name].at \in AtWork
    <3>1. miner.name \in Name /\ routine[miner.name].at \in AtWork
      BY <1>5, <2>8 DEF MinerOk, MinerIsWorking
    <3>2. QED
      BY <2>3, <2>5, <3>1 DEF AtWork
  <2>12. MinerOk(miner') /\ MinerIsWorking'
    BY <2>7, <2>9, <2>10, <2>11 DEF MinerIsWorking
  <2>13. QED
    BY <1>2, <1>3, <2>5, <2>6, <2>12, Local
<1>6. QED
  BY <1>4, <1>5

\* The execution begins: none of the transactions is executed yet.
LEMMA StartStepKeeps ==
    ASSUME IInv, NEW n \in Name, Start(n), UNCHANGED child PROVE IInv'
<1>1. PICK o : o = routine[n]
  OBVIOUS
<1>2. /\ o.at = "ready" /\ RoutineOk(o, chain) /\ chain' = chain /\ miner' = miner
      /\ DOMAIN o = {"at", "content", "parent", "todo", "s", "ext", "receipts", "cancelSet"}
  BY <1>1 DEF Start, IInv, RoutineOk
<1>3. /\ o.content \in Content /\ Solvent(o.parent.state) /\ o.s = NewStorage(o.parent.state)
      /\ ParentOk(o.parent, chain) /\ o.todo = o.content.txs
  BY <1>2 DEF RoutineOk, AtWork, ParentOk
<1>4. PICK t : t = ExecuteEvent(IssueWage(Fetch(o.s)), o.content.event)
  OBVIOUS
<1>5. PICK ext : ext = Handle(o.s)
  OBVIOUS
<1>6. Running(t, ext, o.parent.state, Total(o.parent.state.bal) + Wage, o.content.txs, 0)
  <2>1. PICK state \in State : state = o.parent.state
    BY <1>3 DEF Solvent
  <2>2. PICK total \in Int : total = Total(state.bal)
    <3>1. state.bal \in [Holder -> Int] /\ Coinbase \in Holder
      BY ExecuteAssumption DEF State, Holder
    <3>2. QED
      BY <3>1, TotalChange
  <2>3. Good(state, total)
    BY <1>3, <2>1, <2>2 DEF Solvent
  <2>4. Running(t, ext, state, total + Wage, o.content.txs, 0)
    BY <1>3, <1>4, <1>5, <2>1, <2>3, BlockStart
  <2>5. QED
    BY <2>1, <2>2, <2>4
<1>7. PICK r : r = [o EXCEPT !.at = "running", !.s = t, !.ext = ext]
  OBVIOUS
<1>8. /\ r.at = "running" /\ r.s = t /\ r.ext = ext /\ r.parent = o.parent /\ r.content = o.content
      /\ r.todo = o.todo
      /\ DOMAIN r = {"at", "content", "parent", "todo", "s", "ext", "receipts", "cancelSet"}
  BY <1>2, <1>7
<1>9. routine' = [routine EXCEPT ![n] = r]
  BY <1>1, <1>4, <1>5, <1>7 DEF Start
<1>10. DOMAIN routine' = Name /\ routine'[n] = r /\ \A k \in Name : k # n => routine'[k] = routine[k]
  BY <1>9 DEF IInv
<1>11. RoutineOk(r, chain)
  <2>1. PICK txs \in Seq(Tx) : txs = o.content.txs
    BY <1>3, ExecuteAssumption
  <2>2. SubSeq(txs, 1, Len(txs)) = txs /\ 0 \in 0..Len(txs)
    OBVIOUS
  <2>3. r.todo = SubSeq(r.content.txs, 0 + 1, Len(r.content.txs)) /\ 0 \in 0..Len(r.content.txs)
    BY <1>3, <1>8, <2>1, <2>2
  <2>4. RanOk(r.s, r, 0) /\ InOrder(r.s, r.parent.state, r.ext)
    BY <1>6, <1>8 DEF RanOk, Running
  <2>5. \E k \in 0..Len(r.content.txs) :
          /\ RanOk(r.s, r, k) /\ InOrder(r.s, r.parent.state, r.ext)
          /\ r.todo = SubSeq(r.content.txs, k + 1, Len(r.content.txs))
    BY <2>3, <2>4
  <2>6. QED
    BY <1>3, <1>8, <2>5 DEF RoutineOk, AtWork
<1>12. ChildOk(child'[n], r) /\ DOMAIN child' = Name
  BY <1>1, <1>2, NoAnswer DEF ChildOk, IInv
<1>13. MinerOk(miner') /\ MinerIsWorking'
  BY <1>2, <1>8, <1>10, Busy DEF AtWork
<1>14. QED
  BY <1>2, <1>10, <1>11, <1>12, <1>13, Local

\* One more transaction is executed, or the routine ends.
LEMMA RunTxStep ==
    ASSUME IInv, NEW n \in Name, RunTx(n), UNCHANGED child PROVE IInv'
<1>1. PICK o : o = routine[n]
  OBVIOUS
<1>2. /\ o.at = "running" /\ o.todo # <<>> /\ RoutineOk(o, chain)
      /\ DOMAIN o = {"at", "content", "parent", "todo", "s", "ext", "receipts", "cancelSet"}
  BY <1>1 DEF RunTx, IInv, RoutineOk
<1>3. /\ o.content \in Content /\ Solvent(o.parent.state) /\ ParentOk(o.parent, chain)
  BY <1>2 DEF RoutineOk, AtWork, ParentOk
<1>4. DOMAIN child' = Name /\ DOMAIN child[n] = {"at", "result"} /\ child[n].at \notin {"running", "done"}
  BY <1>1, <1>2, NoAnswer DEF IInv
<1>5. PICK d : d = ExecuteTx(o.s, o.ext, Head(o.todo))
  OBVIOUS
<1>6. CASE o.cancelSet \/ d.err
  <2>1. Fail(n)
    BY <1>1, <1>5, <1>6 DEF RunTx
  <2>2. QED
    BY <1>4, <2>1, FailStep
<1>7. CASE ~(o.cancelSet \/ d.err)
  <2>1. PICK txs \in Seq(Tx) : txs = o.content.txs
    BY <1>3, ExecuteAssumption
  <2>2. PICK k \in 0..Len(txs) :
          /\ RanOk(o.s, o, k) /\ InOrder(o.s, o.parent.state, o.ext)
          /\ o.todo = SubSeq(txs, k + 1, Len(txs))
    BY <1>2, <2>1 DEF RoutineOk
  <2>3. k \in Nat /\ k < Len(txs) /\ Len(txs) \in Nat
    BY <1>2, <2>2
  <2>4. Head(o.todo) = txs[k + 1] /\ Tail(o.todo) = SubSeq(txs, k + 2, Len(txs))
    BY <2>2, <2>3
  <2>5. PICK state \in State : state = o.parent.state
    BY <1>3 DEF Solvent
  <2>6. PICK total \in Int : total = Total(state.bal) + Wage
    <3>1. state.bal \in [Holder -> Int] /\ Coinbase \in Holder /\ Wage \in Int
      BY ExecuteAssumption DEF State, Holder
    <3>2. QED
      BY <3>1, TotalChange
  <2>7. Running(o.s, o.ext, state, total, txs, k)
    BY <2>1, <2>2, <2>5, <2>6 DEF Running, RanOk
  <2>8. Amounts(txs[k + 1])
    BY <1>3, <2>1, <2>3 DEF Amounts, NaturalAmounts
  <2>9. d = ExecuteTx(o.s, o.ext, txs[k + 1])
    BY <1>5, <2>4
  <2>10. Running(d.s, o.ext, state, total, txs, k + 1)
    BY <1>7, <2>3, <2>7, <2>8, <2>9, RunStep
  <2>11. PICK todo : todo = Tail(o.todo)
    OBVIOUS
  <2>12. PICK receipts : receipts = Append(o.receipts, d.receipt)
    OBVIOUS
  <2>13. PICK s : s = d.s
    OBVIOUS
  <2>14. PICK r : r = [o EXCEPT !.s = s, !.todo = todo, !.receipts = receipts]
    OBVIOUS
  <2>15. /\ r.at = "running" /\ r.s = s /\ r.ext = o.ext /\ r.parent = o.parent
         /\ r.content = o.content /\ r.todo = todo
         /\ DOMAIN r = {"at", "content", "parent", "todo", "s", "ext", "receipts", "cancelSet"}
    BY <1>2, <2>14
  <2>16. routine' = [routine EXCEPT ![n] = r] /\ chain' = chain /\ miner' = miner
    <3>1. routine' = [routine EXCEPT ![n].s = d.s, ![n].todo = Tail(@),
                                     ![n].receipts = Append(@, d.receipt)]
      BY <1>1, <1>5, <1>7 DEF RunTx
    <3>2. r = [routine[n] EXCEPT !.s = d.s, !.todo = Tail(@), !.receipts = Append(@, d.receipt)]
      BY <1>1, <2>11, <2>12, <2>13, <2>14
    <3>3. QED
      BY <1>1, <1>5, <1>7, <3>1, <3>2 DEF RunTx
  <2>17. DOMAIN routine' = Name /\ routine'[n] = r /\ \A j \in Name : j # n => routine'[j] = routine[j]
    BY <2>16 DEF IInv
  <2>18. RoutineOk(r, chain)
    <3>1. (k + 1) + 1 = k + 2 /\ k + 1 \in 0..Len(txs)
      BY <2>3
    <3>2. r.todo = SubSeq(r.content.txs, (k + 1) + 1, Len(r.content.txs)) /\ k + 1 \in 0..Len(r.content.txs)
      BY <2>1, <2>4, <2>11, <2>15, <3>1
    <3>3. RanOk(r.s, r, k + 1) /\ InOrder(r.s, r.parent.state, r.ext)
      BY <2>1, <2>5, <2>6, <2>10, <2>13, <2>15 DEF RanOk, Running
    <3>4. \E j \in 0..Len(r.content.txs) :
          /\ RanOk(r.s, r, j) /\ InOrder(r.s, r.parent.state, r.ext)
          /\ r.todo = SubSeq(r.content.txs, j + 1, Len(r.content.txs))
      BY <3>2, <3>3
    <3>5. QED
      BY <1>3, <2>15, <3>4 DEF RoutineOk, AtWork
  <2>19. ChildOk(child'[n], r)
    BY <1>4 DEF ChildOk
  <2>20. MinerOk(miner') /\ MinerIsWorking'
    BY <2>15, <2>16, <2>17, Busy DEF AtWork
  <2>21. QED
    BY <1>4, <2>16, <2>17, <2>18, <2>19, <2>20, Local
<1>8. QED
  BY <1>6, <1>7

\* All of the transactions are executed and the miner mines, or the routine ends.
LEMMA ExecutedStep ==
    ASSUME IInv, NEW n \in Name, Executed(n), UNCHANGED child PROVE IInv'
<1>1. PICK o : o = routine[n]
  OBVIOUS
<1>2. /\ o.at = "running" /\ o.todo = <<>> /\ RoutineOk(o, chain)
      /\ DOMAIN o = {"at", "content", "parent", "todo", "s", "ext", "receipts", "cancelSet"}
  BY <1>1 DEF Executed, IInv, RoutineOk
<1>3. o.content \in Content /\ ParentOk(o.parent, chain)
  BY <1>2 DEF RoutineOk, AtWork
<1>4. DOMAIN child' = Name /\ DOMAIN child[n] = {"at", "result"} /\ child[n].at \notin {"running", "done"}
  BY <1>1, <1>2, NoAnswer DEF IInv
<1>5. CASE o.cancelSet \/ Canceled(n)
  <2>1. Fail(n)
    BY <1>1, <1>5 DEF Executed
  <2>2. QED
    BY <1>4, <2>1, FailStep
<1>6. CASE ~(o.cancelSet \/ Canceled(n))
  <2>1. PICK txs \in Seq(Tx) : txs = o.content.txs
    BY <1>3, ExecuteAssumption
  <2>2. PICK k \in 0..Len(txs) : RanOk(o.s, o, k) /\ o.todo = SubSeq(txs, k + 1, Len(txs))
    BY <1>2, <2>1 DEF RoutineOk
  <2>3. k = Len(txs)
    BY <1>2, <2>2
  <2>4. PICK r : r = [o EXCEPT !.at = "mining"]
    OBVIOUS
  <2>5. /\ r.at = "mining" /\ r.s = o.s /\ r.parent = o.parent /\ r.content = o.content
        /\ DOMAIN r = {"at", "content", "parent", "todo", "s", "ext", "receipts", "cancelSet"}
    BY <1>2, <2>4
  <2>6. /\ routine' = [routine EXCEPT ![n] = r] /\ chain' = chain /\ ~Canceled(n)
        /\ miner' = [miner EXCEPT !.state = "mining", !.routine = None]
    BY <1>1, <1>6, <2>4 DEF Executed
  <2>7. DOMAIN routine' = Name /\ routine'[n] = r /\ \A j \in Name : j # n => routine'[j] = routine[j]
    BY <2>6 DEF IInv
  <2>8. RanOk(r.s, r, Len(r.content.txs))
    BY <2>1, <2>2, <2>3, <2>5 DEF RanOk
  <2>9. RoutineOk(r, chain) /\ ChildOk(child'[n], r)
    BY <1>3, <1>4, <2>5, <2>8 DEF RoutineOk, AtWork, ChildOk
  <2>10. MinerOk(miner') /\ MinerIsWorking'
    BY <2>5, <2>6, <2>7, ToMining
  <2>11. QED
    BY <1>4, <2>6, <2>7, <2>9, <2>10, Local
<1>7. QED
  BY <1>5, <1>6

\* The tip after a block of a routine whose parent it was.
LEMMA Grown ==
    ASSUME IInv, NEW n \in Name, routine[n].at = "saving",
           ~(routine[n].parent.height < chain.height),
           NEW ch, ch = [state |-> Live(routine[n].s), height |-> chain.height + 1,
                         txs |-> chain.txs \o routine[n].content.txs]
    PROVE  ChainOk(ch)
<1>1. PICK o : o = routine[n]
  OBVIOUS
<1>2. /\ o.content \in Content /\ ParentOk(o.parent, chain) /\ RanOk(o.s, o, Len(o.content.txs))
      /\ ChainOk(chain) /\ ~(o.parent.height < chain.height)
  BY <1>1 DEF IInv, RoutineOk, AtWork
<1>3. /\ chain.height \in Nat /\ chain.height + 1 \in 0..MaxHeight /\ MaxHeight \in Nat
      /\ o.parent.state = chain.state
  BY <1>2, ExecuteAssumption DEF ChainOk, ParentOk
<1>4. PICK q \in Seq(Tx) : q = o.content.txs
  BY <1>2, ExecuteAssumption
<1>5. PICK p \in Seq(Tx) : p = chain.txs
  BY <1>2 DEF ChainOk
<1>6. PICK state \in State : state = chain.state
  BY <1>2 DEF ChainOk, Solvent
<1>7. PICK live : live = Live(o.s)
  OBVIOUS
<1>8. Wage \in Int
  BY ExecuteAssumption
<1>9. PICK all : all = Total(state.bal) + Wage
  OBVIOUS
<1>10. Ran(o.s, state, all, q, Len(q))
  BY <1>2, <1>3, <1>4, <1>6, <1>9 DEF RanOk
<1>11. live \in State /\ Good(live, all) /\ Used(live.nonce, state, q, Len(q))
  BY <1>7, <1>10, LiveObject DEF Ran
<1>12. Solvent(live) /\ Total(live.bal) = all
  BY <1>11 DEF Solvent, Good
<1>13. /\ ch.state = live /\ ch.height = chain.height + 1 /\ ch.txs = p \o q
       /\ DOMAIN ch = {"state", "height", "txs"}
  BY <1>1, <1>4, <1>5, <1>7
<1>14. Total(live.bal) = Total(Balance) + (chain.height + 1) * Wage
  <2>1. Total(state.bal) = Total(Balance) + chain.height * Wage
    BY <1>2, <1>6 DEF ChainOk
  <2>2. Total(Balance) \in Int
    <3>1. Balance \in [Holder -> Int] /\ Coinbase \in Holder
      BY ExecuteAssumption DEF Holder
    <3>2. QED
      BY <3>1, TotalChange
  <2>3. (chain.height + 1) * Wage = chain.height * Wage + Wage /\ chain.height * Wage \in Int
    <3>1. \A x, w \in Int : (x + 1) * w = x * w + w /\ x * w \in Int
      OBVIOUS
    <3>2. chain.height \in Int
      BY <1>3
    <3>3. QED
      BY <1>8, <3>1, <3>2
  <2>4. QED
    BY <1>8, <1>9, <1>12, <2>1, <2>2, <2>3
<1>15. ASSUME NEW a \in Account PROVE live.nonce[a] + 1 = Cardinality(SentBy(p \o q, a))
  <2>1. state.nonce[a] + 1 = Cardinality(SentBy(p, a))
    BY <1>2, <1>5, <1>6 DEF ChainOk
  <2>2. live.nonce[a] = state.nonce[a] + Count(q, Len(q), a)
    BY <1>11 DEF Used
  <2>3. Cardinality(SentBy(p \o q, a)) = Cardinality(SentBy(p, a)) + Count(q, Len(q), a)
    BY CountBoth
  <2>4. state.nonce[a] \in Int /\ Count(q, Len(q), a) \in Nat
    BY CountStep DEF State
  <2>5. QED
    BY <2>1, <2>2, <2>3, <2>4
<1>16. p \o q \in Seq(Tx)
  OBVIOUS
<1>17. QED
  BY <1>3, <1>12, <1>13, <1>14, <1>15, <1>16 DEF ChainOk

\* A mined block's routine frees its miner before the block is saved.
LEMMA MinedStep ==
    ASSUME IInv, NEW n \in Name, Mined(n), UNCHANGED child PROVE IInv'
<1>1. PICK o : o = routine[n]
  OBVIOUS
<1>2. /\ o.at = "mining" /\ RoutineOk(o, chain)
      /\ DOMAIN o = {"at", "content", "parent", "todo", "s", "ext", "receipts", "cancelSet"}
  BY <1>1 DEF Mined, IInv, RoutineOk
<1>3. DOMAIN child' = Name /\ DOMAIN child[n] = {"at", "result"} /\ child[n].at \notin {"running", "done"}
  BY <1>1, <1>2, NoAnswer DEF IInv
<1>4. CASE Canceled(n)
  <2>1. Fail(n)
    BY <1>1, <1>4 DEF Mined
  <2>2. QED
    BY <1>3, <2>1, FailStep
<1>5. CASE ~Canceled(n)
  <2>1. PICK r : r = [o EXCEPT !.at = "saving"]
    OBVIOUS
  <2>2. /\ r.at = "saving" /\ r.s = o.s /\ r.parent = o.parent /\ r.content = o.content
        /\ DOMAIN r = {"at", "content", "parent", "todo", "s", "ext", "receipts", "cancelSet"}
    BY <1>2, <2>1
  <2>3. routine' = [routine EXCEPT ![n] = r] /\ miner' = SetIdle(n) /\ chain' = chain
    BY <1>1, <1>5, <2>1 DEF Mined
  <2>4. DOMAIN routine' = Name /\ routine'[n] = r /\ \A j \in Name : j # n => routine'[j] = routine[j]
    BY <2>3 DEF IInv
  <2>5. MinerOk(miner') /\ MinerIsWorking'
    BY <2>3, <2>4, Freed
  <2>6. RoutineOk(r, chain) /\ ChildOk(child'[n], r)
    BY <1>2, <1>3, <2>2 DEF RoutineOk, AtWork, ChildOk, RanOk
  <2>7. QED
    BY <1>3, <2>3, <2>4, <2>5, <2>6, Local
<1>6. QED
  BY <1>4, <1>5

\* A block that could not be mined.
LEMMA MineFailsStep ==
    ASSUME IInv, NEW n \in Name, MineFails(n), UNCHANGED child PROVE IInv'
<1>1. DOMAIN child' = Name /\ DOMAIN child[n] = {"at", "result"} /\ child[n].at \notin {"running", "done"}
  BY NoAnswer DEF MineFails, IInv
<1>2. QED
  BY <1>1, FailStep DEF MineFails

\* The miner does not wait for a routine whose block is being saved.
LEMMA NotAwaited ==
    ASSUME IInv, NEW n \in Name, routine[n].at = "saving", miner' = miner,
           \A k \in Name : k # n => routine'[k] = routine[k]
    PROVE  MinerOk(miner') /\ MinerIsWorking'
<1>1. MinerOk(miner) /\ MinerIsWorking
  BY DEF IInv
<1>2. ASSUME miner.state # "idle" PROVE routine'[miner.name].at \in AtWork
  <2>1. miner.name \in Name /\ routine[miner.name].at \in AtWork
    BY <1>1, <1>2 DEF MinerOk, MinerIsWorking
  <2>2. miner.name # n
    BY <2>1 DEF AtWork
  <2>3. QED
    BY <2>1, <2>2
<1>3. QED
  BY <1>1, <1>2 DEF MinerIsWorking

\* A block that could not be saved.
LEMMA SaveFailsStep ==
    ASSUME IInv, NEW n \in Name, SaveFails(n), UNCHANGED child PROVE IInv'
<1>1. PICK o : o = routine[n]
  OBVIOUS
<1>2. /\ o.at = "saving"
      /\ DOMAIN o = {"at", "content", "parent", "todo", "s", "ext", "receipts", "cancelSet"}
  BY <1>1 DEF SaveFails, IInv, RoutineOk
<1>3. DOMAIN child' = Name /\ DOMAIN child[n] = {"at", "result"} /\ child[n].at \notin {"running", "done"}
  BY <1>1, <1>2, NoAnswer DEF IInv
<1>4. PICK r : r = [o EXCEPT !.at = "failed"]
  OBVIOUS
<1>5. /\ r.at = "failed"
      /\ DOMAIN r = {"at", "content", "parent", "todo", "s", "ext", "receipts", "cancelSet"}
  BY <1>2, <1>4
<1>6. routine' = [routine EXCEPT ![n] = r] /\ miner' = miner /\ chain' = chain
  BY <1>1, <1>4 DEF SaveFails
<1>7. DOMAIN routine' = Name /\ routine'[n] = r /\ \A j \in Name : j # n => routine'[j] = routine[j]
  BY <1>6 DEF IInv
<1>8. MinerOk(miner') /\ MinerIsWorking'
  BY <1>1, <1>2, <1>6, <1>7, NotAwaited
<1>9. RoutineOk(r, chain) /\ ChildOk(child'[n], r)
  BY <1>3, <1>5 DEF RoutineOk, AtWork, ChildOk
<1>10. QED
  BY <1>3, <1>6, <1>7, <1>8, <1>9, Local

\* The chain grows by the routine's block, if that is still the next; the parent of
\* every other routine is below the tip then.
LEMMA AddMinedBlockStep ==
    ASSUME IInv, NEW n \in Name, AddMinedBlock(n), UNCHANGED child PROVE IInv'
<1>1. PICK o : o = routine[n]
  OBVIOUS
<1>2. /\ o.at = "saving" /\ RoutineOk(o, chain)
      /\ DOMAIN o = {"at", "content", "parent", "todo", "s", "ext", "receipts", "cancelSet"}
  BY <1>1 DEF AddMinedBlock, IInv, RoutineOk
<1>3. DOMAIN child' = Name /\ DOMAIN child[n] = {"at", "result"} /\ child[n].at \notin {"running", "done"}
  BY <1>1, <1>2, NoAnswer DEF IInv
<1>4. PICK ch : ch = [state |-> Live(o.s), height |-> chain.height + 1,
                      txs |-> chain.txs \o o.content.txs]
  OBVIOUS
<1>5. PICK r : r = [o EXCEPT !.at = "mined"]
  OBVIOUS
<1>6. /\ r.at = "mined" /\ r.s = o.s /\ r.parent = o.parent /\ r.content = o.content
      /\ DOMAIN r = {"at", "content", "parent", "todo", "s", "ext", "receipts", "cancelSet"}
  BY <1>2, <1>5
<1>7. /\ routine' = [routine EXCEPT ![n] = r] /\ miner' = miner
      /\ chain' = IF o.parent.height < chain.height THEN chain ELSE ch
  BY <1>1, <1>4, <1>5 DEF AddMinedBlock
<1>8. DOMAIN routine' = Name /\ routine'[n] = r /\ \A j \in Name : j # n => routine'[j] = routine[j]
  BY <1>7 DEF IInv
<1>9. MinerOk(miner') /\ MinerIsWorking'
  BY <1>1, <1>2, <1>7, <1>8, NotAwaited
<1>10. RoutineOk(r, chain) /\ ChildOk(child'[n], r)
  BY <1>2, <1>3, <1>6 DEF RoutineOk, AtWork, ChildOk, RanOk
<1>11. CASE o.parent.height < chain.height
  <2>1. chain' = chain
    BY <1>7, <1>11
  <2>2. QED
    BY <1>3, <1>8, <1>9, <1>10, <2>1, Local
<1>12. CASE ~(o.parent.height < chain.height)
  <2>1. chain' = ch
    BY <1>7, <1>12
  <2>2. ChainOk(ch) /\ ch.height = chain.height + 1 /\ chain.height \in Nat
    <3>1. /\ routine[n].at = "saving" /\ ~(routine[n].parent.height < chain.height)
          /\ ch = [state |-> Live(routine[n].s), height |-> chain.height + 1,
                   txs |-> chain.txs \o routine[n].content.txs]
      BY <1>1, <1>2, <1>4, <1>12
    <3>2. ChainOk(ch)
      BY <3>1, Grown
    <3>3. QED
      BY <1>4, <3>2 DEF IInv, ChainOk
  <2>3. ASSUME NEW p, ParentOk(p, chain) PROVE ParentOk(p, ch)
    BY <2>2, <2>3 DEF ParentOk
  <2>4. ASSUME NEW q, RoutineOk(q, chain) PROVE RoutineOk(q, ch)
    BY <2>3, <2>4 DEF RoutineOk
  <2>5. \A j \in Name : RoutineOk(routine'[j], ch) /\ ChildOk(child'[j], routine'[j])
    BY <1>8, <1>10, <2>4 DEF IInv
  <2>6. QED
    BY <1>3, <1>8, <1>9, <2>1, <2>2, <2>5 DEF IInv
<1>13. QED
  BY <1>11, <1>12

\* What becomes of an executed block.
LEMMA FinishStep ==
    ASSUME IInv, NEW n \in Name, Finish(n), UNCHANGED child PROVE IInv'
BY MinedStep, MineFailsStep, AddMinedBlockStep, SaveFailsStep DEF Finish

\* Cancelling a routine leaves it a routine, and what its child may answer the same.
LEMMA CancelKeeps ==
    ASSUME IInv
    PROVE  /\ DOMAIN AfterCancel = Name
           /\ \A k \in Name : /\ RoutineOk(AfterCancel[k], chain)
                               /\ \A c : ChildOk(c, routine[k]) => ChildOk(c, AfterCancel[k])
<1>1. PICK old : old = miner.routine
  OBVIOUS
<1>2. DOMAIN routine = Name /\ \A k \in Name : RoutineOk(routine[k], chain)
  BY DEF IInv
<1>3. CASE miner.state # "executing" \/ old = None
  <2>1. AfterCancel = routine
    BY <1>1, <1>3 DEF AfterCancel
  <2>2. QED
    BY <1>2, <2>1
<1>4. CASE miner.state = "executing" /\ old # None
  <2>1. old \in Name
    BY <1>1, <1>4 DEF IInv, MinerOk
  <2>2. PICK o : o = routine[old]
    OBVIOUS
  <2>3. RoutineOk(o, chain) /\ DOMAIN o = {"at", "content", "parent", "todo", "s", "ext", "receipts", "cancelSet"}
    BY <1>2, <2>1, <2>2 DEF RoutineOk
  <2>4. CASE o.at = "ready"
    <3>1. PICK r : r = [o EXCEPT !.at = "finished"]
      OBVIOUS
    <3>2. /\ r.at = "finished" /\ r.content = o.content /\ r.parent = o.parent
          /\ DOMAIN r = {"at", "content", "parent", "todo", "s", "ext", "receipts", "cancelSet"}
      BY <2>3, <3>1
    <3>3. AfterCancel = [routine EXCEPT ![old] = r]
      BY <1>1, <1>4, <2>2, <2>4, <3>1 DEF AfterCancel
    <3>4. RoutineOk(r, chain)
      BY <2>3, <2>4, <3>2 DEF RoutineOk, AtWork
    <3>5. \A c : ChildOk(c, o) => ChildOk(c, r)
      BY <2>4, <3>2 DEF ChildOk
    <3>6. QED
      BY <1>2, <2>1, <2>2, <3>3, <3>4, <3>5
  <2>5. CASE o.at # "ready"
    <3>1. PICK r : r = [o EXCEPT !.cancelSet = TRUE]
      OBVIOUS
    <3>2. /\ r.at = o.at /\ r.content = o.content /\ r.parent = o.parent /\ r.todo = o.todo
          /\ r.s = o.s /\ r.ext = o.ext
          /\ DOMAIN r = {"at", "content", "parent", "todo", "s", "ext", "receipts", "cancelSet"}
      BY <2>3, <3>1
    <3>3. AfterCancel = [routine EXCEPT ![old] = r]
      BY <1>1, <1>4, <2>2, <2>5, <3>1 DEF AfterCancel
    <3>4. \A s, k : RanOk(s, r, k) = RanOk(s, o, k)
      BY <3>2 DEF RanOk
    <3>5. RoutineOk(r, chain)
      BY <2>3, <3>2, <3>4 DEF RoutineOk
    <3>6. \A c : ChildOk(c, o) => ChildOk(c, r)
      BY <3>2, <3>4 DEF ChildOk
    <3>7. QED
      BY <1>2, <2>1, <2>2, <3>3, <3>5, <3>6
  <2>6. QED
    BY <2>4, <2>5
<1>5. QED
  BY <1>1, <1>3, <1>4

\* A child that is killed, or is not.
LEMMA KillKeeps ==
    ASSUME IInv, NEW k \in Name
    PROVE  /\ DOMAIN Kill(k) = Name
           /\ \A j \in Name : \A r : ChildOk(child[j], r) => ChildOk(Kill(k)[j], r)
           /\ \A j \in Name : child[j].at \notin {"running", "done"} => Kill(k)[j] = child[j]
<1>1. DOMAIN child = Name
  BY DEF IInv
<1>2. CASE child[k].at = "running"
  <2>1. PICK c : c = [child[k] EXCEPT !.at = "dead"]
    OBVIOUS
  <2>2. Kill(k) = [child EXCEPT ![k] = c]
    BY <1>2, <2>1 DEF Kill
  <2>3. DOMAIN child[k] = {"at", "result"}
    BY DEF IInv, ChildOk
  <2>4. c.at = "dead" /\ DOMAIN c = {"at", "result"}
    BY <2>1, <2>3
  <2>5. \A r : ChildOk(c, r)
    BY <2>4 DEF ChildOk
  <2>6. QED
    BY <1>1, <1>2, <2>2, <2>5
<1>3. CASE child[k].at # "running"
  BY <1>1, <1>3 DEF Kill
<1>4. QED
  BY <1>2, <1>3

\* A new routine begins at the tip, whichever other is cancelled for it.
LEMMA CreateStep ==
    ASSUME IInv, NEW n \in Name, NEW c \in Content, Create(n, c),
           child' = child \/ \E k \in Name : child' = Kill(k)
    PROVE  IInv'
<1>1. PICK r : r = [NoRoutine EXCEPT !.at = "storage", !.content = c, !.todo = c.txs,
                      !.parent = [state |-> chain.state, height |-> chain.height]]
  OBVIOUS
<1>2. PICK p : p = [state |-> chain.state, height |-> chain.height]
  OBVIOUS
<1>3. PICK txs : txs = c.txs
  OBVIOUS
<1>4. r = [NoRoutine EXCEPT !.at = "storage", !.content = c, !.todo = txs, !.parent = p]
  BY <1>1, <1>2, <1>3
<1>5. /\ r.at = "storage" /\ r.content = c /\ r.parent = p /\ r.todo = txs
      /\ DOMAIN r = {"at", "content", "parent", "todo", "s", "ext", "receipts", "cancelSet"}
  BY <1>4, NewRoutine
<1>6. /\ routine[n].at = "none" /\ chain.height < MaxHeight /\ chain' = chain
      /\ routine' = [AfterCancel EXCEPT ![n] = r]
      /\ miner' = [state |-> "executing", name |-> n, routine |-> None]
  BY <1>1 DEF Create
<1>7. /\ DOMAIN AfterCancel = Name
      /\ \A k \in Name : /\ RoutineOk(AfterCancel[k], chain)
                          /\ \A d : ChildOk(d, routine[k]) => ChildOk(d, AfterCancel[k])
  BY CancelKeeps
<1>8. DOMAIN routine' = Name /\ routine'[n] = r /\ \A k \in Name : k # n => routine'[k] = AfterCancel[k]
  BY <1>6, <1>7
<1>9. ChainOk(chain) /\ MaxHeight \in Nat
  BY ExecuteAssumption DEF IInv
<1>10. ParentOk(p, chain)
  <2>1. p.state = chain.state /\ p.height = chain.height
    BY <1>2
  <2>2. chain.height \in Nat /\ Solvent(chain.state)
    BY <1>9 DEF ChainOk
  <2>3. QED
    BY <1>6, <2>1, <2>2 DEF ParentOk
<1>11. RoutineOk(r, chain)
  BY <1>3, <1>5, <1>10 DEF RoutineOk, AtWork
<1>12. DOMAIN child[n] = {"at", "result"} /\ child[n].at \notin {"running", "done"}
  BY <1>6, NoAnswer
<1>13. /\ DOMAIN child' = Name /\ child'[n] = child[n]
       /\ \A k \in Name : \A d : ChildOk(child[k], d) => ChildOk(child'[k], d)
  <2>1. CASE child' = child
    BY <2>1 DEF IInv
  <2>2. CASE \E k \in Name : child' = Kill(k)
    BY <1>12, <2>2, KillKeeps
  <2>3. QED
    BY <2>1, <2>2
<1>14. ASSUME NEW k \in Name PROVE RoutineOk(routine'[k], chain) /\ ChildOk(child'[k], routine'[k])
  <2>1. CASE k = n
    <3>1. ChildOk(child[n], r)
      BY <1>12 DEF ChildOk
    <3>2. QED
      BY <1>8, <1>11, <1>13, <2>1, <3>1
  <2>2. CASE k # n
    <3>1. ChildOk(child[k], routine[k])
      BY DEF IInv
    <3>2. QED
      BY <1>7, <1>8, <1>13, <2>2, <3>1
  <2>3. QED
    BY <2>1, <2>2
<1>15. MinerOk(miner') /\ MinerIsWorking'
  <2>1. PICK m : m = miner'
    OBVIOUS
  <2>2. m.state = "executing" /\ m.name = n /\ m.routine = None /\ DOMAIN m = {"state", "name", "routine"}
    BY <1>6, <2>1
  <2>3. MinerOk(m)
    BY <2>2, ExecuteAssumption DEF MinerOk
  <2>4. QED
    BY <1>5, <1>8, <2>1, <2>2, <2>3 DEF MinerIsWorking, AtWork
<1>16. QED
  BY <1>6, <1>8, <1>9, <1>13, <1>14, <1>15 DEF IInv

\* The same where cancelling kills a process.
LEMMA CreateWorkerStep ==
    ASSUME IInv, NEW n \in Name, NEW c \in Content, CreateWorker(n, c) PROVE IInv'
<1>1. Create(n, c)
  BY DEF CreateWorker
<1>2. child' = child \/ \E k \in Name : child' = Kill(k)
  BY DEF CreateWorker, IInv, MinerOk
<1>3. QED
  BY <1>1, <1>2, CreateStep

\* A routine that was cancelled before it began ends.
LEMMA StartFinishedStep ==
    ASSUME IInv, NEW n \in Name, StartFinished(n), UNCHANGED child PROVE IInv'
<1>1. Fail(n) /\ routine[n].at = "finished"
  BY DEF StartFinished
<1>2. DOMAIN child' = Name /\ DOMAIN child'[n] = {"at", "result"} /\ child'[n].at \notin {"running", "done"}
  BY <1>1, NoAnswer DEF IInv
<1>3. QED
  BY <1>1, <1>2, FailStep

\* The parameters of a child are made: its storage stays as it is.
LEMMA PrepareStep ==
    ASSUME IInv, NEW n \in Name, Prepare(n) PROVE IInv'
<1>1. PICK o : o = routine[n]
  OBVIOUS
<1>2. /\ o.at = "ready" /\ RoutineOk(o, chain) /\ chain' = chain /\ miner' = miner /\ child' = child
      /\ DOMAIN o = {"at", "content", "parent", "todo", "s", "ext", "receipts", "cancelSet"}
  BY <1>1 DEF Prepare, IInv, RoutineOk
<1>3. PICK r : r = [o EXCEPT !.at = "preparing"]
  OBVIOUS
<1>4. /\ r.at = "preparing" /\ r.s = o.s /\ r.parent = o.parent /\ r.content = o.content
      /\ DOMAIN r = {"at", "content", "parent", "todo", "s", "ext", "receipts", "cancelSet"}
  BY <1>2, <1>3
<1>5. routine' = [routine EXCEPT ![n] = r]
  BY <1>1, <1>3 DEF Prepare
<1>6. DOMAIN routine' = Name /\ routine'[n] = r /\ \A k \in Name : k # n => routine'[k] = routine[k]
  BY <1>5 DEF IInv
<1>7. RoutineOk(r, chain)
  BY <1>2, <1>4 DEF RoutineOk, AtWork
<1>8. ChildOk(child'[n], r) /\ DOMAIN child' = Name
  BY <1>1, <1>2, NoAnswer DEF ChildOk, IInv
<1>9. MinerOk(miner') /\ MinerIsWorking'
  BY <1>2, <1>4, <1>6, Busy DEF AtWork
<1>10. QED
  BY <1>2, <1>6, <1>7, <1>8, <1>9, Local

\* From here on a child may answer.
LEMMA ForkStep ==
    ASSUME IInv, NEW n \in Name, Fork(n) PROVE IInv'
<1>1. PICK o : o = routine[n]
  OBVIOUS
<1>2. /\ o.at = "preparing" /\ RoutineOk(o, chain) /\ chain' = chain /\ miner' = miner
      /\ DOMAIN o = {"at", "content", "parent", "todo", "s", "ext", "receipts", "cancelSet"}
  BY <1>1 DEF Fork, IInv, RoutineOk
<1>3. PICK r : r = [o EXCEPT !.at = "waiting"]
  OBVIOUS
<1>4. /\ r.at = "waiting" /\ r.s = o.s /\ r.parent = o.parent /\ r.content = o.content
      /\ DOMAIN r = {"at", "content", "parent", "todo", "s", "ext", "receipts", "cancelSet"}
  BY <1>2, <1>3
<1>5. routine' = [routine EXCEPT ![n] = r]
  BY <1>1, <1>3 DEF Fork
<1>6. DOMAIN routine' = Name /\ routine'[n] = r /\ \A k \in Name : k # n => routine'[k] = routine[k]
  BY <1>5 DEF IInv
<1>7. RoutineOk(r, chain)
  BY <1>2, <1>4 DEF RoutineOk, AtWork
<1>8. PICK c : c = [child[n] EXCEPT !.at = "running"]
  OBVIOUS
<1>9. DOMAIN child[n] = {"at", "result"} /\ DOMAIN child = Name
  BY DEF IInv, ChildOk
<1>10. c.at = "running" /\ DOMAIN c = {"at", "result"}
  BY <1>8, <1>9
<1>11. child' = [child EXCEPT ![n] = c]
  BY <1>8 DEF Fork
<1>12. ChildOk(child'[n], r) /\ DOMAIN child' = Name /\ \A k \in Name : k # n => child'[k] = child[k]
  BY <1>4, <1>9, <1>10, <1>11 DEF ChildOk
<1>13. MinerOk(miner') /\ MinerIsWorking'
  BY <1>2, <1>4, <1>6, Busy DEF AtWork
<1>14. QED
  BY <1>2, <1>6, <1>7, <1>12, <1>13, Local

\* A routine whose child was never started ends.
LEMMA EncodeFailsStep ==
    ASSUME IInv, NEW n \in Name, EncodeFails(n) PROVE IInv'
<1>1. Fail(n) /\ routine[n].at = "preparing" /\ child' = child
  BY DEF EncodeFails
<1>2. DOMAIN child' = Name /\ DOMAIN child'[n] = {"at", "result"} /\ child'[n].at \notin {"running", "done"}
  BY <1>1, NoAnswer DEF IInv
<1>3. QED
  BY <1>1, <1>2, FailStep

\* A routine ends whose child runs on and is not listened to.
LEMMA SendFailsStep ==
    ASSUME IInv, NEW n \in Name, SendFails(n) PROVE IInv'
<1>1. PICK c : c = [child[n] EXCEPT !.at = "orphan"]
  OBVIOUS
<1>2. DOMAIN child[n] = {"at", "result"} /\ DOMAIN child = Name
  BY DEF IInv, ChildOk
<1>3. c.at = "orphan" /\ DOMAIN c = {"at", "result"}
  BY <1>1, <1>2
<1>4. Fail(n) /\ child' = [child EXCEPT ![n] = c]
  BY <1>1 DEF SendFails
<1>5. /\ DOMAIN child' = Name /\ child'[n] = c /\ \A k \in Name : k # n => child'[k] = child[k]
  BY <1>2, <1>4
<1>6. QED
  BY <1>3, <1>4, <1>5, FailStep

\* A child that dies leaves its routine waiting.
LEMMA ChildDiesStep ==
    ASSUME IInv, NEW n \in Name, ChildDies(n) PROVE IInv'
<1>1. PICK c : c = [child[n] EXCEPT !.at = "dead"]
  OBVIOUS
<1>2. DOMAIN child[n] = {"at", "result"} /\ DOMAIN child = Name
  BY DEF IInv, ChildOk
<1>3. c.at = "dead" /\ DOMAIN c = {"at", "result"}
  BY <1>1, <1>2
<1>4. /\ child' = [child EXCEPT ![n] = c] /\ routine' = routine /\ chain' = chain /\ miner' = miner
  BY <1>1 DEF ChildDies
<1>5. /\ DOMAIN child' = Name /\ child'[n] = c /\ \A k \in Name : k # n => child'[k] = child[k]
  BY <1>2, <1>4
<1>6. ChildOk(c, routine[n])
  BY <1>3 DEF ChildOk
<1>7. MinerIsWorking'
  BY <1>4 DEF MinerIsWorking, IInv
<1>8. QED
  BY <1>4, <1>5, <1>6, <1>7, Local DEF IInv

\* A child answers with the whole block executed on the parent's state, or with nothing.
LEMMA ChildEndsStep ==
    ASSUME IInv, NEW n \in Name, ChildEnds(n) PROVE IInv'
<1>1. PICK o : o = routine[n]
  OBVIOUS
<1>2. child[n].at = "running" /\ routine' = routine /\ chain' = chain /\ miner' = miner
  BY DEF ChildEnds
<1>3. o.at = "waiting" /\ RoutineOk(o, chain) /\ DOMAIN child = Name
  BY <1>1, <1>2 DEF IInv, ChildOk
<1>4. PICK b \in {None, RunBlock(n)} :
         child' = [child EXCEPT ![n] = [at |-> "done",
              result |-> IF b = None THEN None ELSE IF b.err THEN None ELSE b.s]]
  BY DEF ChildEnds
<1>5. PICK res : res = IF b = None THEN None ELSE IF b.err THEN None ELSE b.s
  OBVIOUS
<1>6. PICK c : c = [at |-> "done", result |-> res]
  OBVIOUS
<1>7. c.at = "done" /\ c.result = res /\ DOMAIN c = {"at", "result"} /\ child' = [child EXCEPT ![n] = c]
  BY <1>4, <1>5, <1>6
<1>8. /\ DOMAIN child' = Name /\ child'[n] = c /\ \A k \in Name : k # n => child'[k] = child[k]
  BY <1>3, <1>7
<1>9. ASSUME res # None PROVE RanOk(res, o, Len(o.content.txs))
  <2>1. b = RunBlock(n) /\ ~b.err /\ res = b.s
    BY <1>5, <1>9
  <2>2. /\ o.content \in Content /\ Solvent(o.parent.state) /\ o.s = NewStorage(o.parent.state)
    BY <1>3 DEF RoutineOk, AtWork, ParentOk
  <2>3. PICK state \in State : state = o.parent.state
    BY <2>2 DEF Solvent
  <2>4. PICK total \in Int : total = Total(state.bal)
    <3>1. state.bal \in [Holder -> Int] /\ Coinbase \in Holder
      BY ExecuteAssumption DEF State, Holder
    <3>2. QED
      BY <3>1, TotalChange
  <2>5. Good(state, total)
    BY <2>2, <2>3, <2>4 DEF Solvent
  <2>6. PICK k \in Content : k = o.content
    BY <2>2
  <2>7. routine[n].content = k /\ routine[n].s = NewStorage(state)
    BY <1>1, <2>2, <2>3, <2>6
  <2>8. ~RunBlock(n).err => Ran(RunBlock(n).s, state, total + Wage, k.txs, Len(k.txs))
    BY <2>5, <2>7, BlockRuns
  <2>9. QED
    BY <2>1, <2>3, <2>4, <2>6, <2>8 DEF RanOk
<1>10. ChildOk(c, o)
  BY <1>3, <1>7, <1>9 DEF ChildOk
<1>11. MinerIsWorking'
  BY <1>2 DEF MinerIsWorking, IInv
<1>12. QED
  BY <1>1, <1>2, <1>8, <1>10, <1>11, Local DEF IInv

\* A child whose answer has been taken.
LEMMA TakenStep ==
    ASSUME IInv, NEW n \in Name, child' = [child EXCEPT ![n] = [at |-> "read", result |-> None]]
    PROVE  /\ DOMAIN child' = Name /\ \A k \in Name : k # n => child'[k] = child[k]
           /\ DOMAIN child'[n] = {"at", "result"} /\ child'[n].at = "read"
<1>1. PICK c : c = [at |-> "read", result |-> None]
  OBVIOUS
<1>2. c.at = "read" /\ DOMAIN c = {"at", "result"}
  BY <1>1
<1>3. child' = [child EXCEPT ![n] = c] /\ DOMAIN child = Name
  BY <1>1 DEF IInv
<1>4. QED
  BY <1>2, <1>3

\* A routine whose child's answer cannot be read ends.
LEMMA UnreadableStep ==
    ASSUME IInv, NEW n \in Name, Unreadable(n) PROVE IInv'
<1>1. Fail(n) /\ child' = [child EXCEPT ![n] = [at |-> "read", result |-> None]]
  BY DEF Unreadable
<1>2. QED
  BY <1>1, TakenStep, FailStep

\* A routine takes over what its child has executed, or ends.
LEMMA AnswerStep ==
    ASSUME IInv, NEW n \in Name, Answer(n) PROVE IInv'
<1>1. PICK o : o = routine[n]
  OBVIOUS
<1>2. /\ o.at = "waiting" /\ child[n].at = "done" /\ RoutineOk(o, chain)
      /\ child' = [child EXCEPT ![n] = [at |-> "read", result |-> None]]
      /\ DOMAIN o = {"at", "content", "parent", "todo", "s", "ext", "receipts", "cancelSet"}
  BY <1>1 DEF Answer, IInv, RoutineOk
<1>3. /\ DOMAIN child' = Name /\ \A k \in Name : k # n => child'[k] = child[k]
      /\ DOMAIN child'[n] = {"at", "result"} /\ child'[n].at = "read"
  BY <1>2, TakenStep
<1>4. PICK res : res = child[n].result
  OBVIOUS
<1>5. CASE o.cancelSet \/ res = None \/ Canceled(n)
  <2>1. Fail(n)
    BY <1>1, <1>4, <1>5 DEF Answer
  <2>2. QED
    BY <1>3, <2>1, FailStep
<1>6. CASE ~(o.cancelSet \/ res = None \/ Canceled(n))
  <2>1. RanOk(res, o, Len(o.content.txs))
    BY <1>1, <1>2, <1>4, <1>6 DEF IInv, ChildOk
  <2>2. PICK r : r = [o EXCEPT !.at = "mining", !.s = res]
    OBVIOUS
  <2>3. /\ r.at = "mining" /\ r.s = res /\ r.parent = o.parent /\ r.content = o.content
        /\ DOMAIN r = {"at", "content", "parent", "todo", "s", "ext", "receipts", "cancelSet"}
    BY <1>2, <2>2
  <2>4. /\ routine' = [routine EXCEPT ![n] = r] /\ chain' = chain /\ ~Canceled(n)
        /\ miner' = [miner EXCEPT !.state = "mining", !.routine = None]
    BY <1>1, <1>4, <1>6, <2>2 DEF Answer
  <2>5. DOMAIN routine' = Name /\ routine'[n] = r /\ \A k \in Name : k # n => routine'[k] = routine[k]
    BY <2>4 DEF IInv
  <2>6. RanOk(r.s, r, Len(r.content.txs))
    BY <2>1, <2>3 DEF RanOk
  <2>7. RoutineOk(r, chain) /\ ChildOk(child'[n], r)
    BY <1>2, <1>3, <2>3, <2>6 DEF RoutineOk, AtWork, ChildOk
  <2>8. MinerOk(miner') /\ MinerIsWorking'
    BY <2>3, <2>4, <2>5, ToMining
  <2>9. QED
    BY <1>3, <2>4, <2>5, <2>7, <2>8, Local
<1>7. QED
  BY <1>5, <1>6

----------------------------------------------------------------------------
\* The theorems

\* Nothing is executed yet and the balances are those of the genesis.
LEMMA InitHolds == WorkerInit => IInv
<1> SUFFICES ASSUME WorkerInit PROVE IInv
  OBVIOUS
<1>1. PICK state : state = [bal |-> Balance, nonce |-> [a \in Account |-> -1]]
  OBVIOUS
<1>2. /\ chain = [state |-> state, height |-> 0, txs |-> <<>>]
      /\ miner = [state |-> "idle", name |-> None, routine |-> None]
      /\ routine = [n \in Name |-> NoRoutine] /\ child = [n \in Name |-> NoChild]
  BY <1>1 DEF WorkerInit, Init
<1>3. /\ Balance \in [Holder -> Int] /\ Coinbase \in Holder /\ Wage \in Int /\ MaxHeight \in Nat
      /\ \A a \in Holder : Balance[a] >= 0
  BY ExecuteAssumption DEF Holder
<1>4. state \in State /\ state.bal = Balance /\ \A a \in Account : state.nonce[a] = -1
  BY <1>1, <1>3 DEF State
<1>5. Solvent(state)
  BY <1>3, <1>4 DEF Solvent, Good
<1>6. Total(Balance) \in Int
  BY <1>3, TotalChange
<1>7. Total(state.bal) = Total(Balance) + 0 * Wage
  BY <1>3, <1>4, <1>6
<1>8. ASSUME NEW a \in Account PROVE state.nonce[a] + 1 = Cardinality(SentBy(<<>>, a))
  <2>1. SentBy(<<>>, a) = {}
    BY DEF SentBy
  <2>2. Cardinality(SentBy(<<>>, a)) = 0
    BY <2>1, FS_EmptySet, Zenon
  <2>3. state.nonce[a] + 1 = 0
    BY <1>4
  <2>4. QED
    BY <2>2, <2>3, Zenon
<1>9. ChainOk(chain)
  <2>1. /\ DOMAIN chain = {"state", "height", "txs"} /\ chain.state = state /\ chain.height = 0
        /\ chain.txs = <<>> /\ <<>> \in Seq(Tx)
    BY <1>2
  <2>2. QED
    BY <1>3, <1>5, <1>7, <1>8, <2>1 DEF ChainOk
<1>10. MinerOk(miner) /\ MinerIsWorking
  BY <1>2 DEF MinerOk, MinerIsWorking
<1>11. RoutineOk(NoRoutine, chain)
  BY NewRoutine DEF RoutineOk, AtWork
<1>12. ChildOk(NoChild, NoRoutine)
  BY DEF ChildOk, NoChild
<1>13. QED
  BY <1>2, <1>9, <1>10, <1>11, <1>12 DEF IInv

\* Nothing changes.
LEMMA StutterHolds == ASSUME IInv, UNCHANGED workerVars PROVE IInv'
<1>1. chain' = chain /\ miner' = miner /\ routine' = routine /\ child' = child
  BY DEF workerVars, vars
<1>2. MinerIsWorking'
  BY <1>1 DEF IInv, MinerIsWorking
<1>3. QED
  BY <1>1, <1>2 DEF IInv

\* Every action of either manager.
LEMMA NextHolds == ASSUME IInv, [WorkerNext]_workerVars PROVE IInv'
<1>1. ASSUME NEW n \in Name, Work(n), UNCHANGED child PROVE IInv'
  BY <1>1, StorageMadeStep, StartStepKeeps, StartFinishedStep, RunTxStep, ExecutedStep, FinishStep
     DEF Work
<1>2. ASSUME Next, UNCHANGED child PROVE IInv'
  <2>1. PICK n \in Name : (\E c \in Content : Create(n, c)) \/ StorageFails(n) \/ Work(n)
    BY <1>2 DEF Next
  <2>2. CASE \E c \in Content : Create(n, c)
    BY <1>2, <2>2, CreateStep
  <2>3. CASE StorageFails(n)
    BY <1>2, <2>3, StorageFailsStep
  <2>4. CASE Work(n)
    BY <1>1, <1>2, <2>4
  <2>5. QED
    BY <2>1, <2>2, <2>3, <2>4
<1>3. CASE Next /\ UNCHANGED <<manager, child>>
  BY <1>2, <1>3
<1>4. ASSUME NEW n \in Name,
             \/ \E c \in Content : CreateWorker(n, c)
             \/ StorageFails(n) /\ UNCHANGED child
             \/ StorageMade(n) /\ UNCHANGED child
             \/ StartFinished(n) /\ UNCHANGED child
             \/ Prepare(n)
             \/ Fork(n)
             \/ EncodeFails(n)
             \/ SendFails(n)
             \/ ChildEnds(n)
             \/ ChildDies(n)
             \/ Unreadable(n)
             \/ Answer(n)
             \/ Finish(n) /\ UNCHANGED child
      PROVE  IInv'
  <2>1. CASE \E c \in Content : CreateWorker(n, c)
    BY <2>1, CreateWorkerStep
  <2>2. CASE StorageFails(n) /\ UNCHANGED child
    BY <2>2, StorageFailsStep
  <2>3. CASE (StorageMade(n) \/ StartFinished(n) \/ Finish(n)) /\ UNCHANGED child
    BY <1>1, <2>3 DEF Work
  <2>4. CASE Prepare(n)
    BY <2>4, PrepareStep
  <2>5. CASE Fork(n)
    BY <2>5, ForkStep
  <2>6. CASE EncodeFails(n)
    BY <2>6, EncodeFailsStep
  <2>7. CASE SendFails(n)
    BY <2>7, SendFailsStep
  <2>8. CASE ChildEnds(n)
    BY <2>8, ChildEndsStep
  <2>9. CASE ChildDies(n)
    BY <2>9, ChildDiesStep
  <2>10. CASE Unreadable(n)
    BY <2>10, UnreadableStep
  <2>11. CASE Answer(n)
    BY <2>11, AnswerStep
  <2>12. QED
    BY <1>4, <2>1, <2>2, <2>3, <2>4, <2>5, <2>6, <2>7, <2>8, <2>9, <2>10, <2>11
<1>5. CASE UNCHANGED workerVars
  BY <1>5, StutterHolds
<1>6. QED
  BY <1>3, <1>4, <1>5 DEF WorkerNext

\* What the executors, the miner and the processes keep, whatever they do.
THEOREM ExecuteInvariant == WorkerSpec => []IInv
BY InitHolds, NextHolds, PTL DEF WorkerSpec

\* The parts of the state are of their types.
THEOREM ExecuteTypes == WorkerSpec => []TypeOK
<1>1. IInv => TypeOK
  BY DEF IInv, TypeOK, ChainOk, Solvent, MinerOk, RoutineOk
<1>2. QED
  BY <1>1, ExecuteInvariant, PTL

\* What a routine with a storage of its own has made of its parent's state.
LEMMA HasRunOk ==
    ASSUME IInv, NEW n \in Name, HasRun(n)
    PROVE  \E k : RanOk(routine[n].s, routine[n], k)
BY DEF IInv, RoutineOk, HasRun

\* MoneyConserved: no transaction, wage or rollback makes or loses money, whatever
\* the amounts; and no balance goes below zero if no amount is.
THEOREM ExecuteMoney == WorkerSpec => []MoneyConserved
<1>1. ASSUME IInv PROVE MoneyConserved
  <2>1. Total(chain.state.bal) = Total(Balance) + chain.height * Wage
    BY <1>1 DEF IInv, ChainOk
  <2>2. ASSUME NEW n \in Name, HasRun(n)
        PROVE  /\ Total(Live(routine[n].s).bal) = Total(routine[n].parent.state.bal) + Wage
               /\ NaturalAmounts => \A a \in Holder : Live(routine[n].s).bal[a] >= 0
    <3>1. PICK k : RanOk(routine[n].s, routine[n], k)
      BY <1>1, <2>2, HasRunOk
    <3>2. Good(Live(routine[n].s), Total(routine[n].parent.state.bal) + Wage)
      BY <3>1, LiveObject DEF RanOk, Ran
    <3>3. QED
      BY <3>2 DEF Good
  <2>3. QED
    BY <2>1, <2>2 DEF MoneyConserved
<1>2. QED
  BY <1>1, ExecuteInvariant, PTL

\* NoncesAreUsed: every transaction of the chain has used one nonce of its sender.
THEOREM ExecuteNonces == WorkerSpec => []NoncesAreUsed
<1>1. IInv => NoncesAreUsed
  BY DEF IInv, ChainOk, NoncesAreUsed
<1>2. QED
  BY <1>1, ExecuteInvariant, PTL

\* RedoMatches: the redo log of a block gives the state its execution gave.
THEOREM ExecuteRedo == WorkerSpec => []RedoMatches
<1>1. ASSUME IInv PROVE RedoMatches
  <2>1. ASSUME NEW n \in Name, HasRun(n)
        PROVE  Redo(routine[n].parent.state, routine[n].s.log) = Live(routine[n].s)
    <3>1. PICK s : s = routine[n].s
      OBVIOUS
    <3>2. PICK state : state = routine[n].parent.state
      OBVIOUS
    <3>3. Faithful(s, state)
      BY <1>1, <2>1, <3>1, <3>2, HasRunOk DEF RanOk, Ran, Sound
    <3>4. Replay(state, s.log).heap = s.heap
      BY <3>3 DEF Faithful
    <3>5. Redo(state, s.log) = Live(s)
      BY <3>4 DEF Redo, Replay, Live
    <3>6. QED
      BY <3>1, <3>2, <3>5
  <2>2. QED
    BY <2>1 DEF RedoMatches
<1>2. QED
  BY <1>1, ExecuteInvariant, PTL

\* MinerIsWorking: the miner is never busy for a routine that has ended.
THEOREM ExecuteMiner == WorkerSpec => []MinerIsWorking
<1>1. IInv => MinerIsWorking
  BY DEF IInv
<1>2. QED
  BY <1>1, ExecuteInvariant, PTL

----------------------------------------------------------------------------
(* The election of producers *)

\* What the fold of a block's transactions computes.
E == INSTANCE FoldProofs WITH Op <- Transact

Fields == {"candidate", "stake", "producers", "vote", "time", "next", "propose"}

\* The votes of an election are the stakes of the voters.
Counts(d) ==
    /\ DOMAIN d = Fields
    /\ d.stake \in [Voter -> Nat] /\ d.producers \in [Voter -> SUBSET Producer]
    /\ d.vote \in [Producer -> Int]
    /\ \A p \in Producer : d.vote[p] = VotesOf(d, p)

----------------------------------------------------------------------------
(* The votes *)

\* A share that changes changes the votes by as much.
LEMMA ShareChange ==
    ASSUME NEW share \in [Voter -> Int], NEW v \in Voter, NEW k \in Int
    PROVE  TotalShare([share EXCEPT ![v] = k]) = TotalShare(share) + (k - share[v])
<1>1. \A f : TotalShare(f) = E!Sum(f, Voter)
  BY Zenon DEF TotalShare, E!Sum, MapThenSumSet, MapThenFoldSet, E!MapThenSumSet, E!MapThenFoldSet
<1>2. E!Sum([share EXCEPT ![v] = k], Voter) = E!Sum(share, Voter) + (k - share[v])
  <2>1. E!IsFiniteSet(Voter)
    BY DposAssumption DEF IsFiniteSet, E!IsFiniteSet
  <2>2. QED
    BY <2>1, E!SumChange
<1>3. QED
  BY <1>1, <1>2

\* The voter v has another stake n or another choice S, and the votes have followed.
Moved(d, e, v, n, S) ==
    /\ DOMAIN e = Fields
    /\ e.stake = [d.stake EXCEPT ![v] = n]
    /\ e.producers = [d.producers EXCEPT ![v] = S]
    /\ e.vote \in [Producer -> Int]
    /\ \A p \in Producer :
         e.vote[p] = (d.vote[p] - Share(d, p)[v]) + (IF p \in S THEN n ELSE 0)

LEMMA VotesMove ==
    ASSUME NEW d, Counts(d), NEW v \in Voter, NEW n \in Nat, NEW S \in SUBSET Producer,
           NEW e, Moved(d, e, v, n, S)
    PROVE  Counts(e)
<1> USE DEF Moved
<1>1. d.stake \in [Voter -> Nat] /\ d.producers \in [Voter -> SUBSET Producer]
  BY DEF Counts
<1>2. ASSUME NEW p \in Producer PROVE e.vote[p] = VotesOf(e, p)
  <2>1. PICK k \in Int : k = IF p \in S THEN n ELSE 0
    OBVIOUS
  <2>2. PICK share \in [Voter -> Int] : share = Share(d, p)
    <3>1. Share(d, p) \in [Voter -> Int]
      BY <1>1 DEF Share
    <3>2. QED
      BY <3>1
  <2>3. Share(e, p) = [share EXCEPT ![v] = k]
    BY <1>1, <2>1, <2>2 DEF Share
  <2>4. TotalShare([share EXCEPT ![v] = k]) = TotalShare(share) + (k - share[v])
    BY ShareChange
  <2>5. d.vote[p] = TotalShare(share) /\ d.vote[p] \in Int
    BY <2>2 DEF Counts, VotesOf
  <2>6. e.vote[p] = (d.vote[p] - share[v]) + k /\ share[v] \in Int
    BY <2>1, <2>2
  <2>7. QED
    BY <2>1, <2>3, <2>4, <2>5, <2>6 DEF VotesOf
<1>3. e.stake \in [Voter -> Nat] /\ e.producers \in [Voter -> SUBSET Producer]
  BY <1>1
<1>4. QED
  BY <1>2, <1>3 DEF Counts

\* What is counted does not depend on the other fields.
LEMMA CountsAlike ==
    ASSUME NEW d, Counts(d), NEW e, DOMAIN e = Fields,
           e.stake = d.stake, e.producers = d.producers, e.vote = d.vote
    PROVE  Counts(e)
<1>1. \A p \in Producer : VotesOf(e, p) = VotesOf(d, p)
  <2>1. \A p : Share(e, p) = Share(d, p)
    BY DEF Share
  <2>2. QED
    BY <2>1, Zenon DEF VotesOf
<1>2. QED
  BY <1>1 DEF Counts

LEMMA MortgageCounts ==
    ASSUME NEW d, Counts(d), NEW v \in Voter, NEW n \in Nat
    PROVE  Counts(Mortgage(d, v, n))
<1> DEFINE e == Mortgage(d, v, n)
<1>1. /\ d.stake \in [Voter -> Nat] /\ d.producers \in [Voter -> SUBSET Producer]
      /\ d.vote \in [Producer -> Int] /\ DOMAIN d = Fields
  BY DEF Counts
<1>2. /\ DOMAIN e = Fields
      /\ e.stake = [d.stake EXCEPT ![v] = d.stake[v] + n]
      /\ e.producers = d.producers
      /\ e.vote = [p \in Producer |-> IF p \in d.producers[v] THEN d.vote[p] + n ELSE d.vote[p]]
  BY <1>1 DEF Mortgage, UpdateVote, Fields
<1> HIDE DEF e
<1>3. e.producers = [d.producers EXCEPT ![v] = d.producers[v]]
  BY <1>1, <1>2
<1>5. PICK m \in Nat, S \in SUBSET Producer : m = d.stake[v] + n /\ S = d.producers[v]
  BY <1>1
<1>4. /\ e.vote \in [Producer -> Int]
      /\ \A p \in Producer :
           e.vote[p] = (d.vote[p] - Share(d, p)[v]) + (IF p \in S THEN m ELSE 0)
  BY <1>1, <1>2, <1>5 DEF Share
<1>6. Counts(e)
  <2>1. Moved(d, e, v, m, S)
    BY <1>2, <1>3, <1>4, <1>5 DEF Moved
  <2>2. QED
    BY <1>5, <2>1, VotesMove
<1>7. QED
  BY <1>6 DEF e

LEMMA UnmortgageCounts ==
    ASSUME NEW d, Counts(d), NEW v \in Voter, NEW n \in Nat \ {0}
    PROVE  Counts(Unmortgage(d, v, n))
<1> DEFINE e == Unmortgage(d, v, n)
           S == IF d.stake[v] = n THEN {} ELSE d.producers[v]
<1>1. /\ d.stake \in [Voter -> Nat] /\ d.producers \in [Voter -> SUBSET Producer]
      /\ d.vote \in [Producer -> Int] /\ DOMAIN d = Fields
  BY DEF Counts
<1>2. CASE d.stake[v] = 0 \/ d.stake[v] < n
  BY <1>2 DEF Unmortgage
<1>3. CASE ~(d.stake[v] = 0 \/ d.stake[v] < n)
  <2>1. /\ DOMAIN e = Fields
        /\ e.stake = [d.stake EXCEPT ![v] = d.stake[v] - n]
        /\ e.producers = [d.producers EXCEPT ![v] = S]
        /\ e.vote = [p \in Producer |-> IF p \in d.producers[v] THEN d.vote[p] + -n ELSE d.vote[p]]
    BY <1>1, <1>3 DEF Unmortgage, UpdateVote, Fields
  <2>2. PICK m \in Nat : m = d.stake[v] - n
    BY <1>1, <1>3
  <2>3. S \in SUBSET Producer
    BY <1>1
  <2> HIDE DEF e
  <2>4. /\ e.vote \in [Producer -> Int]
        /\ \A p \in Producer :
             e.vote[p] = (d.vote[p] - Share(d, p)[v]) + (IF p \in S THEN m ELSE 0)
    BY <1>1, <2>1, <2>2 DEF Share
  <2> HIDE DEF S
  <2>5. Counts(e)
    <3>1. Moved(d, e, v, m, S)
      BY <2>1, <2>2, <2>4 DEF Moved
    <3>2. QED
      BY <2>2, <2>3, <3>1, VotesMove
  <2>6. QED
    BY <2>5 DEF e
<1>4. QED
  BY <1>2, <1>3

LEMMA VoteCounts ==
    ASSUME NEW d, Counts(d), NEW v \in Voter, NEW S \in SUBSET Producer
    PROVE  Counts(Vote(d, v, S))
<1> DEFINE e == Vote(d, v, S)
<1>1. /\ d.stake \in [Voter -> Nat] /\ d.producers \in [Voter -> SUBSET Producer]
      /\ d.vote \in [Producer -> Int] /\ DOMAIN d = Fields
  BY DEF Counts
<1>2. CASE ~(S \subseteq ValidCandidates(d)) \/ d.stake[v] = 0 \/ d.producers[v] = S
  BY <1>2 DEF Vote
<1>3. CASE ~(~(S \subseteq ValidCandidates(d)) \/ d.stake[v] = 0 \/ d.producers[v] = S)
  <2> DEFINE less == UpdateVote(d, v, -d.stake[v])
             other == [less EXCEPT !.producers[v] = S]
  <2>1. /\ DOMAIN less = Fields /\ less.stake = d.stake /\ less.producers = d.producers
        /\ less.vote = [p \in Producer |-> IF p \in d.producers[v] THEN d.vote[p] + -d.stake[v] ELSE d.vote[p]]
    BY <1>1 DEF UpdateVote, Fields
  <2>2. e = UpdateVote(other, v, d.stake[v])
    BY <1>3, Zenon DEF Vote
  <2> HIDE DEF less, e
  <2>3. /\ DOMAIN other = Fields /\ other.stake = d.stake
        /\ other.producers = [d.producers EXCEPT ![v] = S] /\ other.vote = less.vote
    BY <2>1 DEF Fields
  <2> HIDE DEF other
  <2>4. /\ DOMAIN e = Fields /\ e.stake = d.stake /\ e.producers = [d.producers EXCEPT ![v] = S]
        /\ e.vote = [p \in Producer |-> IF p \in S THEN less.vote[p] + d.stake[v] ELSE less.vote[p]]
    BY <1>1, <2>2, <2>3 DEF UpdateVote, Fields
  <2>5. \A p \in Producer : less.vote[p] = d.vote[p] - Share(d, p)[v] /\ less.vote[p] \in Int
    BY <1>1, <2>1 DEF Share
  <2>6. PICK m \in Nat : m = d.stake[v] /\ e.stake = [d.stake EXCEPT ![v] = m]
    BY <1>1, <2>4
  <2>7. /\ e.vote \in [Producer -> Int]
        /\ \A p \in Producer :
             e.vote[p] = (d.vote[p] - Share(d, p)[v]) + (IF p \in S THEN m ELSE 0)
    <3>1. \A p \in Producer : Share(d, p)[v] \in Int /\ d.vote[p] \in Int
      BY <1>1 DEF Share
    <3>2. QED
      BY <2>4, <2>5, <2>6, <3>1
  <2>8. Counts(e)
    <3>1. Moved(d, e, v, m, S)
      BY <2>4, <2>6, <2>7 DEF Moved
    <3>2. QED
      BY <2>6, <3>1, VotesMove
  <2>9. QED
    BY <2>8 DEF e
<1>4. QED
  BY <1>2, <1>3

LEMMA RegisterCounts ==
    ASSUME NEW d, Counts(d), NEW p
    PROVE  Counts(Register(d, p))
<1>1. CASE d.candidate[p] # Absent
  BY <1>1 DEF Register
<1>2. CASE d.candidate[p] = Absent
  <2> DEFINE e == Register(d, p)
  <2>1. /\ DOMAIN e = Fields /\ e.stake = d.stake /\ e.producers = d.producers /\ e.vote = d.vote
    BY <1>2 DEF Register, Counts, Fields
  <2> HIDE DEF e
  <2>2. QED
    BY <2>1, CountsAlike DEF e
<1>3. QED
  BY <1>1, <1>2

\* A transaction leaves votes that add up.
LEMMA TransactCounts ==
    ASSUME NEW d, Counts(d), NEW tx \in Transaction
    PROVE  Counts(Transact(d, tx))
<1>1. CASE tx \in [op : {"mortgage", "unmortgage"}, from : Voter, amount : Nat \ {0}]
  <2>1. tx.from \in Voter /\ tx.amount \in Nat \ {0} /\ tx.amount \in Nat
    BY <1>1
  <2>2. CASE tx.op = "mortgage"
    <3>1. Transact(d, tx) = Mortgage(d, tx.from, tx.amount)
      BY <2>2 DEF Transact
    <3>2. QED
      BY <2>1, <3>1, MortgageCounts
  <2>3. CASE tx.op = "unmortgage"
    <3>1. Transact(d, tx) = Unmortgage(d, tx.from, tx.amount)
      BY <2>3 DEF Transact
    <3>2. QED
      BY <2>1, <3>1, UnmortgageCounts
  <2>4. QED
    BY <1>1, <2>2, <2>3
<1>2. CASE tx \in [op : {"vote"}, from : Voter, choice : SUBSET Producer]
  <2>1. tx.from \in Voter /\ tx.choice \in SUBSET Producer /\ tx.op = "vote"
    BY <1>2
  <2>2. Transact(d, tx) = Vote(d, tx.from, tx.choice)
    BY <2>1 DEF Transact
  <2>3. QED
    BY <2>1, <2>2, VoteCounts
<1>3. CASE tx \in [op : {"register"}, from : Producer]
  <2>1. Transact(d, tx) = Register(d, tx.from)
    BY <1>3 DEF Transact
  <2>2. QED
    BY <2>1, RegisterCounts
<1>4. QED
  BY <1>1, <1>2, <1>3 DEF Transaction

\* The transactions of a block, one after the other.
LEMMA AllCount ==
    ASSUME NEW d, Counts(d), NEW txs \in Seq(Transaction)
    PROVE  Counts(FoldLeft(Transact, d, txs))
<1> DEFINE F(k) == E!Fold(d, SubSeq(txs, 1, k))
           Bad == {k \in 0..Len(txs) : ~Counts(F(k))}
<1>1. FoldLeft(Transact, d, txs) = E!Fold(d, txs)
  BY Zenon DEF E!Fold, FoldLeft, MapThenFoldSet, E!FoldLeft, E!MapThenFoldSet, Max, E!Max
<1>2. SubSeq(txs, 1, Len(txs)) = txs /\ Len(txs) \in Nat
  OBVIOUS
<1>3. F(0) = d
  <2>1. SubSeq(txs, 1, 0) = <<>>
    OBVIOUS
  <2>2. QED
    BY <2>1, E!FoldEmpty
<1>4. ASSUME NEW k \in 0..Len(txs), k # Len(txs), Counts(F(k))
      PROVE  Counts(F(k + 1))
  <2>1. PICK tx \in Transaction : tx = txs[k + 1]
    BY <1>4
  <2>2. PICK done : done = SubSeq(txs, 1, k)
    OBVIOUS
  <2>3. done \in Seq(Transaction) /\ SubSeq(txs, 1, k + 1) = Append(done, tx)
    BY <1>4, <2>1, <2>2
  <2>4. E!Fold(d, Append(done, tx)) = Transact(E!Fold(d, done), tx)
    BY <2>3, E!FoldAppend
  <2>5. F(k + 1) = Transact(F(k), tx)
    BY <2>2, <2>3, <2>4
  <2> HIDE DEF F
  <2>6. QED
    BY <1>4, <2>1, <2>5, TransactCounts
<1> HIDE DEF F
<1>5. ASSUME Bad # {} PROVE FALSE
  <2>1. PICK k \in Bad : \A m \in Bad : k <= m
    <3>1. Bad \subseteq Nat /\ Bad # {}
      BY <1>5
    <3> HIDE DEF Bad
    <3>2. QED
      BY <3>1, E!LeastNat
  <2>2. k # 0
    BY <1>3
  <2>3. k - 1 \in 0..Len(txs) /\ k - 1 # Len(txs) /\ k - 1 \notin Bad /\ k = (k - 1) + 1
    BY <1>2, <2>1, <2>2
  <2>4. Counts(F(k - 1))
    BY <2>3
  <2>5. Counts(F(k))
    BY <1>4, <2>3, <2>4
  <2>6. QED
    BY <2>1, <2>5
<1>6. Counts(F(Len(txs)))
  BY <1>2, <1>5
<1>7. QED
  BY <1>1, <1>2, <1>6 DEF F

\* What follows the transactions of a block is no affair of the votes.
VotesStay(d, e) ==
    DOMAIN e = Fields /\ e.stake = d.stake /\ e.producers = d.producers /\ e.vote = d.vote

LEMMA PostBlockStays ==
    ASSUME NEW d, DOMAIN d = Fields, NEW number, NEW who, NEW now, NEW lib
    PROVE  VotesStay(d, PostBlock(d, number, who, now, lib))
<1>1. \A c : DOMAIN c = Fields => VotesStay(c, UpdateProducerTime(c, who, now))
  BY DEF VotesStay, UpdateProducerTime, Fields
<1>2. \A c : DOMAIN c = Fields => VotesStay(c, UnbanAt(c, number, now))
  BY DEF VotesStay, UnbanAt, Unban, Fields
<1>3. \A c : DOMAIN c = Fields => VotesStay(c, CheckIfNeedBan(c, now))
  <2>1. \A c, f : DOMAIN c = Fields => VotesStay(c, [c EXCEPT !.candidate = f])
    BY DEF VotesStay, Fields
  <2>2. QED
    BY <2>1, Zenon DEF CheckIfNeedBan
<1>4. \A c : DOMAIN c = Fields => VotesStay(c, MaintainProducer(c, now))
  BY DEF VotesStay, MaintainProducer, Fields
<1>5. \A c : DOMAIN c = Fields => VotesStay(c, ReSelect(c, lib, now))
  <2>1. \A c, f : DOMAIN c = Fields => VotesStay(c, [c EXCEPT !.candidate = f])
    BY DEF VotesStay, Fields
  <2>2. \A c : DOMAIN c = Fields => VotesStay(c, BanDelayed(c, now))
    BY <2>1, Zenon DEF BanDelayed
  <2>3. \A c, f, g : DOMAIN c = Fields => VotesStay(c, [c EXCEPT !.propose = f, !.next = g])
    BY DEF VotesStay, Fields
  <2>4. \A c : DOMAIN c = Fields => VotesStay(c, c)
    BY DEF VotesStay
  <2>5. \A c : DOMAIN c = Fields => VotesStay(c, FinishElection(c, lib, now))
    BY <2>3, <2>4, Zenon DEF FinishElection
  <2>6. QED
    BY <2>2, <2>5 DEF ReSelect, VotesStay
<1>6. \A c : DOMAIN c = Fields => VotesStay(c, AtRoundEnd(c, number, now, lib))
  <2>1. \A c : DOMAIN c = Fields => VotesStay(c, MaintainProducer(ReSelect(c, lib, now), now))
    BY <1>4, <1>5 DEF VotesStay
  <2>2. \A c : DOMAIN c = Fields => VotesStay(c, c)
    BY DEF VotesStay
  <2>3. QED
    BY <1>4, <2>1, <2>2, Zenon DEF AtRoundEnd
<1>7. QED
  BY <1>1, <1>2, <1>3, <1>6 DEF PostBlock, VotesStay

LEMMA BlockCounts ==
    ASSUME NEW d, Counts(d), NEW txs \in Seq(Transaction), NEW number, NEW who, NEW now, NEW lib
    PROVE  Counts(AfterBlock(d, txs, number, who, now, lib))
<1>1. PICK c : c = FoldLeft(Transact, d, txs)
  OBVIOUS
<1>2. Counts(c)
  BY <1>1, AllCount
<1>3. VotesStay(c, PostBlock(c, number, who, now, lib))
  BY <1>2, PostBlockStays DEF Counts
<1>4. Counts(PostBlock(c, number, who, now, lib))
  BY <1>2, <1>3, CountsAlike DEF VotesStay
<1>5. QED
  BY <1>1, <1>4 DEF AfterBlock

----------------------------------------------------------------------------
(* The blocks *)

\* Blocks whose elections count.
Counted(bs) ==
    /\ bs \in Seq(Range(bs))
    /\ \A i \in DOMAIN bs : {"post", "at"} \subseteq DOMAIN bs[i] /\ Counts(bs[i].post)

LEMMA GenesisCounts ==
    Counts(Genesis(FirstCandidates, FirstMiners))
<1> DEFINE d == Genesis(FirstCandidates, FirstMiners)
<1>1. /\ DOMAIN d = Fields /\ d.stake = [v \in Voter |-> 0]
      /\ d.producers = [v \in Voter |-> {}] /\ d.vote = [p \in Producer |-> 0]
  BY DEF Genesis, Fields
<1> HIDE DEF d
<1>2. \A p \in Producer : VotesOf(d, p) = 0
  <2>1. \A f : E!Sum(f, Voter) = TotalShare(f)
    BY Zenon DEF TotalShare, E!Sum, MapThenSumSet, MapThenFoldSet, E!MapThenSumSet, E!MapThenFoldSet
  <2>2. \A p : VotesOf(d, p) = E!Sum(Share(d, p), Voter)
    BY <2>1, Zenon DEF VotesOf
  <2>3. \A p : Share(d, p) \in [Voter -> Int] /\ \A v \in Voter : Share(d, p)[v] = 0
    BY <1>1 DEF Share
  <2>4. E!IsFiniteSet(Voter)
    BY DposAssumption DEF IsFiniteSet, E!IsFiniteSet
  <2>5. QED
    BY <2>2, <2>3, <2>4, E!SumOfZeros
<1>3. QED
  BY <1>1, <1>2 DEF Counts, d

LEMMA IsSeq == ASSUME NEW n \in Nat, NEW S, NEW f \in [1..n -> S] PROVE f \in Seq(S)
OBVIOUS

LEMMA MarkCounts ==
    ASSUME NEW bs, Counted(bs), NEW i \in DOMAIN bs, NEW x
    PROVE  Counted([bs EXCEPT ![i].at = x]) /\ DOMAIN [bs EXCEPT ![i].at = x] = DOMAIN bs
<1> DEFINE cs == [bs EXCEPT ![i].at = x]
<1>1. bs \in Seq(Range(bs)) /\ DOMAIN bs = 1..Len(bs) /\ Len(bs) \in Nat
  BY DEF Counted
<1>2. DOMAIN cs = 1..Len(bs)
  BY <1>1
<1>3. cs \in Seq(Range(cs))
  <2>1. cs \in [1..Len(bs) -> Range(cs)]
    BY <1>2 DEF Range
  <2>2. QED
    BY <1>1, <2>1, IsSeq
<1>4. ASSUME NEW j \in DOMAIN cs PROVE {"post", "at"} \subseteq DOMAIN cs[j] /\ Counts(cs[j].post)
  <2>1. {"post", "at"} \subseteq DOMAIN bs[j] /\ Counts(bs[j].post)
    BY <1>1, <1>2 DEF Counted
  <2>2. DOMAIN cs[j] = DOMAIN bs[j] /\ cs[j].post = bs[j].post
    BY <1>1, <1>2, <2>1
  <2>3. QED
    BY <2>1, <2>2
<1>5. QED
  BY <1>1, <1>2, <1>3, <1>4 DEF Counted

LEMMA AppendCounts ==
    ASSUME NEW bs, Counted(bs), NEW b, {"post", "at"} \subseteq DOMAIN b, Counts(b.post)
    PROVE  /\ Counted(Append(bs, b))
           /\ DOMAIN Append(bs, b) = DOMAIN bs \cup {Len(bs) + 1}
<1> DEFINE cs == Append(bs, b)
<1>1. bs \in Seq(Range(bs)) /\ DOMAIN bs = 1..Len(bs) /\ Len(bs) \in Nat
  BY DEF Counted
<1>2. cs \in Seq(Range(bs) \cup {b}) /\ Len(cs) = Len(bs) + 1
  BY <1>1
<1>3. \A j \in 1..Len(bs) : cs[j] = bs[j]
  BY <1>1
<1>4. cs[Len(bs) + 1] = b /\ DOMAIN cs = 1..(Len(bs) + 1)
  BY <1>1
<1>5. cs \in Seq(Range(cs))
  <2>1. cs \in [1..(Len(bs) + 1) -> Range(cs)]
    <3>1. cs \in [1..(Len(bs) + 1) -> Range(bs) \cup {b}]
      BY <1>2, <1>4, LenProperties
    <3>2. QED
      BY <1>4, <3>1 DEF Range
  <2>2. Len(bs) + 1 \in Nat
    BY <1>1
  <2>3. QED
    BY <2>1, <2>2, IsSeq
<1>6. \A j \in DOMAIN cs : {"post", "at"} \subseteq DOMAIN cs[j] /\ Counts(cs[j].post)
  BY <1>1, <1>3, <1>4 DEF Counted
<1>7. QED
  BY <1>1, <1>4, <1>5, <1>6 DEF Counted

\* A new block on a block there is.
LEMMA NewBlockCounts ==
    ASSUME Counted(blocks), NEW parent \in DOMAIN blocks, NEW slot, NEW txs \in Seq(Transaction), NEW lib
    PROVE  LET b == NewBlock(parent, slot, txs, lib) IN
           {"post", "at"} \subseteq DOMAIN b /\ Counts(b.post)
<1> DEFINE b == NewBlock(parent, slot, txs, lib)
<1>1. /\ DOMAIN b = {"parent", "number", "slot", "miner", "txs", "at", "post"}
      /\ b.post = AfterBlock(blocks[parent].post, txs, blocks[parent].number + 1,
                             DueMiner(blocks, parent, slot), slot, blocks[lib].post)
  BY DEF NewBlock
<1>2. Counts(blocks[parent].post)
  BY DEF Counted
<1>3. Counts(b.post)
  BY <1>1, <1>2, BlockCounts
<1>4. QED
  BY <1>1, <1>3

LEMMA AddVerifiedCounts ==
    ASSUME NEW bs, Counted(bs), NEW i \in DOMAIN bs, tip \in DOMAIN bs, AddVerified(bs, i)
    PROVE  Counted(blocks') /\ tip' \in DOMAIN blocks'
<1>1. \E x : blocks' = [bs EXCEPT ![i].at = x]
  BY Zenon DEF AddVerified
<1>2. tip' = tip \/ tip' = i
  BY Zenon DEF AddVerified
<1>3. QED
  <2>1. PICK x : blocks' = [bs EXCEPT ![i].at = x]
    BY <1>1
  <2>2. Counted([bs EXCEPT ![i].at = x]) /\ DOMAIN [bs EXCEPT ![i].at = x] = DOMAIN bs
    BY MarkCounts
  <2>3. QED
    BY <1>2, <2>1, <2>2

\* A block is appended and looked at, or appended only.
LEMMA AppendedCounts ==
    ASSUME Counted(blocks), tip \in DOMAIN blocks, NEW b, {"post", "at"} \subseteq DOMAIN b, Counts(b.post),
           AddVerified(Append(blocks, b), Len(blocks) + 1)
    PROVE  Counted(blocks') /\ tip' \in DOMAIN blocks'
<1>1. PICK bs : bs = Append(blocks, b)
  OBVIOUS
<1>2. Counted(bs) /\ DOMAIN bs = DOMAIN blocks \cup {Len(blocks) + 1}
  BY <1>1, AppendCounts
<1>3. QED
  BY <1>1, <1>2, AddVerifiedCounts

LEMMA DposInitCounts == DposInit => Counted(blocks) /\ tip \in DOMAIN blocks
<1> SUFFICES ASSUME DposInit PROVE Counted(blocks) /\ tip \in DOMAIN blocks
  OBVIOUS
<1>1. PICK b : /\ blocks = <<b>> /\ {"post", "at"} \subseteq DOMAIN b
               /\ b.post = Genesis(FirstCandidates, FirstMiners)
  BY DEF DposInit
<1>2. DOMAIN blocks = {1} /\ blocks[1] = b /\ blocks \in Seq(Range(blocks))
  BY <1>1 DEF Range
<1>3. QED
  BY <1>1, <1>2, GenesisCounts DEF Counted, DposInit

LEMMA MineCounts ==
    ASSUME Counted(blocks), tip \in DOMAIN blocks, NEW slot, NEW txs \in Contents, Mine(slot, txs)
    PROVE  Counted(blocks') /\ tip' \in DOMAIN blocks'
<1>1. PICK b : b = NewBlock(tip, slot, txs, BestState(sm).irrHash)
  OBVIOUS
<1>2. {"post", "at"} \subseteq DOMAIN b /\ Counts(b.post)
  BY <1>1, NewBlockCounts, DposAssumption
<1>3. AddVerified(Append(blocks, b), Len(blocks) + 1)
  BY <1>1, Zenon DEF Mine
<1>4. QED
  BY <1>2, <1>3, AppendedCounts

LEMMA ReceiveCounts ==
    ASSUME Counted(blocks), tip \in DOMAIN blocks, NEW parent \in DOMAIN blocks, NEW slot,
           NEW txs \in Contents, Receive(parent, slot, txs)
    PROVE  Counted(blocks') /\ tip' \in DOMAIN blocks'
<1>1. PICK b : /\ b = NewBlock(parent, slot, txs, Linear(blocks, parent).irrHash)
               /\ \/ AddVerified(Append(blocks, b), Len(blocks) + 1)
                  \/ blocks' = Append(blocks, [b EXCEPT !.at = "invalid"]) /\ tip' = tip
  BY Zenon DEF Receive
<1>2. {"post", "at"} \subseteq DOMAIN b /\ Counts(b.post)
  BY <1>1, NewBlockCounts, DposAssumption
<1>3. CASE AddVerified(Append(blocks, b), Len(blocks) + 1)
  BY <1>2, <1>3, AppendedCounts
<1>4. CASE blocks' = Append(blocks, [b EXCEPT !.at = "invalid"]) /\ tip' = tip
  <2>1. PICK c : c = [b EXCEPT !.at = "invalid"]
    OBVIOUS
  <2>2. DOMAIN c = DOMAIN b /\ c.post = b.post
    BY <1>2, <2>1
  <2>3. QED
    BY <1>2, <1>4, <2>1, <2>2, AppendCounts
<1>5. QED
  BY <1>1, <1>3, <1>4

\* Every step leaves the votes of every block counted.
LEMMA DposStepCounts ==
    Counted(blocks) /\ tip \in DOMAIN blocks /\ [DposNext]_dposVars
        => (Counted(blocks) /\ tip \in DOMAIN blocks)'
<1> SUFFICES ASSUME Counted(blocks), tip \in DOMAIN blocks, [DposNext]_dposVars
             PROVE  Counted(blocks') /\ tip' \in DOMAIN blocks'
  OBVIOUS
<1>1. ASSUME NEW slot \in (FirstSlot + 1)..MaxSlot, NEW txs \in Contents, Mine(slot, txs)
      PROVE  Counted(blocks') /\ tip' \in DOMAIN blocks'
  BY <1>1, MineCounts
<1>2. ASSUME NEW slot \in (FirstSlot + 1)..MaxSlot, NEW txs \in Contents,
             NEW parent \in DOMAIN blocks, Receive(parent, slot, txs)
      PROVE  Counted(blocks') /\ tip' \in DOMAIN blocks'
  BY <1>2, ReceiveCounts
<1>3. ASSUME NEW i \in DOMAIN blocks, ReceiveAgain(i)
      PROVE  Counted(blocks') /\ tip' \in DOMAIN blocks'
  BY <1>3, AddVerifiedCounts DEF ReceiveAgain
<1>4. CASE Restart \/ UNCHANGED dposVars
  BY <1>4, Zenon DEF Restart, dposVars
<1>5. QED
  BY <1>1, <1>2, <1>3, <1>4 DEF DposNext

\* VotesAddUp
THEOREM DposVotesAddUp == DposSpec => []VotesAddUp
<1>1. Counted(blocks) => VotesAddUp
  BY DEF Counted, Counts, VotesAddUp
<1>2. QED
  BY <1>1, DposInitCounts, DposStepCounts, PTL DEF DposSpec
=============================================================================
