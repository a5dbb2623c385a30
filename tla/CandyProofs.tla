---------------------------- MODULE CandyProofs ----------------------------
(***************************************************************************)
(* Proofs about the request queue, for any sets of read and write tasks,   *)
(* and about the candy service that runs on it, for any number of          *)
(* requests, addresses, polls, faults and crashes: a handler's place alone *)
(* decides what it does, so nothing is needed about the queue.             *)
(***************************************************************************)
EXTENDS Candy, TLAPS, FiniteSetTheorems

\* Deleting an item of a duplicate-free list removes exactly that item.
LEMMA DeleteItems ==
    ASSUME NEW S, NEW s \in Seq(S), NEW t \in Items(s),
           \A i, j \in 1..Len(s) : s[i] = s[j] => i = j
    PROVE  /\ Delete(s, t) \in Seq(S)
           /\ Items(Delete(s, t)) = Items(s) \ {t}
           /\ \A i, j \in 1..Len(Delete(s, t)) :
                Delete(s, t)[i] = Delete(s, t)[j] => i = j
<1> DEFINE at == CHOOSE i \in 1..Len(s) : s[i] = t
           d == [i \in 1..(Len(s) - 1) |-> IF i < at THEN s[i] ELSE s[i + 1]]
<1>1. at \in 1..Len(s) /\ s[at] = t
  BY DEF Items
<1>2. Delete(s, t) = d
  BY DEF Delete
<1>3. Len(s) \in Nat /\ Len(s) - 1 \in Nat
  BY <1>1
<1>4. \A i \in 1..(Len(s) - 1) : d[i] \in S
  BY <1>1, <1>3
<1>5. d \in Seq(S) /\ Len(d) = Len(s) - 1
  <2>1. d \in [1..(Len(s) - 1) -> S]
    BY <1>4
  <2>2. QED
    BY <2>1, <1>3
<1> HIDE DEF at
<1>6. Items(d) \subseteq Items(s) \ {t}
  <2> SUFFICES ASSUME NEW i \in 1..(Len(s) - 1)
               PROVE  d[i] \in Items(s) \ {t}
    BY <1>5, ZenonT(60) DEF Items
  <2>1. CASE i < at
    BY <2>1, <1>1, <1>3 DEF Items
  <2>2. CASE ~(i < at)
    BY <2>2, <1>1, <1>3 DEF Items
  <2>3. QED
    BY <2>1, <2>2
<1>7. Items(s) \ {t} \subseteq Items(d)
  <2> SUFFICES ASSUME NEW j \in 1..Len(s), s[j] # t
               PROVE  s[j] \in Items(d)
    BY ZenonT(60) DEF Items
  <2>1. CASE j < at
    <3>1. j \in 1..(Len(s) - 1) /\ d[j] = s[j]
      BY <2>1, <1>1, <1>3
    <3>2. QED
      BY <3>1, <1>5 DEF Items
  <2>2. CASE j > at
    <3>1. j - 1 \in 1..(Len(s) - 1) /\ d[j - 1] = s[j]
      BY <2>2, <1>1, <1>3
    <3>2. QED
      BY <3>1, <1>5 DEF Items
  <2>3. j # at
    BY <1>1
  <2>4. QED
    BY <2>1, <2>2, <2>3, <1>1
<1>8. \A i, j \in 1..Len(d) : d[i] = d[j] => i = j
  BY <1>1, <1>3, <1>5
<1>9. QED
  BY <1>2, <1>5, <1>6, <1>7, <1>8

\* Pushing a new task adds exactly that task, at the end.
LEMMA PushItems ==
    ASSUME NEW S, NEW s \in Seq(S), NEW t \in S, t \notin Items(s),
           \A i, j \in 1..Len(s) : s[i] = s[j] => i = j
    PROVE  /\ Append(s, t) \in Seq(S)
           /\ Items(Append(s, t)) = Items(s) \cup {t}
           /\ \A i, j \in 1..Len(Append(s, t)) :
                Append(s, t)[i] = Append(s, t)[j] => i = j
           /\ Len(Append(s, t)) = 1 <=> Items(s) = {}
<1>1. /\ Append(s, t) \in Seq(S) /\ Len(Append(s, t)) = Len(s) + 1
      /\ \A i \in 1..Len(s) : Append(s, t)[i] = s[i]
      /\ Append(s, t)[Len(s) + 1] = t /\ Len(s) \in Nat
  OBVIOUS
<1>2. Items(Append(s, t)) = Items(s) \cup {t}
  <2>1. Items(Append(s, t)) \subseteq Items(s) \cup {t}
    BY <1>1 DEF Items
  <2>2. Items(s) \subseteq Items(Append(s, t))
    BY <1>1 DEF Items
  <2>3. t \in Items(Append(s, t))
    BY <1>1 DEF Items
  <2>4. QED
    BY <2>1, <2>2, <2>3
<1>3. \A i, j \in 1..Len(Append(s, t)) :
        Append(s, t)[i] = Append(s, t)[j] => i = j
  BY <1>1 DEF Items
<1>4. Len(Append(s, t)) = 1 <=> Items(s) = {}
  <2>1. CASE Len(s) = 0
    <3>1. Items(s) = {}
      BY <2>1 DEF Items
    <3>2. QED
      BY <3>1, <2>1, <1>1
  <2>2. CASE Len(s) # 0
    <3>1. 1 \in 1..Len(s)
      BY <2>2, <1>1
    <3>2. s[1] \in Items(s)
      BY <3>1 DEF Items
    <3>3. QED
      BY <3>2, <2>2, <1>1
  <2>3. QED
    BY <2>1, <2>2
<1>5. QED
  BY <1>1, <1>2, <1>3, <1>4

----------------------------------------------------------------------------
\* The inductive invariant

\* A task is on no list but its own lane's.
OwnLane == \A l \in Lane : \A t \in Items(list[l]) : LaneOf(t) = l

\* A started task stays listed until it is finished; only a started one is.
StartedIsListed ==
    /\ finished \subseteq running
    /\ \A t \in running \ finished : t \in Items(list[LaneOf(t)])

IInv == TypeOK /\ ListedOnce /\ OwnLane /\ StartedIsListed /\ NoTaskStranded

\* Every task belongs to one of the lanes.
LEMMA LaneType == \A t \in Task : LaneOf(t) \in Lane
BY DEF LaneOf, Lane

\* The queue starts empty, with nothing running.
LEMMA InitIInv == Init => IInv
<1> SUFFICES ASSUME Init PROVE IInv
  OBVIOUS
<1>1. \A l \in Lane : list[l] = <<>>
  BY DEF Init
<1>2. \A l \in Lane : Items(list[l]) = {}
  BY <1>1 DEF Items
<1>3. TypeOK
  BY DEF Init, TypeOK
<1>4. ListedOnce
  BY <1>1, <1>2 DEF ListedOnce
<1>5. OwnLane /\ NoTaskStranded
  BY <1>2 DEF OwnLane, NoTaskStranded, Waiting
<1>6. StartedIsListed
  BY DEF Init, StartedIsListed
<1>7. QED
  BY <1>3, <1>4, <1>5, <1>6 DEF IInv

\* What a step does to the contents of the lanes, without the lists' order.
LEMMA MessageEffect ==
    ASSUME IInv, NEW t \in Task, Message(t)
    PROVE  LET l == LaneOf(t) IN
           /\ list' \in [Lane -> Seq(Task)]
           /\ t \notin Items(list[l]) \cup finished
           /\ Items(list'[l]) = Items(list[l]) \cup {t}
           /\ \A k \in Lane \ {l} : list'[k] = list[k]
           /\ \A i, j \in 1..Len(list'[l]) : list'[l][i] = list'[l][j] => i = j
           /\ running' = IF Items(list[l]) = {} THEN running \cup {t} ELSE running
           /\ finished' = finished
<1> DEFINE l == LaneOf(t)
           pushed == Append(list[l], t)
<1>1. l \in Lane /\ list[l] \in Seq(Task) /\ list \in [Lane -> Seq(Task)]
  BY LaneType DEF IInv, TypeOK
<1>2. \A i, j \in 1..Len(list[l]) : list[l][i] = list[l][j] => i = j
  BY <1>1 DEF IInv, ListedOnce
<1>3. /\ t \notin Items(list[l]) \cup finished
      /\ list' = [list EXCEPT ![l] = pushed]
      /\ running' = IF Len(pushed) = 1 THEN running \cup Started(pushed, running)
                    ELSE running
      /\ finished' = finished
  BY DEF Message
<1>4. /\ pushed \in Seq(Task)
      /\ Items(pushed) = Items(list[l]) \cup {t}
      /\ \A i, j \in 1..Len(pushed) : pushed[i] = pushed[j] => i = j
      /\ Len(pushed) = 1 <=> Items(list[l]) = {}
  BY <1>1, <1>2, <1>3, PushItems
<1>5. list'[l] = pushed /\ (\A k \in Lane \ {l} : list'[k] = list[k])
      /\ list' \in [Lane -> Seq(Task)]
  BY <1>1, <1>3, <1>4
<1>6. running' = IF Items(list[l]) = {} THEN running \cup {t} ELSE running
  <2>1. CASE Items(list[l]) = {}
    BY <2>1, <1>3, <1>4 DEF Started
  <2>2. CASE Items(list[l]) # {}
    BY <2>2, <1>3, <1>4
  <2>3. QED
    BY <2>1, <2>2
<1>7. QED
  BY <1>3, <1>4, <1>5, <1>6

\* What the end of a task does to the lanes and to what runs.
LEMMA ResolveEffect ==
    ASSUME IInv, NEW t \in Task, Resolve(t)
    PROVE  LET l == LaneOf(t) IN
           /\ list' \in [Lane -> Seq(Task)]
           /\ t \in running \ finished
           /\ t \in Items(list[l])
           /\ Items(list'[l]) = Items(list[l]) \ {t}
           /\ \A k \in Lane \ {l} : list'[k] = list[k]
           /\ \A i, j \in 1..Len(list'[l]) : list'[l][i] = list'[l][j] => i = j
           /\ running' = running \cup (Items(list[l]) \ {t})
           /\ finished' = finished \cup {t}
<1> DEFINE l == LaneOf(t)
           rest == Delete(list[l], t)
<1>1. l \in Lane /\ list[l] \in Seq(Task) /\ list \in [Lane -> Seq(Task)]
  BY LaneType DEF IInv, TypeOK
<1>2. \A i, j \in 1..Len(list[l]) : list[l][i] = list[l][j] => i = j
  BY <1>1 DEF IInv, ListedOnce
<1>3. /\ t \in running \ finished
      /\ list' = [list EXCEPT ![l] = rest]
      /\ running' = running \cup Started(rest, running)
      /\ finished' = finished \cup {t}
  BY DEF Resolve
<1>4. t \in Items(list[l])
  BY <1>3 DEF IInv, StartedIsListed
<1>5. /\ rest \in Seq(Task)
      /\ Items(rest) = Items(list[l]) \ {t}
      /\ \A i, j \in 1..Len(rest) : rest[i] = rest[j] => i = j
  BY <1>1, <1>2, <1>4, DeleteItems
<1>6. list'[l] = rest /\ (\A k \in Lane \ {l} : list'[k] = list[k])
      /\ list' \in [Lane -> Seq(Task)]
  BY <1>1, <1>3, <1>5
<1>7. running' = running \cup (Items(list[l]) \ {t})
  BY <1>3, <1>5 DEF Started
<1>8. QED
  BY <1>3, <1>4, <1>5, <1>6, <1>7

\* Every step of the queue.
LEMMA NextIInv == IInv /\ [Next]_vars => IInv'
<1> SUFFICES ASSUME IInv, [Next]_vars PROVE IInv'
  OBVIOUS
<1> USE DEF IInv
<1>1. ASSUME NEW t \in Task, Message(t) PROVE IInv'
  <2> DEFINE l == LaneOf(t)
  <2>1. l \in Lane
    BY LaneType
  <2>2. /\ list' \in [Lane -> Seq(Task)]
        /\ t \notin Items(list[l]) \cup finished
        /\ Items(list'[l]) = Items(list[l]) \cup {t}
        /\ \A k \in Lane \ {l} : list'[k] = list[k]
        /\ \A i, j \in 1..Len(list'[l]) : list'[l][i] = list'[l][j] => i = j
        /\ running' = IF Items(list[l]) = {} THEN running \cup {t} ELSE running
        /\ finished' = finished
    BY <1>1, MessageEffect
  <2>3. TypeOK'
    BY <2>2 DEF TypeOK
  <2>4. ListedOnce'
    <3> SUFFICES ASSUME NEW k \in Lane
                 PROVE  /\ Items(list'[k]) \cap finished' = {}
                        /\ \A i, j \in 1..Len(list'[k]) :
                             list'[k][i] = list'[k][j] => i = j
      BY DEF ListedOnce, Items
    <3>1. CASE k = l
      BY <3>1, <2>2 DEF ListedOnce
    <3>2. CASE k # l
      <4>1. list'[k] = list[k] /\ finished' = finished
        BY <3>2, <2>2
      <4>2. QED
        BY <4>1 DEF ListedOnce
    <3>3. QED
      BY <3>1, <3>2
  <2>5. OwnLane'
    <3> SUFFICES ASSUME NEW k \in Lane, NEW u \in Items(list'[k])
                 PROVE  LaneOf(u) = k
      BY DEF OwnLane, Items, LaneOf
    <3>1. CASE k = l
      BY <3>1, <2>2 DEF OwnLane
    <3>2. CASE k # l
      <4>1. list'[k] = list[k]
        BY <3>2, <2>2
      <4>2. QED
        BY <4>1 DEF OwnLane
    <3>3. QED
      BY <3>1, <3>2
  <2>6. StartedIsListed'
    <3>1. finished' \subseteq running'
      BY <2>2 DEF StartedIsListed
    <3>2. ASSUME NEW u \in running' \ finished'
          PROVE  u \in Items(list'[LaneOf(u)])
      <4>1. CASE u = t
        BY <4>1, <2>2
      <4>2. CASE u # t
        <5>1. u \in running \ finished
          BY <4>2, <2>2, <3>2
        <5>2. u \in Items(list[LaneOf(u)]) /\ LaneOf(u) \in Lane
          BY <5>1, LaneType DEF StartedIsListed, TypeOK
        <5>3. CASE LaneOf(u) = l
          BY <5>2, <5>3, <2>2
        <5>4. CASE LaneOf(u) # l
          <6>1. list'[LaneOf(u)] = list[LaneOf(u)]
            BY <5>2, <5>4, <2>2
          <6>2. QED
            BY <6>1, <5>2
        <5>5. QED
          BY <5>3, <5>4
      <4>3. QED
        BY <4>1, <4>2
    <3>3. QED
      BY <3>1, <3>2 DEF StartedIsListed, LaneOf, Items
  <2>7. NoTaskStranded'
    <3> SUFFICES ASSUME NEW k \in Lane, Items(list'[k]) \ running' # {}
                 PROVE  Items(list'[k]) \cap running' # {}
      BY DEF NoTaskStranded, Waiting, Serving, Items
    <3>1. CASE k = l
      <4>1. Items(list[l]) # {}
        BY <3>1, <2>2
      <4>2. CASE Items(list[l]) \ running = {}
        BY <4>1, <4>2, <2>2, <3>1
      <4>3. CASE Items(list[l]) \ running # {}
        <5>1. Items(list[l]) \cap running # {}
          BY <4>3, <2>1 DEF NoTaskStranded, Waiting, Serving
        <5>2. QED
          BY <5>1, <4>1, <2>2, <3>1
      <4>4. QED
        BY <4>2, <4>3
    <3>2. CASE k # l
      <4>1. list'[k] = list[k]
        BY <3>2, <2>2
      <4>2. t \notin Items(list[k])
        BY <3>2 DEF OwnLane
      <4>3. Items(list[k]) \ running # {}
        BY <4>1, <4>2, <2>2
      <4>4. Items(list[k]) \cap running # {}
        BY <4>3 DEF NoTaskStranded, Waiting, Serving
      <4>5. QED
        BY <4>1, <4>4, <2>2
    <3>3. QED
      BY <3>1, <3>2
  <2>8. QED
    BY <2>3, <2>4, <2>5, <2>6, <2>7
<1>2. ASSUME NEW t \in Task, Resolve(t) PROVE IInv'
  <2> DEFINE l == LaneOf(t)
  <2>1. l \in Lane
    BY LaneType
  <2>2. /\ list' \in [Lane -> Seq(Task)]
        /\ t \in running \ finished
        /\ t \in Items(list[l])
        /\ Items(list'[l]) = Items(list[l]) \ {t}
        /\ \A k \in Lane \ {l} : list'[k] = list[k]
        /\ \A i, j \in 1..Len(list'[l]) : list'[l][i] = list'[l][j] => i = j
        /\ running' = running \cup (Items(list[l]) \ {t})
        /\ finished' = finished \cup {t}
    BY <1>2, ResolveEffect
  <2>3. Items(list[l]) \subseteq Task
    BY <2>1 DEF TypeOK, Items
  <2>4. TypeOK'
    BY <2>2, <2>3 DEF TypeOK
  <2>5. \A k \in Lane \ {l} : t \notin Items(list[k])
    BY DEF OwnLane
  <2>6. ListedOnce'
    <3> SUFFICES ASSUME NEW k \in Lane
                 PROVE  /\ Items(list'[k]) \cap finished' = {}
                        /\ \A i, j \in 1..Len(list'[k]) :
                             list'[k][i] = list'[k][j] => i = j
      BY DEF ListedOnce, Items
    <3>1. CASE k = l
      BY <3>1, <2>2 DEF ListedOnce
    <3>2. CASE k # l
      <4>1. list'[k] = list[k] /\ t \notin Items(list[k])
        BY <3>2, <2>2, <2>5
      <4>2. QED
        BY <4>1, <2>2 DEF ListedOnce
    <3>3. QED
      BY <3>1, <3>2
  <2>7. OwnLane'
    <3> SUFFICES ASSUME NEW k \in Lane, NEW u \in Items(list'[k])
                 PROVE  LaneOf(u) = k
      BY DEF OwnLane, Items, LaneOf
    <3>1. CASE k = l
      BY <3>1, <2>2 DEF OwnLane
    <3>2. CASE k # l
      <4>1. list'[k] = list[k]
        BY <3>2, <2>2
      <4>2. QED
        BY <4>1 DEF OwnLane
    <3>3. QED
      BY <3>1, <3>2
  <2>8. StartedIsListed'
    <3>1. finished' \subseteq running'
      BY <2>2 DEF StartedIsListed
    <3>2. ASSUME NEW u \in running' \ finished'
          PROVE  u \in Items(list'[LaneOf(u)])
      <4>1. u # t
        BY <2>2
      <4>2. u \in Items(list[LaneOf(u)]) /\ LaneOf(u) \in Lane
        <5>1. CASE u \in running
          BY <5>1, <2>2, LaneType DEF StartedIsListed, TypeOK
        <5>2. CASE u \in Items(list[l])
          BY <5>2, <2>1, <2>3, LaneType DEF OwnLane
        <5>3. QED
          BY <5>1, <5>2, <2>2
      <4>3. CASE LaneOf(u) = l
        BY <4>1, <4>2, <4>3, <2>2
      <4>4. CASE LaneOf(u) # l
        <5>1. list'[LaneOf(u)] = list[LaneOf(u)]
          BY <4>2, <4>4, <2>2
        <5>2. QED
          BY <5>1, <4>2
      <4>5. QED
        BY <4>3, <4>4
    <3>3. QED
      BY <3>1, <3>2 DEF StartedIsListed, LaneOf, Items
  <2>9. NoTaskStranded'
    <3> SUFFICES ASSUME NEW k \in Lane, Items(list'[k]) \ running' # {}
                 PROVE  Items(list'[k]) \cap running' # {}
      BY DEF NoTaskStranded, Waiting, Serving, Items
    <3>1. k # l
      BY <2>2
    <3>2. list'[k] = list[k]
      BY <3>1, <2>2
    <3>3. Items(list[k]) \ running # {}
      BY <3>2, <2>2
    <3>4. Items(list[k]) \cap running # {}
      BY <3>3 DEF NoTaskStranded, Waiting, Serving
    <3>5. QED
      BY <3>2, <3>4, <2>2
  <2>10. QED
    BY <2>4, <2>6, <2>7, <2>8, <2>9
<1>3. CASE UNCHANGED vars
  BY <1>3 DEF vars, TypeOK, ListedOnce, OwnLane, StartedIsListed,
              NoTaskStranded, Waiting, Serving, Items, LaneOf
<1>4. QED
  BY <1>1, <1>2, <1>3 DEF Next

\* The queue's inductive invariant.
LEMMA QueueInvariant == Spec => []IInv
BY InitIInv, NextIInv, PTL DEF Spec

----------------------------------------------------------------------------
\* Theorems

\* The queue's variables keep their types, for any sets of tasks.
THEOREM QueueTypeOK == Spec => []TypeOK
<1>1. IInv => TypeOK
  BY DEF IInv
<1>2. QED
  BY <1>1, QueueInvariant, PTL

\* No interleaving of requests and answers leaves a task waiting on a list
\* that nothing running will look at again.
THEOREM QueueNoTaskStranded == Spec => []NoTaskStranded
<1>1. IInv => NoTaskStranded
  BY DEF IInv
<1>2. QED
  BY <1>1, QueueInvariant, PTL

\* An answered task is on no list and a listed one is there once, so the item
\* a remove event finds by id is the right one.
THEOREM QueueListedOnce == Spec => []ListedOnce
<1>1. IInv => ListedOnce
  BY DEF IInv
<1>2. QED
  BY <1>1, QueueInvariant, PTL

\* Tasks of a list start first in, first out: a completion starts all that
\* wait, and a pushed task is last and not running.
LEMMA StartedInOrderStep ==
    IInv /\ StartedInOrder /\ [Next]_vars => StartedInOrder'
<1> SUFFICES ASSUME IInv, StartedInOrder, [Next]_vars PROVE StartedInOrder'
  OBVIOUS
<1>1. ASSUME NEW t \in Task, Message(t) PROVE StartedInOrder'
  <2> DEFINE l == LaneOf(t)
  <2>1. /\ t \notin Items(list[l]) \cup finished
        /\ \A k \in Lane \ {l} : list'[k] = list[k]
        /\ running' = IF Items(list[l]) = {} THEN running \cup {t} ELSE running
    BY <1>1, MessageEffect
  <2>2. l \in Lane /\ list[l] \in Seq(Task) /\ list \in [Lane -> Seq(Task)]
    BY LaneType DEF IInv, TypeOK
  <2>3. list'[l] = Append(list[l], t)
    BY <1>1, <2>2 DEF Message
  <2>4. t \notin running
    BY <2>1, LaneType DEF IInv, StartedIsListed
  <2> SUFFICES ASSUME NEW k \in Lane, NEW i \in 1..Len(list'[k]),
                      NEW j \in 1..Len(list'[k]),
                      i < j, list'[k][j] \in running'
               PROVE  list'[k][i] \in running'
    BY DEF StartedInOrder
  <2>5. CASE k = l
    <3>1. i \in 1..Len(list[l]) /\ list'[l][i] = list[l][i]
      BY <2>5, <2>2, <2>3
    <3>2. list[l][i] \in Items(list[l])
      BY <3>1 DEF Items
    <3>3. running' = running
      BY <3>2, <2>1
    <3>4. j \in 1..Len(list[l]) /\ list'[l][j] = list[l][j]
      BY <2>5, <2>2, <2>3, <2>4, <3>3
    <3>5. QED
      BY <3>1, <3>3, <3>4, <2>5, <2>2 DEF StartedInOrder
  <2>6. CASE k # l
    <3>1. list'[k] = list[k]
      BY <2>6, <2>1
    <3>2. list[k][i] \in Items(list[k]) /\ list[k][j] \in Items(list[k])
      BY <3>1 DEF Items
    <3>3. list[k][j] # t
      BY <3>2, <2>6 DEF IInv, OwnLane
    <3>4. list[k][j] \in running
      BY <3>1, <3>3, <2>1
    <3>5. QED
      BY <3>1, <3>4, <2>1 DEF StartedInOrder
  <2>7. QED
    BY <2>5, <2>6
<1>2. ASSUME NEW t \in Task, Resolve(t) PROVE StartedInOrder'
  <2> DEFINE l == LaneOf(t)
  <2>1. /\ Items(list'[l]) = Items(list[l]) \ {t}
        /\ \A k \in Lane \ {l} : list'[k] = list[k]
        /\ running' = running \cup (Items(list[l]) \ {t})
    BY <1>2, ResolveEffect
  <2>2. l \in Lane
    BY LaneType
  <2> SUFFICES ASSUME NEW k \in Lane, NEW i \in 1..Len(list'[k]),
                      NEW j \in 1..Len(list'[k]),
                      i < j, list'[k][j] \in running'
               PROVE  list'[k][i] \in running'
    BY DEF StartedInOrder
  <2>3. CASE k = l
    <3>1. list'[l][i] \in Items(list'[l])
      BY <2>3 DEF Items
    <3>2. QED
      BY <3>1, <2>1, <2>3
  <2>4. CASE k # l
    <3>1. list'[k] = list[k]
      BY <2>4, <2>1
    <3>2. list[k][j] \in Items(list[k])
      BY <3>1 DEF Items
    <3>3. list[k][j] \notin Items(list[l])
      BY <3>2, <2>2, <2>4 DEF IInv, OwnLane
    <3>4. list[k][j] \in running
      BY <3>1, <3>3, <2>1
    <3>5. QED
      BY <3>1, <3>4, <2>1 DEF StartedInOrder
  <2>5. QED
    BY <2>3, <2>4
<1>3. CASE UNCHANGED vars
  BY <1>3 DEF vars, StartedInOrder
<1>4. QED
  BY <1>1, <1>2, <1>3 DEF Next

\* Whatever the interleaving, no task runs while an earlier one of its list
\* waits (queue.ts 44).
THEOREM QueueStartedInOrder == Spec => []StartedInOrder
<1>1. Init => StartedInOrder
  <2> SUFFICES ASSUME Init PROVE StartedInOrder
    OBVIOUS
  <2>1. \A l \in Lane : 1..Len(list[l]) = {}
    BY DEF Init
  <2>2. QED
    BY <2>1 DEF StartedInOrder
<1>2. QED
  BY <1>1, StartedInOrderStep, QueueInvariant, PTL DEF Spec

----------------------------------------------------------------------------
\* Refinement

\* A step of the queue is, on each lane, the arrival or the answer of one of
\* the lane's tasks, or leaves the lane as it is.
LEMMA LaneStep ==
    ASSUME IInv, [Next]_vars, NEW k \in Lane
    PROVE  LET T == {t \in Task : LaneOf(t) = k} IN
           \/ UNCHANGED <<Waiting(k), Serving(k), finished \cap T>>
           \/ \E r \in T :
                /\ r \notin Waiting(k) \cup Serving(k) \cup (finished \cap T)
                /\ IF Waiting(k) \cup Serving(k) = {}
                   THEN Serving(k)' = {r} /\ UNCHANGED Waiting(k)
                   ELSE /\ Waiting(k)' = Waiting(k) \cup {r}
                        /\ UNCHANGED Serving(k)
                /\ UNCHANGED (finished \cap T)
           \/ \E r \in T :
                /\ r \in Serving(k)
                /\ Serving(k)' = (Serving(k) \ {r}) \cup Waiting(k)
                /\ Waiting(k)' = {}
                /\ (finished \cap T)' = (finished \cap T) \cup {r}
<1> DEFINE T == {t \in Task : LaneOf(t) = k}
           on == Items(list[k])
           onNext == Items(list'[k])
<1>1. /\ Waiting(k) = on \ running /\ Serving(k) = on \cap running
      /\ Waiting(k)' = onNext \ running' /\ Serving(k)' = onNext \cap running'
  BY DEF Waiting, Serving, Items
<1>2. T' = T
  BY DEF LaneOf
<1>3. ASSUME NEW t \in Task, Message(t), LaneOf(t) = k
      PROVE  /\ t \in T
             /\ t \notin Waiting(k) \cup Serving(k) \cup (finished \cap T)
             /\ IF Waiting(k) \cup Serving(k) = {}
                THEN Serving(k)' = {t} /\ UNCHANGED Waiting(k)
                ELSE /\ Waiting(k)' = Waiting(k) \cup {t}
                     /\ UNCHANGED Serving(k)
             /\ UNCHANGED (finished \cap T)
  <2>1. /\ t \notin on \cup finished
        /\ onNext = on \cup {t}
        /\ running' = IF on = {} THEN running \cup {t} ELSE running
        /\ finished' = finished
    BY <1>3, MessageEffect
  <2>2. t \notin running
    BY <1>3, <2>1 DEF IInv, StartedIsListed
  <2>3. QED
    BY <1>1, <1>2, <1>3, <2>1, <2>2
<1>4. ASSUME NEW t \in Task, Resolve(t), LaneOf(t) = k
      PROVE  /\ t \in T
             /\ t \in Serving(k)
             /\ Serving(k)' = (Serving(k) \ {t}) \cup Waiting(k)
             /\ Waiting(k)' = {}
             /\ (finished \cap T)' = (finished \cap T) \cup {t}
  <2>1. /\ t \in running \ finished
        /\ t \in on
        /\ onNext = on \ {t}
        /\ running' = running \cup (on \ {t})
        /\ finished' = finished \cup {t}
    BY <1>4, ResolveEffect
  <2>2. QED
    BY <1>1, <1>2, <1>4, <2>1
<1>5. ASSUME NEW t \in Task, Message(t) \/ Resolve(t), LaneOf(t) # k
      PROVE  UNCHANGED <<Waiting(k), Serving(k), finished \cap T>>
  <2>1. LaneOf(t) \in Lane /\ t \notin on /\ t \notin T
    BY <1>5, LaneType DEF IInv, OwnLane
  <2>2. onNext = on
    <3>1. list'[k] = list[k]
      BY <1>5, MessageEffect, ResolveEffect
    <3>2. QED
      BY <3>1
  <2>3. on \cap running' = on \cap running /\ on \ running' = on \ running
    <3>1. CASE Message(t)
      <4>1. running' = IF Items(list[LaneOf(t)]) = {} THEN running \cup {t}
                       ELSE running
        BY <3>1, MessageEffect
      <4>2. running' = running \/ running' = running \cup {t}
        BY <4>1
      <4>3. QED
        BY <4>2, <2>1
    <3>2. CASE Resolve(t)
      <4>1. running' = running \cup (Items(list[LaneOf(t)]) \ {t})
        BY <3>2, ResolveEffect
      <4>2. on \cap Items(list[LaneOf(t)]) = {}
        BY <1>5, <2>1 DEF IInv, OwnLane
      <4>3. QED
        BY <4>1, <4>2
    <3>3. QED
      BY <1>5, <3>1, <3>2
  <2>4. finished' \cap T = finished \cap T
    <3>1. finished' \ {t} = finished \ {t}
      BY <1>5, MessageEffect, ResolveEffect
    <3>2. QED
      BY <3>1, <2>1
  <2>5. QED
    BY <1>1, <1>2, <2>2, <2>3, <2>4
<1>6. CASE UNCHANGED vars
  BY <1>6, <1>1, <1>2 DEF vars
<1>7. QED
  BY <1>3, <1>4, <1>5, <1>6 DEF Next

\* Stranding, overtaking and unlinking the wrong item are all impossible, for any
\* sets of read and write tasks.
THEOREM QueueTasksAreServed == Spec => []TasksAreServed
BY QueueTypeOK, QueueNoTaskStranded, QueueStartedInOrder, QueueListedOnce, PTL DEF TasksAreServed

\* The tasks of a lane are those the abstract queue has.
LEMMA LaneTasks ==
    /\ {t \in Task : LaneOf(t) = "read"} = ReadTask
    /\ {t \in Task : LaneOf(t) = "write"} = WriteTask
BY TasksDisjoint DEF Task, LaneOf

\* The empty queue maps to empty lanes.
LEMMA InitLanes ==
    Init => \A k \in Lane : Waiting(k) = {} /\ Serving(k) = {} /\ finished = {}
<1> SUFFICES ASSUME Init, NEW k \in Lane
             PROVE  Waiting(k) = {} /\ Serving(k) = {} /\ finished = {}
  OBVIOUS
<1>1. list[k] = <<>> /\ finished = {}
  BY DEF Init
<1>2. Items(list[k]) = {}
  BY <1>1 DEF Items
<1>3. QED
  BY <1>1, <1>2 DEF Waiting, Serving

\* The read list, its events and its flags implement the batch server.
THEOREM ReadLaneImplements == Spec => ReadLaneIsBatchServer
<1>1. Init => ReadLane!Init
  BY InitLanes DEF ReadLane!Init, Lane
<1>2. IInv /\ [Next]_vars => [ReadLane!Next]_ReadLane!vars
  <2> SUFFICES ASSUME IInv, [Next]_vars PROVE [ReadLane!Next]_ReadLane!vars
    OBVIOUS
  <2>1. "read" \in Lane
    BY DEF Lane
  <2>2. QED
    BY <2>1, LaneStep, LaneTasks
    DEF ReadLane!Next, ReadLane!vars, ReadLane!Accept, ReadLane!Answer,
        ReadLane!Known
<1>3. QED
  BY <1>1, <1>2, QueueInvariant, PTL DEF Spec, ReadLaneIsBatchServer, ReadLane!Spec

\* So do the write list, its events and its flags.
THEOREM WriteLaneImplements == Spec => WriteLaneIsBatchServer
<1>1. Init => WriteLane!Init
  BY InitLanes DEF WriteLane!Init, Lane
<1>2. IInv /\ [Next]_vars => [WriteLane!Next]_WriteLane!vars
  <2> SUFFICES ASSUME IInv, [Next]_vars PROVE [WriteLane!Next]_WriteLane!vars
    OBVIOUS
  <2>1. "write" \in Lane
    BY DEF Lane
  <2>2. QED
    BY <2>1, LaneStep, LaneTasks
    DEF WriteLane!Next, WriteLane!vars, WriteLane!Accept, WriteLane!Answer,
        WriteLane!Known
<1>3. QED
  BY <1>1, <1>2, QueueInvariant, PTL DEF Spec, WriteLaneIsBatchServer, WriteLane!Spec

\* The queue as a whole: both lanes at once, for any sets of tasks.
THEOREM LanesImplement == Spec => LanesAreBatchServers
BY ReadLaneImplements, WriteLaneImplements DEF LanesAreBatchServers

----------------------------------------------------------------------------
(* The candy service.                                                      *)

\* The part of the types the argument needs.
CandyTypes ==
    /\ pc \in [Request -> Place]
    /\ reply \in [Request -> {"none", "success", "already", "failed"}]
    /\ pool \subseteq Request /\ confirmed \subseteq Request
    /\ table \subseteq Rows /\ undone \subseteq Request
    /\ dbFaults \in 0..MaxDbFault

Transferred == pool \cup confirmed

\* A transfer on the chain comes from a handler that has sent it.
SentBefore ==
    \A t \in Transferred : pc[t] \notin {"check", "insert", "nonce", "send", "stuck"}

\* The handler that holds its row, or has handed it to a transfer.
Owner(t) ==
    \/ pc[t] \in {"nonce", "send", "poll", "undo"}
    \/ t \in Transferred \ undone

\* The primary key at work: an owner's row is there, and is its alone.
OwnersHoldRows ==
    /\ \A t \in Request : Owner(t) => Row(t) \in table
    /\ \A t, u \in Request : Owner(t) /\ Owner(u) /\ Row(t) = Row(u) => t = u

\* A row was recorded by one of its handlers.
RowsHaveWriters ==
    \A r \in table : \E u \in Request : Row(u) = r /\ pc[u] \notin {"check", "insert"}

\* While no statement has failed, a row belongs to a handler still at work, to
\* one a crash took, or to a confirmed transfer.
RowsHaveReasons ==
    dbFaults = 0 =>
        \A r \in table : \E u \in Request :
            /\ Row(u) = r
            /\ pc[u] \in {"nonce", "send", "poll", "undo", "lost"} \/ u \in confirmed

CandyInv == /\ CandyTypes /\ SentBefore /\ OwnersHoldRows /\ RowsHaveWriters
            /\ RowsHaveReasons /\ ReplyIsTrue

\* The tables are empty and no handler has begun.
LEMMA CandyInvStarts == CandyInit => CandyInv
BY CandyConstants
DEF CandyInit, CandyInv, CandyTypes, SentBefore, OwnersHoldRows, RowsHaveWriters,
    RowsHaveReasons, ReplyIsTrue, Transferred, Owner, Place, Rows

\* A message from a client only queues a task.
LEMMA SubmitCandyInv == \A t \in Request : CandyInv /\ Submit(t) => CandyInv'
<1> SUFFICES ASSUME NEW t \in Request, CandyInv, Submit(t) PROVE CandyInv'
  OBVIOUS
<1> USE CandyConstants
    DEF CandyInv, CandyTypes, Submit, At, Goto, chain, faults, RpcFails, DbFails
<1>1. CandyTypes'
  BY DEF Place, Rows
<1>2. SentBefore'
  BY DEF SentBefore, Transferred
<1>3. OwnersHoldRows'
  BY DEF OwnersHoldRows, SentBefore, Transferred, Owner, Place
<1>4. RowsHaveWriters'
  BY DEF RowsHaveWriters, Place
<1>5. RowsHaveReasons'
  BY DEF RowsHaveReasons, Place
<1>6. ReplyIsTrue'
  BY DEF ReplyIsTrue, RowsHaveWriters, Place
<1>7. QED
  BY <1>1, <1>2, <1>3, <1>4, <1>5, <1>6

\* The lookup leaves rows alone; whoever is turned away finds the row's writer.
LEMMA CheckCandyInv == \A t \in Request : CandyInv /\ Check(t) => CandyInv'
<1> SUFFICES ASSUME NEW t \in Request, CandyInv, Check(t) PROVE CandyInv'
  OBVIOUS
<1> USE CandyConstants
    DEF CandyInv, CandyTypes, Check, At, Goto, chain, faults, RpcFails, DbFails, ReplyWith
<1>1. CandyTypes'
  BY DEF Place, Rows
<1>2. SentBefore'
  BY DEF SentBefore, Transferred
<1>3. OwnersHoldRows'
  BY DEF OwnersHoldRows, SentBefore, Transferred, Owner, Place
<1>4. RowsHaveWriters'
  BY DEF RowsHaveWriters, Place
<1>5. RowsHaveReasons'
  BY DEF RowsHaveReasons, Place
<1>6. ReplyIsTrue'
  BY DEF ReplyIsTrue, RowsHaveWriters, Place
<1>7. QED
  BY <1>1, <1>2, <1>3, <1>4, <1>5, <1>6

\* A row goes in only when no owner's is there.
LEMMA InsertCandyInv == \A t \in Request : CandyInv /\ Insert(t) => CandyInv'
<1> SUFFICES ASSUME NEW t \in Request, CandyInv, Insert(t) PROVE CandyInv'
  OBVIOUS
<1> USE CandyConstants
    DEF CandyInv, CandyTypes, Insert, At, Goto, chain, faults, RpcFails, DbFails, ReplyWith
<1>1. CandyTypes'
  BY DEF Place, Rows
<1>2. SentBefore'
  BY DEF SentBefore, Transferred
<1>3. OwnersHoldRows'
  BY DEF OwnersHoldRows, SentBefore, Transferred, Owner, Place
<1>4. RowsHaveWriters'
  BY DEF RowsHaveWriters, Place
<1>5. RowsHaveReasons'
  BY DEF RowsHaveReasons, Place
<1>6. ReplyIsTrue'
  BY DEF ReplyIsTrue, RowsHaveWriters, Place
<1>7. QED
  BY <1>1, <1>2, <1>3, <1>4, <1>5, <1>6

\* Asking for the nonce keeps the row's owner.
LEMMA GetNonceCandyInv == \A t \in Request : CandyInv /\ GetNonce(t) => CandyInv'
<1> SUFFICES ASSUME NEW t \in Request, CandyInv, GetNonce(t) PROVE CandyInv'
  OBVIOUS
<1> USE CandyConstants
    DEF CandyInv, CandyTypes, GetNonce, At, Goto, chain, faults, RpcFails, DbFails
<1>1. CandyTypes'
  BY DEF Place, Rows
<1>2. SentBefore'
  BY DEF SentBefore, Transferred
<1>3. OwnersHoldRows'
  BY DEF OwnersHoldRows, SentBefore, Transferred, Owner, Place
<1>4. RowsHaveWriters'
  BY DEF RowsHaveWriters, Place
<1>5. RowsHaveReasons'
  BY DEF RowsHaveReasons, Place
<1>6. ReplyIsTrue'
  BY DEF ReplyIsTrue, RowsHaveWriters, Place
<1>7. QED
  BY <1>1, <1>2, <1>3, <1>4, <1>5, <1>6

\* Delivered or not, the sender keeps its row.
LEMMA SendCandyInv == \A t \in Request : CandyInv /\ Send(t) => CandyInv'
<1> SUFFICES ASSUME NEW t \in Request, CandyInv, Send(t) PROVE CandyInv'
  OBVIOUS
<1> USE CandyConstants
    DEF CandyInv, CandyTypes, Send, At, Goto, chain, faults, RpcFails, DbFails, Accept
<1>1. CandyTypes'
  BY DEF Place, Rows
<1>2. SentBefore'
  BY DEF SentBefore, Transferred
<1>3. OwnersHoldRows'
  BY DEF OwnersHoldRows, SentBefore, Transferred, Owner, Place
<1>4. RowsHaveWriters'
  BY DEF RowsHaveWriters, Place
<1>5. RowsHaveReasons'
  BY DEF RowsHaveReasons, Place
<1>6. ReplyIsTrue'
  BY DEF ReplyIsTrue, RowsHaveWriters, Place
<1>7. QED
  BY <1>1, <1>2, <1>3, <1>4, <1>5, <1>6

\* A receipt is a confirmed transfer; giving up keeps the row for the undo.
LEMMA PollCandyInv == \A t \in Request : CandyInv /\ Poll(t) => CandyInv'
<1> SUFFICES ASSUME NEW t \in Request, CandyInv, Poll(t) PROVE CandyInv'
  OBVIOUS
<1> USE CandyConstants
    DEF CandyInv, CandyTypes, Poll, At, Goto, chain, faults, RpcFails, DbFails, ReplyWith, NoReceipt
<1>1. CandyTypes'
  BY DEF Place, Rows
<1>2. SentBefore'
  BY DEF SentBefore, Transferred
<1>3. OwnersHoldRows'
  BY DEF OwnersHoldRows, SentBefore, Transferred, Owner, Place
<1>4. RowsHaveWriters'
  BY DEF RowsHaveWriters, Place
<1>5. RowsHaveReasons'
  BY DEF RowsHaveReasons, Place
<1>6. ReplyIsTrue'
  BY DEF ReplyIsTrue, RowsHaveWriters, Place
<1>7. QED
  BY <1>1, <1>2, <1>3, <1>4, <1>5, <1>6

\* The undo takes away its own handler's row, whose only owner it was.
LEMMA UndoCandyInv == \A t \in Request : CandyInv /\ Undo(t) => CandyInv'
<1> SUFFICES ASSUME NEW t \in Request, CandyInv, Undo(t) PROVE CandyInv'
  OBVIOUS
<1> USE CandyConstants
    DEF CandyInv, CandyTypes, Undo, At, Goto, chain, faults, RpcFails, DbFails
<1>1. CandyTypes'
  BY DEF Place, Rows
<1>2. SentBefore'
  BY DEF SentBefore, Transferred
<1>3. OwnersHoldRows'
  BY DEF OwnersHoldRows, SentBefore, Transferred, Owner, Place
<1>4. RowsHaveWriters'
  BY DEF RowsHaveWriters, Place
<1>5. RowsHaveReasons'
  BY DEF RowsHaveReasons, Place
<1>6. ReplyIsTrue'
  BY DEF ReplyIsTrue, RowsHaveWriters, Place
<1>7. QED
  BY <1>1, <1>2, <1>3, <1>4, <1>5, <1>6

\* The answer of a handler that has given up changes no row.
LEMMA AnswerCandyInv == \A t \in Request : CandyInv /\ Answer(t) => CandyInv'
<1> SUFFICES ASSUME NEW t \in Request, CandyInv, Answer(t) PROVE CandyInv'
  OBVIOUS
<1> USE CandyConstants
    DEF CandyInv, CandyTypes, Answer, At, Goto, chain, faults, RpcFails, DbFails, ReplyWith
<1>1. CandyTypes'
  BY DEF Place, Rows
<1>2. SentBefore'
  BY DEF SentBefore, Transferred
<1>3. OwnersHoldRows'
  BY DEF OwnersHoldRows, SentBefore, Transferred, Owner, Place
<1>4. RowsHaveWriters'
  BY DEF RowsHaveWriters, Place
<1>5. RowsHaveReasons'
  BY DEF RowsHaveReasons, Place
<1>6. ReplyIsTrue'
  BY DEF ReplyIsTrue, RowsHaveWriters, Place
<1>7. QED
  BY <1>1, <1>2, <1>3, <1>4, <1>5, <1>6

\* A confirmation moves a transfer and gives it up nowhere.
LEMMA ConfirmCandyInv == \A t \in Request : CandyInv /\ Confirm(t) => CandyInv'
<1> SUFFICES ASSUME NEW t \in Request, CandyInv, Confirm(t) PROVE CandyInv'
  OBVIOUS
<1> USE CandyConstants
    DEF CandyInv, CandyTypes, Confirm, At, Goto, chain, faults, RpcFails, DbFails
<1>1. CandyTypes'
  BY DEF Place, Rows
<1>2. SentBefore'
  BY DEF SentBefore, Transferred
<1>3. OwnersHoldRows'
  BY DEF OwnersHoldRows, SentBefore, Transferred, Owner, Place
<1>4. RowsHaveWriters'
  BY DEF RowsHaveWriters, Place
<1>5. RowsHaveReasons'
  BY DEF RowsHaveReasons, Place
<1>6. ReplyIsTrue'
  BY DEF ReplyIsTrue, RowsHaveWriters, Place
<1>7. QED
  BY <1>1, <1>2, <1>3, <1>4, <1>5, <1>6

\* A crash loses handlers, never rows or transfers.
LEMMA CrashCandyInv == CandyInv /\ Crash => CandyInv'
<1> SUFFICES ASSUME CandyInv, Crash PROVE CandyInv'
  OBVIOUS
<1> USE CandyConstants
    DEF CandyInv, CandyTypes, Crash, At, Goto, chain, faults, RpcFails, DbFails
<1>1. CandyTypes'
  BY DEF Place, Rows
<1>2. SentBefore'
  BY DEF SentBefore, Transferred
<1>3. OwnersHoldRows'
  BY DEF OwnersHoldRows, SentBefore, Transferred, Owner, Place
<1>4. RowsHaveWriters'
  BY DEF RowsHaveWriters, Place
<1>5. RowsHaveReasons'
  BY DEF RowsHaveReasons, Place
<1>6. ReplyIsTrue'
  BY DEF ReplyIsTrue, RowsHaveWriters, Place
<1>7. QED
  BY <1>1, <1>2, <1>3, <1>4, <1>5, <1>6

\* Every step of the service preserves the invariant.
LEMMA CandyInvKept == CandyInv /\ [CandyNext]_candyVars => CandyInv'
<1> SUFFICES ASSUME CandyInv, [CandyNext]_candyVars PROVE CandyInv'
  OBVIOUS
<1>1. ASSUME NEW t \in Request, Submit(t) \/ Step(t) \/ Confirm(t) PROVE CandyInv'
  BY <1>1, SubmitCandyInv, CheckCandyInv, InsertCandyInv, GetNonceCandyInv, SendCandyInv, PollCandyInv,
     UndoCandyInv, AnswerCandyInv, ConfirmCandyInv
  DEF Step
<1>2. CASE UNCHANGED candyVars
  BY <1>2
  DEF CandyInv, candyVars, chain, faults, CandyTypes, SentBefore, OwnersHoldRows, RowsHaveWriters,
      RowsHaveReasons, ReplyIsTrue, Transferred, Owner
<1>3. QED
  BY <1>1, <1>2, CrashCandyInv DEF CandyNext

\* The invariant holds in every reachable state.
THEOREM CandyInvariant == CandySpec => []CandyInv
<1>1. QED
  BY CandyInvStarts, CandyInvKept, PTL DEF CandySpec

----------------------------------------------------------------------------

\* "Success" is said only of a confirmed transfer and "already got" only of an
\* row another handler has recorded (getcandy.ts).
THEOREM CandyReplyIsTrue == CandySpec => []ReplyIsTrue
<1>1. CandyInv => ReplyIsTrue
  BY DEF CandyInv
<1>2. QED
  BY <1>1, CandyInvariant, PTL

\* An address gets the candy once for a token unless its row was deleted again,
\* and the row that turns later requests away is there as long as the transfer is:
\* owners of one row are equal, so a held transfer is the only one.
THEOREM CandyOncePerRow == CandySpec => []OneCandyPerRow
<1>1. CandyInv => OneCandyPerRow
  <2> SUFFICES ASSUME CandyInv, NEW r \in Rows
               PROVE  Cardinality(Held(r)) <= 1 /\ (Held(r) # {} => r \in table)
    BY DEF OneCandyPerRow
  <2>1. \A t \in Held(r) : t \in Request /\ Row(t) = r /\ Owner(t)
    BY DEF CandyInv, CandyTypes, Held, Owner, Transferred
  <2>2. \A t, u \in Held(r) : t = u
    BY <2>1 DEF CandyInv, OwnersHoldRows
  <2>3. CASE Held(r) = {}
    BY <2>3, FS_EmptySet
  <2>4. CASE Held(r) # {}
    <3>1. PICK t \in Held(r) : TRUE
      BY <2>4
    <3>2. Held(r) = {t}
      BY <2>2, <3>1
    <3>3. Cardinality(Held(r)) = 1
      BY <3>2, FS_Singleton
    <3>4. QED
      BY <2>1, <3>1, <3>3 DEF CandyInv, OwnersHoldRows
  <2>5. QED
    BY <2>3, <2>4
<1>2. QED
  BY <1>1, CandyInvariant, PTL

\* While no statement on the table fails, nobody is locked out: once the
\* handlers are through, a recorded row is a paid one.
THEOREM CandyNoLockedOut == CandySpec => []NoLockedOutAddress
<1>1. CandyInv => NoLockedOutAddress
  BY DEF CandyInv, RowsHaveReasons, NoLockedOutAddress, CandyTypes, Place
<1>2. QED
  BY <1>1, CandyInvariant, PTL
=============================================================================
