------------------------------ MODULE KeyValue ------------------------------
(***************************************************************************)
(* The two stores a chain may keep its state in, side by side: a contract  *)
(* reads and writes keys through the interface of core/storage/storage.ts  *)
(* and does not know which one it is given.                                *)
(***************************************************************************)
EXTENDS Integers, Values

CONSTANTS Nil,       \* what is undefined
          Field, Value,   \* the fields of a hash, the values stored
          MaxList         \* bound on the length of a list

ASSUME KeyValueConstants == MaxList \in Nat /\ Nil \notin Value

J == INSTANCE JsonKeyValue WITH None <- Nil
S == INSTANCE SqliteKeyValue WITH None <- Nil

\* The rows that hold a list, and a hash as it is.
RowsOf(k) == [i \in 0..(Len(k) - 1) |-> k[i + 1]]

List == BoundedSeq(Value, MaxList)

Hash == UNION {[fields -> Value] : fields \in SUBSET Field}

Same(j, s) == s.err = j.err /\ s.value = j.value

SameList(j, s) == Same(j, s) /\ s.rows = RowsOf(j.k)

SameHash(j, s) == Same(j, s) /\ s.rows = j.k

\* Both stores hold the same list after every operation on a list they both
\* hold, and answer the same: the rows are moved one statement at a time, up or
\* down, without ever meeting each other.  Left out is what the two do
\* differently: lists of two or more and values pushed before them that are
\* fewer, indexes outside the list, and keys that are absent.
ListsAgree ==
    \A k \in List : LET rows == RowsOf(k) IN
        /\ SameList(J!LLen(k), S!LLen(rows))
        /\ \A v \in Value :
            /\ Len(k) < 2 => SameList(J!LPush(k, v), S!LPush(rows, v))
            /\ SameList(J!RPush(k, v), S!RPush(rows, v))
            /\ \A i \in 0..Len(k) :
                /\ SameList(J!LSet(k, i, v), S!LSet(rows, i, v))
                /\ SameList(J!LInsert(k, i, v), S!LInsert(rows, i, v))
        /\ \A vs \in List :
            /\ Len(k) <= Len(vs) => SameList(J!LPushX(k, vs), S!LPushX(rows, vs))
            /\ SameList(J!RPushX(k, vs), S!RPushX(rows, vs))
        /\ \A i \in 0..(Len(k) - 1) :
            /\ SameList(J!LIndex(k, i), S!LIndex(rows, i))
            /\ SameList(J!LRemove(k, i), S!LRemove(rows, i))
        /\ SameList(J!LPop(k), S!LPop(rows))
        /\ SameList(J!RPop(k), S!RPop(rows))
        /\ \A start, stop \in (-Len(k))..(Len(k) + 1) :
            SameList(J!LRange(k, start, stop), S!LRange(rows, start, stop))

\* Both hold the same hash after every operation on one they both hold, but for
\* its removal, which SQLite refuses, and answer the same but for fields that
\* are absent.
HashesAgree ==
    \A k \in Hash :
        /\ \A f \in Field :
            /\ \A v \in Value : SameHash(J!HSet(k, f, v), S!HSet(k, f, v))
            /\ f \in DOMAIN k => SameHash(J!HGet(k, f), S!HGet(k, f))
            /\ SameHash(J!HDel(k, f), S!HDel(k, f))
            /\ SameHash(J!HExists(k, f), S!HExists(k, f))
        /\ \A fields \in BoundedSeq(Field, 2) :
            /\ SameHash(J!HMGet(k, fields), S!HMGet(k, fields))
            /\ \A values \in BoundedSeq(Value, 2) :
                SameHash(J!HMSet(k, fields, values), S!HMSet(k, fields, values))
        /\ SameHash(J!HLen(k), S!HLen(k)) /\ SameHash(J!HKeys(k), S!HKeys(k))
        /\ SameHash(J!HGetAll(k), S!HGetAll(k))

-----------------------------------------------------------------------------
(* The redo log (storage/logger.ts, js_log.ts): a logged object notes down  *)
(* every operation that writes before it does it, whatever comes of it.     *)

Index(i) == <<"number", i>>
Array(vs) == <<"Array", vs>>

Op(name, args) == [name |-> name, args |-> args]

\* The methods of a logged object that write a list, and a hash.
OnList(k, op) ==
    LET a == op.args IN
    CASE op.name = "lset"    -> J!LSet(k, Held(a[1]), a[2])
      [] op.name = "linsert" -> J!LInsert(k, Held(a[1]), a[2])
      [] op.name = "lremove" -> J!LRemove(k, Held(a[1]))
      [] op.name = "lpush"   -> J!LPush(k, a[1])
      [] op.name = "rpush"   -> J!RPush(k, a[1])
      [] op.name = "lpushx"  -> J!LPushX(k, Held(a[1]))
      [] op.name = "rpushx"  -> J!RPushX(k, Held(a[1]))
      [] op.name = "lpop"    -> J!LPop(k)
      [] op.name = "rpop"    -> J!RPop(k)

OnHash(k, op) ==
    LET a == op.args IN
    CASE op.name = "hset"   -> J!HSet(k, a[1], a[2])
      [] op.name = "hmset"  -> J!HMSet(k, Held(a[1]), Held(a[2]))
      [] op.name = "hdel"   -> J!HDel(k, a[1])
      [] op.name = "hclean" -> J!HClean(k)

\* The line KeyValueLogger appends, and the call it is when it is evaluated.
Line(op) == [call |-> op.name, text |-> [i \in DOMAIN op.args |-> ToEvalText(op.args[i])]]

Call(line) == Op(line.call, [i \in DOMAIN line.text |-> Evaluated(line.text[i])])

ListOps ==
    {Op(name, <<Index(i), v>>) : name \in {"lset", "linsert"}, i \in 0..MaxList, v \in Value}
    \cup {Op("lremove", <<Index(i)>>) : i \in 0..MaxList}
    \cup {Op(name, <<v>>) : name \in {"lpush", "rpush"}, v \in Value}
    \cup {Op(name, <<Array(vs)>>) : name \in {"lpushx", "rpushx"}, vs \in List}
    \cup {Op(name, <<>>) : name \in {"lpop", "rpop"}}

HashOps ==
    {Op("hset", <<f, v>>) : f \in Field, v \in Value}
    \cup {Op("hdel", <<f>>) : f \in Field}
    \cup {Op("hmset", <<Array(fs), Array(vs)>>) :
              fs \in BoundedSeq(Field, 2), vs \in BoundedSeq(Value, 2)}
    \cup {Op("hclean", <<>>)}

\* A store the log of an operation is run on holds what the store has that the
\* operation was done on, whether the operation succeeded or not.
RedoRepeats ==
    /\ \A k \in List \cup {Nil}, op \in ListOps : OnList(k, Call(Line(op))) = OnList(k, op)
    /\ \A k \in Hash \cup {Nil}, op \in HashOps : OnHash(k, Call(Line(op))) = OnHash(k, op)

\* A chain's state is the same whichever store keeps it, and if it is read back
\* from its file or made again from the redo log.
SameState == ListsAgree /\ HashesAgree /\ ValuesSurvive /\ RedoRepeats
=============================================================================
