--------------------------- MODULE SqliteKeyValue ---------------------------
(***************************************************************************)
(* SqliteStorageKeyValue (core/storage_sqlite/storage.ts): what each       *)
(* operation does to the rows of one key and what it answers.              *)
(*                                                                         *)
(* The rows are a function from field to value: (name, field) is unique.   *)
(* The elements of a list have their index as field.  A statement that     *)
(* would make two rows equal in a field fails and changes nothing; its     *)
(* operation ends there, and what its earlier statements did stays.        *)
(***************************************************************************)
EXTENDS Integers, SequencesExt

CONSTANT None

Answer(err, rows, value) == [err |-> err, rows |-> rows, value |-> value]

Ok(rows, value) == Answer("OK", rows, value)

NotFound(rows) == Answer("NOT_FOUND", rows, None)

Throws(rows) == Answer("EXCEPTION", rows, None)

\* The field of a plain value.
Default == "____default____"

-----------------------------------------------------------------------------
(* SQL.  A script is [ok, rows]: once a statement has failed none follows.  *)

Script(rows) == [ok |-> TRUE, rows |-> rows]

Replace(rows, f, v) == (f :> v) @@ rows

InsertRow(s, f, v) ==
    IF ~s.ok \/ f \in DOMAIN s.rows THEN [s EXCEPT !.ok = FALSE]
    ELSE [s EXCEPT !.rows = Replace(@, f, v)]

DeleteRow(rows, f) == [g \in DOMAIN rows \ {f} |-> rows[g]]

\* UPDATE ... SET field = field + by over the given fields.  Rows are visited
\* from the lowest field on, so one moved upwards meets those not yet moved.
Collides(rows, fields, by) ==
    \E f \in fields : f + by \in DOMAIN rows /\ (by > 0 \/ f + by \notin fields)

Shift(s, fields, by) ==
    IF ~s.ok \/ Collides(s.rows, fields \cap DOMAIN s.rows, by) THEN [s EXCEPT !.ok = FALSE]
    ELSE LET moved == fields \cap DOMAIN s.rows
             target == {f + by : f \in moved}
         IN  [s EXCEPT !.rows = [f \in (DOMAIN s.rows \ moved) \cup target |->
                                    IF f \in target THEN s.rows[f - by] ELSE s.rows[f]]]

Done(s, value) == IF s.ok THEN Ok(s.rows, value) ELSE Throws(s.rows)

-----------------------------------------------------------------------------
(* Plain values and hashes *)

HGet(rows, f) == IF f \in DOMAIN rows THEN Ok(rows, rows[f]) ELSE NotFound(rows)

HSet(rows, f, v) == Ok(Replace(rows, f, v), None)

Set(rows, v) == Ok(Replace(rows, Default, v), None)

Get(rows) == HGet(rows, Default)

HDel(rows, f) == Ok(DeleteRow(rows, f), None)

HLen(rows) == Ok(rows, Cardinality(DOMAIN rows))

HExists(rows, f) == Ok(rows, f \in DOMAIN rows)

HMSet(rows, fields, values) ==
    IF Len(fields) # Len(values) THEN Throws(rows)
    ELSE Ok(FoldLeft(LAMBDA r, i : Replace(r, fields[i], values[i]), rows,
                     [i \in DOMAIN fields |-> i]), None)

HMGet(rows, fields) ==
    Ok(rows, [i \in DOMAIN fields |->
                 IF fields[i] \in DOMAIN rows THEN rows[fields[i]] ELSE None])

HKeys(rows) == Ok(rows, DOMAIN rows)

HGetAll(rows) == Ok(rows, {<<f, rows[f]>> : f \in DOMAIN rows})

\* The name of the table is not quoted and holds a '#': the statement is no SQL.
HClean(rows) == Throws(rows)

-----------------------------------------------------------------------------
(* Lists *)

Size(rows) == Cardinality(DOMAIN rows)

LIndex(rows, i) == HGet(rows, i)

LSet(rows, i, v) == Ok(Replace(rows, i, v), None)

LLen(rows) == HLen(rows)

FromEnd(i, len) == IF i < 0 THEN len + i ELSE i

\* The rows found are put where they belong, counted from the start.
LRange(rows, start, stop) ==
    IF rows = <<>> THEN Ok(rows, <<>>)
    ELSE LET first == FromEnd(start, Size(rows))
             last == IF FromEnd(stop, Size(rows)) >= Size(rows) THEN Size(rows) - 1
                     ELSE FromEnd(stop, Size(rows))
             found == (first..last) \cap DOMAIN rows
         IN  Ok(rows, [j \in 1..Cardinality(found) |->
                          IF first + j - 1 \in found THEN rows[first + j - 1] ELSE None])

LPush(rows, v) ==
    Done(InsertRow(Shift(Script(rows), DOMAIN rows, 1), 0, v), None)

LPushX(rows, vs) ==
    Done(FoldLeft(LAMBDA s, j : InsertRow(s, j - 1, vs[j]),
                  IF vs = <<>> THEN Script(rows) ELSE Shift(Script(rows), DOMAIN rows, Len(vs)),
                  [j \in DOMAIN vs |-> j]), None)

\* One statement per element moves what follows index i down.
CloseGap(s, i, len) ==
    FoldLeft(LAMBDA t, j : Shift(t, {i + j}, -1), s, [j \in 1..(len - 1 - i) |-> j])

LRemove(rows, i) ==
    IF rows = <<>> THEN NotFound(rows)
    ELSE Done(CloseGap(Script(DeleteRow(rows, i)), i, Size(rows)), LIndex(rows, i).value)

LPop(rows) == LRemove(rows, 0)

RPush(rows, v) == Done(InsertRow(Script(rows), Size(rows), v), None)

RPushX(rows, vs) ==
    Done(FoldLeft(LAMBDA s, j : InsertRow(s, Size(rows) + j - 1, vs[j]), Script(rows),
                  [j \in DOMAIN vs |-> j]), None)

RPop(rows) ==
    IF rows = <<>> THEN NotFound(rows)
    ELSE Ok(DeleteRow(rows, Size(rows) - 1), LIndex(rows, Size(rows) - 1).value)

MakeRoom_Upwards(s, i, len) ==
    FoldLeft(LAMBDA t, j : Shift(t, {i + j - 1}, 1), s, [j \in 1..(len - i) |-> j])

\* One statement per element, from the last one, makes room at index i.
MakeRoom(s, i, len) ==
    FoldLeft(LAMBDA t, j : Shift(t, {len - j}, 1), s, [j \in 1..(len - i) |-> j])

LInsert(rows, i, v) ==
    IF i >= Size(rows) THEN LSet(rows, Size(rows), v)
    ELSE LET room == MakeRoom(Script(rows), i, Size(rows))
         IN  IF room.ok THEN LSet(room.rows, i, v) ELSE Throws(room.rows)
=============================================================================
