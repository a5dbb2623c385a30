---------------------------- MODULE JsonKeyValue ----------------------------
(***************************************************************************)
(* JsonStorageKeyValue (core/storage_json/storage.ts): what each operation *)
(* does to the value of one key and what it answers.                       *)
(*                                                                         *)
(* The value is None where the key is absent, a sequence where it is an    *)
(* array, a function where it is an object.  Indexes are the code's, from  *)
(* zero.  None also stands for an undefined answer.                        *)
(***************************************************************************)
EXTENDS Integers, SequencesExt

CONSTANT None

Answer(err, k, value) == [err |-> err, k |-> k, value |-> value]

Ok(k, value) == Answer("OK", k, value)

NotFound(k) == Answer("NOT_FOUND", k, None)

\* The code dereferences what is not there; the exception is caught.
Throws(k) == Answer("EXCEPTION", k, None)

At(k, f) == IF f \in DOMAIN k THEN k[f] ELSE None

-----------------------------------------------------------------------------
(* Plain values and hashes *)

Set(k, v) == Ok(v, None)

Get(k) == IF k = None THEN NotFound(k) ELSE Ok(k, k)

Object(k) == IF k = None THEN <<>> ELSE k

HSet(k, f, v) == Ok((f :> v) @@ Object(k), None)

HGet(k, f) == IF k = None THEN NotFound(k) ELSE Ok(k, At(k, f))

HDel(k, f) ==
    IF k = None THEN NotFound(k)
    ELSE Ok([g \in DOMAIN k \ {f} |-> k[g]], None)

HLen(k) == IF k = None THEN NotFound(k) ELSE Ok(k, Cardinality(DOMAIN k))

HExists(k, f) == IF k = None THEN NotFound(k) ELSE Ok(k, f \in DOMAIN k)

\* Of a field given twice the later value stays.
HMSet(k, fields, values) ==
    IF Len(fields) # Len(values) THEN Throws(k)
    ELSE Ok(FoldLeft(LAMBDA o, i : (fields[i] :> values[i]) @@ o,
                     Object(k), [i \in DOMAIN fields |-> i]), None)

HMGet(k, fields) ==
    IF k = None THEN NotFound(k) ELSE Ok(k, [i \in DOMAIN fields |-> At(k, fields[i])])

HKeys(k) == IF k = None THEN NotFound(k) ELSE Ok(k, DOMAIN k)

HGetAll(k) == IF k = None THEN NotFound(k) ELSE Ok(k, {<<f, k[f]>> : f \in DOMAIN k})

HClean(k) == Ok(None, None)

-----------------------------------------------------------------------------
(* Lists *)

Array(k) == IF k = None THEN <<>> ELSE k

LIndex(k, i) == IF k = None THEN NotFound(k) ELSE Ok(k, At(k, i + 1))

\* Setting an element past the end leaves holes before it.
LSet(k, i, v) ==
    IF k = None THEN Throws(k)
    ELSE IF i < 0 THEN Ok(k, None)
    ELSE Ok([j \in 1..(IF i < Len(k) THEN Len(k) ELSE i + 1) |->
                IF j = i + 1 THEN v ELSE At(k, j)], None)

LLen(k) == IF k = None THEN NotFound(k) ELSE Ok(k, Len(k))

\* A position of slice and splice: below zero it counts from the end.
Position(i, len) ==
    LET p == IF i < 0 THEN len + i ELSE i
    IN  IF p < 0 THEN 0 ELSE IF p > len THEN len ELSE p

FromEnd(i, len) == IF i < 0 THEN len + i ELSE i

LRange(k, start, stop) ==
    IF k = None THEN NotFound(k)
    ELSE IF k = <<>> THEN Ok(k, <<>>)
    ELSE LET last == IF FromEnd(stop, Len(k)) >= Len(k) THEN Len(k) - 1
                     ELSE FromEnd(stop, Len(k))
         IN  Ok(k, SubSeq(k, Position(FromEnd(start, Len(k)), Len(k)) + 1,
                          Position(last + 1, Len(k))))

LPush(k, v) == Ok(<<v>> \o Array(k), None)

LPushX(k, vs) == Ok(vs \o Array(k), None)

LPop(k) ==
    IF Array(k) = <<>> THEN NotFound(k) ELSE Ok(Tail(k), Head(k))

RPush(k, v) == Ok(Append(Array(k), v), None)

RPushX(k, vs) == Ok(Array(k) \o vs, None)

RPop(k) == IF Array(k) = <<>> THEN NotFound(k) ELSE Ok(Front(k), Last(k))

LInsert(k, i, v) ==
    IF k = None THEN Throws(k)
    ELSE Ok(InsertAt(k, Position(i, Len(k)) + 1, v), None)

LRemove(k, i) ==
    IF k = None THEN Throws(k)
    ELSE LET at == Position(i, Len(k)) + 1
         IN  IF at > Len(k) THEN Ok(k, None) ELSE Ok(RemoveAt(k, at), k[at])
=============================================================================
