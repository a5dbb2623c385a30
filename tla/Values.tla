------------------------------- MODULE Values -------------------------------
(***************************************************************************)
(* The ways a value a contract stores takes (core/serializable.ts): a copy *)
(* of it in the JSON store, a JSON text in a row, a file or a transaction, *)
(* and an expression in the redo log.                                      *)
(*                                                                         *)
(* A value is a pair of its kind and what it holds: undefined, null and    *)
(* NaN hold nothing, a number an integer, a string, a BigNumber or a       *)
(* Buffer its characters or digits, an array a sequence of values, an      *)
(* object a function from its keys.  Error stands for an exception.        *)
(***************************************************************************)
EXTENDS Integers, SequencesExt

Null  == <<"null">>
Error == <<"error">>

Kind(o) == o[1]
Held(o) == o[2]

Plain == {"undefined", "null", "NaN", "number", "boolean"}

\* What the kinds of the members make of an array or object.
Members(o) == {Held(o)[i] : i \in DOMAIN Held(o)}
Whole(o) == IF Error \in Members(o) THEN Error ELSE o
Each(o, Op(_)) == Whole(<<Kind(o), [i \in DOMAIN Held(o) |-> Op(Held(o)[i])]>>)

RECURSIVE DeepCopy(_)
DeepCopy(o) ==
    CASE Kind(o) \in Plain \cup {"string", "BigNumber", "Buffer"} -> o
      [] Kind(o) \in {"Array", "Map", "Object"} -> Each(o, DeepCopy)
      [] OTHER -> Error

-----------------------------------------------------------------------------
(* JSON.  A string tells by its first character what it was.               *)

RECURSIVE ToStringifiable(_)
ToStringifiable(o) ==
    CASE Kind(o) \in Plain -> o
      [] Kind(o) = "string"    -> <<"string", <<"s">> \o Held(o)>>
      [] Kind(o) = "BigNumber" -> <<"string", <<"n">> \o Held(o)>>
      [] Kind(o) = "Buffer"    -> <<"string", <<"b">> \o Held(o)>>
      [] Kind(o) \in {"Array", "Object"} -> Each(o, ToStringifiable)
      [] OTHER -> Error

\* JSON.parse of JSON.stringify: there is neither NaN nor undefined in JSON.
RECURSIVE Json(_)
Json(o) ==
    CASE Kind(o) \in {"NaN", "undefined"} -> Null
      [] Kind(o) = "Array" -> Each(o, Json)
      [] Kind(o) = "Object" ->
            LET defined == {i \in DOMAIN Held(o) : Kind(Held(o)[i]) # "undefined"} IN
            Each(<<"Object", [i \in defined |-> Held(o)[i]]>>, Json)
      [] OTHER -> o

RECURSIVE FromStringifiable(_)
FromStringifiable(v) ==
    CASE Kind(v) = "string" ->
            IF Held(v) = <<>> THEN Error
            ELSE CASE Head(Held(v)) = "s" -> <<"string", Tail(Held(v))>>
                   [] Head(Held(v)) = "b" -> <<"Buffer", Tail(Held(v))>>
                   [] Head(Held(v)) = "n" -> <<"BigNumber", Tail(Held(v))>>
                   [] OTHER -> Error
      [] Kind(v) \in {"Array", "Object"} -> Each(v, FromStringifiable)
      [] OTHER -> v

\* A value read back from a row, a file or a transaction.
Stored(o) == IF ToStringifiable(o) = Error THEN Error
             ELSE FromStringifiable(Json(ToStringifiable(o)))

-----------------------------------------------------------------------------
(* The redo log is evaluated as a program.                                 *)

\* The expression of a value: an array or object of expressions, a call or a
\* literal.  JSON.stringify writes NaN as null; an undefined element leaves
\* nothing between the commas, and nothing at all at the end.
RECURSIVE ToEvalText(_)
ToEvalText(o) ==
    CASE Kind(o) = "NaN" -> Null
      [] Kind(o) \in Plain \cup {"string"} -> o
      [] Kind(o) = "BigNumber" -> <<"new", <<"BigNumber", Held(o)>>>>
      [] Kind(o) = "Buffer"    -> <<"from", <<"Buffer", Held(o)>>>>
      [] Kind(o) = "Array" ->
            LET holed == [i \in DOMAIN Held(o) |-> ToEvalText(Held(o)[i])] IN
            IF holed # <<>> /\ Kind(Last(holed)) = "undefined"
            THEN Whole(<<"Array", Front(holed)>>) ELSE Whole(<<"Array", holed>>)
      [] Kind(o) = "Object" -> Each(o, ToEvalText)
      [] OTHER -> Error

RECURSIVE Evaluated(_)
Evaluated(e) ==
    CASE Kind(e) \in {"new", "from"} -> Held(e)
      [] Kind(e) \in {"Array", "Object"} -> Each(e, Evaluated)
      [] OTHER -> e

-----------------------------------------------------------------------------
(* The values a contract may store and have back, two levels deep.  Not    *)
(* among them: undefined and NaN, which JSON does not know, and maps.      *)

Leaf == {Null, <<"number", 0>>, <<"boolean", TRUE>>, <<"string", <<>>>>,
         <<"string", <<"n", "1">>>>, <<"string", <<"b">>>>,
         <<"BigNumber", <<"1">>>>, <<"Buffer", <<>>>>, <<"Buffer", <<"f", "f">>>>}

Over(members) ==
    {<<"Array", a>> : a \in BoundedSeq(members, 2)}
    \cup {<<"Object", f>> : f \in UNION {[keys -> members] : keys \in SUBSET {"k", "l"}}}

Storable == Leaf \cup Over(Leaf) \cup
            Over(Over({Null, <<"string", <<"n", "1">>>>, <<"BigNumber", <<"1">>>>}))

\* A value is the same however it is kept: copied, read back from JSON or from
\* the redo log.  A string that looks like a number stays a string.
ValuesSurvive ==
    \A v \in Storable : DeepCopy(v) = v /\ Stored(v) = v /\ Evaluated(ToEvalText(v)) = v
=============================================================================
