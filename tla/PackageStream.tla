--------------------------- MODULE PackageStream ---------------------------
(***************************************************************************)
(* The packages of one connection as a stream of bytes: PackageStreamWriter *)
(* (core/net/writer.ts) lays them out, PackageStreamReader                 *)
(* (core/net/reader.ts) finds them again in the chunks the socket hands it. *)
(*                                                                         *)
(* A package is [id, body, data]: a name and two lengths.  A byte is       *)
(* [of, part, at]; the lengths are read from the package named by the      *)
(* header's bytes.  Headers are HeaderLength long (Package.headerLength,   *)
(* 16 in the code).                                                        *)
(***************************************************************************)
EXTENDS Integers, SequencesExt

CONSTANTS HeaderLength

ASSUME StreamConstants == HeaderLength \in Nat \ {0}

Part(pkg, part, length) == [at \in 1..length |-> [of |-> pkg, part |-> part, at |-> at]]

\* What fromPackage and writeData queue for one package, in order.
Bytes(pkg) == Part(pkg, "header", HeaderLength) \o Part(pkg, "body", pkg.body)
                  \o Part(pkg, "data", pkg.data)

Stream(pkgs) == FlattenSeq([i \in DOMAIN pkgs |-> Bytes(pkgs[i])])

NewReader == [state |-> "wait", pending |-> <<>>, pkg |-> <<>>, emitted |-> <<>>]

Has(r, n) == Len(r.pending) >= n

Popped(r, n) == SubSeq(r.pending, n + 1, Len(r.pending))

\* The header is read: its first byte says which package the lengths are of.
HeaderRead(r) == [r EXCEPT !.state = "body", !.pkg = Head(r.pending),
                           !.pending = Popped(r, HeaderLength)]

BodyRead(r) == [r EXCEPT !.state = "data", !.pending = Popped(r, r.pkg.of.body)]

DataRead_DropsRest(r) ==
    [r EXCEPT !.state = "wait", !.pending = <<>>,
              !.emitted = Append(@, [from |-> r.pkg,
                                     data |-> SubSeq(r.pending, 1, r.pkg.of.data)])]

\* A whole package is handed on; the state machine is ready for the next.
DataRead(r) ==
    [r EXCEPT !.state = "wait", !.pending = Popped(r, r.pkg.of.data),
              !.emitted = Append(@, [from |-> r.pkg,
                                     data |-> SubSeq(r.pending, 1, r.pkg.of.data)])]

\* One turn of the listener's states; it falls through from each to the next.
Step(r) ==
    LET s == IF r.state = "wait" THEN [r EXCEPT !.state = "header"] ELSE r IN
    CASE s.state = "header" /\ Has(s, HeaderLength) -> HeaderRead(s)
      [] s.state = "body" /\ Has(s, s.pkg.of.body) -> BodyRead(s)
      [] s.state = "data" /\ Has(s, s.pkg.of.data) -> DataRead(s)
      [] OTHER -> s

\* The loop ends when nothing is pending at the end of a package or when a
\* part is not yet complete; three steps make one turn.
Chunk(r, bytes) ==
    FoldLeft(LAMBDA s, i : IF s.state = "wait" /\ s.pending = <<>> THEN s ELSE Step(s),
             [r EXCEPT !.pending = @ \o bytes],
             [i \in 1..(3 * (Len(r.pending) + Len(bytes)) + 3) |-> i])

\* The bytes arrive in chunks: one ends after every position of cuts.
Arrive(s, i, bytes, cuts) ==
    IF i \in cuts \/ i = Len(bytes)
    THEN [reader |-> Chunk(s.reader, Append(s.chunk, bytes[i])), chunk |-> <<>>]
    ELSE [s EXCEPT !.chunk = Append(@, bytes[i])]

Read(bytes, cuts) ==
    FoldLeft(LAMBDA s, i : Arrive(s, i, bytes, cuts), [reader |-> NewReader, chunk |-> <<>>],
             [i \in DOMAIN bytes |-> i]).reader.emitted

\* Whatever the chunks, the reader hands on the packages that were written, in
\* order, each with its own data.
Unbroken(pkgs, cuts) ==
    Read(Stream(pkgs), cuts) =
        [i \in DOMAIN pkgs |-> [from |-> Part(pkgs[i], "header", 1)[1],
                                data |-> Part(pkgs[i], "data", pkgs[i].data)]]
=============================================================================
