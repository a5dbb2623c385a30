---------------------------- MODULE DposTipState ----------------------------
(***************************************************************************)
(* What a DPOS node derives from the headers of a branch: which blocks are *)
(* confirmed by enough producers to be irreversible                        *)
(* (core/dpos_chain/chain_state.ts).  A header is a record with its id,    *)
(* number and miner.                                                       *)
(***************************************************************************)
EXTENDS Integers, Sequences, FiniteSets, TLC, SequencesExt, FiniteSetsExt

CONSTANT ReSelectionBlocks

EmptyMap == [x \in {} |-> x]

\* The constructor: the number starts from 0 whatever the header's is.
NewTipState(lib) ==
    [tip |-> lib.id, tipNumber |-> lib.number, irr |-> 0, irrHash |-> lib.id,
     implied |-> EmptyMap, produced |-> EmptyMap, confirm |-> <<>>]

\* Array.sort without a comparison sorts numbers by their decimal digits (up to 99 here).
Digits(n) == IF n < 10 THEN <<n>> ELSE <<n \div 10, n % 10>>

DigitsBefore(a, b) ==
    LET x == Digits(a) y == Digits(b) IN
    \/ x[1] < y[1]
    \/ x[1] = y[1] /\ Len(x) < Len(y)
    \/ x[1] = y[1] /\ Len(x) = 2 /\ Len(y) = 2 /\ x[2] < y[2]

\* calcIrreversibleNumber: two thirds of those that imply a block imply this one or a later one.
CalcIrreversible(s) ==
    LET who     == SetToSeq(DOMAIN s.implied)
        numbers == SortSeq([i \in 1..Len(who) |-> s.implied[who[i]].number], DigitsBefore)
        irr     == numbers[((Len(numbers) - 1) \div 3) + 1]
        m       == CHOOSE x \in DOMAIN s.implied : s.implied[x].number = irr IN
    [s EXCEPT !.irr = irr, !.irrHash = s.implied[m].id]

\* Mutant: a miner's block confirms those before its last one again.
NumberPrevBlocks_All(s, header) == -1

\* getNumberPrevBlocks: the blocks since the miner's last one, -1 for a miner without one.
NumberPrevBlocks(s, header) ==
    IF header.miner \notin DOMAIN s.produced THEN -1
    ELSE IF s.produced[header.miner] = 0 THEN -1
    ELSE header.number - s.produced[header.miner]

NeedConfirm(miners) == (2 * Len(miners) + 2) \div 3

\* One less for the entries from this one on.
Counted(entries, from) ==
    [i \in DOMAIN entries |-> IF i < from THEN entries[i] ELSE [entries[i] EXCEPT !.count = @ - 1]]

\* The entry proved is a candidate: the entries up to it go.
Proposed(s, entries, at) ==
    CalcIrreversible(
        [s EXCEPT !.confirm = SubSeq(Counted(entries, at), at + 1, Len(entries)),
                  !.implied = (entries[at].miner :>
                                  [number |-> entries[at].number, id |-> entries[at].id]) @@ @])

\* Of the first entries with the same count only the last is kept.
Deduped(entries) ==
    LET run == {i \in 1..(Len(entries) - 1) :
                    entries[i].count # entries[i + 1].count /\ entries[i].count = entries[1].count} IN
    IF Len(entries) < 2 THEN entries
    ELSE IF run = {} THEN <<Last(entries)>>
    ELSE SubSeq(entries, Min(run), Len(entries))

\* promote: a new round is counted for its miners only.
Promote(s, miners) ==
    [s EXCEPT !.implied = [m \in Range(miners) |->
                  IF m \in DOMAIN @ THEN @[m] ELSE [number |-> s.irr, id |-> s.irrHash]],
              !.produced = [m \in Range(miners) |->
                  IF m \in DOMAIN @ THEN (IF @[m] = 0 THEN s.irr ELSE @[m]) ELSE s.irr]]

\* A block confirms the entries from low on, the latest first, until one has enough.
Confirm(s, entries, low, prev) ==
    LET enough == {i \in low..Len(entries) : entries[i].count = 1} IN
    IF enough # {}
    THEN [state |-> Proposed(s, entries, Max(enough)),
          dedupe |-> prev = Len(entries) - Max(enough) \/ Max(enough) = 1]
    ELSE [state |-> [s EXCEPT !.confirm = Counted(entries, low)],
          dedupe |-> prev = Len(entries) - low + 1 \/ low = 2]

\* The first entry it may confirm: those since its miner's last block, or all.
LowestEntry(prev, last) == IF prev = -1 \/ prev >= last THEN 1 ELSE last - prev + 1

Entered(s, header, miners) ==
    Append(s.confirm, [number |-> header.number, id |-> header.id,
                       miner |-> header.miner, count |-> NeedConfirm(miners)])

Tidied(c) == IF c.dedupe THEN [c.state EXCEPT !.confirm = Deduped(@)] ELSE c.state

Confirmed(s, entries, prev) == Tidied(Confirm(s, entries, LowestEntry(prev, Len(entries)), prev))

\* updateTip with a header that follows the tip, mined by one of these miners.
UpdateTip(s, header, miners) ==
    LET moved == [Confirmed([s EXCEPT !.produced = (header.miner :> header.number) @@ @],
                            Entered(s, header, miners), NumberPrevBlocks(s, header))
                  EXCEPT !.tip = header.id, !.tipNumber = header.number] IN
    IF header.number % ReSelectionBlocks = 0 THEN Promote(moved, miners) ELSE moved
=============================================================================
