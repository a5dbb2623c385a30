---------------------------- MODULE DposElection ----------------------------
(***************************************************************************)
(* The election of DPOS producers (core/dpos_chain/consensus.ts) and what  *)
(* a block does to it after its transactions (dpos_chain/executor.ts): the *)
(* key-value "dpos" of the system database as a record of its hashes and   *)
(* lists.  Times are the slots of the blocks.                              *)
(***************************************************************************)
EXTENDS Integers, Sequences, FiniteSets, SequencesExt, FiniteSetsExt

CONSTANTS
    Absent,            \* a field that is not there
    Producer,        \* the addresses that may be candidates
    Voter,           \* the addresses that may stake and vote
    HashOrder,       \* the producers in the order hgetall answers them
    Shuffled(_, _),  \* _shuffle of a list with a block's time
    ReSelectionBlocks, UnbanBlocks, TimeOffsetToLastBlock, TimeBan

ASSUME DposElectionAssumption ==
    /\ Range(HashOrder) = Producer /\ Len(HashOrder) = Cardinality(Producer)
    /\ {ReSelectionBlocks, UnbanBlocks, TimeOffsetToLastBlock, TimeBan} \subseteq Nat \ {0}

\* BanStatus: from Ban on, the time a ban ends.
NoBan == 0
Delay == 1
Ban   == 2

\* Context.init of a genesis with its candidates and miners.
Genesis(candidates, miners) ==
    [candidate |-> [p \in Producer |-> IF p \in candidates THEN NoBan ELSE Absent],
     stake     |-> [v \in Voter |-> 0],
     producers |-> [v \in Voter |-> {}],
     vote      |-> [p \in Producer |-> 0],
     time      |-> [p \in Producer |-> Absent],
     next      |-> miners,
     propose   |-> miners]

-----------------------------------------------------------------------------
(* What transactions do.                                                   *)

\* _updatevote: an entry that comes to nothing is deleted.
UpdateVote(d, v, amount) ==
    [d EXCEPT !.vote = [p \in Producer |->
        IF p \in d.producers[v] THEN @[p] + amount ELSE @[p]]]

Mortgage(d, v, amount) == UpdateVote([d EXCEPT !.stake[v] = @ + amount], v, amount)

\* Mutant: the voter's choice is forgotten before its votes are taken back.
Unmortgage_ForgetsFirst(d, v, amount) ==
    IF d.stake[v] = 0 \/ d.stake[v] < amount THEN d
    ELSE LET less == [d EXCEPT !.stake[v] = @ - amount,
                               !.producers[v] = IF d.stake[v] = amount THEN {} ELSE @] IN
         UpdateVote(less, v, -amount)

\* unmortgage: the last of a stake takes the voter's choice with it.
Unmortgage(d, v, amount) ==
    IF d.stake[v] = 0 \/ d.stake[v] < amount THEN d
    ELSE LET less == UpdateVote([d EXCEPT !.stake[v] = @ - amount], v, -amount) IN
         [less EXCEPT !.producers[v] = IF d.stake[v] = amount THEN {} ELSE @]

\* getValidCandidates: a ban is a time, and no time is below NoBan.
ValidCandidates(d) == {p \in Producer : d.candidate[p] # Absent /\ d.candidate[p] >= NoBan}

Vote(d, v, choice) ==
    IF ~(choice \subseteq ValidCandidates(d)) \/ d.stake[v] = 0 \/ d.producers[v] = choice THEN d
    ELSE UpdateVote([UpdateVote(d, v, -d.stake[v]) EXCEPT !.producers[v] = choice], v, d.stake[v])

Register(d, p) == IF d.candidate[p] # Absent THEN d ELSE [d EXCEPT !.candidate[p] = NoBan]

\* One transaction of a block.
Transact(d, tx) ==
    CASE tx.op = "mortgage"   -> Mortgage(d, tx.from, tx.amount)
      [] tx.op = "unmortgage" -> Unmortgage(d, tx.from, tx.amount)
      [] tx.op = "vote"       -> Vote(d, tx.from, tx.choice)
      [] tx.op = "register"   -> Register(d, tx.from)

-----------------------------------------------------------------------------
(* What a block does after its transactions.                               *)

UpdateProducerTime(d, miner, now) == [d EXCEPT !.time[miner] = now]

\* unbanProducer
Unban(d, now) ==
    [d EXCEPT !.candidate = [p \in Producer |->
        IF @[p] # Absent /\ @[p] >= Ban /\ @[p] <= now THEN NoBan ELSE @[p]]]

\* The miners a loop over the list reaches before one without the field it needs.
Reached(list, field) ==
    {list[i] : i \in {j \in 1..Len(list) : \A k \in 1..j : field[list[k]] # Absent}}

\* checkIfNeedBan
CheckIfNeedBan(d, now) ==
    LET late == {m \in Reached(d.next, d.time) : now - d.time[m] >= TimeOffsetToLastBlock} IN
    [d EXCEPT !.candidate = [p \in Producer |-> IF p \in late THEN Delay ELSE @[p]]]

\* banProducer
BanDelayed(d, now) ==
    LET due == {m \in Reached(d.next, d.candidate) : d.candidate[m] = Delay} IN
    [d EXCEPT !.candidate = [p \in Producer |-> IF p \in due THEN now + TimeBan ELSE @[p]]]

\* getVote, by votes: ties keep the order of the hash.
Elected(d) ==
    LET has == SelectSeq(HashOrder, LAMBDA p : p \in ValidCandidates(d) /\ d.vote[p] # 0)
        at(p) == CHOOSE i \in DOMAIN has : has[i] = p IN
    SetToSortSeq(Range(has), LAMBDA p, q : d.vote[p] > d.vote[q]
                                            \/ (d.vote[p] = d.vote[q] /\ at(p) < at(q)))

\* finishElection: the elected are proposed, and the miners proposed by the
\* last irreversible block become the next ones.  The options that bound the
\* number of the elected are read under names nobody sets.
FinishElection(d, lib, now) ==
    LET creators == Elected(d) IN
    IF creators = <<>> \/ Len(creators) < Len(d.propose) THEN d
    ELSE [d EXCEPT !.propose = Shuffled(creators, now), !.next = lib.propose]

\* Mutant: the timers of those who left are kept.
MaintainProducer_Keeps(d, now) ==
    [d EXCEPT !.time = [p \in Producer |->
        IF p \in Range(d.next) /\ @[p] = Absent THEN now ELSE @[p]]]

\* maintain_producer: a timer for every next miner and for nobody else.
MaintainProducer(d, now) ==
    [d EXCEPT !.time = [p \in Producer |->
        IF p \notin Range(d.next) THEN Absent ELSE IF @[p] = Absent THEN now ELSE @[p]]]

\* A block at the end of a round.
ReSelect(d, lib, now) == FinishElection(BanDelayed(d, now), lib, now)

UnbanAt(d, number, now) == IF number % UnbanBlocks = 0 THEN Unban(d, now) ELSE d

\* What the number of a block calls for: an election, or the first timers.
AtRoundEnd(d, number, now, lib) ==
    IF number % ReSelectionBlocks = 0 THEN MaintainProducer(ReSelect(d, lib, now), now)
    ELSE IF number = 1 THEN MaintainProducer(d, now) ELSE d

\* DposBlockExecutor.executePostBlockEvent
PostBlock(d, number, miner, now, lib) ==
    AtRoundEnd(CheckIfNeedBan(UnbanAt(UpdateProducerTime(d, miner, now), number, now), now),
               number, now, lib)

\* The election after a block with these transactions.
AfterBlock(d, txs, number, miner, now, lib) ==
    PostBlock(FoldLeft(Transact, d, txs), number, miner, now, lib)

-----------------------------------------------------------------------------
IsElection(d) ==
    /\ d.candidate \in [Producer -> Nat \cup {Absent}]
    /\ d.stake \in [Voter -> Nat] /\ d.vote \in [Producer -> Nat]
    /\ d.producers \in [Voter -> SUBSET Producer]
    /\ d.time \in [Producer -> Nat \cup {Absent}]
    /\ {Range(d.next), Range(d.propose)} \subseteq SUBSET Producer

TotalShare(share) == MapThenSumSet(LAMBDA v : share[v], Voter)

\* The votes of each voter for p.
Share(d, p) == [v \in Voter |-> IF p \in d.producers[v] THEN d.stake[v] ELSE 0]

VotesOf(d, p) == TotalShare(Share(d, p))
=============================================================================
