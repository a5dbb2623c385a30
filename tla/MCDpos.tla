------------------------------- MODULE MCDpos -------------------------------
(* Three producers, two of them the first candidates, and one voter.         *)
EXTENDS Dpos

CONSTANTS p1, p2, p3, v

MCHashOrder == <<p1, p2, p3>>
MCMiners == <<p1, p2>>

\* The first and another change places: which one depends on the time.
MCShuffled(list, now) ==
    LET j == (now % Len(list)) + 1 IN [list EXCEPT ![1] = list[j], ![j] = list[1]]

Stake == [op |-> "mortgage", from |-> v, amount |-> 1]
Choose(ps) == [op |-> "vote", from |-> v, choice |-> ps]
Join(p) == [op |-> "register", from |-> p]
TakeBack(n) == [op |-> "unmortgage", from |-> v, amount |-> n]

\* Taking two back is refused the first time, and takes all the second time.
MCContents == {<<>>,
               <<Join(p3), Stake, Choose({p1, p3}), TakeBack(2)>>,
               <<Stake, Choose({p2, p3}), Stake, TakeBack(1)>>}
=============================================================================
