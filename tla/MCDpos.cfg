\* Seven blocks with the genesis block, rounds of two, one restart.
SPECIFICATION DposSpec
CONSTANTS
    Absent = Absent
    p1 = p1
    p2 = p2
    p3 = p3
    v = v
    Producer = {p1, p2, p3}
    Voter = {v}
    HashOrder <- MCHashOrder
    Shuffled <- MCShuffled
    ReSelectionBlocks = 2
    UnbanBlocks = 4
    TimeOffsetToLastBlock = 2
    TimeBan = 3
    Me = p1
    FirstMiners <- MCMiners
    FirstCandidates = {p1, p2}
    FirstSlot = 10
    Contents <- MCContents
    MaxBlocks = 7
    MaxSlot = 17
    MaxForks = 1
    MaxBusy = 2
    MaxRestarts = 1
INVARIANTS
    VotesAddUp
    RecordsMatchMiners
    LibIsConfirmed
CHECK_DEADLOCK FALSE
