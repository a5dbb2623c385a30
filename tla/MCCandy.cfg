CONSTANTS
    q1 = q1  q2 = q2  q3 = q3
    alice = alice
    ReadTask = {}
    WriteTask = {q1, q2, q3}
    MayHang = {q1, q2, q3}
    AddressOf <- OneAddress
    TokenOf <- TwoTokens
    MaxPolls = 2
    MaxRpcFault = 2
    MaxDbFault = 1
    MaxCrash = 1
SPECIFICATION CandyFairSpec
INVARIANTS
    NoLockedOutAddress
    ReplyIsTrue
    OneCandyPerRow
PROPERTIES
    EveryCandyAnswered
CHECK_DEADLOCK FALSE
