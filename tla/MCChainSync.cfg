SPECIFICATION Spec
CONSTANTS
    None = None
    Block = {"g", "a1", "a2", "m2", "m3", "b1", "b2", "b3"}
    Genesis = "g"
    Parent <- MCParent
    Height <- MCHeight
    Peer = {"p", "q"}
    Tips <- MCTips
    Bad = {"b3"}
    Mined = {"m2"}
    ReqLimit = 1
    ConfirmDepth = 1
    InitPeers = 1
    MaxTrouble = 1
INVARIANTS
    BestChainHolds
    HonestNotBanned
PROPERTIES
    FollowsPeer
CHECK_DEADLOCK FALSE
