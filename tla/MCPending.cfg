CONSTANTS
    alice = alice
    a0 = a0  a0x = a0x  a1 = a1  a1again = a1again
    Address = {alice}
    Tx = {a0, a0x, a1, a1again}
    Hash <- TxHash
    From <- TxFrom
    Nonce <- TxNonce
    Fee <- TxFee
    Cost <- TxCost
    Funds <- AddressFunds
    MayExpire = {a1}
    MaxCount = 2
    MaxTips = 2
    MaxFault = 1
SPECIFICATION PoolFairSpec

    
PROPERTIES
    LeavesForAReason
    QueueDrains
CHECK_DEADLOCK FALSE
