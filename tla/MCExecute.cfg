\* Three routines of one miner, blocks of one or two transactions, two blocks high.
SPECIFICATION WorkerSpec
CONSTANTS
    None = None
    Sys = Sys
    alice = alice
    bob = bob
    Account <- MCAccount
    Coinbase = bob
    Balance <- MCBalance
    Wage = 1
    Content <- MCContent
    Name = {1, 2, 3}
    MaxHeight = 2
    Field <- MCField
    Value <- MCValue
    MaxList = 3
    Nil = Nil
INVARIANTS
    MoneyConserved
    NoncesAreUsed
    RedoMatches
    MinerIsWorking
    StoresAgree
CHECK_DEADLOCK FALSE
