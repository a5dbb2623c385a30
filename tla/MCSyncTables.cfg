CONSTANTS
    alice = alice  bob = bob
    Transactions <- Sent
    Sys = "s"
    Canon <- Spelling
    Miners <- BothMine
    Genesis = {alice}
    nBatch = 2
    MaxChain = 3
    MaxFault = 1
    Question <- Questions
    Upper <- Capitals
    Symbol = "SYS"
    Watched <- WatchedTxs
    MaxWatched = 2
    None = None
SPECIFICATION ReadSpec
INVARIANTS
    TablesKeepUp
    AnswersHold
PROPERTIES
    RowsNeverGoBack
    QuestionsAreAnswered
CHECK_DEADLOCK FALSE
