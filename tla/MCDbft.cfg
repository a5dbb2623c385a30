CONSTANTS
    n1 = n1  n2 = n2  n3 = n3
    Validators <- ThreeValidators
    AgreeRateNumerator = 2
    AgreeRateDenominator = 3
    ReSelectionBlocks = 10
    MaxView = 1
    MaxHeight = 1
    MaxBlocks = 2
    MaxTimeout = 2
SPECIFICATION Spec
INVARIANTS
    AgreementHolds
    QuietViewMines
CHECK_DEADLOCK FALSE
