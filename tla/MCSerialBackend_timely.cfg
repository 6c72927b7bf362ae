\* Four calls of up to three attempts; answers come in time or not at all.
SPECIFICATION FairSpec
CONSTANTS
    MaxAttempts = 3
    AnswersLate = FALSE
    MaxSubmits = 4
INVARIANTS
    TypeOK
PROPERTIES
    ExchangesBeginQuiet
    ContractIsKept
    CallsEnd
CHECK_DEADLOCK FALSE
