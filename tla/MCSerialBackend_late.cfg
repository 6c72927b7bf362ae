\* Answers may come late: to a retry, or to the next call.
SPECIFICATION Spec
CONSTANTS
    MaxAttempts = 2
    AnswersLate = TRUE
    MaxSubmits = 2
INVARIANTS
    AnswersItsOwn
CHECK_DEADLOCK FALSE
