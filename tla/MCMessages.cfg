\* Bytes of three bits: a word has six, a payload up to three data bytes.
SPECIFICATION ApiSpec
CONSTANTS
    BitsPerByte = 3
    Requests <- MCRequests
    Answers <- MCAnswers
    Units = {1, 2}
    Calls <- MCCalls
    Given <- MCGiven
    Strays <- MCStrays
INVARIANTS
    Transparent
    NothingMalformedGetsOut
    MeaningIsKept
    EndToEnd
    ErrorsAreClientErrors
