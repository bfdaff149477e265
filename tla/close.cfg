SPECIFICATION Spec
CONSTANTS
    Peers = {a, b}
    Talkers = {a}
    MaxMessages = 1
    MaxCloses = 2
    Verdicts = {"accept", "decline", "notify"}
    MayTimeOut = TRUE
    MayBreak = TRUE
INVARIANTS Unaccused Agreement
PROPERTIES AnsweredFirst RemovedByConsent CloseReturns
