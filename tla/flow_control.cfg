SPECIFICATION Spec
CONSTANTS
    SeqMod = 16
    InitialWindow = 4
    Windows = {4, 5, 6}
    MaxWindow = 6
    MaxFrame = 4
    Bytes = 40
    ChangeUntil = 5
INVARIANTS TypeOK CreditNeverExceeded NoProtocolViolation
PROPERTIES LimitNeverShrinks ImplementsPipe
