SPECIFICATION Spec
CONSTANTS
    Senders = {s1, s2}
    MaxCalls = 3
    MaxParts = 3
    Settings <- MixedSettings
    PatientParts = TRUE
    MayBreak = TRUE
INVARIANTS NoAccusation WithinLimit AnsNumbered
PROPERTIES ImplementsExchange CallReturns
