SPECIFICATION Spec
CONSTANTS
    Clients <- AllClients
    Sizes <- MCSizes
    MaxMessages = 3
INVARIANTS
    TypeOK
    BadLengthIsSurvived
PROPERTIES
    DeliversAll
    RecoversAtNewline
    EndsWithInput
