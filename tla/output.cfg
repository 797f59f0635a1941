SPECIFICATION Spec
CONSTANTS
    Sizes <- MCSizes
    PipeSize = 5
    MaxMessages = 5
    Patient = TRUE
INVARIANTS
    TypeOK
    BufferDrained
PROPERTIES
    AnswersArrive
