SPECIFICATION Spec
CONSTANTS
    Vocabularies <- OnlyRelativeEval
    MaxArgs = 3
    MaxCommands = 5
INVARIANTS
    LexicalAgreement
