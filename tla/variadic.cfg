SPECIFICATION Spec
CONSTANTS
    Vocabularies <- OnlyVariadic
    MaxArgs = 3
    MaxCommands = 5
INVARIANTS
    ArgumentsCounted
