SPECIFICATION Spec
CONSTANTS
    Vocabularies <- AllVocabularies
    MaxArgs = 3
    MaxCommands = 5
INVARIANTS
    TypeOK
    NamespaceTree
    CallsResolve
    PrintedNames
    LexicalAgreement
    AnswersIncludeTheCall
    FittingDefinition
PROPERTIES
    IndexedCallsOnlyRead
