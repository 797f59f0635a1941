SPECIFICATION Spec
CONSTANTS
    a = a
    b = b
    t1 = t1
    t2 = t2
    NoText = NoText
    Torn = Torn
    Uris <- OneUri
    Texts <- OneText
    MaxVersion = 1
    MaxMessages = 1
    MaxChanges = 1
    Methods <- AllMethods
    PipeStalls = FALSE
    WriterPriority = FALSE
INVARIANT IndexFilesLive
