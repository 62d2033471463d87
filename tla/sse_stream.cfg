SPECIFICATION Spec
CONSTANTS
    call1 = call1
    call2 = call2
    Texts <- SomeTexts
    BufferedTexts <- FewTexts
    SearchTexts <- Summaries
    SummaryChunk = 2
    Tools = {call1}
    MaxToolEvents = 2
INVARIANTS
    TypeOK
    NothingSwallowed
    SplitInvisible
    WholeMessage
PROPERTIES
    KeepsProtocol
