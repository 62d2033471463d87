SPECIFICATION SessionSpec
CONSTANTS
    read = read
    mcp = mcp
    Words = {read, mcp}
    Long = {mcp}
    ToolSets <- TwoSets
    Settings <- SomeSettings
    OtherRole = TRUE
    MaxMessages = 5
    MaxCalls = 2
    MaxResults = 2
    MaxChanges = 1
INVARIANTS
    Paired
    KeyTellsApart
    WellFormed
    NamesKnown
    TextsKept
PROPERTY OneConversation
