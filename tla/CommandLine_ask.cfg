CONSTANTS
    None = None
    Invocations <- MCInvocations
    Letters = {"j", "z"}
    PageCount = 3
    Matches <- MCMatches
    Titled <- MCTitled
    FieldNames = {"id", "title"}
    MaxFields = 2
    MaxQuery = 2
    MaxScroll = 3
    HalfPage = 1
    FullPage = 2

SPECIFICATION Spec

INVARIANTS
    ScreensAreConsistent
    TerminalIsGivenBack

PROPERTIES
    PageStartsAtTop
    ResultIsComplete
