SPECIFICATION ConsoleSpec
CONSTANTS
    MAX_COL = 4
    MAX_ROW = 2
    MaxEvents = 4
    Welcome <- OneLine
    Messages <- OneMessage
    Reports <- OneReport
    ScanCodes <- Keys
    BeyondTable <- AnyOf
    Below <- BlankOrNot
INVARIANTS
    BlankBehind
PROPERTIES
    MessagesApart
    PromptBack
    ImplementsTerminal
CHECK_DEADLOCK FALSE
