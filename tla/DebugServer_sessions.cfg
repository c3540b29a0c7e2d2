SPECIFICATION Spec
CONSTANTS
    MaxInt = 7
    Sources <- MCSources
    Layout <- MCLayout
    Snippets <- MCSnippets
    Storage <- MCStorage
    Calls <- HookCallsOf
    FunctionBreakpoints <- BodyBreakpoints
    Contracts <- MCContracts
    Modes = {"cli", "launch", "attach"}
    Debugged = {"inc"}
    Breakpoints <- MCBreakpoints
    Watchables <- MCWatchables
    Scripts <- MCScripts
    Blocking <- MCBlocking
    MaxPoints <- MCMaxPoints
    MaxInbox = 2
    MaxPauses = 1
INVARIANTS EditorIsNotStuck AnswersBelong
PROPERTIES  QuitRunsOn
CHECK_DEADLOCK FALSE
