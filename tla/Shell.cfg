SPECIFICATION MCSpec
CONSTANTS
    Tokens = {"a", "|", "(", ")", ";", "&", "<", ">>"}
    MAXARGS = 3
    MaxTokens = 5
    Procs = {1, 2, 3, 4, 5}
    NOFILE = 7
    NFILE = 8
    Pipes = {i1, i2, i3}
    PIPESIZE = 1
    Names = {"f", "g", "h", "console"}
    none = none
    shell = 1
    init = init
    Lines <- MCLines
    MaxCommands = 2
    MaxForkFails = 1
    MaxOpen = 3
    Chars = {"a", ".", "*", "$", "^"}
    Letters = {"a", "b", "*", "$"}
    MaxPattern = 4
    MaxText = 3
    BUFSIZE = 5
    Inputs <- MCInputs
INVARIANTS
    FilesExact
    DescriptorsRight
    ParsesGrammar
    GrepRight
PROPERTY
    CommandsEnd
CHECK_DEADLOCK FALSE
