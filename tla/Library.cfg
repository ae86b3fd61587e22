SPECIFICATION Spec
CONSTANTS
    Definitions <- MCDefinitions
    Tokens <- MCTokens
    Unit <- MCUnit
    Penalty <- MCPenalty
    RepoNames = {"r", "q"}
    Paths = {"P", "Q"}
    CoreNames = {"A", "B", "C"}
    Requests <- MCRequests
    HomeFiles <- MCHomeFiles
    Builtin <- MCBuiltin
    MaxCommands = 3
    MaxKills = 1
INVARIANTS
    TypeOK
    CoreIsRead
    InferredSound
PROPERTIES
    RepositoryKeeps
CHECK_DEADLOCK FALSE
