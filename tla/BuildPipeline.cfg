\* Three calls, of one context or several, with modules added on the way.
CONSTANTS
    None = none
    Plugins <- ThePlugins
    Inputs = 1
    Transforms <- TheSteps
    Validations <- TwoEqual
    Outputs = {"kept", "direct"}
    Stored = {"kept"}
    Configured = {"d1"}
    Plain = {"d2"}
    MaxCalls = 3
    MaxMods = 3
SPECIFICATION Spec
INVARIANTS TypeOK ServedFromBirth StoredIsProcessed RunWritesProcessed
PROPERTIES WritesOwnContext OutputsStay HooksByPriority
CHECK_DEADLOCK FALSE
