\* register-tee resumed from the state file of a run that died before its last step.
CONSTANTS
    MaxSenders = 2
    MaxExtensions = 2
    MaxMachines = 2
    RegisteredByHand = {2}
    RetiredByHand = {1}
    Commands = {{"r", "a", "p"}}
    Governances = {"node"}
    NodeGovernance = "node"
    Epochs = {1, 2, 3}
    Symbols = 3
    MaxTokens = 5
    Contracts = {1, 2}
    MaxAttempts = 2
SPECIFICATION MCSpec
INVARIANTS ResumedReportIsTrue
CHECK_DEADLOCK FALSE
