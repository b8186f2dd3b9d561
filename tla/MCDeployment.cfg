\* Two deployments, two extensions, two machines; one of each is within reach of
\* the scripts run by hand; the command register-tee has by default;
\* three symbols for test-setup, in two pairs, with room for abandoned tokens.
CONSTANTS
    MaxSenders = 2
    MaxExtensions = 2
    MaxMachines = 2
    RegisteredByHand = {2}
    RetiredByHand = {1}
    Commands = {{"r", "a", "p"}}
    Governances = {"node"}
    NodeGovernance = "node"
    Epochs = {1, 2, 3}
    Symbols = 3
    MaxTokens = 5
    Contracts = {1, 2}
    MaxAttempts = 2
SPECIFICATION MCSpec
INVARIANTS DeploymentTypeOK EnvNamesContractsExtension FreshReportIsTrue
    CleanReport PreBuildVerifies PairsNameTokens SetupKeepsWord
PROPERTIES HealthyStays RotationConverges
CHECK_DEADLOCK FALSE
