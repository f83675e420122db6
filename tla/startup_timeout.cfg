SPECIFICATION HostSpec
CONSTANTS
    Entries <- Directory
    Calls <- BusyCalls
    Op <- BusyOp
    GlobalConfig <- OneInvalid
    EnvOverride <- AllValid
    StepPool <- Services
    MaxSteps = 3
    StartCalls <- Two
    Steps <- ShutdownSteps
    Signals <- Three
    CheckNames <- Three
    Polls = {1}
    MaxStamp = 3
    AdapterKinds <- AllKinds
    AdapterCallers <- Two
    AdapterRequests <- Two
    AdapterCommands <- Asks
    ApiRequests <- Two
    Specs <- ApiModules
    Owner = {"RUNNING"}
    Parts = {"startup"}
INVARIANT TimeoutRollsBack
CHECK_DEADLOCK FALSE
