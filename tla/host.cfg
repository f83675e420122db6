SPECIFICATION FairHostSpec
CONSTANTS
    Entries <- Directory
    Calls <- BusyCalls
    Op <- BusyOp
    GlobalConfig <- OneInvalid
    EnvOverride <- AllValid
    StepPool <- Services
    MaxSteps = 3
    StartCalls <- Two
    Steps <- ShutdownSteps
    Signals <- Three
    CheckNames <- Three
    Polls = {1}
    MaxStamp = 3
    AdapterKinds <- AllKinds
    AdapterCallers <- Two
    AdapterRequests <- Two
    AdapterCommands <- Asks
    ApiRequests <- Two
    Specs <- ApiModules
    Owner = {"RUNNING"}
    Parts = {"startup", "shutdown", "plugins", "discovery", "loader", "bus",
             "dependencies", "checks", "monitor", "telemetry", "config", "ways",
             "terminal", "inbound", "api", "graph", "canvas", "layouts",
             "page", "scripts"}
INVARIANTS
    HostTypeOK
    StatusTellsWhatIsUp
    BlockedMeansUnorderable
    AskedInOrder
    PhaseTellsWhatWasAsked
    LoadsHandleEverything
    ReportsTellTheProbes
    ReportsCoverTheChecks
    InputsAreReadRight
    AdaptersTellWhatIs
    AnswersMatchTheKernel
    PagesShowTheLastAnswer
PROPERTIES
    ShutdownIsOrderly
    CallersAreAnswered
CHECK_DEADLOCK FALSE
