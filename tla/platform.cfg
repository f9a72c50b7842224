SPECIFICATION PlatformSpec
CONSTANTS
    Client = {"player"}
    State = {"play", "stop"}
    Hint = {"play", "stop"}
    MaxTrid = 2
    MaxCalls = 1
    MediaGroup = {"ringtone", "alarm"}
    Level <- Levels
    MediaSessions = 2
    MediaChanges = 3
    MediaQueue = 2
    Prof = {"general", "silent"}
    Field = {"volume", "tone"}
    ProfileValues <- Profiles
    ProfileChanges = 3
    ProfileRestarts = 2
    MdmName = {"n1", "n2"}
    MdmValue = {"on", "off"}
    Default = "off"
    MdmRequests = 3
    MdmRestarts = 2
    Devices <- Configured
    Unknown = "other"
    Feature = {"f"}
    RouteChanges = 3
    TimerId = {"i1", "i2"}
    Callback = {"c1", "c2"}
    MaxSources = 4
    Lamp = {"off", "on", "dim"}
    LampClient = {"c1"}
    LampRequests = 2
    LampDecisions = 2
    Pid = {1, 2}
    Addr = {"a"}
    Creds <- Asked
    Cred = {"c", "d"}
    HAVE_CREDS = TRUE
    MAX_CREDS = 2
    AuthRequests = 2
    AuthChanges = 3
    EpCallback <- Callbacks
    EpSignal <- Signals
    EpTransactions = 2
    HalDevice = {"u1"}
    Capability = {"c1", "c2"}
    Observer = {"o1", "o2"}
    HalChanges = 2
    HalRestarts = 1
    Decorations = 2
    ConfKey <- Keys
    Preload <- Preloaded
    ConfValue <- Values
    ConfChanges = 2
    ConfObservers = 2
    BtDev = {1}
    BtChanges = 5
    BtInFlight = 3
    StreamSet = {"set1","set2"}
    StreamClass = {"ringtone","proclaimer"}
    GivenGroup = {"ringtone","unset"}
    NoGroup = "unset"
    StreamApp = {"app"}
    Pattern = {"p1"}
    StreamPid = {"pid1","pid2"}
    Proclaimer = "proclaimer"
    AlwaysOn = "alwayson"
    MaxFacts = 5
    JackSwitch = {"headphone","microphone","physical"}
    JackRetries = 1
    JackEvents = 2
    BluezDev = {1,2}
    BluezUuids <- Uuids
    BluezCalls = 2
    BluezSignals = 3
    WindowSize = 3
    IowaitRate = {0, 40, 100}
    ThresLow = 20
    ThresHigh = 60
    PollLow = 2
    PollHigh = 10
    StartupDelay = 30
    QueueLength = {0, 5, 9}
    QueueLow = 2
    QueueHigh = 8
    MaxSamples = 6
    Listener = {"c1", "c2"}
    Application = {"a", "b"}
    NoApp = "none"
    ListenerCalls = 2
    ForegroundChanges = 2
INVARIANTS
    LoadAndForegroundTold
    CurvesAsWritten
    AccessoriesFollowed
    VideoFollowed
    SessionBusFollowed
    MediaFollowed
    SettingsFollowed
    ClientsSeeRoutes
    RunsWhatWasAsked
    ObserversTold
    StreamsFollowed
    PlayersServed
PROPERTIES
    DecisionsDeferred
CHECK_DEADLOCK FALSE
