CONSTANTS
    Payloads = {"none", "wifi", "guest"}
    NoPayload = "none"
    Counts = {0}
    QueueDepth = 2
    RetryInterval = 2
    MaxElapsed = 1
    CounterModulus = 1
    PeerCapacity = 2
    WifiPayload = "wifi"
    GuestPayload = "guest"
    PipeBound = 2
    UserPresses <- MCKey0Short
    Commands = {}
    PeerModes <- MCDemo
    BadPayloads = {}
    Unencodable = {}
    Searches = {TRUE}
    HostSleeps = TRUE
SPECIFICATION LiveSpec
PROPERTIES
    RecordArrives
