CONSTANTS
    Payloads = {"none", "code"}
    NoPayload = "none"
    Counts = {0}
    QueueDepth = 2
    RetryInterval = 3
    MaxElapsed = 2
    CounterModulus = 2
    Records <- MCRecords
SPECIFICATION Spec
INVARIANTS
    TypeOK
    NothingOutlivesTheLink
    HelloLeads
PROPERTIES
    RecordIsHeard
    PressesAreAccountedFor
