CONSTANTS
    MaximumMessageLength = 24
    MaximumLineLength = 24
    MaximumProtocolVersion = 12
    MaximumTokenLength = 2
    MaximumPayloadLength = 2
    MaximumDelivered = 10
    MaximumIntegerDigits = 2
    MaximumUnsigned = 25
    Spelling <- MCSpelling
    SentMessages <- MCMessages
    SpoilingBytes <- MCSpoilingBytes
    MaxSpoiled = 1
    MaxLines = 2
    Commands <- MCCommands
    MaxTroubles = 2
    Silences = {FALSE}
    Payloads = {"none", "wifi", "guest", "wide", "bad"}
    NoPayload = "none"
    Counts = {0}
    PayloadText <- MCPayloadText
    PeerCapacity = 2
    WifiPayload = "wifi"
    GuestPayload = "guest"
    BadPayloads = {"bad"}
    LogCapacity = 2
SPECIFICATION Spec
INVARIANTS
    HoldsWhatArrived
    VerdictIsOfItsLineAlone
    AcceptedMessagesReencode
    BookBalances
    RecordsEncodeUntilPressed
PROPERTIES
    MessagesSurvive
CHECK_DEADLOCK FALSE
