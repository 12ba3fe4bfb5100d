CONSTANTS
    MaximumMessageLength = 24
    MaximumLineLength = 24
    MaximumProtocolVersion = 12
    MaximumTokenLength = 2
    MaximumPayloadLength = 2
    MaximumDelivered = 10
    MaximumIntegerDigits = 2
    MaximumUnsigned = 25
    Spelling <- MCSpelling
    SentMessages <- MCPressMessages
    SpoilingBytes <- MCSpoilingBytes
    MaxSpoiled = 0
    MaxLines = 3
    Commands <- MCDemoCommands
    MaxTroubles = 2
    Silences = {FALSE}
    Payloads = {"none", "wifi", "guest", "wide", "bad"}
    NoPayload = "none"
    Counts = {0}
    PayloadText <- MCPayloadText
    PeerCapacity = 2
    WifiPayload = "wifi"
    GuestPayload = "guest"
    BadPayloads = {"bad"}
    LogCapacity = 2
SPECIFICATION Spec
PROPERTIES
    HelloIsAnswered
CHECK_DEADLOCK FALSE
