CONSTANTS
    Payloads = {"none", "wifi"}
    NoPayload = "none"
    Counts = {0, 1}
    CounterModulus = 2
    PartialsBeforeForcedFull = 2
    Views <- MCFewViews
SPECIFICATION FairSpec
PROPERTIES
    UsbFailureAppears
