CONSTANTS
    Payloads = {"none", "wifi"}
    NoPayload = "none"
    Counts = {0, 1}
    CounterModulus = 2
    PartialsBeforeForcedFull = 2
    Views <- MCPanelViews
    PanelWidth = 32
    PanelHeight = 8
    ByteModulus = 4
    Box <- MCBox
    SideOf <- MCSideOf
SPECIFICATION PanelSpec
INVARIANTS
    TypeOK
    PanelIsNeverInterrupted
    GlassShowsOneState
    ResidueIsBounded
    MemoryIsTheFrame
    ModesMatch
    StreamsAreTheDrivers
    DrawingStaysInside
    CodesCanBeScanned
PROPERTIES
    GlassConverges
