SPECIFICATION LiveSpec
CONSTANTS
    Clients = {c1, c2}
    Recorder = recorder
INVARIANTS
    IInv
    ExitAfterDrain
    SendersNeverBlock
PROPERTIES
    RecorderLetsGo
    CancellationStopsAll
    StopsWhenClientsLeave
CHECK_DEADLOCK FALSE
