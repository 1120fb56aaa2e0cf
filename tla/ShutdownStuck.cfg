SPECIFICATION LiveSpec
CONSTANTS
    Clients = {c1}
    Recorder = recorder
PROPERTY ShutsDownShortly
CHECK_DEADLOCK FALSE
