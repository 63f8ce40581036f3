SPECIFICATION LiveSpec
CONSTANTS
    Apps = {a1}
    Recs = {r1}
    NoOne = NoOne
    MaxListeners = 2
    MaxCalls = 3
    MaxFaults = 1
    Orders = {"GO_AWAY", "RECONNECT_ICE"}
INVARIANTS
    TypeOK
    RefusedOnlyWhenDisconnected
    FreedAfterListener
PROPERTIES
    CallsReturn
    
CHECK_DEADLOCK FALSE
