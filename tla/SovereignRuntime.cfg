CONSTANTS
    a1 = a1
    a2 = a2
    a3 = a3
    Acts = {a1, a2, a3}
    Requests <- MCRequests
    Commands <- MCCommands
    Results = {v1, v2}
    Works = {w}
    NoCap = NoCap
    None = None
    Settings = {"production", "critical_zone", "emergency_stop"}
    MaxTime = 1
SYMMETRY Symmetry
SPECIFICATION Spec
INVARIANTS  ChainHolds
PROPERTY StopHolds
CHECK_DEADLOCK FALSE
