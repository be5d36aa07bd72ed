\* A second of two ticks; the other peer only fails.
SPECIFICATION Spec
CONSTANTS
    Worlds <- MCWorlds
    Requests <- MCRequests
    Peers <- MCPeers
    Second = 2
INVARIANTS TypeOK StartsAsConfigured GateIsExact NoTokenDownstream
PROPERTIES OneLinePerSecond FailuresSurface
CHECK_DEADLOCK FALSE
