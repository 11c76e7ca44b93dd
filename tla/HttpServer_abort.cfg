\* A request line with a known method and an unknown version, cut into two segments.
CONSTANTS
    Requests <- BadVersionRequests
    MaxRequests = 1
    Callback = "app"
    PathHas <- MCPathHas
SPECIFICATION Spec
CHECK_DEADLOCK FALSE
INVARIANT NoAbort
