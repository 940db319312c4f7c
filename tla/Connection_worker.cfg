SPECIFICATION Spec
CONSTANTS
    MaxRequests = 2
    Throwing <- SecondRequest
    Unparsable <- NoRequest
    Faults <- NoEnd
INVARIANTS
    WorkerKeepsWorking
CHECK_DEADLOCK FALSE
