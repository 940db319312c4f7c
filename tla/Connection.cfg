SPECIFICATION FairSpec
CONSTANTS
    MaxRequests = 4
    Throwing <- SecondRequest
    Unparsable <- FourthRequest
    Faults <- BothEnds
INVARIANTS
    TypeOK
    AtMostOneInFlight
    FrontExists
    ServerAlternates
    StopsOnlyByThrow
PROPERTIES
    ChannelSpec
    EveryRequestAnswered
CHECK_DEADLOCK FALSE
