CONSTANTS
    FAST_PERIODIC_TIME = 1
    SLOW_PERIODIC_TIME = 2
    NodeAddr = "me"
    MAX_ARP_RETRIES = 2
    TIMEOUT = 1
    UpperTimeout = 1
    Station <- MCStation
    SwitchStates <- MCSwitchStates
    Scenarios <- MCScenarios
    MaxRx = 1
SPECIFICATION Spec
INVARIANTS RightStation OwnAnswerKept PartnerFresh
PROPERTIES TransmitReturns
