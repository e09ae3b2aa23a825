SPECIFICATION Spec
CONSTANTS
    Session = {2, 3}
    RingSize = 2
    MaxRequests = 3
    MaxMessages = 1
    Endpoints <- AllKinds
INVARIANTS
    TypeOK
    PromiseSetOnce
PROPERTIES
    AnswersFindTheirRequest
    ImplementsMailroom
CHECK_DEADLOCK FALSE
