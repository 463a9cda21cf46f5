SPECIFICATION FairSpec
CONSTANTS
    Clients = {c1, c2, c3}
    None = None
    MaxSent = 3
INVARIANTS InOrder AnswersGoForward
PROPERTIES ReplacedForGood EveryoneStored
CHECK_DEADLOCK FALSE
