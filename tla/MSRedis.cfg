SPECIFICATION FairSpec
CONSTANTS
    Clients = {c1, c2, c3}
    Users = {u1, u2}
    Stock = 2
    Retries = 1
INVARIANTS TypeOK OversellBound RepeatBound SoldIsRecorded
PROPERTIES SoldOutSettles
