CONSTANTS
    Login = {l1, l2}
    Query = {q1, q2}
    Workers = 2
    PoolSize = 2
    MaxCalls = 2
SPECIFICATION FairSpec
INVARIANT PTypeOK
INVARIANT SomeoneCanGoOn
PROPERTY StepsRunOut
PROPERTY RequestsEnd
PROPERTY OthersEnd
