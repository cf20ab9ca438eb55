\* Every RPC call returns and releases txmu (violated: Get of the ongoing transaction's root, and Commit's error paths, return holding it).
CONSTANTS
    c1 = c1
    c2 = c2
    k1 = k1
    k2 = k2
    NoOwner = NoOwner
    Callers <- MCCallers
    Keys <- MCKeys
SPECIFICATION FairSpec
PROPERTY CallsComplete
\* The model stops once txmu is leaked; the property, not deadlock, is checked.
CHECK_DEADLOCK FALSE
