\* Safety of the node's transaction handlers under concurrent RPC callers.
CONSTANTS
    c1 = c1
    c2 = c2
    k1 = k1
    k2 = k2
    NoOwner = NoOwner
    Callers <- MCCallers
    Keys <- MCKeys
SPECIFICATION Spec
SYMMETRY MCSymmetry
INVARIANT NoLostPuts
\* A handler that returns holding txmu blocks every later call: the model
\* really stops there (that hang is what MC_NodeTx_hang.cfg shows).
CHECK_DEADLOCK FALSE
