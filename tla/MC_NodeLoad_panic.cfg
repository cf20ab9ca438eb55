\* The miner query dereferences the nil AddrInfo filMinerInfo returns with an error.
CONSTANTS
    q1 = q1
    q2 = q2
    NoOffer = NoOffer
    Providers <- MCProviders
    MaxLoads <- MCMaxLoads
SPECIFICATION Spec
INVARIANT NoNilDeref
SYMMETRY MCSymmetry
CHECK_DEADLOCK FALSE
