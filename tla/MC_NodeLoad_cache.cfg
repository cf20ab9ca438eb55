\* Load caches the offer of an index-only transfer before SetRef, and keeps it when SetRef fails.
CONSTANTS
    q1 = q1
    q2 = q2
    NoOffer = NoOffer
    Providers <- MCProviders
    MaxLoads <- MCMaxLoads
SPECIFICATION Spec
INVARIANT CachedOfferIndexed
SYMMETRY MCSymmetry
CHECK_DEADLOCK FALSE
