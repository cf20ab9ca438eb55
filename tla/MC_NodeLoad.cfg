\* Three successive Loads of one root with two providers: a Load reports
\* Completed only once the root is in the Index.
CONSTANTS
    q1 = q1
    q2 = q2
    NoOffer = NoOffer
    Providers <- MCProviders
    MaxLoads <- MCMaxLoads
SPECIFICATION Spec
SYMMETRY MCSymmetry
INVARIANT CompletedImpliesIndexed
\* The node stops after MaxLoads Loads, or when a Load panics.
CHECK_DEADLOCK FALSE
