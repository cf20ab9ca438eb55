\* sendErr drops its error when the consumer is not waiting on the unbuffered results channel.
CONSTANTS
    q1 = q1
    q2 = q2
    NoOffer = NoOffer
    Providers <- MCProviders
    MaxLoads <- MCMaxLoads
SPECIFICATION Spec
INVARIANT LoadReportsOutcome
SYMMETRY MCSymmetry
CHECK_DEADLOCK FALSE
