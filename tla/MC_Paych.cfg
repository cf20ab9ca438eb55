\* Safety and liveness of the channel lifecycle as the source implements it.
CONSTANTS
    r1 = r1
    r2 = r2
    r3 = r3
    Reqs <- MCReqs
    Amounts <- MCAmounts
    MaxMsgs <- MCMaxMsgs
SPECIFICATION FairSpec
INVARIANT TypeOK
INVARIANT AmountMatchesChain
INVARIANT IInv
INVARIANT FundsInv
INVARIANT FundedCoversResolved
PROPERTY AmountOnlyCredited
PROPERTY MergedResolved
\* An idle manager with every request issued and answered really stops.
CHECK_DEADLOCK FALSE
