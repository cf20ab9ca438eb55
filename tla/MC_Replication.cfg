\* Three providers, one retrieval client, RF = 2, two backoff attempts.
CONSTANTS
    p1 = p1
    p2 = p2
    p3 = p3
    o1 = o1
    Providers <- MCProviders
    Clients <- MCClients
    RF <- MCRF
    MaxAttempts <- MCMaxAttempts
SPECIFICATION FairSpec
INVARIANT TypeOK
INVARIANT ConfirmedProvidersHold
PROPERTY DispatchTerminates
\* Dispatch returns and the transfers end: the system really stops.
CHECK_DEADLOCK FALSE
