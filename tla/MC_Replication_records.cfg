\* Dispatch counts a client's retrieval of the root as a confirmation (spec 8, properties 4 and 5).
CONSTANTS
    p1 = p1
    p2 = p2
    p3 = p3
    o1 = o1
    Providers <- MCProviders
    Clients <- MCClients
    RF <- MCRF
    MaxAttempts <- MCMaxAttempts
SPECIFICATION Spec
INVARIANT RecordsFromDistinctProviders
\* Dispatch returns and the transfers end: the system really stops.
CHECK_DEADLOCK FALSE
