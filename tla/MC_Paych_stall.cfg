\* Spec 4.6 step 4: a request queued behind an outstanding message is served once that message completes (violated: msgWaitComplete does not process the queue).
CONSTANTS
    r1 = r1
    r2 = r2
    r3 = r3
    Reqs <- MCReqs
    Amounts <- MCAmounts
    MaxMsgs <- MCMaxMsgs
SPECIFICATION FairSpec
PROPERTY QueuedServed
\* An idle manager with every request issued and answered really stops.
CHECK_DEADLOCK FALSE
