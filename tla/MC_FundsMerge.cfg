\* Three requests, each of which may be cancelled at any point of the merge.
CONSTANTS
    r1 = r1
    r2 = r2
    r3 = r3
    Reqs <- MCReqs
SPECIFICATION FairSpec
PROPERTY ImplementsFundsMerge
PROPERTY AllCancelledCancelsMerge
\* The queue goroutine and every cancel goroutine return: the system stops.
CHECK_DEADLOCK FALSE
