\* Pipelined and partial requests of two clients, one of which may drop its
\* connection, under server grabs and while asleep.
SPECIFICATION Spec
CONSTANTS
    LimitClients = 3
    Settled = 2
    Whole = 2
    Window = 4
    Requests = {"GrabServer", "UngrabServer", "GrabControlOn", "Sleep"}
    Quitters = {1}
    AtReset = {"none"}
    TerminateDelay = FALSE
INVARIANT TypeOK
INVARIANT IgnoreCountBalanced
INVARIANT NoLostEdge
INVARIANT GrabExclusion
