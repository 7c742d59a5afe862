\* Slots are used, retained, killed and used again, until the server resets or
\* terminates.
SPECIFICATION Spec
CONSTANTS
    LimitClients = 3
    Settled = 0
    Whole = 1
    Window = 2
    Requests = {"KillClient", "KillAllTemporary", "RetainPermanent", "RetainTemporary", "DisconnectOn"}
    Quitters = {1,2}
    AtReset = {"reset", "terminate"}
    TerminateDelay = TRUE
INVARIANT TableConsistent
PROPERTY EndsWhenEmpty
CHECK_DEADLOCK FALSE
