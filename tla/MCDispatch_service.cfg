\* Every request is served and every hangup noticed, under server grabs.
SPECIFICATION FairSpec
CONSTANTS
    LimitClients = 3
    Settled = 2
    Whole = 1
    Window = 1
    Requests = {"GrabServer", "UngrabServer", "GrabControlOn", "GrabControlOff", "DisconnectOff", "BadRequest"}
    Quitters = {1}
    AtReset = {"none"}
    TerminateDelay = FALSE
 
PROPERTY RequestsServed
 
