\* The connection breaks while two threads wait for their replies.
SPECIFICATION FairSpec
CONSTANTS
    Threads = {t1, t2}
    NoThread = NoThread
    Owners = {}
    Wire = 9
    QueueSize = 1
    SocketSize = 2
    Operations = {"send", "wait"}
    Kinds = {"query"}
    Calls = 2
    Events = 0
    Errors = FALSE
    Breaks = TRUE
CHECK_DEADLOCK FALSE
PROPERTY CallsReturn
