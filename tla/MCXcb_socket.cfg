\* One of the threads takes the socket over; everybody gets what he waits for.
SPECIFICATION FairSpec
CONSTANTS
    Threads = {t1, t2}
    NoThread = NoThread
    Owners = {t1}
    Wire = 9
    QueueSize = 1
    SocketSize = 1
    Operations = {"send", "wait", "event", "poll", "flush", "pollevent", "take", "write"}
    Kinds = {"query"}
    Calls = 2
    Events = 1
    Errors = FALSE
    Breaks = FALSE
CHECK_DEADLOCK FALSE
 
 
PROPERTY EventsAreTaken
