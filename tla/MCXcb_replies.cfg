\* Threads that share the connection send, wait, check and discard; the server's
\* sequence numbers go around, it answers with errors, and the connection breaks.
SPECIFICATION Spec
CONSTANTS
    Threads = {t1, t2}
    NoThread = NoThread
    Owners = {}
    Wire = 3
    QueueSize = 1
    SocketSize = 1
    Operations = {"send", "wait", "check", "discard"}
    Kinds = {"void", "check", "query"}
    Calls = 2
    Events = 1
    Errors = TRUE
    Breaks = TRUE
SYMMETRY Symmetry
CHECK_DEADLOCK FALSE
INVARIANT TypeOK
INVARIANT InOrder
INVARIANT AnswersFiled
INVARIANT CookiesAreOwn
INVARIANT SomebodyReads
