\* One client records the other and is sent events as well.
SPECIFICATION Spec
CONSTANTS
    Clients = {a, r}
    NoClient = NoClient
    Local = {}
    Recorder = r
    BufSize = 1
    ReplyBufSize = 1
    Stalled = {}
    Quitters = {}
    MaxWritten = 3
INVARIANT NothingLost
