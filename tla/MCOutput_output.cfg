\* A remote client, and a local one that may stop reading or disconnect.
SPECIFICATION FairSpec
CONSTANTS
    Clients = {a, b}
    NoClient = NoClient
    Local = {b}
    Recorder = NoClient
    BufSize = 2
    ReplyBufSize = 1
    Stalled = {b}
    Quitters = {b}
    MaxWritten = 4
INVARIANT TypeOK
INVARIANT NothingLost
INVARIANT NoOutputForgotten
PROPERTY OutputIsWritten
