\* The ring under two threads implements the abstract queue, and every event
\* is taken off it in the end.
SPECIFICATION FairSpec
CONSTANTS
    Slaves = {1}
    Master = 2
    Data = {0}
    NoEvent = NoEvent
    InitialSize = 1
    MaxSize = 4
    PipeSize = 1
    ReadSize = 1
    Setups <- SafeSetups
INVARIANT TypeOK
INVARIANT NeverInterrupted
INVARIANT NoDanglingDevice
PROPERTY Implements
PROPERTY EventsAreTaken
