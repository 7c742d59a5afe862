\* Devices come and go while the thread reads them, and the thread is stopped.
SPECIFICATION FairSpec
CONSTANTS
    Fds = {f1}
    Devices = {d1, d2}
    NoDevice = NoDevice
    Hotplug = Hotplug
    Generations = 1
    Calls = 5
    ReadSize = 2
    Impatient = FALSE
    WakeFills = FALSE
INVARIANT TypeOK
INVARIANT ReadsRegistered
PROPERTY DevicesAreRead
PROPERTY FiniReturns
