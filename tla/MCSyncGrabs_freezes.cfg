\* Two clients grab, freeze, allow, replay and leave.
SPECIFICATION FairSpec
CONSTANTS
    a = a
    b = b
    Clients = {a, b}
    NoClient = NoClient
    NoGrab = NoGrab
    Depth = 2
    Modes <- OneDevice
    Passives <- TwoPassive
    MaxEvents <- FewEvents
INVARIANT TypeOK
INVARIANT OtherIsActive
INVARIANT NothingLeftBehind
PROPERTY AsyncThaws
PROPERTY Implements
PROPERTY PlayingEnds
