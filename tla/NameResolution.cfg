\* The popup's own scan, one mount and two answers from the network.
SPECIFICATION FairSpec
CONSTANTS
    listed = listed
    unlisted = unlisted
    here = here
    there = there
    None = none
    Hosts = {listed, unlisted, here}
    Literals = {here}
    Addresses = {here, there}
    Stored <- OneListed
    Addressed <- TwoInterfaces
    MaxResolutions = 1
    MaxAnswers = 2
INVARIANTS
    TypeOK
    ResolutionsTrue
    SocketsClosed
    ShownCanBeMounted
PROPERTIES
    ScanSeesAll
    EverythingSettles
CHECK_DEADLOCK FALSE
