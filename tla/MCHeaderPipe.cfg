SPECIFICATION FairSpec
CONSTANTS
    Writers = {m1, m2}
    MaxFrames = 2
    MaxUnread = 4
    Lengths <- MCLengths
    MaxLength = 3
    Sizes = {2}
    Unlocked = Unlocked
INVARIANTS
    TypeOK
    BodiesWhole
    WritesWhole
PROPERTIES
    SoundFramesArrive
CHECK_DEADLOCK FALSE
