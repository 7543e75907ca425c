CONSTANTS
    Clients = {c1, c2}
    Servers = {s1}
    Fds = {3, 4, 5}
    MaxFrames = 2
SPECIFICATION FairSpec
INVARIANTS TypeOK WholeFrames NoMissedFrame
PROPERTIES FrameOrder OnlyOwnersClose ServerEnds Delivered
CHECK_DEADLOCK FALSE
