CONSTANTS
    Clients = {c1}
    Servers = {s1}
    Fds = {3, 4, 5}
    MaxFrames = 2
SPECIFICATION FairSpec
PROPERTIES StopReleases
CHECK_DEADLOCK FALSE
