SPECIFICATION Spec
CONSTANTS
  bottom = 4
  Nearest = 2
  Frames <- MCFrames
  Edges <- MCEdges
  Lookaheads = {1, 2}
  Speeds = {0, 160}
  Turns = {0}
INVARIANTS SteersByThisPicture
PROPERTIES TurnsAsSteered
