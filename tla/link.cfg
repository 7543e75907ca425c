SPECIFICATION FairSpec
CONSTANTS
  Element <- MCElement
  max = 6
  Blank = 0
  Frames <- MCFrames
  MaxFrames = 4
  RECEIVE_HEAD = 1
  Channels <- MCChannels
  Modulus = 4
INVARIANT InStep
PROPERTIES QueueSpec FramesArrive
