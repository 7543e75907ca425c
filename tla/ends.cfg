SPECIFICATION FairSpec
CONSTANTS
  Scenes <- EndScenes
  Verdicts <- OneVerdict
  Steps <- OneStep
  Headings <- OneHeading
  CornerLens <- ShortCorner
  StartLen = 0
  StopLen = 0
  ClimbLen = 0
  RampLen = 0
  GateLen = 0
  BypassLen = 0
  MaxMeter = 1
  RealTime = TRUE
PROPERTIES
  BypassEnds LineStops RampEnds
