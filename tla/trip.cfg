SPECIFICATION MCSpec
CONSTANTS
  Scenes <- TripScenes
  Verdicts <- OneVerdict
  Steps <- MCSteps
  Headings <- MCHeadings
  CornerLens <- MCCornerLens
  StartLen = 1
  StopLen = 1
  ClimbLen = 1
  RampLen = 2
  GateLen = 1
  BypassLen = 1
  MaxMeter = 3
  RealTime = TRUE
PROPERTIES
  StopsPastLine
  RampHasItsLength
  GatesHold
  BypassHasItsLength
