SPECIFICATION Spec
CONSTANTS
  Scenes <- AllScenes
  Verdicts <- VehicleVerdict
  Steps <- MCSteps
  Headings <- MCHeadings
  CornerLens <- MCCornerLens
  StartLen = 1
  StopLen = 1
  ClimbLen = 1
  RampLen = 1
  GateLen = 1
  BypassLen = 1
  MaxMeter = 2
  RealTime = TRUE
INVARIANTS
  TypeOK
  OneRoundabout
  BypassExcludesEntry
PROPERTY CourseSpec
