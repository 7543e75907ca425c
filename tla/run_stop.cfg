CONSTANT MaxRuns = 2
SPECIFICATION FairSpec
INVARIANTS TypeOK MotorsOffAtExit StoppedStands
PROPERTIES FreshPress StandsUntilLaunched StopReaches GoalReturns ExitEnds
CHECK_DEADLOCK FALSE
