CONSTANT MaxRuns = 1
SPECIFICATION Spec
INVARIANTS MotorsOffWhenEnded
CHECK_DEADLOCK FALSE
