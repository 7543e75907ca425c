CONSTANTS
    Order <- MCOrder
    Ints <- MCInts
    Tuned <- MCTuned
    Default <- MCDefault
    Files <- MCFiles
    Range <- MCRange
    MaxParameter = 3
SPECIFICATION Spec
INVARIANTS TypeOK FileIsCurrent SingleKeepsOthers
PROPERTIES RestartKeeps
