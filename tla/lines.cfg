CONSTANTS
    LCDH_1 = 11
    LCDW_1 = 12
    Images <- MCImages
    Lines <- MCLines
    Reach = 4
    UpperGrowth = 2
    LowerGrowth = 2
SPECIFICATION Spec
INVARIANTS TypeOK EdgesEncloseRoad LostRowsCounted CornersOrdered
PROPERTIES BackOnRoad
