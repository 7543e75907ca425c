---- MODULE LineSearch ----
(***************************************************************************)
(* The search for the road in one binarised image (ImageDeal): the longest *)
(* white column, the black border, the two edges of the road row by row    *)
(* from the bottom up, the four corners of a junction, and the second,     *)
(* narrower search a corner asks for.  On a roundabout the handler paints  *)
(* lines into the image and searches it again, up to four times in one     *)
(* frame.  The rows above top + 1 keep edges of earlier frames; so do all  *)
(* rows when the search gives up.  What such rows hold is not followed:    *)
(* they are Old.  From frame to frame only the middle of the row           *)
(* bottom - 1 is handed on, as the column to start from.                   *)
(***************************************************************************)
EXTENDS Integers, FiniteSets

CONSTANTS
    LCDH_1, LCDW_1,   \* rows and columns of the image (60 and 94)
    Images,           \* the binarised images the camera may deliver
    Lines,            \* what a roundabout handler may paint black: sets of pixels
    Reach,            \* columns the second search starts inside the edge of the row below (7)
    UpperGrowth,      \* how much wider the road is two rows below an upper corner (12)
    LowerGrowth       \* how much wider it is two rows above a lower corner (10)

black == 0
white == 1
bottom == LCDH_1 - 1
Rows == 0 .. bottom
Columns == 0 .. LCDW_1 - 1

ASSUME ImageAssumption ==
    /\ LCDH_1 \in Nat /\ LCDH_1 >= 9
    /\ LCDW_1 \in Nat /\ LCDW_1 >= 8 /\ LCDW_1 <= 128
    /\ Images \subseteq [Rows -> [Columns -> {black, white}]]
    /\ Lines \subseteq SUBSET (Rows \X Columns)
    /\ Reach \in Nat /\ UpperGrowth \in Nat /\ LowerGrowth \in Nat

\* what an earlier frame left; no search writes it
Old == -1

\* Flag.Huandao_L and Flag.Huandao_R: off the roundabouts, stage 3 of either,
\* stage 4 of the right or of the left one, any other stage
Stages == {"off", "three", "right4", "left4", "other"}

VARIABLES
    pc,                                 \* the next function of ImageDeal
    i,                                  \* its row, where it goes row by row
    Image_Use,
    Last_Mid_Line,                      \* at row bottom - 1, the only one read
    top, max_column,
    Left_Sideline, Right_Sideline,      \* row -> column of the edge
    Left_Sideline_flag, Right_Sideline_flag,   \* row -> 1 found, 0 lost
    white_width,
    L_loselineSum, R_loselineSum,
    L_h_guai, R_h_guai, L_l_guai, R_l_guai,    \* upper and lower corners
    stage,                              \* of the roundabout, input from TrackElements
    again,                              \* the stage whose handler searched last in this frame, 0 none
    earlier,                            \* history: R_loselineSum when the last search began
    road                                \* history: 1 when the image came with a clear road in front

lines == <<Left_Sideline, Right_Sideline, Left_Sideline_flag, Right_Sideline_flag, white_width,
           L_loselineSum, R_loselineSum>>
corners == <<L_h_guai, R_h_guai, L_l_guai, R_l_guai, stage>>
seen == <<Image_Use, top, max_column, road>>
searches == <<again, earlier>>
vars == <<pc, i, seen, Last_Mid_Line, lines, corners, searches>>

\* nothing is written to the row bottom: its edges stay 0
Unfound == [r \in Rows |-> IF r = bottom THEN 0 ELSE Old]

\* flag 2: the corner search ran on lines of earlier frames
NoCorner == [flag |-> 0, row |-> Old, column |-> Old]
OldCorner == [flag |-> 2, row |-> Old, column |-> Old]
Corner(r, c) == [flag |-> 1, row |-> r, column |-> c]

\* one road in row bottom - 1, clear of both borders, which goes on in the row above
ClearRoad(f) ==
    \E a, b \in 3 .. LCDW_1 - 4 :
        /\ \A c \in Columns : f[bottom - 1][c] = white <=> c \in a .. b
        /\ \E c \in a .. b : f[bottom - 2][c] = white

NoImage == [r \in Rows |-> [c \in Columns |-> black]]

Init ==
    /\ pc = "idle" /\ i = 0
    /\ Image_Use = NoImage /\ top = 0 /\ max_column = 0 /\ road = 0
    /\ Last_Mid_Line = LCDW_1 \div 2
    /\ Left_Sideline = Unfound /\ Right_Sideline = Unfound
    /\ Left_Sideline_flag = Unfound /\ Right_Sideline_flag = Unfound
    /\ white_width = Unfound
    /\ L_loselineSum = 0 /\ R_loselineSum = 0
    /\ L_h_guai = NoCorner /\ R_h_guai = NoCorner /\ L_l_guai = NoCorner /\ R_l_guai = NoCorner
    /\ stage = "off" /\ again = 0 /\ earlier = 0

----------------------------------------------------------------------------
imgInfoInit == L_loselineSum' = 0 /\ R_loselineSum' = 0

ImageDeal ==
    /\ pc = "idle" /\ pc' = "top"
    /\ Image_Use' \in Images
    /\ road' = IF ClearRoad(Image_Use') THEN 1 ELSE 0
    /\ imgInfoInit
    /\ UNCHANGED <<i, top, max_column, Last_Mid_Line, Left_Sideline, Right_Sideline,
                   Left_Sideline_flag, Right_Sideline_flag, white_width, corners, searches>>

(* Get_ImageTop                                                            *)
(* From the middle of the last frame to both ends of the white there, or   *)
(* to the column next to the border; 0 where the loop does not run.        *)
\* [variant] The pixel itself may be black.
StopsLeft_inBlack(c) ==
    \/ c = 2
    \/ Image_Use[bottom - 1][c - 1] = black /\ Image_Use[bottom - 1][c - 2] = black

StopsLeft(c) ==
    \/ c = 2
    \/ /\ Image_Use[bottom - 1][c] = white
       /\ Image_Use[bottom - 1][c - 1] = black
       /\ Image_Use[bottom - 1][c - 2] = black

StopsRight(c) ==
    \/ c = LCDW_1 - 3
    \/ /\ Image_Use[bottom - 1][c] = white
       /\ Image_Use[bottom - 1][c + 1] = black
       /\ Image_Use[bottom - 1][c + 2] = black

mid == IF Last_Mid_Line \in Columns THEN Last_Mid_Line ELSE LCDW_1 \div 2

\* [variant] The loop ends one column early.
IsLeftSide_short(l) ==
    \/ l \in 3 .. mid /\ StopsLeft(l) /\ \A c \in l + 1 .. mid : ~StopsLeft(c)
    \/ l = 0 /\ \A c \in 3 .. mid : ~StopsLeft(c)

IsLeftSide(l) ==
    \/ l \in 2 .. mid /\ StopsLeft(l) /\ \A c \in l + 1 .. mid : ~StopsLeft(c)
    \/ mid < 2 /\ l = 0

IsRightSide(r) ==
    \/ r \in mid .. LCDW_1 - 3 /\ StopsRight(r) /\ \A c \in mid .. r - 1 : ~StopsRight(c)
    \/ mid > LCDW_1 - 3 /\ r = 0

WhiteFrom(c, h) == \A r \in h .. bottom - 1 : Image_Use[r][c] = white

\* c is the first of the columns l .. r that is white the highest up, to row h
Longest(c, h, l, r) ==
    /\ WhiteFrom(c, h)
    /\ \A d \in l .. r, g \in 0 .. bottom : WhiteFrom(d, g) => g >= h /\ (d < c => g > h)

Get_ImageTop ==
    /\ pc = "top" /\ pc' = IF again = 0 THEN "draw" ELSE "side"
    /\ \E l, r \in Columns :
          /\ IsLeftSide(l) /\ IsRightSide(r)
          /\ \/ \E c \in l .. r, h \in 0 .. bottom :
                   Longest(c, h, l, r) /\ max_column' = c /\ top' = h
             \/ l > r /\ max_column' = 0 /\ top' = LCDH_1 + 1
    /\ i' = bottom - 1
    /\ UNCHANGED <<Image_Use, road, Last_Mid_Line, lines, corners, searches>>

Draw_BlackSideline ==
    /\ pc = "draw" /\ pc' = "side"
    /\ Image_Use' = [r \in Rows |-> [c \in Columns |->
                        IF r \in top + 1 .. bottom - 1 /\ c \in {0, LCDW_1 - 1}
                        THEN black ELSE Image_Use[r][c]]]
    /\ UNCHANGED <<i, top, max_column, road, Last_Mid_Line, lines, corners, searches>>

----------------------------------------------------------------------------
(* The edges of a row.  The array is read beyond a row's end where a       *)
(* column is: there lies the next row.                                     *)
Pixel(r, c) ==
    IF c \in Columns THEN Image_Use[r][c] ELSE Image_Use[r + c \div LCDW_1][c % LCDW_1]

\* an edge at c, two black columns wide, or one when it is near the edge of the row below
LeftHit(r, c) ==
    /\ Pixel(r, c) = white /\ Pixel(r, c - 1) = black
    /\ Pixel(r, c - 2) = black \/ c - Left_Sideline[r + 1] < 3

RightHit(r, c) ==
    /\ Pixel(r, c) = white /\ Pixel(r, c + 1) = black
    /\ Pixel(r, c + 2) = black \/ Right_Sideline[r + 1] - c < 3

\* the first edge met from a column outwards; without one, the column next to the border
IsLeftEdge(r, from, c, f) ==
    \/ f = 1 /\ c \in 2 .. from /\ LeftHit(r, c) /\ \A d \in c + 1 .. from : ~LeftHit(r, d)
    \/ f = 0 /\ c = 1 /\ \A d \in 2 .. from : ~LeftHit(r, d)

IsRightEdge(r, from, c, f) ==
    \/ f = 1 /\ c \in from .. LCDW_1 - 3 /\ RightHit(r, c) /\ \A d \in from .. c - 1 : ~RightHit(r, d)
    \/ f = 0 /\ c = LCDW_1 - 2 /\ \A d \in from .. LCDW_1 - 3 : ~RightHit(r, d)

\* white_width is an unsigned char
Width(l, r) == (r - l) % 256

Find_Sideline ==
    /\ pc = "side" /\ i > top /\ i < bottom
    /\ Image_Use[i][max_column] = white
    /\ \E l, r \in Columns, lf, rf \in {0, 1} :
          /\ IsLeftEdge(i, max_column, l, lf) /\ IsRightEdge(i, max_column, r, rf)
          /\ Left_Sideline' = [Left_Sideline EXCEPT ![i] = l]
          /\ Right_Sideline' = [Right_Sideline EXCEPT ![i] = r]
          /\ Left_Sideline_flag' = [Left_Sideline_flag EXCEPT ![i] = lf]
          /\ Right_Sideline_flag' = [Right_Sideline_flag EXCEPT ![i] = rf]
          /\ white_width' = [white_width EXCEPT ![i] = Width(l, r)]
          /\ L_loselineSum' = L_loselineSum + 1 - lf
          /\ R_loselineSum' = R_loselineSum + 1 - rf
    /\ i' = i - 1
    /\ UNCHANGED <<pc, seen, Last_Mid_Line, corners, searches>>

(* The longest white column is black here: the search gives up, and what   *)
(* follows works on old lines, up to the middle line.                      *)
Find_Sideline_break ==
    /\ pc = "side" /\ i > top /\ i < bottom
    /\ Image_Use[i][max_column] = black
    /\ Left_Sideline' = [Left_Sideline EXCEPT ![i] = Left_Sideline[i + 1]]
    /\ Right_Sideline' = [Right_Sideline EXCEPT ![i] = Right_Sideline[i + 1]]
    /\ Left_Sideline_flag' = [Left_Sideline_flag EXCEPT ![i] = 0]
    /\ Right_Sideline_flag' = [Right_Sideline_flag EXCEPT ![i] = 0]
    /\ L_h_guai' = OldCorner /\ R_h_guai' = OldCorner
    /\ L_l_guai' = OldCorner /\ R_l_guai' = OldCorner
    /\ stage' \in Stages
    /\ pc' = "mid"
    /\ UNCHANGED <<i, seen, Last_Mid_Line, white_width, L_loselineSum, R_loselineSum, searches>>

Find_Sideline_end ==
    /\ pc = "side" /\ i <= top /\ again = 0
    /\ pc' = "corner"
    /\ UNCHANGED <<i, seen, Last_Mid_Line, lines, corners, searches>>

----------------------------------------------------------------------------
(* Corners: the road is narrow in a row and wide below it (upper) or above *)
(* it (lower), and beside its edge it is white in the next row.            *)
White(r, c) == Image_Use[r][c] = white

\* white on the side d (1 or -1) of column c in row r, but for one pixel
WhiteBeside(r, c, d) ==
    White(r, c) /\ White(r, c + 3 * d) /\ (White(r, c + d) \/ White(r, c + 2 * d))

\* the same, with the edge itself moved one column inwards
WhiteAround(r, c, d) ==
    /\ White(r, c - d) /\ ~White(r, c)
    /\ White(r, c + d) /\ White(r, c + 2 * d) /\ White(r, c + 3 * d)

WiderBelow(r) ==
    /\ white_width[r + 2] - white_width[r] > UpperGrowth
    /\ white_width[r + 3] > white_width[r] /\ white_width[r + 4] > white_width[r]

\* old is the set of rows whose comparison with widths of earlier frames succeeds
WiderAbove(r, reach, old) ==
    /\ white_width[r - 2] - white_width[r + 1] > LowerGrowth
    /\ \A k \in 2 .. reach : r - k > top => white_width[r - k] > white_width[r]
    /\ r - reach <= top => r \in old

UpperLeft(r) ==
    LET c == Left_Sideline[r] IN
    /\ c > 3 /\ White(r, c)
    /\ WhiteBeside(r + 1, c, -1) \/ WhiteAround(r + 1, c, -1)
    /\ WiderBelow(r)
    /\ Left_Sideline[r + 1] - c < 1

UpperRight(r) ==
    LET c == Right_Sideline[r] IN
    /\ c < LCDW_1 - 3 /\ White(r, c)
    /\ WhiteBeside(r + 1, c, 1) \/ WhiteAround(r + 1, c, 1)
    /\ WiderBelow(r)
    /\ Right_Sideline[r + 1] - c > -1

LowerLeft(r, old) ==
    LET c == Left_Sideline[r] IN
    /\ c > 3 /\ White(r, c) /\ WhiteBeside(r - 1, c, -1)
    /\ WiderAbove(r, 4, old)

LowerRight(r, old) ==
    LET c == Right_Sideline[r] IN
    /\ c < LCDW_1 - 3 /\ White(r, c) /\ White(r - 1, c) /\ White(r - 1, c + 1)
    /\ White(r - 1, c + 2) \/ White(r - 1, c + 3)
    /\ WiderAbove(r, 3, old)

UpperRows == top + 2 .. bottom - 5
LowerRows(s) == IF s = "three" THEN {} ELSE top + 3 .. bottom - 3

\* a loop without a match leaves flag 0, and row 1 once the loop of the lower corners has run
NoUpper(s) == [NoCorner EXCEPT !.row = IF LowerRows(s) = {} THEN Old ELSE 1]
NoLower == [NoCorner EXCEPT !.row = bottom]

(* The loop goes downwards: Find_Guaidian1, off the roundabouts, keeps its *)
(* last match, Find_Guaidian its first.                                    *)
Upper(found, line, s) ==
    IF found = {} THEN {NoUpper(s)}
    ELSE {Corner(r + 1, line[r]) :
            r \in {x \in found : \A y \in found : IF s = "off" THEN y <= x ELSE x <= y}}

\* upwards; the first match counts
Lower(found, line) ==
    IF found = {} THEN {NoLower}
    ELSE {Corner(r - 1, line[r]) : r \in {x \in found : \A y \in found : y <= x}}

\* [variant] The lower corners are searched up to the top.
BelowUpper_anywhere(r, upper) == r > top

BelowUpper(r, upper) == r > upper.row

(* In stage 4 the lower corner on the inner side is where the line comes   *)
(* nearest to the other side, whatever the loop above has found.           *)
InnerRows == top + 2 .. bottom - 6

Inner(line, d, lower) ==
    IF InnerRows = {} THEN {Corner(lower.row, line[lower.row] + 3 * d)}
    ELSE {Corner(r, line[r] + 3 * d) :
            r \in {x \in InnerRows : /\ \A y \in InnerRows : d * line[y] <= d * line[x]
                                     /\ \A y \in InnerRows : line[y] = line[x] => x <= y}}

\* rows where the widths of earlier frames decide, differently for the two sides
LeftUndecided(s) == {r \in LowerRows(s) : LowerLeft(r, {r}) /\ ~LowerLeft(r, {})}
RightUndecided(s) == {r \in LowerRows(s) : LowerRight(r, {r}) /\ ~LowerRight(r, {})}

Find_Guaidian ==
    /\ pc = "corner"
    /\ \E s \in Stages :
          /\ stage' = s
          /\ L_h_guai' \in Upper({r \in UpperRows : UpperLeft(r)}, Left_Sideline, s)
          /\ R_h_guai' \in Upper({r \in UpperRows : UpperRight(r)}, Right_Sideline, s)
          /\ \E old \in SUBSET LeftUndecided(s) :
             \E l \in Lower({r \in LowerRows(s) : LowerLeft(r, old) /\ BelowUpper(r, L_h_guai')},
                            Left_Sideline) :
                L_l_guai' \in IF s = "right4" THEN Inner(Left_Sideline, 1, l) ELSE {l}
          /\ \E old \in SUBSET RightUndecided(s) :
             \E r \in Lower({x \in LowerRows(s) : LowerRight(x, old) /\ BelowUpper(x, R_h_guai')},
                            Right_Sideline) :
                R_l_guai' \in IF s = "left4" THEN Inner(Right_Sideline, -1, r) ELSE {r}
    /\ i' = bottom - 5
    /\ pc' = IF L_h_guai'.flag = 1 \/ R_h_guai'.flag = 1 THEN "right" ELSE "mid"
    /\ UNCHANGED <<seen, Last_Mid_Line, lines, searches>>

----------------------------------------------------------------------------
(* The second search starts Reach columns inside the edge of the row below *)
(* and keeps a row's edge where that is black.                             *)
RightStart(r) == IF Right_Sideline[r + 1] < Reach THEN 0 ELSE Right_Sideline[r + 1] - Reach
LeftStart(r) == Left_Sideline[r + 1] + Reach

Lost(flags) == Cardinality({r \in top + 1 .. bottom - 1 : flags[r] = 0})

Find_right_Sideline ==
    /\ pc = "right" /\ i > top
    /\ IF Image_Use[i][RightStart(i)] = white
       THEN \E r \in Columns, f \in {0, 1} :
               /\ IsRightEdge(i, RightStart(i), r, f)
               /\ Right_Sideline' = [Right_Sideline EXCEPT ![i] = r]
               /\ Right_Sideline_flag' = [Right_Sideline_flag EXCEPT ![i] = f]
       ELSE UNCHANGED <<Right_Sideline, Right_Sideline_flag>>
    /\ i' = i - 1
    /\ UNCHANGED <<pc, seen, Last_Mid_Line, Left_Sideline, Left_Sideline_flag, white_width,
                   L_loselineSum, R_loselineSum, corners, searches>>

\* its count; its widths are written again by the other side's
Find_right_Sideline_end ==
    /\ pc = "right" /\ i <= top
    /\ R_loselineSum' = Lost(Right_Sideline_flag)
    /\ pc' = "left" /\ i' = bottom - 5
    /\ UNCHANGED <<seen, Last_Mid_Line, Left_Sideline, Right_Sideline, Left_Sideline_flag,
                   Right_Sideline_flag, white_width, L_loselineSum, corners, searches>>

Find_left_Sideline ==
    /\ pc = "left" /\ i > top
    /\ IF Pixel(i, LeftStart(i)) = white
       THEN \E l \in 1 .. LeftStart(i), f \in {0, 1} :
               /\ IsLeftEdge(i, LeftStart(i), l, f)
               /\ Left_Sideline' = [Left_Sideline EXCEPT ![i] = l]
               /\ Left_Sideline_flag' = [Left_Sideline_flag EXCEPT ![i] = f]
       ELSE UNCHANGED <<Left_Sideline, Left_Sideline_flag>>
    /\ i' = i - 1
    /\ UNCHANGED <<pc, seen, Last_Mid_Line, Right_Sideline, Right_Sideline_flag, white_width,
                   L_loselineSum, R_loselineSum, corners, searches>>

Find_left_Sideline_end ==
    /\ pc = "left" /\ i <= top
    /\ L_loselineSum' = Lost(Left_Sideline_flag)
    /\ white_width' = [r \in Rows |-> IF r \in top + 1 .. bottom - 1
                                      THEN Width(Left_Sideline[r], Right_Sideline[r])
                                      ELSE white_width[r]]
    /\ pc' = "mid"
    /\ UNCHANGED <<i, seen, Last_Mid_Line, Left_Sideline, Right_Sideline, Left_Sideline_flag,
                   Right_Sideline_flag, R_loselineSum, corners, searches>>

(* The next search replaces what this one has found, or meets it as Old.   *)
(* The corners stay those of the first search; no action reads them after. *)
ForgetLines ==
    /\ road' = 0
    /\ Left_Sideline' = Unfound /\ Right_Sideline' = Unfound
    /\ Left_Sideline_flag' = Unfound /\ Right_Sideline_flag' = Unfound
    /\ white_width' = Unfound
    /\ L_h_guai' = NoCorner /\ R_h_guai' = NoCorner
    /\ L_l_guai' = NoCorner /\ R_l_guai' = NoCorner

(* Huandao_R_imu and Huandao_L_imu may take a lower corner on one side,    *)
(* with more rows lost there and no corner on the other, for an entry;     *)
(* they test more of the image and of the course, which is TrackElements.  *)
LooksLikeEntry(lower, lost, upperOther, lowerOther, lostOther) ==
    lower.flag = 1 /\ upperOther.flag = 0 /\ lowerOther.flag = 0 /\ lost > lostOther

Huandao_imu ==
    /\ pc = "mid" /\ stage = "off"
    /\ \/ LooksLikeEntry(L_l_guai, L_loselineSum, R_h_guai, R_l_guai, R_loselineSum)
       \/ LooksLikeEntry(R_l_guai, R_loselineSum, L_h_guai, L_l_guai, L_loselineSum)
       \/ L_h_guai.flag = 2
    /\ stage' = "other"
    /\ UNCHANGED <<pc, i, seen, Last_Mid_Line, lines, L_h_guai, R_h_guai, L_l_guai, R_l_guai, searches>>

(* The stages 2 to 5 of a roundabout paint a line, whose place is not      *)
(* followed, and call Get_ImageTop and Find_Sideline again.  A stage may   *)
(* hand over to the next within the frame, which then does the same.       *)
Handlers(s) ==
    CASE s = "other" -> {2, 5}
      [] s = "three" -> {3}
      [] s \in {"left4", "right4"} -> {4}
      [] OTHER -> {}

Painted(line) ==
    [r \in Rows |-> [c \in Columns |-> IF <<r, c>> \in line THEN black ELSE Image_Use[r][c]]]

\* [variant] The search resets neither count.
Find_Sideline_resets_none == UNCHANGED <<L_loselineSum, R_loselineSum>>

\* the right count, which imgInfoInit has reset for the first search, goes on
Find_Sideline_resets == L_loselineSum' = 0 /\ UNCHANGED R_loselineSum

Huandao_search ==
    /\ pc = "mid" /\ pc' = "top"
    /\ again' \in IF again = 0 THEN Handlers(stage) ELSE {again + 1} \cap 2 .. 5
    /\ stage' \in IF again' # 4 THEN {"other"}
                  ELSE IF again = 0 THEN {stage} ELSE {"left4", "right4"}
    /\ \E line \in Lines : Image_Use' = Painted(line)
    /\ Find_Sideline_resets
    /\ earlier' = R_loselineSum
    /\ ForgetLines
    /\ UNCHANGED <<i, top, max_column, Last_Mid_Line>>

\* stage 4 then forgets the rows lost on the outer side
Huandao_search_end ==
    /\ pc = "side" /\ i <= top /\ again # 0
    /\ pc' = "mid"
    /\ L_loselineSum' = IF again = 4 /\ stage = "right4" THEN 0 ELSE L_loselineSum
    /\ R_loselineSum' = IF again = 4 /\ stage = "left4" THEN 0 ELSE R_loselineSum
    /\ UNCHANGED <<i, seen, Last_Mid_Line, Left_Sideline, Right_Sideline, Left_Sideline_flag,
                   Right_Sideline_flag, white_width, corners, searches>>

(* Off the roundabouts Buxian writes no row below bottom - 4. On one its   *)
(* handler also draws straight into the edges, which is not followed: the  *)
(* middle of the row bottom - 1 may then be any that a left and a right    *)
(* edge of the image can have.                                             *)
\* [variant] The sum is not halved.
Midline_sum(r) == Left_Sideline[r] + Right_Sideline[r]

Midline(r) == (Left_Sideline[r] + Right_Sideline[r]) \div 2

Find_Midline ==
    /\ pc = "mid" /\ pc' = "idle"
    /\ \/ stage = "off" /\ top < bottom - 1 /\ Last_Mid_Line' = Midline(bottom - 1)
       \/ stage = "off" /\ top >= bottom - 1 /\ UNCHANGED Last_Mid_Line
       \/ stage # "off" /\ Last_Mid_Line' \in 0 .. LCDW_1 - 3
    /\ ForgetLines
    /\ i' = 0 /\ Image_Use' = NoImage /\ top' = 0 /\ max_column' = 0
    /\ stage' = "off" /\ again' = 0 /\ earlier' = 0
    /\ UNCHANGED <<L_loselineSum, R_loselineSum>>

Next ==
    \/ ImageDeal \/ Get_ImageTop \/ Draw_BlackSideline
    \/ Find_Sideline \/ Find_Sideline_break \/ Find_Sideline_end
    \/ Find_Guaidian
    \/ Find_right_Sideline \/ Find_right_Sideline_end
    \/ Find_left_Sideline \/ Find_left_Sideline_end
    \/ Huandao_imu \/ Huandao_search \/ Huandao_search_end
    \/ Find_Midline

Spec == Init /\ [][Next]_vars

----------------------------------------------------------------------------
Searched == top + 1 .. bottom - 1

(* Every variable holds a value of its kind; the image is as wide and as   *)
(* high as the arrays that hold it, and the start column lies inside it.   *)
TypeOK ==
    /\ pc \in {"idle", "top", "draw", "side", "corner", "right", "left", "mid"}
    /\ i \in Int
    /\ Image_Use \in [Rows -> [Columns -> {black, white}]]
    /\ Last_Mid_Line \in 0 .. LCDW_1 - 3
    /\ top \in 0 .. bottom /\ max_column \in 0 .. LCDW_1 - 3
    /\ Left_Sideline \in [Rows -> Int] /\ Right_Sideline \in [Rows -> Int]
    /\ Left_Sideline_flag \in [Rows -> {Old, 0, 1}] /\ Right_Sideline_flag \in [Rows -> {Old, 0, 1}]
    /\ white_width \in [Rows -> Int]
    /\ L_loselineSum \in Nat /\ R_loselineSum \in Nat
    /\ \A c \in {L_h_guai, R_h_guai, L_l_guai, R_l_guai} : c.flag \in {0, 1, 2}
    /\ stage \in Stages /\ road \in {0, 1}
    /\ again \in {0, 2, 3, 4, 5} /\ earlier \in Nat

(* A search that starts from a middle inside the border                    *)
(* (imgInfo.max_column then lies inside it as well) does not give up:      *)
(* every row above the bottom has, when the corners are searched and when  *)
(* a roundabout handler has searched its painted image, two edges found in *)
(* this image, inside the border and on either side of the longest white   *)
(* column (Find_Sideline).                                                 *)
EdgesEncloseRoad ==
    Last_Mid_Line >= 2 =>
        /\ pc = "corner" \/ (pc = "mid" /\ again # 0) => \A r \in Searched :
               /\ Image_Use[r][max_column] = white
               /\ 1 <= Left_Sideline[r] /\ Left_Sideline[r] <= max_column
               /\ max_column <= Right_Sideline[r] /\ Right_Sideline[r] <= LCDW_1 - 2
        /\ L_h_guai.flag # 2

(* What the counts of lost rows are worth where the handlers read them.    *)
(* When they begin, both are the rows of this image without an edge,       *)
(* whether a corner had the sides searched a second time or not. Once they *)
(* have painted and searched again, L_loselineSum is the rows lost by that *)
(* search, but R_loselineSum the sum over all searches of the frame since  *)
(* it was last set: Find_Sideline resets the left count only, so the right *)
(* one is no number of rows where a roundabout's end compares the two.     *)
(* Stage 4 leaves the count of the outer side 0.                           *)
LostRowsCounted ==
    pc = "mid" /\ L_h_guai.flag # 2 =>
        /\ L_loselineSum = IF again = 4 /\ stage = "right4" THEN 0 ELSE Lost(Left_Sideline_flag)
        /\ R_loselineSum = IF again = 4 /\ stage = "left4" THEN 0
                           ELSE earlier + Lost(Right_Sideline_flag)
        /\ again = 0 => earlier = 0

(* The upper corner of a side is never below its lower corner, and both    *)
(* lie in rows found in this image: Buxian draws a line from the one down  *)
(* to the other and divides by their distance (the inner corner of stage 4 *)
(* apart).                                                                 *)
Ordered(upper, lower) ==
    /\ upper.flag = 1 => upper.row \in top + 3 .. bottom - 4
    /\ lower.flag = 1 => lower.row \in top + 2 .. bottom - 4
    /\ upper.flag = 1 /\ lower.flag = 1 => upper.row <= lower.row

CornersOrdered ==
    /\ stage # "right4" => Ordered(L_h_guai, L_l_guai)
    /\ stage # "left4" => Ordered(R_h_guai, R_l_guai)

(* Whatever the frames before were like, a frame off the roundabouts with  *)
(* a clear road right in front leaves its middle on that road: a car that  *)
(* lost the road sees it again (Get_ImageTop, Find_Midline).               *)
BackOnRoad ==
    [][pc = "mid" /\ pc' = "idle" /\ stage = "off" /\ road = 1
           => Image_Use[bottom - 1][Last_Mid_Line'] = white]_vars
====
