---- MODULE LineSearchProofs ----
(***************************************************************************)
(* The line search for images of every size and content: the edges of a    *)
(* frame enclose the road, the lost rows are counted, the corners lie in   *)
(* their order, and the road is seen again once it lies clear in front.    *)
(***************************************************************************)
EXTENDS LineSearch, FiniteSetTheorems, TLAPS

(* What the search relies on: max_column is white in every row it goes     *)
(* through, unless it is the border column 0.  A handler's search paints   *)
(* no border, and finds the column 0 black low down from the first one.    *)
Late == {"side", "corner", "right", "left", "mid"}

ColumnOK ==
    /\ pc \in Late \cup {"draw"} /\ Last_Mid_Line >= 2 => max_column >= 2
    /\ pc = "draw" => WhiteFrom(max_column, top)
    /\ pc \in Late => \A r \in Searched :
                          Image_Use[r][max_column] =
                              IF max_column = 0 /\ again = 0 THEN black ELSE white

BorderOK ==
    /\ Last_Mid_Line < 2 /\ (pc \in Late \/ again # 0 \/ (pc = "draw" /\ top >= bottom - 1)) =>
           ~WhiteFrom(0, bottom - 2)
    /\ again # 0 /\ pc \in Late /\ max_column = 0 => top >= bottom - 1

SearchesOK ==
    /\ pc \in {"idle", "draw", "corner", "right", "left"} => again = 0
    /\ again = 0 => earlier = 0
    /\ again # 0 => stage # "off" /\ road = 0

RowOK ==
    /\ pc = "draw" => i = bottom - 1
    /\ pc = "side" => /\ i <= bottom - 1 /\ (i >= top \/ i = bottom - 1)
                      /\ max_column = 0 => i = bottom - 1
    /\ pc \in {"right", "left"} => i <= bottom - 5

Enclosed(r) ==
    /\ 1 <= Left_Sideline[r] /\ Left_Sideline[r] <= max_column
    /\ max_column <= Right_Sideline[r] /\ Right_Sideline[r] <= LCDW_1 - 2

EdgesOK ==
    /\ Left_Sideline[bottom] = 0 /\ Right_Sideline[bottom] = 0
    /\ pc = "side" => \A r \in i + 1 .. bottom - 1 : Enclosed(r)
    /\ pc = "corner" \/ (pc = "mid" /\ again # 0) => \A r \in Searched : Enclosed(r)
    /\ pc \in {"right", "left", "mid"} /\ L_h_guai.flag # 2 /\ top < bottom - 1 => Enclosed(bottom - 1)
    /\ L_h_guai.flag = 2 => /\ pc = "mid" /\ max_column = 0
                            /\ Left_Sideline[bottom - 1] = 0 /\ Right_Sideline[bottom - 1] = 0

NoCornersYet ==
    pc \in {"idle", "top", "draw", "side", "corner"} =>
        \A c \in {L_h_guai, R_h_guai, L_l_guai, R_l_guai} : c.flag = 0

RoadOK ==
    road = 1 =>
        /\ pc # "idle" /\ ClearRoad(Image_Use)
        /\ pc \in Late \cup {"draw"} => top < bottom - 1 /\ Image_Use[bottom - 1][max_column] = white
        /\ pc \in Late /\ (pc = "side" => i < bottom - 1) =>
               \A c \in Left_Sideline[bottom - 1] .. Right_Sideline[bottom - 1] :
                   Image_Use[bottom - 1][c] = white

IInv ==
    /\ TypeOK /\ ColumnOK /\ BorderOK /\ SearchesOK /\ RowOK /\ EdgesOK /\ NoCornersYet
    /\ RoadOK /\ CornersOrdered

LEMMA InitOK == Init => IInv
    BY ImageAssumption
    DEF Init, IInv, TypeOK, ColumnOK, BorderOK, SearchesOK, RowOK, EdgesOK, NoCornersYet, RoadOK, CornersOrdered, Ordered,
        Late, Unfound, NoImage, NoCorner, Old, Rows, Columns, bottom, black, white, Stages

(* A frame arrives.                                                        *)
LEMMA ImageDealOK == ASSUME IInv, ImageDeal PROVE IInv'
    BY ImageAssumption
    DEF ImageDeal, imgInfoInit, IInv, TypeOK, ColumnOK, BorderOK, SearchesOK, RowOK, EdgesOK,
        NoCornersYet, RoadOK, CornersOrdered, Ordered, Late, corners, searches, ClearRoad, Rows,
        Columns, bottom, black, white

(* Pixels are black or white, and the search starts at the last middle.    *)
LEMMA Pixels ==
    ASSUME TypeOK
    PROVE  /\ \A r \in Rows, c \in Columns : Image_Use[r][c] = black \/ Image_Use[r][c] = white
           /\ black # white
           /\ mid = Last_Mid_Line /\ mid \in 0 .. LCDW_1 - 3
           /\ bottom - 1 \in Rows /\ bottom - 2 \in Rows
    BY ImageAssumption DEF TypeOK, mid, Rows, Columns, bottom, black, white

(* A clear road lies between the two ends of the white, wherever the last  *)
(* middle was.                                                             *)
LEMMA RoadInReach ==
    ASSUME TypeOK, NEW a \in 3 .. LCDW_1 - 4, NEW b \in 3 .. LCDW_1 - 4,
           \A c \in Columns : Image_Use[bottom - 1][c] = white <=> c \in a .. b,
           NEW l \in Columns, NEW r \in Columns, IsLeftSide(l), IsRightSide(r),
           NEW c \in a .. b
    PROVE  c \in l .. r
<1> DEFINE P(x) == Image_Use[bottom - 1][x]
<1>0. \A x \in 0 .. LCDW_1 - 1 : IF x \in a .. b THEN P(x) = white ELSE P(x) = black
    BY Pixels DEF Columns
<1>1. mid \in 0 .. LCDW_1 - 3 /\ LCDW_1 \in Nat /\ l \in Int /\ r \in Int /\ a <= b
    BY Pixels, ImageAssumption DEF Columns
<1>2. StopsLeft(a) /\ StopsRight(b)
    BY <1>0, <1>1 DEF StopsLeft, StopsRight
<1>3. \A x \in 3 .. LCDW_1 - 1 : StopsLeft(x) => P(x) = white /\ P(x - 1) = black
    BY DEF StopsLeft
<1>4. \A x \in 0 .. LCDW_1 - 4 : StopsRight(x) => P(x) = white /\ P(x + 1) = black
    BY <1>1 DEF StopsRight
<1> HIDE DEF P
<1>5. ~(l > a)
    BY <1>0, <1>1, <1>2, <1>3, Pixels DEF IsLeftSide
<1>6. ~(r < b)
    BY <1>0, <1>1, <1>2, <1>4, Pixels DEF IsRightSide
<1> QED BY <1>1, <1>5, <1>6

(* The longest column, and with it a clear road.                           *)
LEMMA Get_ImageTopOK == ASSUME IInv, Get_ImageTop PROVE IInv'
<1> USE ImageAssumption DEF IInv
<1>1. PICK l \in Columns, r \in Columns : IsLeftSide(l) /\ IsRightSide(r)
              /\ \/ \E c \in l .. r, h \in 0 .. bottom :
                       Longest(c, h, l, r) /\ max_column' = c /\ top' = h
                 \/ l > r /\ max_column' = 0 /\ top' = LCDH_1 + 1
    BY DEF Get_ImageTop
<1>2. l <= mid /\ mid <= r /\ r <= LCDW_1 - 3 /\ (mid >= 2 => l >= 2)
    BY <1>1, Pixels DEF IsLeftSide, IsRightSide, Columns
<1>3. PICK c \in l .. r, h \in 0 .. bottom : Longest(c, h, l, r) /\ max_column' = c /\ top' = h
    BY <1>1, <1>2, Pixels DEF Columns
<1>10. /\ pc = "top" /\ pc' = IF again = 0 THEN "draw" ELSE "side"
       /\ i' = bottom - 1
       /\ UNCHANGED <<Image_Use, Last_Mid_Line, Left_Sideline, Right_Sideline,
                      Left_Sideline_flag, Right_Sideline_flag, white_width, L_loselineSum,
                      R_loselineSum, L_h_guai, R_h_guai, L_l_guai, R_l_guai, stage, road, again,
                      earlier>>
    BY DEF Get_ImageTop, lines, corners, searches
<1>4. TypeOK'
    <2>2. max_column' \in 0 .. LCDW_1 - 3
        BY <1>2, <1>3 DEF Columns
    <2>3. top' \in 0 .. bottom
        BY <1>3
    <2>4. TypeOK /\ i' \in Int
        BY <1>10 DEF bottom
    <2> HIDE ImageAssumption DEF IInv
    <2> QED BY <1>10, <2>2, <2>3, <2>4 DEF TypeOK
<1>11. WhiteFrom(c, h) /\ h \in Int
    BY <1>3 DEF Longest
<1>12. mid < 2 => l = 0 /\ 0 \in l .. r
    BY <1>1, <1>2, Pixels DEF IsLeftSide, Columns
<1>13. Last_Mid_Line < 2 /\ h >= bottom - 1 => ~WhiteFrom(0, bottom - 2)
    <2>1. SUFFICES ASSUME mid < 2, h >= bottom - 1, WhiteFrom(0, bottom - 2) PROVE FALSE
        BY Pixels
    <2>2. 0 \in l .. r /\ bottom - 2 \in 0 .. bottom
        BY <1>12, <2>1 DEF bottom
    <2>3. bottom - 2 >= h
        BY <1>3, <2>1, <2>2 DEF Longest
    <2> QED BY <1>11, <2>1, <2>3 DEF bottom
<1>14. again # 0 /\ c = 0 => h >= bottom - 1
    <2>1. SUFFICES ASSUME again # 0, c = 0, h <= bottom - 2 PROVE FALSE
        BY <1>11 DEF bottom
    <2>2. WhiteFrom(0, bottom - 2)
        BY <1>11, <2>1 DEF WhiteFrom, bottom
    <2>3. Last_Mid_Line < 2
        BY <1>2, <1>3, <2>1, Pixels DEF Columns
    <2> QED BY <2>1, <2>2, <2>3 DEF BorderOK
<1>7. ColumnOK'
    <2>2. Last_Mid_Line >= 2 => c >= 2
        BY <1>2, <1>3, Pixels DEF Columns
    <2>3. again # 0 => \A x \in top' + 1 .. bottom - 1 : Image_Use[x][c] = white
        BY <1>3, <1>11 DEF WhiteFrom, bottom
    <2> QED BY <1>3, <1>10, <1>11, <2>2, <2>3 DEF ColumnOK, Late, WhiteFrom, Searched, bottom
<1>15. BorderOK'
    <2>2. ~WhiteFrom(0, bottom - 2) => ~WhiteFrom(0, bottom - 2)'
        BY <1>10 DEF WhiteFrom, bottom
    <2> QED BY <1>3, <1>10, <1>13, <1>14, <2>2 DEF BorderOK, Late, bottom
<1>8. RowOK' /\ NoCornersYet' /\ SearchesOK'
    BY <1>10 DEF RowOK, NoCornersYet, SearchesOK, bottom
<1>9. EdgesOK' /\ CornersOrdered'
    <2>1. \A x : x \in bottom - 1 + 1 .. bottom - 1 => FALSE
        BY DEF bottom
    <2> QED BY <1>10, <2>1 DEF EdgesOK, NoCornersYet, CornersOrdered, Ordered, bottom
<1>5. ASSUME road = 1
      PROVE  top' < bottom - 1 /\ Image_Use[bottom - 1][c] = white
    <2>1. PICK a \in 3 .. LCDW_1 - 4, b \in 3 .. LCDW_1 - 4 :
              /\ \A x \in Columns : Image_Use[bottom - 1][x] = white <=> x \in a .. b
              /\ \E x \in a .. b : Image_Use[bottom - 2][x] = white
        BY <1>5 DEF RoadOK, ClearRoad
    <2>2. PICK x \in a .. b : Image_Use[bottom - 2][x] = white
        BY <2>1
    <2>3. x \in l .. r
        BY <1>1, <2>1, RoadInReach
    <2> HIDE DEF IInv
    <2>4. WhiteFrom(x, bottom - 2)
        <3>1. Image_Use[bottom - 1][x] = white
            BY <2>1 DEF Columns
        <3>2. bottom - 1 \in Int /\ \A y \in bottom - 2 .. bottom - 1 : y = bottom - 2 \/ y = bottom - 1
            BY DEF bottom
        <3> QED BY <2>2, <3>1, <3>2 DEF WhiteFrom
    <2>5. h <= bottom - 2
        BY <1>3, <2>3, <2>4 DEF Longest, bottom
    <2> QED BY <1>3, <2>5 DEF Longest, WhiteFrom, bottom
<1>6. RoadOK'
    BY <1>3, <1>5, <1>10 DEF RoadOK, SearchesOK, Late, TypeOK, ClearRoad
<1> QED BY <1>4, <1>6, <1>7, <1>8, <1>9, <1>15

(* The border is painted beside the road.                                  *)
LEMMA DrawOK == ASSUME IInv, Draw_BlackSideline PROVE IInv'
<1> USE ImageAssumption DEF IInv
<1>1. \A r \in Rows, c \in Columns :
          Image_Use'[r][c] = IF r \in top + 1 .. bottom - 1 /\ c \in {0, LCDW_1 - 1}
                             THEN black ELSE Image_Use[r][c]
    BY DEF Draw_BlackSideline
<1>2. TypeOK'
    BY DEF Draw_BlackSideline, TypeOK, lines, corners, searches, bottom
<1>7. UNCHANGED searches /\ again = 0 /\ again' = 0 /\ pc = "draw" /\ pc' = "side"
    BY DEF Draw_BlackSideline, SearchesOK, searches
<1>3. ColumnOK' /\ RowOK'
    BY <1>1, <1>7 DEF Draw_BlackSideline, TypeOK, ColumnOK, RowOK, Late, WhiteFrom, Searched, bottom,
                Rows, Columns, black, white
<1>8. BorderOK' /\ SearchesOK'
    <2>1. top < bottom - 1 => Image_Use'[bottom - 1][0] = black
        BY <1>1 DEF TypeOK, Rows, Columns, bottom
    <2>2. top >= bottom - 1 => Image_Use' = Image_Use
        <3>1. top >= bottom - 1 => \A r \in Rows : Image_Use'[r] = Image_Use[r]
            BY DEF Draw_BlackSideline, TypeOK, bottom
        <3> QED BY <1>2, <3>1 DEF TypeOK
    <2>3. Last_Mid_Line < 2 => ~WhiteFrom(0, bottom - 2)'
        <3>1. CASE top < bottom - 1
            <4>1. bottom - 1 \in bottom - 2 .. bottom - 1 /\ black # white
                BY DEF bottom, black, white
            <4> QED BY <2>1, <3>1, <4>1 DEF WhiteFrom
        <3>2. CASE top >= bottom - 1
            BY <1>7, <2>2, <3>2 DEF BorderOK, Draw_BlackSideline, WhiteFrom
        <3> QED BY <3>1, <3>2 DEF TypeOK, bottom
    <2> QED BY <1>7, <2>3 DEF BorderOK, SearchesOK, Draw_BlackSideline, searches, corners, seen, bottom
<1>9. i = bottom - 1 /\ i' = i /\ \A r : r \in i + 1 .. bottom - 1 => FALSE
    BY <1>7 DEF Draw_BlackSideline, RowOK, bottom
<1>4. EdgesOK' /\ NoCornersYet' /\ CornersOrdered'
    BY <1>7, <1>9 DEF Draw_BlackSideline, EdgesOK, NoCornersYet, CornersOrdered, Ordered, lines, corners
<1>5. ASSUME road = 1
      PROVE  ClearRoad(Image_Use') /\ Image_Use'[bottom - 1][max_column] = white
    <2>1. PICK a \in 3 .. LCDW_1 - 4, b \in 3 .. LCDW_1 - 4 :
              /\ \A x \in Columns : Image_Use[bottom - 1][x] = white <=> x \in a .. b
              /\ \E x \in a .. b : Image_Use[bottom - 2][x] = white
        BY <1>5 DEF RoadOK, ClearRoad, Draw_BlackSideline
    <2>2. Image_Use[bottom - 1][max_column] = white /\ max_column \in Columns
        BY <1>5 DEF RoadOK, Late, Draw_BlackSideline, TypeOK, Columns
    <2>3. max_column \in a .. b
        BY <2>1, <2>2
    <2>4. \A x \in Columns : Image_Use'[bottom - 1][x] = white <=> x \in a .. b
        BY <1>1, <2>1, Pixels DEF Columns
    <2>5. \E x \in a .. b : Image_Use'[bottom - 2][x] = white
        BY <1>1, <2>1, Pixels DEF Columns
    <2> QED BY <2>1, <2>2, <2>3, <2>4, <2>5 DEF ClearRoad
<1>6. RoadOK'
    BY <1>5, <1>7, <1>9 DEF Draw_BlackSideline, RoadOK, Late, bottom
<1> QED BY <1>2, <1>3, <1>4, <1>6, <1>8

(* One row further: its edges lie on either side of the longest column,    *)
(* and in the first row on a clear road.                                   *)
LEMMA Find_SidelineOK == ASSUME IInv, Find_Sideline PROVE IInv'
<1> USE ImageAssumption DEF IInv
<1>1. PICK l \in Columns, r \in Columns, lf \in {0, 1}, rf \in {0, 1} :
          /\ IsLeftEdge(i, max_column, l, lf) /\ IsRightEdge(i, max_column, r, rf)
          /\ Left_Sideline' = [Left_Sideline EXCEPT ![i] = l]
          /\ Right_Sideline' = [Right_Sideline EXCEPT ![i] = r]
          /\ Left_Sideline_flag' = [Left_Sideline_flag EXCEPT ![i] = lf]
          /\ Right_Sideline_flag' = [Right_Sideline_flag EXCEPT ![i] = rf]
          /\ white_width' = [white_width EXCEPT ![i] = Width(l, r)]
          /\ L_loselineSum' = L_loselineSum + 1 - lf
          /\ R_loselineSum' = R_loselineSum + 1 - rf
    BY DEF Find_Sideline
<1>2. /\ pc = "side" /\ pc' = pc /\ i \in Rows /\ i \in Searched /\ i' = i - 1
      /\ UNCHANGED <<Image_Use, top, max_column, road, Last_Mid_Line, corners, again, earlier>>
    BY DEF Find_Sideline, TypeOK, RowOK, Searched, Rows, bottom, seen, searches
<1>3. max_column # 0
    BY <1>2 DEF Find_Sideline, ColumnOK, BorderOK, TypeOK, Searched, Late, bottom, black, white
<1>4. 1 <= l /\ l <= max_column /\ max_column <= r /\ r <= LCDW_1 - 2
    BY <1>1, <1>3 DEF IsLeftEdge, IsRightEdge, TypeOK, Columns
<1>5. TypeOK'
    <2>1. L_loselineSum' \in Nat /\ R_loselineSum' \in Nat
        <3>1. L_loselineSum \in Nat /\ R_loselineSum \in Nat
            BY DEF TypeOK
        <3> QED BY <1>1, <3>1
    <2>2. /\ Left_Sideline' \in [Rows -> Int] /\ Right_Sideline' \in [Rows -> Int]
          /\ Left_Sideline_flag' \in [Rows -> {Old, 0, 1}]
          /\ Right_Sideline_flag' \in [Rows -> {Old, 0, 1}]
        <3>1. /\ Left_Sideline \in [Rows -> Int] /\ Right_Sideline \in [Rows -> Int]
              /\ Left_Sideline_flag \in [Rows -> {Old, 0, 1}]
              /\ Right_Sideline_flag \in [Rows -> {Old, 0, 1}]
            BY DEF TypeOK
        <3>2. l \in Int /\ r \in Int
            BY DEF Columns
        <3> HIDE ImageAssumption DEF IInv
        <3> QED BY <1>1, <3>1, <3>2
    <2>3. white_width' \in [Rows -> Int]
        <3>1. white_width \in [Rows -> Int]
            BY DEF TypeOK
        <3>2. Width(l, r) \in Int
            BY DEF Width, Columns
        <3> HIDE ImageAssumption DEF IInv
        <3> QED BY <1>1, <3>1, <3>2
    <2>4. TypeOK /\ i' \in Int
        BY <1>2 DEF Rows, bottom
    <2> HIDE ImageAssumption DEF IInv
    <2> QED BY <1>2, <2>1, <2>2, <2>3, <2>4 DEF TypeOK, corners
<1>6. ColumnOK' /\ RowOK'
    BY <1>2, <1>3 DEF ColumnOK, RowOK, Late, Searched, TypeOK, bottom
<1>11. BorderOK' /\ SearchesOK'
    BY <1>2, <1>3 DEF BorderOK, SearchesOK, WhiteFrom, Late, corners
<1>7. EdgesOK'
    <2> DEFINE In(x) == /\ 1 <= Left_Sideline'[x] /\ Left_Sideline'[x] <= max_column
                        /\ max_column <= Right_Sideline'[x] /\ Right_Sideline'[x] <= LCDW_1 - 2
    <2>1. /\ i \in Int /\ bottom \in Int /\ bottom \in Rows /\ i # bottom
          /\ \A x \in i + 1 .. bottom - 1 : x \in Rows /\ x # i
        BY <1>2 DEF Searched, Rows, bottom
    <2>2. /\ Left_Sideline \in [Rows -> Int] /\ Right_Sideline \in [Rows -> Int]
        BY DEF TypeOK
    <2>3. In(i)
        BY <1>1, <1>2, <1>4, <2>2
    <2>4. \A x \in i + 1 .. bottom - 1 : In(x)
        BY <1>1, <1>2, <2>1, <2>2 DEF Enclosed, EdgesOK
    <2>5. Left_Sideline'[bottom] = 0 /\ Right_Sideline'[bottom] = 0
        BY <1>1, <2>1, <2>2 DEF EdgesOK
    <2>6. \A x \in i' + 1 .. bottom - 1 : In(x)
        <3>1. \A x \in i' + 1 .. bottom - 1 : x = i \/ x \in i + 1 .. bottom - 1
            BY <1>2, <2>1
        <3> HIDE DEF In
        <3> QED BY <2>3, <2>4, <3>1
    <2>7. L_h_guai'.flag # 2
        BY <1>2 DEF EdgesOK, corners
    <2> QED BY <1>2, <2>5, <2>6, <2>7 DEF EdgesOK, Enclosed
<1>8. NoCornersYet' /\ CornersOrdered'
    BY <1>2 DEF NoCornersYet, CornersOrdered, Ordered, corners
<1>9. ASSUME road = 1, i = bottom - 1
      PROVE  \A c \in l .. r : Image_Use[bottom - 1][c] = white
    <2>1. PICK a \in 3 .. LCDW_1 - 4, b \in 3 .. LCDW_1 - 4 :
              \A x \in Columns : Image_Use[bottom - 1][x] = white <=> x \in a .. b
        BY <1>9 DEF RoadOK, ClearRoad
    <2>2. max_column \in a .. b
        BY <1>2, <1>9, <2>1 DEF RoadOK, Late, TypeOK, Columns
    <2>3. \A x \in Columns : Pixel(bottom - 1, x) = IF x \in a .. b THEN white ELSE black
        BY <2>1, Pixels DEF Pixel
    <2>4. LeftHit(bottom - 1, a) /\ RightHit(bottom - 1, b)
        <3>1. a <= b /\ {a - 2, a - 1, a, b, b + 1, b + 2} \subseteq Columns
            BY <2>2 DEF TypeOK, Columns
        <3> QED BY <2>3, <3>1 DEF LeftHit, RightHit
    <2>5. \A x \in a + 1 .. b : ~LeftHit(bottom - 1, x)
        BY <2>1, <2>3, Pixels DEF LeftHit, Columns
    <2>6. \A x \in a .. b - 1 : ~RightHit(bottom - 1, x)
        BY <2>1, <2>3, Pixels DEF RightHit, Columns
    <2>7. l = a
        BY <1>1, <1>9, <2>2, <2>4, <2>5 DEF IsLeftEdge, Columns
    <2>8. r = b
        BY <1>1, <1>9, <2>2, <2>4, <2>6 DEF IsRightEdge, Columns
    <2> QED BY <2>1, <2>7, <2>8 DEF Columns
<1>10. RoadOK'
    <2>1. SUFFICES ASSUME road = 1
                   PROVE  \A c \in Left_Sideline'[bottom - 1] .. Right_Sideline'[bottom - 1] :
                              Image_Use[bottom - 1][c] = white
        BY <1>2 DEF RoadOK, Late, ClearRoad
    <2>2. CASE i = bottom - 1
        BY <1>1, <1>2, <1>9, <2>1, <2>2 DEF TypeOK
    <2>3. CASE i < bottom - 1
        BY <1>1, <1>2, <2>1, <2>3 DEF RoadOK, TypeOK, Late, bottom
    <2> QED BY <1>2, <2>2, <2>3 DEF Searched, bottom, TypeOK
<1> QED BY <1>5, <1>6, <1>7, <1>8, <1>10, <1>11

(* The search gives up in its first row, and only on column 0.             *)
LEMMA BreakOK == ASSUME IInv, Find_Sideline_break PROVE IInv'
<1> USE ImageAssumption DEF IInv
<1>1. /\ pc = "side" /\ pc' = "mid" /\ i \in Searched
      /\ UNCHANGED <<i, Image_Use, top, max_column, road, Last_Mid_Line, again, earlier>>
      /\ max_column = 0 /\ again = 0 /\ i = bottom - 1
    BY DEF Find_Sideline_break, TypeOK, ColumnOK, RowOK, Late, Searched, bottom, seen, searches,
           black, white
<1>2. TypeOK'
    BY <1>1 DEF Find_Sideline_break, TypeOK, OldCorner, Rows, bottom
<1>3. ColumnOK' /\ BorderOK' /\ SearchesOK' /\ RowOK' /\ NoCornersYet'
    BY <1>1 DEF ColumnOK, BorderOK, SearchesOK, WhiteFrom, RowOK, NoCornersYet, Late, Searched
<1>4. EdgesOK' /\ CornersOrdered'
    BY <1>1 DEF Find_Sideline_break, EdgesOK, CornersOrdered, Ordered, OldCorner, TypeOK, Rows, bottom
<1>5. road = 0
    BY <1>1, Pixels DEF RoadOK, Late, ClearRoad, TypeOK, Columns
<1> QED BY <1>1, <1>2, <1>3, <1>4, <1>5 DEF RoadOK

(* A search is over: of ImageDeal, or of a handler.                        *)
LEMMA Find_Sideline_endOK ==
    ASSUME IInv, Find_Sideline_end \/ Huandao_search_end
    PROVE  IInv'
<1> USE ImageAssumption DEF IInv
<1>1. /\ pc = "side" /\ pc' = (IF again = 0 THEN "corner" ELSE "mid") /\ i <= top
      /\ UNCHANGED <<i, Image_Use, top, max_column, road, Last_Mid_Line, Left_Sideline,
                     Right_Sideline, Left_Sideline_flag, Right_Sideline_flag, white_width, corners,
                     again, earlier>>
    BY DEF Find_Sideline_end, Huandao_search_end, seen, lines, searches
<1>2. L_loselineSum' \in Nat /\ R_loselineSum' \in Nat
    BY DEF Find_Sideline_end, Huandao_search_end, lines, TypeOK
<1>5. TypeOK'
    BY <1>1, <1>2 DEF TypeOK, corners
<1>6. ColumnOK' /\ BorderOK' /\ SearchesOK' /\ RowOK' /\ NoCornersYet' /\ CornersOrdered'
    BY <1>1 DEF ColumnOK, BorderOK, SearchesOK, WhiteFrom, RowOK, NoCornersYet, CornersOrdered,
                Ordered, Late, Searched, corners
<1>3. EdgesOK'
    <2>1. \A r \in Searched : Enclosed(r)
        BY <1>1 DEF EdgesOK, TypeOK, Searched, bottom
    <2>2. top < bottom - 1 => bottom - 1 \in Searched
        BY DEF TypeOK, Searched, bottom
    <2> QED BY <1>1, <2>1, <2>2 DEF EdgesOK, Enclosed, Searched, corners
<1>4. RoadOK'
    <2>2. road = 1 => top < bottom - 1 /\ i < bottom - 1
        BY <1>1 DEF RoadOK, Late, TypeOK, bottom
    <2> QED BY <1>1, <2>2 DEF RoadOK, Late
<1> QED BY <1>3, <1>4, <1>5, <1>6

(* The corners. What the loops yield is a corner of one of their rows.     *)
LEMMA UpperRange ==
    ASSUME NEW line, NEW s, NEW found \in SUBSET UpperRows, NEW c \in Upper(found, line, s)
    PROVE  /\ c.flag \in {0, 1}
           /\ c.flag = 1 => \E r \in UpperRows : c.row = r + 1
    BY ImageAssumption DEF Upper, NoUpper, NoCorner, Corner, UpperRows, bottom

LEMMA LowerRange ==
    ASSUME NEW line, NEW found, NEW c \in Lower(found, line)
    PROVE  /\ c.flag \in {0, 1}
           /\ c.flag = 1 => \E r \in found : c.row = r - 1
    BY DEF Lower, NoLower, NoCorner, Corner

LEMMA InnerFlag ==
    ASSUME NEW line, NEW d, NEW lower, NEW c \in Inner(line, d, lower)
    PROVE  c.flag = 1
    BY DEF Inner, Corner

LEMMA Find_GuaidianOK == ASSUME IInv, Find_Guaidian PROVE IInv'
<1> USE ImageAssumption DEF IInv
<1>1. /\ pc = "corner" /\ pc' \in {"right", "mid"} /\ i' = bottom - 5
      /\ UNCHANGED <<Image_Use, top, max_column, road, Last_Mid_Line, lines, again, earlier>>
    BY DEF Find_Guaidian, seen, searches
<1>2. PICK s \in Stages :
          /\ stage' = s
          /\ L_h_guai' \in Upper({r \in UpperRows : UpperLeft(r)}, Left_Sideline, s)
          /\ R_h_guai' \in Upper({r \in UpperRows : UpperRight(r)}, Right_Sideline, s)
          /\ \E old \in SUBSET LeftUndecided(s) :
             \E l \in Lower({r \in LowerRows(s) : LowerLeft(r, old) /\ BelowUpper(r, L_h_guai')},
                            Left_Sideline) :
                L_l_guai' \in IF s = "right4" THEN Inner(Left_Sideline, 1, l) ELSE {l}
          /\ \E old \in SUBSET RightUndecided(s) :
             \E r \in Lower({x \in LowerRows(s) : LowerRight(x, old) /\ BelowUpper(x, R_h_guai')},
                            Right_Sideline) :
                R_l_guai' \in IF s = "left4" THEN Inner(Right_Sideline, -1, r) ELSE {r}
    BY DEF Find_Guaidian
<1>13. PICK oldL \in SUBSET LeftUndecided(s) :
          \E l \in Lower({r \in LowerRows(s) : LowerLeft(r, oldL) /\ BelowUpper(r, L_h_guai')},
                         Left_Sideline) :
             L_l_guai' \in IF s = "right4" THEN Inner(Left_Sideline, 1, l) ELSE {l}
    BY <1>2
<1>14. PICK oldR \in SUBSET RightUndecided(s) :
          \E r \in Lower({x \in LowerRows(s) : LowerRight(x, oldR) /\ BelowUpper(x, R_h_guai')},
                         Right_Sideline) :
             R_l_guai' \in IF s = "left4" THEN Inner(Right_Sideline, -1, r) ELSE {r}
    BY <1>2
<1> DEFINE LS == {r \in LowerRows(s) : LowerLeft(r, oldL) /\ BelowUpper(r, L_h_guai')}
           RS == {x \in LowerRows(s) : LowerRight(x, oldR) /\ BelowUpper(x, R_h_guai')}
<1>3. PICK l \in Lower(LS, Left_Sideline) :
          L_l_guai' \in IF s = "right4" THEN Inner(Left_Sideline, 1, l) ELSE {l}
    BY <1>13
<1>4. PICK r \in Lower(RS, Right_Sideline) :
          R_l_guai' \in IF s = "left4" THEN Inner(Right_Sideline, -1, r) ELSE {r}
    BY <1>14
<1>5. /\ L_h_guai'.flag \in {0, 1} /\ (L_h_guai'.flag = 1 => \E x \in UpperRows : L_h_guai'.row = x + 1)
      /\ R_h_guai'.flag \in {0, 1} /\ (R_h_guai'.flag = 1 => \E x \in UpperRows : R_h_guai'.row = x + 1)
    <2>1. {x \in UpperRows : UpperLeft(x)} \in SUBSET UpperRows
          /\ {x \in UpperRows : UpperRight(x)} \in SUBSET UpperRows
        OBVIOUS
    <2> QED BY <1>2, <2>1, UpperRange
<1>6. /\ l.flag \in {0, 1} /\ (l.flag = 1 => \E x \in LS : l.row = x - 1)
      /\ r.flag \in {0, 1} /\ (r.flag = 1 => \E x \in RS : r.row = x - 1)
    BY LowerRange
<1>7. L_l_guai'.flag \in {0, 1} /\ R_l_guai'.flag \in {0, 1}
    BY <1>3, <1>4, <1>6, InnerFlag
<1>8. TypeOK'
    BY <1>1, <1>2, <1>5, <1>7 DEF TypeOK, lines, bottom
<1>15. again = 0 /\ again' = 0
    BY <1>1 DEF SearchesOK
<1>9. ColumnOK' /\ BorderOK' /\ SearchesOK' /\ RowOK' /\ NoCornersYet'
    <2>1. SearchesOK' /\ NoCornersYet'
        BY <1>1, <1>15 DEF SearchesOK, NoCornersYet
    <2>2. ColumnOK' /\ BorderOK'
        BY <1>1, <1>15 DEF ColumnOK, BorderOK, WhiteFrom, Late, Searched
    <2>3. RowOK'
        BY <1>1 DEF RowOK, bottom
    <2> QED BY <2>1, <2>2, <2>3
<1>10. EdgesOK'
    BY <1>1, <1>5, <1>15 DEF EdgesOK, Enclosed, Searched, TypeOK, lines, bottom
<1>11. RoadOK'
    BY <1>1 DEF RoadOK, Late, lines
<1>12. CornersOrdered'
    <2>3. /\ top \in Int /\ bottom \in Int
          /\ l.flag = 1 => \E x \in top + 3 .. bottom - 3 : l.row = x - 1 /\ x > L_h_guai'.row
          /\ r.flag = 1 => \E x \in top + 3 .. bottom - 3 : r.row = x - 1 /\ x > R_h_guai'.row
        BY <1>6 DEF LS, RS, LowerRows, BelowUpper, TypeOK, bottom
    <2>4. /\ L_h_guai'.flag = 1 => L_h_guai'.row \in top + 3 .. bottom - 4
          /\ R_h_guai'.flag = 1 => R_h_guai'.row \in top + 3 .. bottom - 4
        BY <1>5, <2>3 DEF UpperRows
    <2>1. s # "right4" => Ordered(L_h_guai', L_l_guai')
        BY <1>3, <2>3, <2>4 DEF Ordered
    <2>2. s # "left4" => Ordered(R_h_guai', R_l_guai')
        BY <1>4, <2>3, <2>4 DEF Ordered
    <2> QED BY <1>1, <1>2, <2>1, <2>2 DEF CornersOrdered, Ordered
<1> QED BY <1>8, <1>9, <1>10, <1>11, <1>12

LEMMA Redrawn ==
    ASSUME NEW f \in [Rows -> Int], NEW k \in Int, k <= bottom - 5, NEW v \in Int,
           NEW g, g = [f EXCEPT ![k] = v]
    PROVE  /\ g \in [Rows -> Int]
           /\ \A r \in bottom - 4 .. bottom : g[r] = f[r]
<1>1. \A r \in bottom - 4 .. bottom : r \in Rows /\ r # k
    BY ImageAssumption DEF Rows, bottom
<1> QED BY <1>1

(* The second search works far above the row bottom - 1.                   *)
LEMMA SecondSearchOK ==
    ASSUME IInv,
           \/ Find_right_Sideline \/ Find_right_Sideline_end
           \/ Find_left_Sideline \/ Find_left_Sideline_end
    PROVE  IInv'
<1> USE ImageAssumption DEF IInv
<1>1. /\ pc \in {"right", "left"} /\ pc' \in {"right", "left", "mid"}
      /\ i <= bottom - 5 /\ i' \in Int /\ (pc' # "mid" => i' <= bottom - 5)
      /\ UNCHANGED <<Image_Use, top, max_column, road, Last_Mid_Line, corners, again, earlier>>
    BY DEF Find_right_Sideline, Find_right_Sideline_end, Find_left_Sideline, Find_left_Sideline_end,
           TypeOK, RowOK, seen, searches, bottom
<1>2. /\ Left_Sideline' \in [Rows -> Int] /\ Right_Sideline' \in [Rows -> Int]
      /\ \A r \in bottom - 4 .. bottom : /\ Left_Sideline'[r] = Left_Sideline[r]
                                         /\ Right_Sideline'[r] = Right_Sideline[r]
    <2>1. CASE Find_right_Sideline
        <3>1. UNCHANGED Left_Sideline
              /\ \/ UNCHANGED Right_Sideline
                 \/ \E r \in Columns : Right_Sideline' = [Right_Sideline EXCEPT ![i] = r]
            BY <2>1 DEF Find_right_Sideline
        <3>2. i \in Int /\ Columns \subseteq Int
            BY DEF TypeOK, Columns
        <3> QED BY <1>1, <3>1, <3>2, Redrawn DEF TypeOK
    <2>2. CASE Find_left_Sideline
        <3>1. UNCHANGED Right_Sideline
              /\ \/ UNCHANGED Left_Sideline
                 \/ \E l \in 1 .. LeftStart(i) : Left_Sideline' = [Left_Sideline EXCEPT ![i] = l]
            BY <2>2 DEF Find_left_Sideline
        <3>2. /\ i \in Int /\ i <= bottom - 5
              /\ Left_Sideline \in [Rows -> Int] /\ Right_Sideline \in [Rows -> Int]
            BY <1>1 DEF TypeOK
        <3>3. CASE UNCHANGED Left_Sideline
            BY <3>1, <3>2, <3>3
        <3>4. ASSUME NEW l \in 1 .. LeftStart(i), Left_Sideline' = [Left_Sideline EXCEPT ![i] = l]
              PROVE  /\ Left_Sideline' \in [Rows -> Int]
                     /\ \A r \in bottom - 4 .. bottom : Left_Sideline'[r] = Left_Sideline[r]
            <4>1. l \in Int
                OBVIOUS
            <4>2. \A r \in bottom - 4 .. bottom : r \in Rows /\ r # i
                BY <3>2 DEF Rows, bottom
            <4> QED BY <3>2, <3>4, <4>1, <4>2
        <3> QED BY <3>1, <3>2, <3>3, <3>4
    <2>3. CASE Find_right_Sideline_end \/ Find_left_Sideline_end
        BY <2>3 DEF Find_right_Sideline_end, Find_left_Sideline_end, TypeOK
    <2> QED BY <2>1, <2>2, <2>3
<1>3. /\ Left_Sideline_flag' \in [Rows -> {Old, 0, 1}]
      /\ Right_Sideline_flag' \in [Rows -> {Old, 0, 1}]
    BY DEF Find_right_Sideline, Find_right_Sideline_end, Find_left_Sideline, Find_left_Sideline_end,
           TypeOK
<1>4. \A flags : Lost(flags) \in Nat
    <2> SUFFICES ASSUME NEW flags PROVE Lost(flags) \in Nat
        OBVIOUS
    <2>1. IsFiniteSet(top + 1 .. bottom - 1)
        BY FS_Interval DEF TypeOK, bottom
    <2>2. IsFiniteSet({r \in top + 1 .. bottom - 1 : flags[r] = 0})
        BY <2>1, FS_Subset
    <2> QED BY <2>2, FS_CardinalityType DEF Lost
<1>5. L_loselineSum' \in Nat /\ R_loselineSum' \in Nat /\ white_width' \in [Rows -> Int]
    BY <1>2, <1>4 DEF Find_right_Sideline, Find_right_Sideline_end, Find_left_Sideline,
           Find_left_Sideline_end, TypeOK, Width
<1>6. TypeOK'
    BY <1>1, <1>2, <1>3, <1>5 DEF TypeOK, corners
<1>7. ColumnOK' /\ BorderOK' /\ SearchesOK' /\ RowOK' /\ NoCornersYet' /\ CornersOrdered'
    BY <1>1 DEF ColumnOK, BorderOK, SearchesOK, WhiteFrom, RowOK, NoCornersYet, CornersOrdered, Ordered, Late, Searched, corners
<1>8. EdgesOK'
    <2>1. bottom - 1 \in bottom - 4 .. bottom /\ bottom \in bottom - 4 .. bottom
        BY DEF bottom
    <2>2. L_h_guai' = L_h_guai /\ L_h_guai.flag # 2
        BY <1>1 DEF EdgesOK, corners
    <2> QED BY <1>1, <1>2, <2>1, <2>2 DEF EdgesOK, SearchesOK, Enclosed
<1>9. RoadOK'
    <2>1. /\ Left_Sideline'[bottom - 1] = Left_Sideline[bottom - 1]
          /\ Right_Sideline'[bottom - 1] = Right_Sideline[bottom - 1]
        BY <1>2 DEF bottom
    <2>2. ClearRoad(Image_Use)' <=> ClearRoad(Image_Use)
        BY <1>1 DEF ClearRoad
    <2> QED BY <1>1, <2>1, <2>2 DEF RoadOK, Late
<1> QED BY <1>6, <1>7, <1>8, <1>9

LEMMA Huandao_imuOK == ASSUME IInv, Huandao_imu PROVE IInv'
<1> USE DEF IInv, Huandao_imu, seen, lines, searches
<1>1. TypeOK' /\ SearchesOK' /\ RowOK' /\ NoCornersYet'
    BY DEF TypeOK, SearchesOK, Stages, RowOK, NoCornersYet
<1>2. ColumnOK' /\ BorderOK' /\ EdgesOK' /\ RoadOK' /\ CornersOrdered'
    BY DEF ColumnOK, BorderOK, EdgesOK, Enclosed, RoadOK, CornersOrdered, Ordered, WhiteFrom, Searched
<1> QED BY <1>1, <1>2

(* A handler paints and has the image searched again.                      *)
LEMMA Huandao_searchOK == ASSUME IInv, Huandao_search PROVE IInv'
<1> USE ImageAssumption DEF IInv
<1>1. /\ pc = "mid" /\ pc' = "top" /\ again' \in {2, 3, 4, 5}
      /\ stage' \in {"other", stage, "left4", "right4"} /\ stage' # "off"
      /\ UNCHANGED <<i, top, max_column, Last_Mid_Line>>
    <2>1. again' \in IF again = 0 THEN Handlers(stage) ELSE {again + 1} \cap 2 .. 5
        BY DEF Huandao_search
    <2>2. Handlers(stage) \subseteq {2, 3, 4, 5} /\ (stage = "off" => Handlers(stage) = {})
        BY DEF Handlers
    <2>3. again' \in {2, 3, 4, 5}
        BY <2>1, <2>2 DEF TypeOK
    <2>4. stage = "off" => again # 0
        BY <2>1, <2>2
    <2> QED BY <2>3, <2>4 DEF Huandao_search
<1>2. PICK line \in Lines : Image_Use' = Painted(line)
    BY DEF Huandao_search
<1>3. /\ Image_Use' \in [Rows -> [Columns -> {black, white}]]
      /\ \A r \in Rows, c \in Columns : Image_Use'[r][c] = white => Image_Use[r][c] = white
    BY <1>2 DEF Painted, TypeOK, black, white
<1>4. TypeOK'
    <2>1. L_loselineSum' = 0 /\ R_loselineSum' = R_loselineSum /\ earlier' = R_loselineSum
        BY DEF Huandao_search, Find_Sideline_resets
    <2>2. /\ Left_Sideline' \in [Rows -> Int] /\ Right_Sideline' \in [Rows -> Int]
          /\ Left_Sideline_flag' \in [Rows -> {Old, 0, 1}]
          /\ Right_Sideline_flag' \in [Rows -> {Old, 0, 1}]
          /\ white_width' \in [Rows -> Int]
        BY DEF Huandao_search, ForgetLines, Unfound, Old
    <2>3. /\ \A c \in {L_h_guai', R_h_guai', L_l_guai', R_l_guai'} : c.flag \in {0, 1, 2}
          /\ road' = 0
        BY DEF Huandao_search, ForgetLines, NoCorner
    <2> QED BY <1>1, <1>3, <2>1, <2>2, <2>3 DEF TypeOK, Stages
<1>5. ColumnOK' /\ RowOK' /\ NoCornersYet' /\ RoadOK' /\ SearchesOK'
    BY <1>1 DEF Huandao_search, ForgetLines, ColumnOK, RowOK, NoCornersYet, RoadOK, SearchesOK,
                NoCorner, Late
<1>6. BorderOK'
    <2>1. WhiteFrom(0, bottom - 2)' => WhiteFrom(0, bottom - 2)
        <3>1. \A r \in bottom - 2 .. bottom - 1 : r \in Rows /\ 0 \in Columns
            BY DEF Rows, Columns, bottom
        <3> QED BY <1>3, <3>1 DEF WhiteFrom, bottom
    <2> QED BY <1>1, <2>1 DEF BorderOK, Late
<1>7. EdgesOK' /\ CornersOrdered'
    BY <1>1 DEF Huandao_search, ForgetLines, EdgesOK, CornersOrdered, Ordered, NoCorner, Unfound,
                Rows, bottom
<1> QED BY <1>4, <1>5, <1>6, <1>7

(* The middle of two columns lies between them.                            *)
LEMMA Middle ==
    \A a, b \in Int : /\ a <= b => (a + b) \div 2 \in a .. b
                      /\ \A m \in Nat : a \in 0 .. m /\ b \in 0 .. m + 1 => (a + b) \div 2 \in 0 .. m
    OBVIOUS

LEMMA Find_MidlineOK == ASSUME IInv, Find_Midline PROVE IInv'
<1> USE ImageAssumption DEF IInv
<1>1. /\ pc = "mid" /\ pc' = "idle" /\ ForgetLines /\ UNCHANGED <<L_loselineSum, R_loselineSum>>
      /\ i' = 0 /\ Image_Use' = NoImage /\ top' = 0 /\ max_column' = 0
      /\ stage' = "off" /\ again' = 0 /\ earlier' = 0
    BY DEF Find_Midline
<1>2. Last_Mid_Line' \in 0 .. LCDW_1 - 3
    <2>1. top < bottom - 1 => Midline(bottom - 1) \in 0 .. LCDW_1 - 3
        <3>1. top < bottom - 1 => /\ Left_Sideline[bottom - 1] \in 0 .. LCDW_1 - 3
                                  /\ Right_Sideline[bottom - 1] \in 0 .. LCDW_1 - 2
            <4>1. bottom - 1 \in Rows
                BY DEF Rows, bottom
            <4>2. CASE L_h_guai.flag = 2
                BY <4>2 DEF EdgesOK
            <4>3. CASE L_h_guai.flag # 2
                BY <1>1, <4>1, <4>3 DEF EdgesOK, Enclosed, TypeOK
            <4> QED BY <4>2, <4>3
        <3> QED BY <3>1, Middle DEF Midline
    <2> QED BY <2>1 DEF Find_Midline, TypeOK
<1>3. TypeOK'
    BY <1>1, <1>2 DEF ForgetLines, TypeOK, Unfound, NoImage, NoCorner, Old, Rows, Columns, Stages, bottom,
                      black, white
<1>4. ColumnOK' /\ BorderOK' /\ SearchesOK' /\ RowOK' /\ NoCornersYet' /\ RoadOK'
    BY <1>1 DEF ForgetLines, ColumnOK, BorderOK, SearchesOK, RowOK, NoCornersYet, RoadOK, NoCorner, Late
<1>5. EdgesOK' /\ CornersOrdered'
    BY <1>1 DEF ForgetLines, EdgesOK, CornersOrdered, Ordered, NoCorner, Unfound, Rows, bottom
<1> QED BY <1>3, <1>4, <1>5

LEMMA StutterOK == ASSUME IInv, UNCHANGED vars PROVE IInv'
<1> USE DEF IInv, vars, seen, lines, corners, searches
<1>1. TypeOK' /\ SearchesOK' /\ NoCornersYet' /\ RowOK'
    BY DEF TypeOK, SearchesOK, NoCornersYet, RowOK
<1>2. ColumnOK' /\ BorderOK' /\ EdgesOK' /\ RoadOK' /\ CornersOrdered'
    BY DEF ColumnOK, BorderOK, EdgesOK, Enclosed, RoadOK, CornersOrdered, Ordered, WhiteFrom, Searched
<1> QED BY <1>1, <1>2

LEMMA StepOK == ASSUME IInv, [Next]_vars PROVE IInv'
    BY ImageDealOK, Get_ImageTopOK, DrawOK, Find_SidelineOK, BreakOK, Find_Sideline_endOK,
       Find_GuaidianOK, SecondSearchOK, Huandao_imuOK, Huandao_searchOK,
       Find_MidlineOK, StutterOK
    DEF Next

LEMMA IInvHolds == Spec => []IInv
    BY InitOK, StepOK, PTL DEF Spec

(* Every variable keeps its kind; above all the column the next search     *)
(* starts from stays inside the image (Last_Mid_Line, Get_ImageTop).       *)
THEOREM TypesHold == Spec => []TypeOK
    BY IInvHolds, PTL DEF IInv

(* A frame that starts inside the border finds edges on either side of the *)
(* longest white column in every row, for images of any content            *)
(* (Find_Sideline).                                                        *)
THEOREM EdgesEncloseRoadHolds == Spec => []EdgesEncloseRoad
<1>1. IInv => EdgesEncloseRoad
    BY ImageAssumption DEF IInv, EdgesEncloseRoad, ColumnOK, EdgesOK, Enclosed, TypeOK, Late
<1> QED BY <1>1, IInvHolds, PTL

(* The upper corner of a side is above its lower one, for all edges and    *)
(* widths (Find_Guaidian, Find_Guaidian1).                                 *)
THEOREM CornersOrderedHolds == Spec => []CornersOrdered
    BY IInvHolds, PTL DEF IInv

(* A clear road in front is found from any middle (Find_Midline).          *)
THEOREM BackOnRoadHolds == Spec => BackOnRoad
<1> DEFINE Back == pc = "mid" /\ pc' = "idle" /\ stage = "off" /\ road = 1
                       => Image_Use[bottom - 1][Last_Mid_Line'] = white
<1>1. ASSUME IInv, [Next]_vars PROVE [Back]_vars
    <2> SUFFICES ASSUME pc = "mid", pc' = "idle", stage = "off", road = 1
                 PROVE  Image_Use[bottom - 1][Last_Mid_Line'] = white
        OBVIOUS
    <2>1. Find_Midline
        BY <1>1 DEF Next, vars, ImageDeal, Get_ImageTop, Draw_BlackSideline, Find_Sideline,
            Find_Sideline_break, Find_Sideline_end, Find_Guaidian, Find_right_Sideline,
            Find_right_Sideline_end, Find_left_Sideline, Find_left_Sideline_end, Huandao_imu,
            Huandao_search, Huandao_search_end
    <2>5. again = 0 /\ black # white
        BY <1>1 DEF IInv, SearchesOK, black, white
    <2>2. top < bottom - 1 /\ max_column # 0
        <3>1. top < bottom - 1 /\ Image_Use[bottom - 1][max_column] = white
            BY <1>1 DEF IInv, RoadOK, Late
        <3>2. bottom - 1 \in Searched
            BY <1>1, <3>1, ImageAssumption DEF IInv, TypeOK, Searched, bottom
        <3> QED BY <1>1, <2>5, <3>1, <3>2 DEF IInv, ColumnOK, Late
    <2>3. Enclosed(bottom - 1)
        BY <1>1, <2>2 DEF IInv, EdgesOK
    <2>4. Last_Mid_Line' \in Left_Sideline[bottom - 1] .. Right_Sideline[bottom - 1]
        <3>1. /\ Left_Sideline[bottom - 1] \in Int /\ Right_Sideline[bottom - 1] \in Int
              /\ Left_Sideline[bottom - 1] <= Right_Sideline[bottom - 1]
            BY <1>1, <2>3, ImageAssumption DEF Enclosed, IInv, TypeOK, Rows, Columns, bottom
        <3>2. Last_Mid_Line' = Midline(bottom - 1)
            BY <2>1, <2>2, <1>1, ImageAssumption DEF Find_Midline, IInv, TypeOK, bottom
        <3> QED BY <3>1, <3>2, Middle DEF Midline
    <2> QED BY <1>1, <2>4 DEF IInv, RoadOK, Late
<1> QED BY <1>1, IInvHolds, PTL DEF Spec, BackOnRoad

----------------------------------------------------------------------------
(* The counts of lost rows grow with the rows searched.                    *)
LostBelow(flags, r) == Cardinality({x \in r + 1 .. bottom - 1 : flags[x] = 0})

CountOK ==
    /\ pc \in {"top", "draw"} => L_loselineSum = 0 /\ R_loselineSum = earlier
    /\ pc = "side" => /\ L_loselineSum = LostBelow(Left_Sideline_flag, i)
                      /\ R_loselineSum = earlier + LostBelow(Right_Sideline_flag, i)
    /\ pc \in {"corner", "right"} => L_loselineSum = Lost(Left_Sideline_flag)
    /\ pc \in {"corner", "left"} => R_loselineSum = Lost(Right_Sideline_flag)
    /\ LostRowsCounted

LEMMA NoRows ==
    ASSUME NEW flags, NEW r \in Int, r >= bottom - 1, LCDH_1 \in Nat
    PROVE  LostBelow(flags, r) = 0
<1>1. {x \in r + 1 .. bottom - 1 : flags[x] = 0} = {}
    BY DEF bottom
<1> QED BY <1>1, FS_EmptySet DEF LostBelow

LEMMA CountType ==
    ASSUME NEW flags, NEW r \in Int
    PROVE  LostBelow(flags, r) \in Nat
<1>1. IsFiniteSet(r + 1 .. bottom - 1)
    BY FS_Interval, ImageAssumption DEF bottom
<1>2. IsFiniteSet({x \in r + 1 .. bottom - 1 : flags[x] = 0})
    BY <1>1, FS_Subset
<1> QED BY <1>2, FS_CardinalityType DEF LostBelow

LEMMA OneRowMore ==
    ASSUME NEW flags \in [Rows -> {Old, 0, 1}], NEW r \in Rows, r < bottom, NEW f \in {0, 1}
    PROVE  LostBelow([flags EXCEPT ![r] = f], r - 1) = LostBelow(flags, r) + 1 - f
<1> DEFINE new == [flags EXCEPT ![r] = f]
           Was == {x \in r + 1 .. bottom - 1 : flags[x] = 0}
           Is == {x \in r .. bottom - 1 : new[x] = 0}
<1>1. bottom \in Int /\ r \in Int
    BY ImageAssumption DEF Rows, bottom
<1>2. \A x \in r .. bottom - 1 : new[x] = IF x = r THEN f ELSE flags[x]
    BY <1>1 DEF Rows
<1>3. IsFiniteSet(Was) /\ r \notin Was
    <2>1. IsFiniteSet(r + 1 .. bottom - 1)
        BY <1>1, FS_Interval
    <2> QED BY <1>1, <2>1, FS_Subset
<1>4. Is = IF f = 0 THEN Was \cup {r} ELSE Was
    BY <1>1, <1>2
<1>5. Cardinality(Is) = Cardinality(Was) + 1 - f
    <2>1. Cardinality(Was) \in Nat /\ Cardinality(Was \cup {r}) = Cardinality(Was) + 1
        BY <1>3, FS_AddElement, FS_CardinalityType
    <2> HIDE DEF Was, Is
    <2> QED BY <1>4, <2>1
<1>6. r - 1 + 1 = r
    BY <1>1
<1> QED BY <1>5, <1>6 DEF LostBelow

LEMMA CountStep == ASSUME IInv, CountOK, [Next]_vars PROVE CountOK'
<1> USE ImageAssumption
<1>15. /\ SearchesOK /\ earlier \in Int /\ top \in 0 .. bottom /\ i \in Int
       /\ \A r \in Int : \A flags : r >= bottom - 1 => LostBelow(flags, r) = 0
       /\ \A r \in Int : \A flags : LostBelow(flags, r) \in Int
       /\ \A flags : Lost(flags) = LostBelow(flags, top) /\ Lost(flags) \in Int
    BY NoRows, CountType DEF IInv, TypeOK, Lost, LostBelow, bottom
<1>1. CASE ImageDeal
    BY <1>1, <1>15 DEF ImageDeal, imgInfoInit, searches, SearchesOK, CountOK, LostRowsCounted
<1>2. CASE Get_ImageTop
    <2>1. i' = bottom - 1 /\ bottom - 1 \in Int
        BY <1>2 DEF Get_ImageTop, bottom
    <2> QED BY <1>2, <1>15, <2>1 DEF Get_ImageTop, lines, searches, CountOK, LostRowsCounted
<1>3. CASE Draw_BlackSideline
    <2>1. i = bottom - 1 /\ i' = i /\ bottom - 1 \in Int
        BY <1>3 DEF Draw_BlackSideline, IInv, RowOK, bottom
    <2> QED BY <1>3, <1>15, <2>1 DEF Draw_BlackSideline, lines, searches, CountOK, LostRowsCounted
<1>4. CASE Find_Sideline
    <2>1. PICK lf \in {0, 1}, rf \in {0, 1} :
              /\ Left_Sideline_flag' = [Left_Sideline_flag EXCEPT ![i] = lf]
              /\ Right_Sideline_flag' = [Right_Sideline_flag EXCEPT ![i] = rf]
              /\ L_loselineSum' = L_loselineSum + 1 - lf
              /\ R_loselineSum' = R_loselineSum + 1 - rf
        BY <1>4 DEF Find_Sideline
    <2>2. pc = "side" /\ pc' = pc /\ i \in Rows /\ i < bottom /\ i' = i - 1
        BY <1>4 DEF Find_Sideline, IInv, TypeOK, Rows, bottom
    <2>3. /\ LostBelow(Left_Sideline_flag', i - 1) = LostBelow(Left_Sideline_flag, i) + 1 - lf
          /\ LostBelow(Right_Sideline_flag', i - 1) = LostBelow(Right_Sideline_flag, i) + 1 - rf
        <3>1. /\ Left_Sideline_flag \in [Rows -> {Old, 0, 1}]
              /\ Right_Sideline_flag \in [Rows -> {Old, 0, 1}]
            BY DEF IInv, TypeOK
        <3>2. /\ LostBelow([Left_Sideline_flag EXCEPT ![i] = lf], i - 1)
                    = LostBelow(Left_Sideline_flag, i) + 1 - lf
              /\ LostBelow([Right_Sideline_flag EXCEPT ![i] = rf], i - 1)
                    = LostBelow(Right_Sideline_flag, i) + 1 - rf
            BY <2>2, <3>1, OneRowMore
        <3> QED BY <2>1, <3>2
    <2>4. UNCHANGED <<again, earlier>>
        BY <1>4 DEF Find_Sideline, searches
    <2> QED BY <1>15, <2>1, <2>2, <2>3, <2>4 DEF CountOK, LostRowsCounted
<1>5. CASE Find_Sideline_break
    BY <1>5 DEF Find_Sideline_break, OldCorner, CountOK, LostRowsCounted
<1>16. ASSUME pc = "side", i <= top, UNCHANGED <<top, Left_Sideline_flag, Right_Sideline_flag>>
       PROVE  /\ \A flags : LostBelow(flags, i) = Lost(flags)
              /\ Lost(Left_Sideline_flag)' = Lost(Left_Sideline_flag)
              /\ Lost(Right_Sideline_flag)' = Lost(Right_Sideline_flag)
    <2>1. i \in Int /\ (i = top \/ (i >= bottom - 1 /\ top >= bottom - 1))
        BY <1>16 DEF IInv, TypeOK, RowOK, bottom
    <2>2. \A flags : LostBelow(flags, i) = LostBelow(flags, top)
        BY <1>15, <2>1
    <2> QED BY <1>16, <2>2 DEF Lost, LostBelow
<1>6. CASE Find_Sideline_end
    BY <1>6, <1>15, <1>16 DEF Find_Sideline_end, seen, lines, searches, SearchesOK, CountOK,
        LostRowsCounted
<1>7. CASE Find_Guaidian
    BY <1>7, <1>15 DEF Find_Guaidian, seen, lines, searches, SearchesOK, Lost, CountOK, LostRowsCounted
<1>8. CASE Find_right_Sideline
    BY <1>8 DEF Find_right_Sideline, seen, Lost, CountOK, LostRowsCounted
<1>9. CASE Find_right_Sideline_end
    BY <1>9 DEF Find_right_Sideline_end, seen, Lost, CountOK, LostRowsCounted
<1>10. CASE Find_left_Sideline
    BY <1>10 DEF Find_left_Sideline, seen, Lost, CountOK, LostRowsCounted
<1>11. CASE Find_left_Sideline_end
    BY <1>11, <1>15 DEF Find_left_Sideline_end, seen, searches, corners, SearchesOK, Lost, CountOK,
        LostRowsCounted
<1>12. CASE Find_Midline
    BY <1>12 DEF Find_Midline, CountOK, LostRowsCounted
<1>13. CASE UNCHANGED vars
    BY <1>13 DEF vars, seen, lines, corners, searches, CountOK, LostRowsCounted, LostBelow, Lost
<1>14. CASE Huandao_imu
    BY <1>14, <1>15 DEF Huandao_imu, seen, lines, searches, SearchesOK, Lost, CountOK, LostRowsCounted
<1>17. CASE Huandao_search
    BY <1>17 DEF Huandao_search, Find_Sideline_resets, CountOK, LostRowsCounted
<1>18. CASE Huandao_search_end
    BY <1>18, <1>16 DEF Huandao_search_end, seen, searches, corners, CountOK, LostRowsCounted
<1> QED BY <1>1, <1>2, <1>3, <1>4, <1>5, <1>6, <1>7, <1>8, <1>9, <1>10, <1>11, <1>12, <1>13, <1>14,
           <1>17, <1>18 DEF Next

(* For images and painted lines of any content, the left count is the rows *)
(* lost by the last search, the right count those and the ones earlier     *)
(* searches of the frame had counted, whatever the number of searches      *)
(* (Find_Sideline, Find_right_Sideline, Find_left_Sideline).               *)
THEOREM LostRowsCountedHolds == Spec => []LostRowsCounted
<1>1. Init => CountOK
    BY DEF Init, CountOK, LostRowsCounted
<1>2. IInv /\ CountOK /\ [Next]_vars => CountOK'
    BY CountStep
<1>3. CountOK => LostRowsCounted
    BY DEF CountOK
<1> QED BY <1>1, <1>2, <1>3, IInvHolds, PTL DEF Spec
====
