---- MODULE MCParamStore ----
(* Three of the nine parameters: one with more decimals than a line keeps, *)
(* and two the menu tunes.                                                 *)
EXTENDS ParamStore

MCOrder == <<"kd", "debug_rgb_r_min", "debug_rgb_rb_diff">>
MCInts == {"debug_rgb_r_min", "debug_rgb_rb_diff"}
MCTuned == <<"debug_rgb_r_min", "debug_rgb_rb_diff">>
MCDefault ==
    [k \in {MCOrder[i] : i \in 1 .. 3} |->
        CASE k = "kd" -> 31415926
          [] k = "debug_rgb_r_min" -> 1200000000
          [] OTHER -> 350000000]

(* No file yet; the file of an older version, which lacks keys; one edited *)
(* by hand, with a key twice, and not as whole as it is kept, and another  *)
(* to six decimals.                                                        *)
MCFiles ==
    {<<>>,
     <<<<"debug_rgb_r_min", 1200000000>>>>,
     <<<<"debug_rgb_r_min", 1150000000>>, <<"kd", 31415930>>, <<"debug_rgb_r_min", 1207500000>>>>}

MCRange == {1150000000, 1200000000, 1250000000, 350000000, 300000000}
====
