-------------------------- MODULE MCTrackElements --------------------------
(* Frames of the course for TLC: what a car sees, one set of marks each.   *)
EXTENDS TrackElements

MCSteps == {0, 1}
MCHeadings == {<<0, 0>>, <<150, -104>>, <<-150, 104>>}
MCCornerLens == {1}

Plain == {}
Bars == {<<"road", "bars">>}
RampSight == {<<"road", "ramp">>}
Near == {<<"road", "near">>}
Straight == (Side \X {"straight"}) \cup {<<"road", "even">>}
(* The two lower corners: an intersection, seen beside the entrance.       *)
Crossing(s) == {<<s, "gone">>, <<Other(s), "low">>}
Entrance(s) == {<<s, "low">>, <<s, "entrance">>}
BesideEntrance(s) == {<<s, "gone">>}
Mouth(s) == {<<s, "back">>, <<s, "high">>}
WayOut(s) == {<<s, "straight">>}
FarSide(s) == {<<Other(s), "high">>, <<Other(s), "lost25">>}

RoundaboutFrames(s) ==
  {Entrance(s), BesideEntrance(s), Mouth(s), WayOut(s)}

LapScenes == {Plain, Bars, RampSight, Near, Straight} 
               \cup UNION {RoundaboutFrames(s) : s \in Side}
               \cup {Crossing("L"), FarSide("R")}

Red == {<<"road", "red">>, <<"R", "high">>}
Close == Red \cup {<<"road", "close">>}
(* A red block in the mouth of a roundabout.                               *)
RedEntrance == Entrance("L") \cup {<<"road", "red">>}

PictureScenes == {Plain, Bars, Near, Red, Close, RedEntrance, Straight}
                   \cup RoundaboutFrames("L")
NoVerdict == {}
VehicleVerdict == {"vehicle"}

(* One frame per element: enough for each of them to begin and to end.     *)
OpenScenes == {Plain, Bars, RampSight, Entrance("L"), BesideEntrance("L"), Near, Straight}
PassScenes == {Plain, Close, Entrance("L"), BesideEntrance("L"), Near, Straight}
OneVerdict == {"supply"}
AllScenes == LapScenes \cup PictureScenes
EndScenes == OpenScenes \cup PassScenes
OneStep == {0, 1}
ShortCorner == {0}
OneHeading == {<<0, 106>>}
=============================================================================
