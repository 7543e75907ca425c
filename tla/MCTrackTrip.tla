---------------------------- MODULE MCTrackTrip ----------------------------
(* Frames for the run of TrackTrip: every way to begin and to end each    *)
(* element whose length is measured.                                       *)
EXTENDS TrackTrip

MCSteps == {0, 1}
MCHeadings == {<<-150, 104>>, <<150, -104>>}
MCCornerLens == {1}
NoVerdict == {}
OneVerdict == {"weapon"}

Bars == {<<"road", "bars">>}
RampSight == {<<"road", "ramp">>}
Near == {<<"road", "near">>}
Straight == (Side \X {"straight"}) \cup {<<"road", "even">>}
Close == {<<"road", "red">>, <<"road", "close">>, <<"R", "high">>}

RoundaboutFrames(s) ==
  {{<<s, "low">>, <<s, "entrance">>}, {<<s, "gone">>},
   {<<s, "back">>, <<s, "high">>}, {<<s, "straight">>}}

LineFrames == {{}, Bars, RampSight, Near, Straight} \cup RoundaboutFrames("R")
BrokenFrame(s) == {<<s, "gone">>, <<s, "back">>, <<s, "high">>}
GateFrames == {{}, Bars, Near, Straight} \cup {BrokenFrame(s) : s \in Side}
                \cup RoundaboutFrames("R") \cup RoundaboutFrames("L")
BypassFrames == {{}, Close, Near} \cup RoundaboutFrames("L")
TripScenes == LineFrames \cup GateFrames \cup BypassFrames

(* The bound of this run: the camera sees the elements that can disturb    *)
(* the watched one's odometer, and the marks that end it.                  *)
FramesFor == [line |-> LineFrames, ramp |-> LineFrames,
              gate |-> GateFrames, bypass |-> BypassFrames]

MCNext ==
  /\ TNext
  /\ see' \in {see, {}} \cup {Find_Guaidian(f) : f \in FramesFor[watched]}

MCSpec == TInit /\ [][MCNext]_tvars
=============================================================================
