---------------------------- MODULE MCAssistant ----------------------------
(* Frames for the run of Assistant: fields 0..3, the head is 1.  One frame *)
(* has a head among its data, and one is a frame again when it is read     *)
(* from its second field on, were it followed by another.                  *)
EXTENDS Assistant

MCFrame(channel, data) == <<1, channel, (1 + channel + data) % 4, data>>
MCFrames == {MCFrame(2, 0), MCFrame(1, 1), MCFrame(2, 1)}
MCElement == 1..4 * MaxFrames
MCChannels == {1, 2}
=============================================================================
