----------------------------- MODULE Assistant -----------------------------
(***************************************************************************)
(* The receiving half of the debug assistant (seekfree_assistant.cpp): a   *)
(* tool on a PC sends frames over TCP, seekfree_assistant_data_analysis    *)
(* moves what has arrived into a FIFO and takes frames out of it.  The     *)
(* socket hands the bytes over in pieces of any length.  A byte is its     *)
(* place in the stream: what it says is looked up in the frame it is of.   *)
(* A frame has four fields here: the head, the channel, the check sum and  *)
(* the data; the function code, which is not looked at, goes with the data.*)
(***************************************************************************)
EXTENDS Fifo

CONSTANTS
  Frames,      \* what the tool may send
  MaxFrames,   \* bound: how many frames it sends
  RECEIVE_HEAD,
  Channels,    \* 1..SEEKFREE_ASSISTANT_SET_PARAMETR_COUNT
  Modulus      \* 256: a field is one of 0..Modulus - 1

PacketLen == 4
Field == 0..Modulus - 1

(* seekfree_assistant_sum over a frame whose check sum is set to 0.        *)
Sum(frame) == (frame[1] + frame[2] + frame[4]) % Modulus

IsFrame(frame) == frame[1] = RECEIVE_HEAD /\ frame[3] = Sum(frame)

ASSUME FramesAssumption ==
  /\ Modulus \in Nat \ {0} /\ RECEIVE_HEAD \in Field /\ Channels \subseteq Field
  /\ Frames \subseteq [1..PacketLen -> Field]
  /\ \A frame \in Frames : IsFrame(frame) /\ frame[2] \in Channels
ASSUME BytesAssumption ==
  MaxFrames \in Nat /\ Element = 1..PacketLen * MaxFrames
ASSUME RoomAssumption == max >= PacketLen

VARIABLES
  pc,          \* where the analysis is
  wire,        \* bytes the socket holds for this program
  sent,        \* the frames sent so far
  parameter,   \* seekfree_assistant_parameter, 0 where none has been set
  applied,     \* history: the windows taken for frames, in order
  torn         \* history: frames a dropped piece had bytes of

vars == <<fifo, dat, pc, wire, sent, parameter, applied, torn>>

FrameOf(byte) == ((byte - 1) \div PacketLen) + 1
Place(byte) == ((byte - 1) % PacketLen) + 1
Says(byte) == sent[FrameOf(byte)][Place(byte)]
Bytes(first, last) == [i \in 1..last - first + 1 |-> first + i - 1]
FrameBytes(f) == Bytes(PacketLen * (f - 1) + 1, PacketLen * f)

Init ==
  /\ FifoInit
  /\ pc = "receive" /\ wire = <<>> /\ sent = <<>>
  /\ parameter = [c \in Channels |-> 0]
  /\ applied = <<>> /\ torn = {}

(* The tool on the PC.                                                     *)
Send(frame) ==
  /\ Len(sent) < MaxFrames
  /\ sent' = Append(sent, frame)
  /\ wire' = wire \o FrameBytes(Len(sent) + 1)
  /\ UNCHANGED <<fifo, dat, pc, parameter, applied, torn>>

(* The answer of fifo_write_buffer is not looked at: a piece that does not *)
(* fit is dropped whole.                                                   *)
Fits(n) == n <= size

(* read_data gives what has arrived, up to the length of the FIFO.         *)
Receive(n) ==
  /\ pc = "receive"
  /\ n <= Len(wire)
  /\ fifo_write_buffer(SubSeq(wire, 1, n))
  /\ torn' = IF Fits(n) THEN torn ELSE torn \cup {FrameOf(wire[i]) : i \in 1..n}
  /\ wire' = SubSeq(wire, n + 1, Len(wire))
  /\ pc' = "peek"
  /\ UNCHANGED <<sent, parameter, applied>>

(* No data, or an error: read_data then returns -1 as an unsigned number,  *)
(* and a write of that length is refused.                                  *)
ReceiveNothing ==
  /\ pc = "receive"
  /\ pc' = "peek"
  /\ UNCHANGED <<fifo, dat, wire, sent, parameter, applied, torn>>

(* [variant] The look at the next frame already takes it out.              *)
PeekAndClean ==
  /\ pc = "peek" /\ PacketLen <= fifo_used
  /\ fifo_read_buffer(PacketLen, "FIFO_READ_AND_CLEAN")
  /\ pc' = "drop"
  /\ UNCHANGED <<wire, sent, parameter, applied, torn>>

Peek ==
  /\ pc = "peek" /\ PacketLen <= fifo_used
  /\ fifo_read_buffer(PacketLen, "FIFO_READ_ONLY")
  /\ pc' = "drop"
  /\ UNCHANGED <<wire, sent, parameter, applied, torn>>

Leave ==
  /\ pc = "peek" /\ fifo_used < PacketLen
  /\ pc' = "receive"
  /\ UNCHANGED <<fifo, dat, wire, sent, parameter, applied, torn>>

Window == [i \in 1..PacketLen |-> Says(dat[i])]

(* [variant] A head with a wrong check sum costs a whole frame.            *)
DropWindow ==
  /\ pc = "drop"
  /\ IF IsFrame(Window)
       THEN parameter' = [parameter EXCEPT ![Window[2]] = Window[4]] /\ applied' = Append(applied, dat)
       ELSE UNCHANGED <<parameter, applied>>
  /\ fifo_read_buffer(IF Window[1] = RECEIVE_HEAD THEN PacketLen ELSE 1, "FIFO_READ_AND_CLEAN")
  /\ pc' = "peek"
  /\ UNCHANGED <<wire, sent, torn>>

(* A frame is applied and taken out; anything else loses its first byte.   *)
(* The channel is not checked: a window that only looks like a frame may   *)
(* write beside the array.                                                 *)
Drop ==
  /\ pc = "drop"
  /\ IF IsFrame(Window)
       THEN /\ parameter' = [parameter EXCEPT ![Window[2]] = Window[4]]
            /\ applied' = Append(applied, dat)
       ELSE UNCHANGED <<parameter, applied>>
  /\ fifo_read_buffer(IF IsFrame(Window) THEN PacketLen ELSE 1, "FIFO_READ_AND_CLEAN")
  /\ pc' = "peek"
  /\ UNCHANGED <<wire, sent, torn>>

Analysis == (\E n \in 1..max : Receive(n)) \/ ReceiveNothing \/ Peek \/ Leave \/ Drop

Next == (\E frame \in Frames : Send(frame)) \/ Analysis

Spec == Init /\ [][Next]_vars

(* The analysis is called again and again, and a socket that holds data    *)
(* hands some of it over.                                                  *)
FairSpec == /\ Spec
            /\ WF_vars(Analysis)
            /\ SF_vars(\E n \in 1..max : Receive(n))
-----------------------------------------------------------------------------
(* As long as no piece has been dropped, the frames sent are applied one   *)
(* by one, each once and none besides, and the FIFO and the socket hold    *)
(* the rest of the stream: however the pieces are cut, and also when the   *)
(* data of a frame look like a head.                                       *)
InStep ==
  torn = {} =>
    /\ \A k \in 1..Len(applied) : applied[k] = FrameBytes(k)
    /\ Contents \o wire = Bytes(PacketLen * Len(applied) + 1, PacketLen * Len(sent))

(* A frame sent is applied in the end, whatever was dropped before it: it  *)
(* is lost only with a dropped piece that had bytes of it, or when its     *)
(* head goes with a window of the frames before that passes for a frame by *)
(* chance.  (One dropped piece may cost several frames this way.)          *)
Applied(f) == \E k \in 1..Len(applied) : applied[k] = FrameBytes(f)
Swallowed(f) ==
  \E k \in 1..Len(applied) :
    \E i \in 2..PacketLen : applied[k][i] = PacketLen * (f - 1) + 1

FramesArrive ==
  \A f \in 1..MaxFrames : Len(sent) >= f ~> Applied(f) \/ f \in torn \/ Swallowed(f)
=============================================================================
