-------------------------- MODULE AssistantProofs --------------------------
(* The receiving half of the assistant works its FIFO as a queue, and as   *)
(* long as nothing is dropped it applies the frames sent, one by one.      *)
EXTENDS Assistant, FifoProofs

Places == 1..PacketLen

(* What the values are, as far as the other proofs need it.                *)
LinkTypes ==
  /\ pc \in {"receive", "peek", "drop"}
  /\ wire \in Seq(Element)
  /\ sent \in Seq(Frames) /\ Len(sent) <= MaxFrames
  /\ dat \in Seq(Cell) /\ applied \in Seq(Seq(Cell))

LEMMA BytesSeq ==
  ASSUME NEW first \in Int, NEW n \in Nat
  PROVE  /\ Bytes(first, first + n - 1) \in Seq(Int)
         /\ Len(Bytes(first, first + n - 1)) = n
         /\ \A i \in 1..n : Bytes(first, first + n - 1)[i] = first + i - 1
<1>1. first + n - 1 - first + 1 = n
  OBVIOUS
<1>2. Bytes(first, first + n - 1) = [i \in 1..n |-> first + i - 1]
  BY <1>1 DEF Bytes
<1>3. [i \in 1..n |-> first + i - 1] \in [1..n -> Int]
  OBVIOUS
<1> QED BY <1>2, <1>3, SeqOfFunction

(* The bytes of the f-th frame.                                            *)
LEMMA FrameBytesSeq ==
  ASSUME NEW f \in Nat \ {0}
  PROVE  /\ FrameBytes(f) \in Seq(Int) /\ Len(FrameBytes(f)) = PacketLen
         /\ \A i \in Places : FrameBytes(f)[i] = PacketLen * (f - 1) + i
<1> DEFINE first == PacketLen * (f - 1) + 1
<1>1. first \in Int /\ first + PacketLen - 1 = PacketLen * f /\ PacketLen \in Nat
  BY DEF PacketLen
<1>2. FrameBytes(f) = Bytes(first, first + PacketLen - 1)
  BY <1>1 DEF FrameBytes
<1>3. /\ Bytes(first, first + PacketLen - 1) \in Seq(Int)
      /\ Len(Bytes(first, first + PacketLen - 1)) = PacketLen
      /\ \A i \in 1..PacketLen : Bytes(first, first + PacketLen - 1)[i] = first + i - 1
  BY <1>1, BytesSeq
<1> QED BY <1>2, <1>3 DEF Places, PacketLen

LEMMA FrameBytesElements ==
  ASSUME NEW f \in Nat, 1 <= f, f <= MaxFrames
  PROVE  FrameBytes(f) \in Seq(Element)
<1>1. Len(FrameBytes(f)) = PacketLen /\ FrameBytes(f) \in Seq(Int)
  BY FrameBytesSeq
<1>2. \A i \in 1..PacketLen : FrameBytes(f)[i] \in Element
  <2> SUFFICES ASSUME NEW i \in 1..PacketLen PROVE FrameBytes(f)[i] \in Element
    OBVIOUS
  <2>1. FrameBytes(f)[i] = PacketLen * (f - 1) + i
    BY FrameBytesSeq, f \in Nat \ {0} DEF Places
  <2>2. MaxFrames \in Nat /\ Element = 1..PacketLen * MaxFrames
    BY BytesAssumption
  <2> QED BY <2>1, <2>2 DEF PacketLen
<1>3. FrameBytes(f) \in [1..PacketLen -> Element]
  BY <1>1, <1>2, LenProperties
<1> QED BY <1>3, SeqOfFunction DEF PacketLen

(* Two pieces of the wire.                                                 *)
LEMMA Piece ==
  ASSUME NEW S, NEW w \in Seq(S), NEW n \in Nat, 1 <= n, n <= Len(w)
  PROVE  /\ SubSeq(w, 1, n) \in Seq(S) /\ Len(SubSeq(w, 1, n)) = n
         /\ \A i \in 1..n : SubSeq(w, 1, n)[i] = w[i]
         /\ SubSeq(w, n + 1, Len(w)) \in Seq(S)
         /\ Len(SubSeq(w, n + 1, Len(w))) = Len(w) - n
         /\ \A i \in 1..Len(w) - n : SubSeq(w, n + 1, Len(w))[i] = w[n + i]
<1>1. Len(w) \in Nat /\ \A i \in 1..Len(w) : w[i] \in S
  BY LenProperties, ElementOfSeq
<1>2. /\ SubSeq(w, 1, n) \in Seq(S)
      /\ Len(SubSeq(w, 1, n)) = IF 1 <= n THEN n - 1 + 1 ELSE 0
      /\ \A i \in 1..n - 1 + 1 : SubSeq(w, 1, n)[i] = w[1 + i - 1]
  <2>1. \A i \in 1..n : w[i] \in S BY <1>1
  <2> QED BY <2>1, SubSeqProperties
<1>3. /\ SubSeq(w, n + 1, Len(w)) \in Seq(S)
      /\ Len(SubSeq(w, n + 1, Len(w))) = IF n + 1 <= Len(w) THEN Len(w) - (n + 1) + 1 ELSE 0
      /\ \A i \in 1..Len(w) - (n + 1) + 1 : SubSeq(w, n + 1, Len(w))[i] = w[n + 1 + i - 1]
  <2>1. \A i \in n + 1..Len(w) : w[i] \in S BY <1>1
  <2>2. n + 1 \in Int /\ Len(w) \in Int BY <1>1
  <2> QED BY <2>1, <2>2, SubSeqProperties
<1>4. n - 1 + 1 = n /\ Len(w) - (n + 1) + 1 = Len(w) - n
  BY <1>1
<1>5. Len(SubSeq(w, 1, n)) = n /\ \A i \in 1..n : SubSeq(w, 1, n)[i] = w[i]
  BY <1>2, <1>4
<1>6. Len(SubSeq(w, n + 1, Len(w))) = Len(w) - n
  <2>1. CASE n + 1 <= Len(w)
    BY <1>3, <1>4, <2>1
  <2>2. CASE ~(n + 1 <= Len(w))
    <3>1. Len(SubSeq(w, n + 1, Len(w))) = 0
      BY <1>3, <2>2
    <3>2. Len(w) - n = 0
      BY <1>1, <2>2
    <3> QED BY <3>1, <3>2
  <2> QED BY <2>1, <2>2
<1>7. \A i \in 1..Len(w) - n : SubSeq(w, n + 1, Len(w))[i] = w[n + i]
  <2> SUFFICES ASSUME NEW i \in 1..Len(w) - n
               PROVE  SubSeq(w, n + 1, Len(w))[i] = w[n + i]
    OBVIOUS
  <2>1. n + 1 + i - 1 = n + i
    BY <1>1
  <2> QED BY <1>3, <1>4, <2>1
<1> QED BY <1>2, <1>3, <1>5, <1>6, <1>7

(* What a read copies, when there is anything to read.                     *)
LEMMA ReadCopies ==
  ASSUME RingOK, NEW length \in Nat \ {0}, NEW flag, length <= fifo_used,
         fifo_read_buffer(length, flag)
  PROVE  length \in 1..max - size /\ dat' = SubSeq(Contents, 1, length)
<1>1. max \in Nat \ {0} BY MaxAssumption
<1>2. length \in 1..max - size /\ fifo_used # 0 /\ Shorter(length) = length
  BY <1>1 DEF RingOK, fifo_used, Shorter
<1>3. dat' = Copied(length)
  BY <1>2 DEF fifo_read_buffer
<1> QED BY <1>2, <1>3, CopiedIsOldest

LEMMA ReadDat ==
  ASSUME RingOK, NEW length \in Nat \ {0}, NEW flag, fifo_read_buffer(length, flag),
         dat \in Seq(Cell)
  PROVE  dat' \in Seq(Cell)
<1>1. max \in Nat \ {0} BY MaxAssumption
<1>2. CASE fifo_used = 0
  BY <1>2 DEF fifo_read_buffer
<1>3. CASE fifo_used # 0
  <2> DEFINE n == Shorter(length)
  <2>1. n \in 1..max - size /\ n \in Nat /\ 1 <= n /\ n <= max - size
    BY <1>1, <1>3 DEF RingOK, Shorter, fifo_used
  <2>2. dat' = SubSeq(Contents, 1, n)
    BY <1>3, <2>1, CopiedIsOldest DEF fifo_read_buffer
  <2>3. Contents \in Seq(Cell) /\ Len(Contents) = max - size
    BY ContentsSeq
  <2> QED BY <2>1, <2>2, <2>3, Piece
<1> QED BY <1>2, <1>3

LEMMA TypesStep ==
  ASSUME RingOK, LinkTypes, [Next]_vars
  PROVE  LinkTypes'
<1>1. ASSUME NEW frame \in Frames, Send(frame)
      PROVE  LinkTypes'
  <2>1. Len(sent) \in Nat /\ MaxFrames \in Nat
    BY LenProperties, BytesAssumption DEF LinkTypes
  <2>2. sent' \in Seq(Frames) /\ Len(sent') = Len(sent) + 1
    BY <1>1, AppendProperties DEF LinkTypes, Send
  <2>3. FrameBytes(Len(sent) + 1) \in Seq(Element)
    BY <1>1, <2>1, FrameBytesElements DEF Send
  <2>4. wire' \in Seq(Element)
    BY <1>1, <2>3, ConcatProperties DEF LinkTypes, Send
  <2> QED BY <1>1, <2>1, <2>2, <2>4 DEF LinkTypes, Send
<1>2. ASSUME NEW n \in 1..max, Receive(n)
      PROVE  LinkTypes'
  <2>1. n \in Nat /\ 1 <= n
    BY MaxAssumption
  <2>2. wire' \in Seq(Element)
    BY <1>2, <2>1, Piece DEF LinkTypes, Receive
  <2> QED BY <1>2, <2>2 DEF LinkTypes, Receive, fifo_write_buffer
<1>3. CASE ReceiveNothing \/ Leave
  BY <1>3 DEF LinkTypes, ReceiveNothing, Leave
<1>4. CASE Peek
  <2>1. dat' \in Seq(Cell)
    BY <1>4, ReadDat DEF LinkTypes, Peek, PacketLen
  <2> QED BY <1>4, <2>1 DEF LinkTypes, Peek
<1>5. CASE Drop
  <2>1. IF IsFrame(Window) THEN applied' = Append(applied, dat) ELSE applied' = applied
    BY <1>5 DEF Drop
  <2>2. Append(applied, dat) \in Seq(Seq(Cell)) /\ applied \in Seq(Seq(Cell))
    BY AppendProperties DEF LinkTypes
  <2>3. applied' \in Seq(Seq(Cell))
    BY <2>1, <2>2
  <2>4. PICK n \in {1, PacketLen} : fifo_read_buffer(n, "FIFO_READ_AND_CLEAN")
    BY <1>5 DEF Drop
  <2>5. dat' \in Seq(Cell)
    BY <2>4, ReadDat DEF LinkTypes, PacketLen
  <2> QED BY <1>5, <2>3, <2>5 DEF LinkTypes, Drop
<1>6. CASE UNCHANGED vars
  BY <1>6 DEF LinkTypes, vars
<1> QED BY <1>1, <1>2, <1>3, <1>4, <1>5, <1>6 DEF Next, Analysis

(* Every step of the assistant is a step of the FIFO, or leaves it alone.  *)
LEMMA StepsTheFifo ==
  ASSUME LinkTypes, [Next]_vars
  PROVE  [FifoNext]_<<fifo, dat>>
<1>1. ASSUME NEW frame \in Frames, Send(frame)
      PROVE  UNCHANGED <<fifo, dat>>
  BY <1>1 DEF Send
<1>2. ASSUME NEW n \in 1..max, Receive(n)
      PROVE  FifoNext
  <2>1. n \in Nat /\ 1 <= n
    BY MaxAssumption
  <2>2. SubSeq(wire, 1, n) \in Seq(Element)
    BY <1>2, <2>1, Piece DEF LinkTypes, Receive
  <2> QED BY <1>2, <2>2 DEF Receive, FifoNext
<1>3. CASE ReceiveNothing \/ Leave
  BY <1>3 DEF ReceiveNothing, Leave
<1>4. CASE Peek
  BY <1>4 DEF Peek, FifoNext, Flag, PacketLen
<1>5. CASE Drop
  <2>1. \E n \in {1, PacketLen} : fifo_read_buffer(n, "FIFO_READ_AND_CLEAN")
    BY <1>5 DEF Drop
  <2> QED BY <2>1 DEF FifoNext, Flag, PacketLen
<1>6. CASE UNCHANGED vars
  BY <1>6 DEF vars
<1> QED BY <1>1, <1>2, <1>3, <1>4, <1>5, <1>6 DEF Next, Analysis

LEMMA LinkInit == Init => RingOK /\ Q!Init /\ LinkTypes
<1> SUFFICES ASSUME Init PROVE RingOK /\ Q!Init /\ LinkTypes
  OBVIOUS
<1>1. RingOK /\ Q!Init
  BY RingInit DEF Init, FifoInit, Q!Init
<1>2. MaxFrames \in Nat /\ Len(<<>>) = 0
  BY BytesAssumption
<1> QED BY <1>1, <1>2 DEF Init, FifoInit, LinkTypes

(* The assistant works its FIFO as a queue: whatever pieces the socket     *)
(* hands over and wherever the analysis is, nothing is overwritten and     *)
(* nothing comes out in another order than it went in.                     *)
THEOREM LinkIsQueue == Spec => QueueSpec
<1> DEFINE I == RingOK /\ LinkTypes
<1>1. Init => I /\ Q!Init
  BY LinkInit
<1>2. I /\ [Next]_vars => I' /\ [Q!Next]_(Q!vars)
  BY TypesStep, StepsTheFifo, RingStep
<1> QED BY <1>1, <1>2, PTL DEF Spec, QueueSpec, Q!Spec
-----------------------------------------------------------------------------
(* What the FIFO holds, c, and what the socket holds, w, are the bytes of  *)
(* the frames after the first a, up to the n-th.                           *)
Aligned(c, w, a, n) ==
  /\ a <= n
  /\ Len(c) + Len(w) = PacketLen * (n - a)
  /\ \A i \in 1..Len(c) : c[i] = PacketLen * a + i
  /\ \A i \in 1..Len(w) : w[i] = PacketLen * a + Len(c) + i

LEMMA AlignedSend ==
  ASSUME NEW c \in Seq(Cell), NEW w \in Seq(Element), NEW a \in Nat, NEW n \in Nat,
         Aligned(c, w, a, n), n + 1 <= MaxFrames
  PROVE  Aligned(c, w \o FrameBytes(n + 1), a, n + 1)
<1> DEFINE f == FrameBytes(n + 1)
           v == w \o f
<1>1. Len(c) \in Nat /\ Len(w) \in Nat
  BY LenProperties
<1>2. f \in Seq(Element) /\ Len(f) = PacketLen
  BY FrameBytesElements, FrameBytesSeq
<1>3. \A i \in Places : f[i] = PacketLen * n + i
  BY FrameBytesSeq, n + 1 - 1 = n
<1>4. /\ Len(v) = Len(w) + Len(f)
      /\ \A i \in 1..Len(w) + Len(f) : v[i] = IF i <= Len(w) THEN w[i] ELSE f[i - Len(w)]
  BY <1>2, ConcatProperties, Zenon
<1>5. Len(v) = Len(w) + PacketLen
  BY <1>2, <1>4
<1>6. a <= n /\ Len(c) + Len(w) = PacketLen * (n - a)
  BY DEF Aligned
<1>7. \A i \in 1..Len(v) : v[i] = PacketLen * a + Len(c) + i
  <2> SUFFICES ASSUME NEW i \in 1..Len(v)
               PROVE  v[i] = PacketLen * a + Len(c) + i
    OBVIOUS
  <2>1. v[i] = IF i <= Len(w) THEN w[i] ELSE f[i - Len(w)]
    BY <1>2, <1>4, <1>5
  <2>2. CASE i <= Len(w)
    BY <1>1, <2>1, <2>2 DEF Aligned
  <2>3. CASE ~(i <= Len(w))
    <3>1. i - Len(w) \in Places
      BY <1>1, <1>5, <2>3 DEF Places, PacketLen
    <3>2. v[i] = PacketLen * n + (i - Len(w))
      BY <1>3, <2>1, <2>3, <3>1
    <3>3. PacketLen * n + (i - Len(w)) = PacketLen * a + Len(c) + i
      BY <1>1, <1>6 DEF PacketLen
    <3> QED BY <3>2, <3>3
  <2> QED BY <2>2, <2>3
<1>8. a <= n + 1 /\ Len(c) + Len(v) = PacketLen * (n + 1 - a)
  BY <1>1, <1>5, <1>6 DEF PacketLen
<1> QED BY <1>7, <1>8 DEF Aligned

(* A piece of the socket goes to the FIFO.                                 *)
LEMMA AlignedMove ==
  ASSUME NEW c \in Seq(Cell), NEW w \in Seq(Cell), NEW a \in Nat, NEW n \in Nat,
         Aligned(c, w, a, n), NEW k \in Nat, 1 <= k, k <= Len(w)
  PROVE  Aligned(c \o SubSeq(w, 1, k), SubSeq(w, k + 1, Len(w)), a, n)
<1> DEFINE p == SubSeq(w, 1, k)
           r == SubSeq(w, k + 1, Len(w))
           v == c \o p
<1>1. Len(c) \in Nat /\ Len(w) \in Nat
  BY LenProperties
<1>2. /\ p \in Seq(Cell) /\ Len(p) = k /\ \A i \in 1..k : p[i] = w[i]
      /\ r \in Seq(Cell) /\ Len(r) = Len(w) - k /\ \A i \in 1..Len(w) - k : r[i] = w[k + i]
  BY Piece
<1>3. /\ Len(v) = Len(c) + Len(p)
      /\ \A i \in 1..Len(c) + Len(p) : v[i] = IF i <= Len(c) THEN c[i] ELSE p[i - Len(c)]
  <2>1. p \in Seq(Cell)
    BY <1>2
  <2> HIDE DEF p
  <2> QED BY <2>1, ConcatProperties, Zenon
<1>4. Len(v) = Len(c) + k
  BY <1>2, <1>3
<1>5. \A i \in 1..Len(v) : v[i] = PacketLen * a + i
  <2> SUFFICES ASSUME NEW i \in 1..Len(v)
               PROVE  v[i] = PacketLen * a + i
    OBVIOUS
  <2>1. v[i] = IF i <= Len(c) THEN c[i] ELSE p[i - Len(c)]
    BY <1>2, <1>3, <1>4
  <2>2. CASE i <= Len(c)
    BY <1>1, <2>1, <2>2 DEF Aligned
  <2>3. CASE ~(i <= Len(c))
    <3>1. i - Len(c) \in 1..k /\ i - Len(c) \in 1..Len(w)
      BY <1>1, <1>4, <2>3
    <3>2. v[i] = w[i - Len(c)]
      BY <1>2, <2>1, <2>3, <3>1
    <3>3. w[i - Len(c)] = PacketLen * a + Len(c) + (i - Len(c))
      BY <3>1 DEF Aligned
    <3> QED BY <1>1, <3>2, <3>3 DEF PacketLen
  <2> QED BY <2>2, <2>3
<1>6. \A i \in 1..Len(r) : r[i] = PacketLen * a + Len(v) + i
  <2> SUFFICES ASSUME NEW i \in 1..Len(r)
               PROVE  r[i] = PacketLen * a + Len(v) + i
    OBVIOUS
  <2>1. r[i] = w[k + i] /\ k + i \in 1..Len(w)
    BY <1>1, <1>2
  <2>2. w[k + i] = PacketLen * a + Len(c) + (k + i)
    BY <2>1 DEF Aligned
  <2> QED BY <1>1, <1>4, <2>1, <2>2 DEF PacketLen
<1>7. Len(v) + Len(r) = Len(c) + Len(w)
  <2>1. Len(r) = Len(w) - k
    BY <1>2
  <2> HIDE DEF v, r
  <2> QED BY <1>1, <1>4, <2>1
<1> QED BY <1>5, <1>6, <1>7 DEF Aligned

(* The first frame of the FIFO is applied and taken out.                   *)
LEMMA AlignedTake ==
  ASSUME NEW c \in Seq(Cell), NEW w \in Seq(Cell), NEW a \in Nat, NEW n \in Nat,
         Aligned(c, w, a, n), PacketLen <= Len(c)
  PROVE  /\ a + 1 <= n
         /\ SubSeq(c, 1, PacketLen) = FrameBytes(a + 1)
         /\ Aligned(SubSeq(c, PacketLen + 1, Len(c)), w, a + 1, n)
<1> DEFINE p == SubSeq(c, 1, PacketLen)
           r == SubSeq(c, PacketLen + 1, Len(c))
<1>1. Len(c) \in Nat /\ Len(w) \in Nat
  BY LenProperties
<1>2. /\ p \in Seq(Cell) /\ Len(p) = PacketLen /\ \A i \in 1..PacketLen : p[i] = c[i]
      /\ Len(r) = Len(c) - PacketLen
      /\ \A i \in 1..Len(c) - PacketLen : r[i] = c[PacketLen + i]
  <2>1. PacketLen \in Nat /\ 1 <= PacketLen
    BY DEF PacketLen
  <2> QED BY <2>1, Piece
<1>3. a <= n /\ Len(c) + Len(w) = PacketLen * (n - a) /\ Len(r) = Len(c) - PacketLen
  BY <1>2 DEF Aligned
<1>4. a + 1 <= n
  BY <1>1, <1>3 DEF PacketLen
<1>5. p = FrameBytes(a + 1)
  <2>1. /\ FrameBytes(a + 1) \in Seq(Int) /\ Len(FrameBytes(a + 1)) = PacketLen
        /\ \A i \in Places : FrameBytes(a + 1)[i] = PacketLen * a + i
    BY FrameBytesSeq, a + 1 - 1 = a
  <2>2. \A i \in 1..PacketLen : p[i] = PacketLen * a + i
    BY <1>1, <1>2 DEF Aligned, PacketLen
  <2>3. \A i \in 1..Len(p) : p[i] = FrameBytes(a + 1)[i]
    BY <1>2, <2>1, <2>2 DEF Places
  <2> QED BY <1>2, <2>1, <2>3, SeqEqual
<1>6. \A i \in 1..Len(r) : r[i] = PacketLen * (a + 1) + i
  <2> SUFFICES ASSUME NEW i \in 1..Len(r)
               PROVE  r[i] = PacketLen * (a + 1) + i
    OBVIOUS
  <2>1. r[i] = c[PacketLen + i] /\ PacketLen + i \in 1..Len(c)
    BY <1>1, <1>2 DEF PacketLen
  <2>2. c[PacketLen + i] = PacketLen * a + (PacketLen + i)
    BY <2>1 DEF Aligned
  <2> QED BY <2>1, <2>2 DEF PacketLen
<1>7. \A i \in 1..Len(w) : w[i] = PacketLen * (a + 1) + Len(r) + i
  <2> SUFFICES ASSUME NEW i \in 1..Len(w)
               PROVE  w[i] = PacketLen * (a + 1) + Len(r) + i
    OBVIOUS
  <2>1. w[i] = PacketLen * a + Len(c) + i
    BY DEF Aligned
  <2> HIDE DEF r
  <2> QED BY <1>1, <1>3, <2>1 DEF PacketLen
<1>8. Len(r) + Len(w) = PacketLen * (n - (a + 1))
  BY <1>1, <1>3 DEF PacketLen
<1> QED BY <1>4, <1>5, <1>6, <1>7, <1>8 DEF Aligned

(* What Aligned says, as one sequence.                                     *)
LEMMA AlignedBytes ==
  ASSUME NEW c \in Seq(Cell), NEW w \in Seq(Cell), NEW a \in Nat, NEW n \in Nat,
         Aligned(c, w, a, n)
  PROVE  c \o w = Bytes(PacketLen * a + 1, PacketLen * n)
<1> DEFINE m == PacketLen * (n - a)
           b == Bytes(PacketLen * a + 1, PacketLen * n)
           v == c \o w
<1>1. Len(c) \in Nat /\ Len(w) \in Nat
  BY LenProperties
<1>2. m \in Nat /\ PacketLen * a + 1 \in Int /\ PacketLen * a + 1 + m - 1 = PacketLen * n
  BY DEF Aligned, PacketLen
<1>3. b \in Seq(Int) /\ Len(b) = m /\ \A i \in 1..m : b[i] = PacketLen * a + 1 + i - 1
  BY <1>2, BytesSeq
<1>4. /\ v \in Seq(Cell) /\ Len(v) = Len(c) + Len(w)
      /\ \A i \in 1..Len(c) + Len(w) : v[i] = IF i <= Len(c) THEN c[i] ELSE w[i - Len(c)]
  BY ConcatProperties, Zenon
<1>5. Len(v) = m
  BY <1>4 DEF Aligned
<1>6. \A i \in 1..Len(v) : v[i] = b[i]
  <2> SUFFICES ASSUME NEW i \in 1..Len(v)
               PROVE  v[i] = b[i]
    OBVIOUS
  <2>1. b[i] = PacketLen * a + i
    BY <1>3, <1>5 DEF PacketLen
  <2>2. v[i] = IF i <= Len(c) THEN c[i] ELSE w[i - Len(c)]
    BY <1>4
  <2>3. CASE i <= Len(c)
    BY <1>1, <2>1, <2>2, <2>3 DEF Aligned
  <2>4. CASE ~(i <= Len(c))
    <3>1. i - Len(c) \in 1..Len(w)
      BY <1>1, <1>4, <2>4
    <3>2. w[i - Len(c)] = PacketLen * a + Len(c) + (i - Len(c))
      BY <3>1 DEF Aligned
    <3> QED BY <1>1, <2>1, <2>2, <2>4, <3>2 DEF PacketLen
  <2> QED BY <2>3, <2>4
<1>7. v \in Seq(Cell) /\ b \in Seq(Int) /\ Len(v) = Len(b)
  BY <1>3, <1>4, <1>5
<1> HIDE DEF v, b
<1>8. v = b
  BY <1>6, <1>7, SeqEqual
<1> QED BY <1>8 DEF v, b

LEMMA PlaceOfByte ==
  ASSUME NEW a \in Nat, NEW i \in Places
  PROVE  FrameOf(PacketLen * a + i) = a + 1 /\ Place(PacketLen * a + i) = i
<1>1. i \in {1, 2, 3, 4}
  BY DEF Places, PacketLen
<1>2. \A j \in {0, 1, 2, 3} : (4 * a + j) \div 4 = a /\ (4 * a + j) % 4 = j
  OBVIOUS
<1>3. PacketLen * a + i - 1 = 4 * a + (i - 1) /\ i - 1 \in {0, 1, 2, 3}
  BY <1>1 DEF PacketLen
<1>4. (PacketLen * a + i) - 1 = 4 * a + (i - 1)
  BY <1>1 DEF PacketLen
<1>5. FrameOf(PacketLen * a + i) = ((4 * a + (i - 1)) \div 4) + 1
  BY <1>4, Zenon DEF FrameOf, PacketLen
<1>6. Place(PacketLen * a + i) = ((4 * a + (i - 1)) % 4) + 1
  BY <1>4, Zenon DEF Place, PacketLen
<1>7. (4 * a + (i - 1)) \div 4 = a /\ (4 * a + (i - 1)) % 4 = i - 1
  BY <1>2, <1>3, Zenon
<1>8. (i - 1) + 1 = i
  BY <1>1
<1> QED BY <1>5, <1>6, <1>7, <1>8
(* A window that holds the bytes of a frame is that frame.                 *)
LEMMA WindowIsFrame ==
  ASSUME LinkTypes, NEW a \in Nat, a + 1 <= Len(sent), dat = FrameBytes(a + 1)
  PROVE  Window = sent[a + 1] /\ IsFrame(Window)
<1>1. Len(sent) \in Nat /\ sent[a + 1] \in Frames
  BY LenProperties, ElementOfSeq DEF LinkTypes
<1>2. sent[a + 1] \in [1..PacketLen -> Field] /\ IsFrame(sent[a + 1])
  BY <1>1, FramesAssumption
<1>3. \A i \in Places : dat[i] = PacketLen * a + i
  BY FrameBytesSeq, a + 1 - 1 = a
<1>4. \A i \in 1..PacketLen : Says(dat[i]) = sent[a + 1][i]
  BY <1>3, PlaceOfByte DEF Says, Places
<1>5. Window = [i \in 1..PacketLen |-> sent[a + 1][i]]
  BY <1>4 DEF Window
<1>6. Window = sent[a + 1]
  BY <1>2, <1>5
<1> QED BY <1>2, <1>6

(* InStep, with where the stream stands and what the analysis looks at.    *)
Stream ==
  torn = {} =>
    /\ \A k \in 1..Len(applied) : applied[k] = FrameBytes(k)
    /\ Aligned(Contents, wire, Len(applied), Len(sent))
    /\ pc = "drop" => PacketLen <= fifo_used /\ dat = FrameBytes(Len(applied) + 1)

(* The invariant behind InStep.                                            *)
LinkInv == RingOK /\ LinkTypes /\ Stream

LEMMA StreamSend ==
  ASSUME LinkInv, NEW frame \in Frames, Send(frame)
  PROVE  Stream'
<1> SUFFICES ASSUME torn = {} PROVE Stream'
  BY DEF Send, Stream
<1>1. Len(sent) \in Nat /\ Len(applied) \in Nat
  BY LenProperties DEF LinkInv, LinkTypes
<1>2. sent' = Append(sent, frame) /\ Len(sent') = Len(sent) + 1
  BY AppendProperties DEF LinkInv, LinkTypes, Send
<1>3. wire' = wire \o FrameBytes(Len(sent) + 1) /\ Len(sent) + 1 <= MaxFrames
  <2>1. Len(sent) < MaxFrames /\ MaxFrames \in Nat
    BY BytesAssumption DEF Send
  <2> QED BY <1>1, <2>1 DEF Send
<1>4. Contents \in Seq(Cell) /\ wire \in Seq(Element)
  BY ContentsSeq DEF LinkInv, LinkTypes
<1>5. Aligned(Contents, wire, Len(applied), Len(sent))
  BY DEF LinkInv, Stream
<1>6. Aligned(Contents, wire', Len(applied), Len(sent'))
  BY <1>1, <1>2, <1>3, <1>4, <1>5, AlignedSend
<1>7. Contents' = Contents /\ fifo_used' = fifo_used
  BY DEF Send, fifo, Contents, fifo_used, fifo_offset
<1>8. applied' = applied /\ pc' = pc /\ dat' = dat
  BY DEF Send
<1>9. Aligned(Contents', wire', Len(applied'), Len(sent'))
  BY <1>6, <1>7, <1>8
<1> QED BY <1>7, <1>8, <1>9 DEF LinkInv, Stream

LEMMA StreamReceive ==
  ASSUME LinkInv, NEW n \in 1..max, Receive(n)
  PROVE  Stream'
<1> DEFINE piece == SubSeq(wire, 1, n)
<1> SUFFICES ASSUME torn' = {} PROVE Stream'
  BY DEF Stream
<1>1. n \in Nat /\ 1 <= n /\ n <= Len(wire)
  BY MaxAssumption DEF Receive
<1>2. Fits(n) /\ torn = {}
  <2>1. torn' = IF Fits(n) THEN torn ELSE torn \cup {FrameOf(wire[i]) : i \in 1..n}
    BY DEF Receive
  <2>2. FrameOf(wire[1]) \in {FrameOf(wire[i]) : i \in 1..n}
    BY <1>1
  <2> QED BY <2>1, <2>2
<1>3. piece \in Seq(Element) /\ Len(piece) = n /\ piece \in Seq(Cell) /\ wire \in Seq(Cell)
  <2>1. piece \in Seq(Element) /\ Len(piece) = n /\ wire \in Seq(Element)
    BY <1>1, Piece DEF LinkInv, LinkTypes
  <2> QED BY <2>1, SeqMonotonic DEF Cell
<1>4. Contents' = Contents \o piece
  BY <1>2, <1>3, WriteAppends DEF LinkInv, Receive, Fits
<1>5. Contents \in Seq(Cell) /\ Len(sent) \in Nat /\ Len(applied) \in Nat
  BY ContentsSeq, LenProperties DEF LinkInv, LinkTypes
<1>6. Aligned(Contents, wire, Len(applied), Len(sent))
  BY <1>2 DEF LinkInv, Stream
<1>7. Aligned(Contents', wire', Len(applied), Len(sent))
  BY <1>1, <1>3, <1>4, <1>5, <1>6, AlignedMove DEF Receive
<1>8. sent' = sent /\ applied' = applied /\ pc' = "peek"
  BY DEF Receive
<1>9. Aligned(Contents', wire', Len(applied'), Len(sent'))
  BY <1>7, <1>8
<1> QED BY <1>2, <1>8, <1>9 DEF LinkInv, Stream

LEMMA StreamPeek ==
  ASSUME LinkInv, Peek
  PROVE  Stream'
<1> SUFFICES ASSUME torn = {} PROVE Stream'
  BY DEF Peek, Stream
<1>1. PacketLen \in Nat \ {0} /\ PacketLen <= fifo_used /\ 1 <= PacketLen
  BY DEF Peek, PacketLen
<1>2. PacketLen \in 1..max - size /\ dat' = SubSeq(Contents, 1, PacketLen)
  BY <1>1, ReadCopies DEF LinkInv, Peek
<1>3. UNCHANGED <<head, end, size, buffer>>
  <2>1. fifo_used # 0
    BY <1>1, MaxAssumption DEF LinkInv, RingOK, fifo_used
  <2> QED BY <2>1 DEF Peek, fifo_read_buffer
<1>4. Contents' = Contents /\ fifo_used' = fifo_used
  BY <1>3 DEF Contents, fifo_used, fifo_offset
<1>5. /\ Contents \in Seq(Cell) /\ Len(Contents) = max - size
      /\ wire \in Seq(Cell) /\ Len(sent) \in Nat /\ Len(applied) \in Nat
  BY ContentsSeq, LenProperties, SeqMonotonic DEF LinkInv, LinkTypes, Cell
<1>6. Aligned(Contents, wire, Len(applied), Len(sent))
  BY DEF LinkInv, Stream
<1>7. PacketLen <= Len(Contents)
  BY <1>1, <1>5 DEF fifo_used
<1>8. dat' = FrameBytes(Len(applied) + 1)
  BY <1>2, <1>5, <1>6, <1>7, AlignedTake
<1>9. UNCHANGED <<wire, sent, applied, torn>>
  BY DEF Peek
<1>10. Aligned(Contents', wire', Len(applied'), Len(sent'))
  BY <1>4, <1>6, <1>9
<1> QED BY <1>1, <1>4, <1>8, <1>9, <1>10 DEF LinkInv, Stream

LEMMA StreamDrop ==
  ASSUME LinkInv, Drop
  PROVE  Stream'
<1> SUFFICES ASSUME torn = {} PROVE Stream'
  BY DEF Drop, Stream
<1> DEFINE a == Len(applied)
<1>1. /\ Contents \in Seq(Cell) /\ Len(Contents) = max - size
      /\ wire \in Seq(Cell) /\ Len(sent) \in Nat /\ a \in Nat
  BY ContentsSeq, LenProperties, SeqMonotonic DEF LinkInv, LinkTypes, Cell
<1>2. /\ Aligned(Contents, wire, a, Len(sent)) /\ PacketLen <= fifo_used
      /\ dat = FrameBytes(a + 1)
  BY DEF LinkInv, Stream, Drop
<1>3. PacketLen <= Len(Contents)
  BY <1>1, <1>2 DEF fifo_used
<1>4. a + 1 <= Len(sent) /\ Aligned(SubSeq(Contents, PacketLen + 1, Len(Contents)), wire, a + 1, Len(sent))
  BY <1>1, <1>2, <1>3, AlignedTake
<1>5. IsFrame(Window)
  BY <1>1, <1>2, <1>4, WindowIsFrame DEF LinkInv
<1>6. applied' = Append(applied, dat) /\ fifo_read_buffer(PacketLen, "FIFO_READ_AND_CLEAN")
  BY <1>5 DEF Drop
<1>7. PacketLen \in Nat \ {0}
  BY DEF PacketLen
<1>8. PacketLen \in 1..max - size
  BY <1>2, <1>6, <1>7, ReadCopies DEF LinkInv
<1>9. Clean(PacketLen) /\ UNCHANGED <<head, buffer>>
  <2>1. fifo_used # 0 /\ Shorter(PacketLen) = PacketLen
    BY <1>2, <1>8, MaxAssumption DEF LinkInv, RingOK, fifo_used, Shorter, PacketLen
  <2> QED BY <1>6, <2>1 DEF fifo_read_buffer
<1>10. Contents' = SubSeq(Contents, PacketLen + 1, Len(Contents))
  BY <1>8, <1>9, CleanDropsOldest DEF LinkInv
<1>11. /\ Len(applied') = a + 1
       /\ \A k \in 1..a + 1 : applied'[k] = IF k = a + 1 THEN dat ELSE applied[k]
  BY <1>6, AppendProperties DEF LinkInv, LinkTypes
<1>12. \A k \in 1..Len(applied') : applied'[k] = FrameBytes(k)
  <2>1. \A k \in 1..a : applied[k] = FrameBytes(k)
    BY DEF LinkInv, Stream
  <2> SUFFICES ASSUME NEW k \in 1..a + 1 PROVE applied'[k] = FrameBytes(k)
    BY <1>11
  <2>2. CASE k = a + 1
    BY <1>2, <1>11, <2>2
  <2>3. CASE k # a + 1
    <3>1. k \in 1..a BY <1>1, <2>3
    <3> QED BY <1>11, <2>1, <2>3, <3>1
  <2> QED BY <2>2, <2>3
<1>13. UNCHANGED <<wire, sent>> /\ pc' = "peek"
  BY DEF Drop
<1>14. Aligned(Contents', wire', Len(applied'), Len(sent'))
  BY <1>4, <1>10, <1>11, <1>13
<1> QED BY <1>12, <1>13, <1>14 DEF Stream

LEMMA StreamStep ==
  ASSUME LinkInv, [Next]_vars
  PROVE  Stream'
<1>1. CASE ReceiveNothing \/ Leave \/ UNCHANGED vars
  <2>1. UNCHANGED <<head, end, size, buffer, dat, wire, sent, applied, torn>>
    BY <1>1 DEF ReceiveNothing, Leave, vars, fifo
  <2>2. Contents' = Contents /\ fifo_used' = fifo_used
    BY <2>1 DEF Contents, fifo_used, fifo_offset
  <2>3. pc' = "drop" => pc = "drop"
    BY <1>1 DEF ReceiveNothing, Leave, vars
  <2> QED BY <2>1, <2>2, <2>3 DEF LinkInv, Stream, Aligned
<1>2. CASE \E frame \in Frames : Send(frame)
  BY <1>2, StreamSend
<1>3. CASE \E n \in 1..max : Receive(n)
  BY <1>3, StreamReceive
<1>4. CASE Peek
  BY <1>4, StreamPeek
<1>5. CASE Drop
  BY <1>5, StreamDrop
<1> QED BY <1>1, <1>2, <1>3, <1>4, <1>5 DEF Next, Analysis

(* As long as no piece has been dropped, the frames sent are applied one   *)
(* by one, for every length of the FIFO and every set of frames.           *)
THEOREM InStepHolds == Spec => []InStep
<1>1. Init => LinkInv
  <2> SUFFICES ASSUME Init PROVE LinkInv
    OBVIOUS
  <2>1. RingOK /\ LinkTypes /\ Contents = <<>>
    BY LinkInit, RingInit DEF Init
  <2>2. wire = <<>> /\ sent = <<>> /\ applied = <<>> /\ pc = "receive"
    BY DEF Init
  <2>3. Len(<<>>) = 0 /\ PacketLen * (0 - 0) = 0
    BY DEF PacketLen
  <2>4. Aligned(Contents, wire, Len(applied), Len(sent))
    BY <2>1, <2>2, <2>3 DEF Aligned
  <2> QED BY <2>1, <2>2, <2>3, <2>4 DEF LinkInv, Stream
<1>2. LinkInv /\ [Next]_vars => LinkInv'
  <2> SUFFICES ASSUME LinkInv, [Next]_vars PROVE LinkInv'
    OBVIOUS
  <2>1. RingOK'
    BY StepsTheFifo, RingStep DEF LinkInv
  <2>2. LinkTypes'
    BY TypesStep DEF LinkInv
  <2>3. Stream'
    BY StreamStep
  <2> QED BY <2>1, <2>2, <2>3 DEF LinkInv
<1>3. LinkInv => InStep
  <2> SUFFICES ASSUME LinkInv, torn = {} PROVE InStep
    BY DEF InStep
  <2>1. /\ Contents \in Seq(Cell) /\ wire \in Seq(Cell)
        /\ Len(sent) \in Nat /\ Len(applied) \in Nat
    BY ContentsSeq, LenProperties, SeqMonotonic DEF LinkInv, LinkTypes, Cell
  <2>2. Aligned(Contents, wire, Len(applied), Len(sent))
    BY DEF LinkInv, Stream
  <2>3. Contents \o wire = Bytes(PacketLen * Len(applied) + 1, PacketLen * Len(sent))
    BY <2>1, <2>2, AlignedBytes
  <2> QED BY <2>3 DEF LinkInv, Stream, InStep
<1> QED BY <1>1, <1>2, <1>3, PTL DEF Spec
=============================================================================
