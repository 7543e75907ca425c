----------------------------- MODULE FifoProofs -----------------------------
(* The ring buffer implements the queue: Contents after an operation is    *)
(* what the queue has after it, for a buffer of any length.                *)
EXTENDS Fifo, SequenceTheorems, TLAPS

Cell == Element \cup {Blank}

(* head is where the elements end, counted from the oldest; a full and an  *)
(* empty buffer differ in size only.                                       *)
RingOK ==
  /\ head \in 0..max - 1 /\ end \in 0..max - 1 /\ size \in 0..max
  /\ buffer \in [0..max - 1 -> Cell]
  /\ head = fifo_offset(end, max - size)

LEMMA SeqOfFunction ==
  ASSUME NEW S, NEW n \in Nat, NEW f \in [1..n -> S]
  PROVE  f \in Seq(S) /\ Len(f) = n
<1>1. f \in Seq(S) BY SeqDef
<1>2. Len(f) \in Nat /\ DOMAIN f = 1..Len(f) BY <1>1, LenProperties
<1>3. DOMAIN f = 1..n OBVIOUS
<1> QED BY <1>1, <1>2, <1>3

(* What a buffer b holds that has s free cells and its oldest element at e.*)
Held(e, s, b) == [i \in 1..max - s |-> b[fifo_offset(e, i - 1)]]

LEMMA HeldSeq ==
  ASSUME NEW e \in 0..max - 1, NEW s \in 0..max, NEW b \in [0..max - 1 -> Cell]
  PROVE  /\ Held(e, s, b) \in Seq(Cell)
         /\ Len(Held(e, s, b)) = max - s
         /\ \A i \in 1..max - s : Held(e, s, b)[i] = b[fifo_offset(e, i - 1)]
<1>1. max \in Nat \ {0} BY MaxAssumption
<1>2. max - s \in Nat BY <1>1
<1>3. \A i \in 1..max - s : fifo_offset(e, i - 1) \in 0..max - 1
  BY <1>1 DEF fifo_offset
<1>4. Held(e, s, b) \in [1..max - s -> Cell]
  BY <1>3 DEF Held
<1> QED BY <1>2, <1>4, SeqOfFunction DEF Held

(* The queue as a sequence.                                                *)
LEMMA ContentsSeq ==
  ASSUME RingOK
  PROVE  /\ Contents \in Seq(Cell)
         /\ Len(Contents) = max - size
         /\ \A i \in 1..max - size : Contents[i] = buffer[fifo_offset(end, i - 1)]
<1>1. Contents = Held(end, size, buffer)
  BY DEF Contents, Held, fifo_used
<1>2. end \in 0..max - 1 /\ size \in 0..max /\ buffer \in [0..max - 1 -> Cell]
  BY DEF RingOK
<1> QED BY <1>1, <1>2, HeldSeq

(* A write of several elements that fits appends them, in one piece or     *)
(* around the end of the buffer.                                           *)
LEMMA WriteAppends ==
  ASSUME RingOK, NEW s \in Seq(Cell), Len(s) <= size, fifo_write_buffer(s)
  PROVE  RingOK' /\ Contents' = Contents \o s
<1>1. max \in Nat \ {0} BY MaxAssumption
<1>2. /\ Len(s) \in Nat
      /\ \A i \in 1..Len(s) : s[i] \in Cell
  BY LenProperties, ElementOfSeq
<1>3. /\ buffer' = Written(s) /\ head' = fifo_offset(head, Len(s))
      /\ size' = size - Len(s) /\ end' = end
  BY DEF fifo_write_buffer
<1>4. buffer' \in [0..max - 1 -> Cell]
  <2>1. ASSUME NEW i \in 0..max - 1
        PROVE  Written(s)[i] \in Cell
    <3>1. CASE head <= i /\ i < head + Len(s)
      <4>1. i - head + 1 \in 1..Len(s)
        BY <1>1, <1>2, <3>1 DEF RingOK
      <4> QED BY <1>2, <3>1, <4>1 DEF Written
    <3>2. CASE ~(head <= i /\ i < head + Len(s)) /\ i < Len(s) - (max - head)
      <4>1. max - head + i + 1 \in 1..Len(s)
        BY <1>1, <1>2, <3>2 DEF RingOK
      <4> QED BY <1>2, <3>2, <4>1 DEF Written
    <3>3. CASE ~(head <= i /\ i < head + Len(s)) /\ ~(i < Len(s) - (max - head))
      BY <3>3 DEF Written, RingOK
    <3> QED BY <3>1, <3>2, <3>3
  <2>2. Written(s) = [i \in 0..max - 1 |-> Written(s)[i]]
    BY DEF Written
  <2> QED BY <1>3, <2>1, <2>2
<1>5. /\ head' \in 0..max - 1 /\ size' \in 0..max
      /\ head' = fifo_offset(end, max - size')
  BY <1>1, <1>2, <1>3 DEF RingOK, fifo_offset
<1>6. RingOK'
  BY <1>3, <1>4, <1>5 DEF RingOK, fifo_offset
<1>7. \A i \in 1..max - size' :
        buffer'[fifo_offset(end, i - 1)] =
          IF i <= max - size THEN buffer[fifo_offset(end, i - 1)] ELSE s[i - (max - size)]
  <2> SUFFICES ASSUME NEW i \in 1..max - size'
               PROVE  buffer'[fifo_offset(end, i - 1)] =
                        IF i <= max - size THEN buffer[fifo_offset(end, i - 1)]
                                           ELSE s[i - (max - size)]
    OBVIOUS
  <2> DEFINE j == fifo_offset(end, i - 1)
  <2>1. j \in 0..max - 1
    BY <1>1, <1>2, <1>3 DEF RingOK, fifo_offset
  <2>2. buffer'[j] = IF head <= j /\ j < head + Len(s) THEN s[j - head + 1]
                     ELSE IF j < Len(s) - (max - head) THEN s[max - head + j + 1]
                     ELSE buffer[j]
    BY <1>3, <2>1 DEF Written
  <2>3. CASE i <= max - size
    <3>1. ~(head <= j /\ j < head + Len(s)) /\ ~(j < Len(s) - (max - head))
      BY <1>1, <1>2, <1>3, <2>3 DEF RingOK, fifo_offset
    <3> QED BY <2>2, <2>3, <3>1
  <2>4. CASE ~(i <= max - size)
    <3>1. CASE head <= j /\ j < head + Len(s)
      <4>1. j - head + 1 = i - (max - size)
        BY <1>1, <1>2, <1>3, <2>4, <3>1 DEF RingOK, fifo_offset
      <4> QED BY <2>2, <2>4, <3>1, <4>1
    <3>2. CASE ~(head <= j /\ j < head + Len(s))
      <4>1. j < Len(s) - (max - head) /\ max - head + j + 1 = i - (max - size)
        BY <1>1, <1>2, <1>3, <2>4, <3>2 DEF RingOK, fifo_offset
      <4> QED BY <2>2, <2>4, <3>2, <4>1
    <3> QED BY <3>1, <3>2
  <2> QED BY <2>3, <2>4
<1>8. /\ Contents \in Seq(Cell) /\ Len(Contents) = max - size
      /\ \A i \in 1..max - size : Contents[i] = buffer[fifo_offset(end, i - 1)]
  BY ContentsSeq
<1>9. Contents' = Held(end, size', buffer')
  BY <1>3 DEF Contents, Held, fifo_used, fifo_offset
<1>10. end \in 0..max - 1 /\ size' \in 0..max
  BY <1>5 DEF RingOK
<1>11. /\ Contents' \in Seq(Cell) /\ Len(Contents') = max - size'
      /\ \A i \in 1..max - size' : Contents'[i] = buffer'[fifo_offset(end, i - 1)]
  BY <1>4, <1>9, <1>10, HeldSeq
<1>12. /\ Contents \o s \in Seq(Cell) /\ Len(Contents \o s) = Len(Contents) + Len(s)
      /\ \A i \in 1..Len(Contents) + Len(s) :
           (Contents \o s)[i] = IF i <= Len(Contents) THEN Contents[i] ELSE s[i - Len(Contents)]
  BY <1>8, ConcatProperties, Zenon
<1>13. /\ Contents \o s \in Seq(Cell) /\ Len(Contents \o s) = (max - size) + Len(s)
       /\ \A i \in 1..(max - size) + Len(s) :
            (Contents \o s)[i] = IF i <= max - size THEN Contents[i] ELSE s[i - (max - size)]
  BY <1>8, <1>12
<1>14. max - size' = (max - size) + Len(s)
  BY <1>1, <1>2, <1>3 DEF RingOK
<1>15. \A i \in 1..Len(Contents') : Contents'[i] = (Contents \o s)[i]
  <2> SUFFICES ASSUME NEW i \in 1..max - size'
               PROVE  Contents'[i] = (Contents \o s)[i]
    BY <1>11
  <2>1. Contents'[i] = IF i <= max - size THEN buffer[fifo_offset(end, i - 1)]
                                          ELSE s[i - (max - size)]
    BY <1>7, <1>11
  <2>2. i \in 1..(max - size) + Len(s)
    BY <1>14
  <2>3. (Contents \o s)[i] = IF i <= max - size THEN Contents[i] ELSE s[i - (max - size)]
    BY <1>13, <2>2
  <2>4. CASE i <= max - size
    <3>1. i \in 1..max - size
      BY <1>1, <2>4 DEF RingOK
    <3> QED BY <1>8, <2>1, <2>3, <2>4, <3>1
  <2> QED BY <2>1, <2>3, <2>4
<1>16. Contents' = Contents \o s
  BY <1>11, <1>13, <1>14, <1>15, SeqEqual
<1> QED BY <1>6, <1>16

(* A write of one element is a write of a buffer of one.                   *)
LEMMA WriteElement ==
  ASSUME RingOK, NEW e \in Cell, fifo_write_element(e)
  PROVE  fifo_write_buffer(<<e>>)
<1>1. max \in Nat \ {0} BY MaxAssumption
<1>2. Len(<<e>>) = 1 /\ <<e>>[1] = e
  OBVIOUS
<1>3. CASE 1 <= size
  <2>1. \A i \in 0..max - 1 : Written(<<e>>)[i] = IF i = head THEN e ELSE buffer[i]
    BY <1>1, <1>2 DEF Written, RingOK
  <2>2. [buffer EXCEPT ![head] = e] = [i \in 0..max - 1 |-> IF i = head THEN e ELSE buffer[i]]
    BY DEF RingOK
  <2>3. Written(<<e>>) = [i \in 0..max - 1 |-> Written(<<e>>)[i]]
    BY DEF Written
  <2>4. Written(<<e>>) = [buffer EXCEPT ![head] = e]
    BY <2>1, <2>2, <2>3
  <2> QED BY <1>2, <1>3, <2>4 DEF fifo_write_element, fifo_write_buffer
<1>4. CASE ~(1 <= size)
  BY <1>2, <1>4 DEF fifo_write_element, fifo_write_buffer
<1> QED BY <1>3, <1>4

(* A read copies the oldest elements, in one piece or around the end.      *)
LEMMA CopiedIsOldest ==
  ASSUME RingOK, NEW n \in 1..max - size
  PROVE  Copied(n) = SubSeq(Contents, 1, n)
<1>1. max \in Nat \ {0} BY MaxAssumption
<1>2. /\ Contents \in Seq(Cell) /\ Len(Contents) = max - size
      /\ \A i \in 1..max - size : Contents[i] = buffer[fifo_offset(end, i - 1)]
  BY ContentsSeq
<1>3. n \in Nat /\ n <= max - size
  BY <1>1 DEF RingOK
<1>4. \A i \in 1..n : Copied(n)[i] = buffer[fifo_offset(end, i - 1)]
  <2> SUFFICES ASSUME NEW i \in 1..n
               PROVE  Copied(n)[i] = buffer[fifo_offset(end, i - 1)]
    OBVIOUS
  <2>1. CASE i <= max - end
    <3>1. fifo_offset(end, i - 1) = end + i - 1
      BY <1>1, <1>3, <2>1 DEF fifo_offset, RingOK
    <3> QED BY <2>1, <3>1 DEF Copied
  <2>2. CASE ~(i <= max - end)
    <3>1. fifo_offset(end, i - 1) = i - (max - end) - 1
      BY <1>1, <1>3, <2>2 DEF fifo_offset, RingOK
    <3> QED BY <2>2, <3>1 DEF Copied
  <2> QED BY <2>1, <2>2
<1>5. \A i \in 1..n : i \in 1..max - size /\ Contents[i] \in Cell
  BY <1>1, <1>2, <1>3, ElementOfSeq DEF RingOK
<1>6. \A i \in 1..n : Copied(n)[i] = Contents[i]
  BY <1>2, <1>4, <1>5
<1>7. Copied(n) \in [1..n -> Cell]
  BY <1>5, <1>6 DEF Copied
<1>8. Copied(n) \in Seq(Cell) /\ Len(Copied(n)) = n
  BY <1>3, <1>7, SeqOfFunction
<1>9. /\ SubSeq(Contents, 1, n) \in Seq(Cell)
      /\ Len(SubSeq(Contents, 1, n)) = n
      /\ \A i \in 1..n : SubSeq(Contents, 1, n)[i] = Contents[i]
  <2>1. /\ SubSeq(Contents, 1, n) \in Seq(Cell)
        /\ Len(SubSeq(Contents, 1, n)) = IF 1 <= n THEN n - 1 + 1 ELSE 0
        /\ \A i \in 1..n - 1 + 1 : SubSeq(Contents, 1, n)[i] = Contents[1 + i - 1]
    BY <1>3, <1>5, SubSeqProperties
  <2> QED BY <1>3, <2>1
<1> QED BY <1>6, <1>8, <1>9, SeqEqual

(* Freeing elements drops the oldest ones and leaves the rest.             *)
LEMMA CleanDropsOldest ==
  ASSUME RingOK, NEW n \in 1..max - size, Clean(n), UNCHANGED <<head, buffer>>
  PROVE  RingOK' /\ Contents' = SubSeq(Contents, n + 1, Len(Contents))
<1>1. max \in Nat \ {0} BY MaxAssumption
<1>2. /\ Contents \in Seq(Cell) /\ Len(Contents) = max - size
      /\ \A i \in 1..max - size : Contents[i] = buffer[fifo_offset(end, i - 1)]
  BY ContentsSeq
<1>3. end' = fifo_offset(end, n) /\ size' = size + n /\ head' = head /\ buffer' = buffer
  BY DEF Clean
<1>4. /\ end' \in 0..max - 1 /\ size' \in 0..max
      /\ head = fifo_offset(end', max - size')
  BY <1>1, <1>3 DEF RingOK, fifo_offset
<1>5. RingOK'
  BY <1>3, <1>4 DEF RingOK, fifo_offset
<1>6. Contents' = Held(end', size', buffer)
  BY <1>3 DEF Contents, Held, fifo_used, fifo_offset
<1>7. buffer \in [0..max - 1 -> Cell]
  BY DEF RingOK
<1>8. /\ Contents' \in Seq(Cell) /\ Len(Contents') = max - size'
      /\ \A i \in 1..max - size' : Contents'[i] = buffer[fifo_offset(end', i - 1)]
  BY <1>4, <1>6, <1>7, HeldSeq
<1>9. \A i \in 1..max - size' : i + n \in 1..max - size
  BY <1>1, <1>3 DEF RingOK
<1>10. \A i \in 1..max - size' : fifo_offset(end', i - 1) = fifo_offset(end, i + n - 1)
  BY <1>1, <1>3 DEF RingOK, fifo_offset
<1>11. \A i \in 1..max - size' : Contents'[i] = Contents[i + n]
  BY <1>2, <1>8, <1>9, <1>10
<1>12. \A i \in n + 1..max - size : Contents[i] \in Cell
  BY <1>1, <1>2, ElementOfSeq DEF RingOK
<1>13. /\ SubSeq(Contents, n + 1, max - size) \in Seq(Cell)
       /\ Len(SubSeq(Contents, n + 1, max - size)) =
            IF n + 1 <= max - size THEN max - size - (n + 1) + 1 ELSE 0
       /\ \A i \in 1..max - size - (n + 1) + 1 :
            SubSeq(Contents, n + 1, max - size)[i] = Contents[n + 1 + i - 1]
  <2>1. n + 1 \in Int /\ max - size \in Int
    BY <1>1 DEF RingOK
  <2> QED BY <1>12, <2>1, SubSeqProperties
<1>14. Len(SubSeq(Contents, n + 1, max - size)) = max - size'
  BY <1>1, <1>3, <1>13 DEF RingOK
<1>15. \A i \in 1..max - size' : SubSeq(Contents, n + 1, max - size)[i] = Contents[i + n]
  BY <1>1, <1>3, <1>13 DEF RingOK
<1>16. Contents' = SubSeq(Contents, n + 1, max - size)
  BY <1>8, <1>11, <1>13, <1>14, <1>15, SeqEqual
<1> QED BY <1>2, <1>5, <1>16

-----------------------------------------------------------------------------
LEMMA RingInit == FifoInit => RingOK /\ Contents = <<>>
<1> SUFFICES ASSUME FifoInit PROVE RingOK /\ Contents = <<>>
  OBVIOUS
<1>1. max \in Nat \ {0} BY MaxAssumption
<1>2. buffer \in [0..max - 1 -> Cell]
  BY DEF FifoInit, Cell
<1>3. RingOK
  BY <1>1, <1>2 DEF FifoInit, RingOK, fifo_offset
<1>4. Contents \in Seq(Cell) /\ Len(Contents) = 0
  BY <1>1, <1>3, ContentsSeq DEF FifoInit
<1> QED BY <1>3, <1>4, EmptySeq

LEMMA PrefixOfConcat ==
  ASSUME NEW s \in Seq(Cell), NEW t \in Seq(Cell)
  PROVE  SubSeq(s \o t, 1, Len(s)) = s
<1>1. Len(s) \in Nat BY LenProperties
<1>2. CASE Len(s) = 0
  <2>1. s = <<>> BY <1>2, EmptySeq
  <2>2. SubSeq(s \o t, 1, 0) = <<>> BY SubSeqEmpty
  <2> QED BY <1>2, <2>1, <2>2
<1>3. CASE Len(s) # 0
  <2>1. 1 \in 1..Len(s) /\ Len(s) \in 1..Len(s) BY <1>1, <1>3
  <2>2. SubSeq(s \o t, 1, Len(s)) = SubSeq(s, 1, Len(s)) BY <2>1, SubSeqOfConcat1
  <2> QED BY <2>2, SubSeqFull
<1> QED BY <1>2, <1>3

(* A write that does not fit changes nothing; one that fits appends.       *)
LEMMA WriteStep ==
  ASSUME RingOK, NEW s \in Seq(Cell), fifo_write_buffer(s)
  PROVE  RingOK' /\ [Q!Next]_(Q!vars)
<1>1. max \in Nat \ {0} BY MaxAssumption
<1>2. CASE Len(s) <= size
  <2>1. RingOK' /\ Contents' = Contents \o s
    BY <1>2, WriteAppends
  <2>2. Contents \in Seq(Cell) /\ Len(Contents) = max - size
    BY ContentsSeq
  <2>3. Len(Contents \o s) = Len(Contents) + Len(s) /\ Len(s) \in Nat
    BY <2>2, ConcatProperties, LenProperties
  <2>4. SubSeq(Contents \o s, 1, Len(Contents)) = Contents
    BY <2>2, PrefixOfConcat
  <2>5. UNCHANGED dat
    BY DEF fifo_write_buffer
  <2>6. CASE Len(s) = 0
    <3>1. s = <<>> BY <2>6, EmptySeq
    <3>2. Contents' = Contents BY <2>1, <2>2, <3>1, ConcatEmptySeq
    <3> QED BY <2>1, <2>5, <3>2 DEF Q!vars
  <2>7. CASE Len(s) # 0
    <3>1. Len(Contents) < Len(Contents') /\ Len(Contents') <= max
      BY <1>1, <1>2, <2>1, <2>2, <2>3, <2>7 DEF RingOK
    <3>2. SubSeq(Contents', 1, Len(Contents)) = Contents
      BY <2>1, <2>4
    <3>3. Q!Put
      BY <2>5, <3>1, <3>2 DEF Q!Put
    <3> QED BY <2>1, <3>3 DEF Q!Next
  <2> QED BY <2>6, <2>7
<1>3. CASE ~(Len(s) <= size)
  <2>1. UNCHANGED <<head, end, size, buffer, dat>>
    BY <1>3 DEF fifo_write_buffer
  <2>2. Contents' = Contents
    BY <2>1 DEF Contents, fifo_used, fifo_offset
  <2> QED BY <2>1, <2>2 DEF RingOK, fifo_offset, Q!vars
<1> QED BY <1>2, <1>3

(* A read hands over the oldest elements and frees them when it is to.     *)
LEMMA ReadStep ==
  ASSUME RingOK, NEW length \in Nat \ {0}, NEW flag \in Flag, fifo_read_buffer(length, flag)
  PROVE  RingOK' /\ [Q!Next]_(Q!vars)
<1>1. max \in Nat \ {0} BY MaxAssumption
<1>2. Contents \in Seq(Cell) /\ Len(Contents) = max - size
  BY ContentsSeq
<1>3. CASE fifo_used = 0
  <2>1. UNCHANGED <<head, end, size, buffer, dat>>
    BY <1>3 DEF fifo_read_buffer
  <2>2. Contents' = Contents
    BY <2>1 DEF Contents, fifo_used, fifo_offset
  <2> QED BY <2>1, <2>2 DEF RingOK, fifo_offset, Q!vars
<1>4. CASE fifo_used # 0
  <2> DEFINE n == Shorter(length)
  <2>1. n \in 1..max - size
    BY <1>1, <1>4 DEF RingOK, Shorter, fifo_used
  <2>2. dat' = SubSeq(Contents, 1, n)
    BY <1>4, <2>1, CopiedIsOldest DEF fifo_read_buffer
  <2>3. UNCHANGED <<head, buffer>>
    BY DEF fifo_read_buffer
  <2>4. CASE flag = "FIFO_READ_AND_CLEAN"
    <3>1. Clean(n)
      BY <1>4, <2>4 DEF fifo_read_buffer
    <3>2. RingOK' /\ Contents' = SubSeq(Contents, n + 1, Len(Contents))
      BY <2>1, <2>3, <3>1, CleanDropsOldest
    <3>3. Q!Take
      BY <1>2, <2>1, <2>2, <3>2 DEF Q!Take, Q!Read
    <3> QED BY <3>2, <3>3 DEF Q!Next
  <2>5. CASE flag # "FIFO_READ_AND_CLEAN"
    <3>1. UNCHANGED <<end, size>>
      BY <1>4, <2>5 DEF fifo_read_buffer
    <3>2. Contents' = Contents
      BY <2>3, <3>1 DEF Contents, fifo_used, fifo_offset
    <3>3. Q!Peek
      BY <1>2, <2>1, <2>2, <3>2 DEF Q!Peek, Q!Read
    <3> QED BY <2>3, <3>1, <3>3 DEF RingOK, fifo_offset, Q!Next
  <2> QED BY <2>4, <2>5
<1> QED BY <1>3, <1>4

(* A read of one element is a read of a buffer of one.                     *)
LEMMA ReadElement ==
  ASSUME RingOK, NEW flag \in Flag, fifo_read_element(flag)
  PROVE  fifo_read_buffer(1, flag)
<1>1. max \in Nat \ {0} /\ size \in 0..max /\ end \in 0..max - 1
  BY MaxAssumption DEF RingOK
<1>2. CASE fifo_used = 0
  BY <1>1, <1>2 DEF fifo_read_element, fifo_read_buffer
<1>3. CASE fifo_used # 0
  <2>1. ~(fifo_used < 1) /\ Shorter(1) = 1
    BY <1>1, <1>3 DEF fifo_used, Shorter
  <2>2. Copied(1) = <<buffer[end]>>
    <3>1. \A i \in 1..1 : Copied(1)[i] = buffer[end]
      BY <1>1 DEF Copied
    <3>2. Copied(1) = [i \in 1..1 |-> buffer[end]]
      BY <3>1 DEF Copied
    <3> QED BY <3>2
  <2> QED BY <1>3, <2>1, <2>2 DEF fifo_read_element, fifo_read_buffer
<1> QED BY <1>2, <1>3

LEMMA ClearStep ==
  ASSUME RingOK, fifo_clear
  PROVE  RingOK' /\ Q!Clear
<1>1. max \in Nat \ {0} BY MaxAssumption
<1>2. buffer' \in [0..max - 1 -> Cell]
  BY DEF fifo_clear, Cell
<1>3. RingOK'
  BY <1>1, <1>2 DEF fifo_clear, RingOK, fifo_offset
<1>4. Contents' = Held(0, max, buffer')
  BY DEF fifo_clear, Contents, Held, fifo_used, fifo_offset
<1>5. Contents' \in Seq(Cell) /\ Len(Contents') = 0
  BY <1>1, <1>2, <1>4, HeldSeq
<1> QED BY <1>3, <1>5, EmptySeq DEF fifo_clear, Q!Clear

(* Every step of the ring buffer is a step of the queue.                   *)
LEMMA RingStep ==
  ASSUME RingOK, [FifoNext]_<<fifo, dat>>
  PROVE  RingOK' /\ [Q!Next]_(Q!vars)
<1>1. ASSUME NEW e \in Element, fifo_write_element(e)
      PROVE  RingOK' /\ [Q!Next]_(Q!vars)
  <2>1. e \in Cell /\ <<e>> \in Seq(Cell)
    BY DEF Cell
  <2>2. fifo_write_buffer(<<e>>)
    BY <1>1, <2>1, WriteElement
  <2> QED BY <2>1, <2>2, WriteStep
<1>2. ASSUME NEW s \in Seq(Element), fifo_write_buffer(s)
      PROVE  RingOK' /\ [Q!Next]_(Q!vars)
  <2>1. s \in Seq(Cell)
    BY SeqMonotonic DEF Cell
  <2> QED BY <1>2, <2>1, WriteStep
<1>3. ASSUME NEW n \in Nat \ {0}, NEW flag \in Flag, fifo_read_buffer(n, flag)
      PROVE  RingOK' /\ [Q!Next]_(Q!vars)
  BY <1>3, ReadStep
<1>4. ASSUME NEW flag \in Flag, fifo_read_element(flag)
      PROVE  RingOK' /\ [Q!Next]_(Q!vars)
  BY <1>4, ReadElement, ReadStep
<1>5. CASE fifo_clear
  BY <1>5, ClearStep DEF Q!Next
<1>6. CASE UNCHANGED <<fifo, dat>>
  <2>1. Contents' = Contents
    BY <1>6 DEF fifo, Contents, fifo_used, fifo_offset
  <2> QED BY <1>6, <2>1 DEF fifo, RingOK, fifo_offset, Q!vars
<1> QED BY <1>1, <1>2, <1>3, <1>4, <1>5, <1>6 DEF FifoNext

(* zf_common_fifo implements a queue: for a buffer of any length and any   *)
(* sequence of its operations, short of the tail read.                     *)
THEOREM FifoIsQueue == FifoSpec => QueueSpec
<1>1. FifoInit => RingOK /\ Q!Init
  BY RingInit DEF FifoInit, Q!Init
<1>2. RingOK /\ [FifoNext]_<<fifo, dat>> => RingOK' /\ [Q!Next]_(Q!vars)
  BY RingStep
<1> QED BY <1>1, <1>2, PTL DEF FifoSpec, QueueSpec, Q!Spec

(* The tail read hands over the newest elements as long as they lie before *)
(* head in one piece, or head is at the start of the buffer.               *)
THEOREM TailReadIsNewest ==
  ASSUME RingOK, NEW n \in 1..max - size, NEW junk, TailInOne(n) \/ head = 0
  PROVE  \A i \in 1..n : TailCopied(n, junk)[i] = Contents[max - size - n + i]
<1>1. max \in Nat \ {0} BY MaxAssumption
<1> SUFFICES ASSUME NEW i \in 1..n
             PROVE  TailCopied(n, junk)[i] = Contents[max - size - n + i]
  OBVIOUS
<1>2. max - size - n + i \in 1..max - size
  BY <1>1 DEF RingOK
<1>3. Contents[max - size - n + i] = buffer[fifo_offset(end, max - size - n + i - 1)]
  BY <1>2, ContentsSeq
<1>4. CASE TailInOne(n)
  <2>1. fifo_offset(end, max - size - n + i - 1) = head - n + i - 1
    BY <1>1, <1>4 DEF RingOK, fifo_offset, TailInOne
  <2> QED BY <1>3, <1>4, <2>1 DEF TailCopied
<1>5. CASE ~TailInOne(n) /\ head = 0
  <2>1. fifo_offset(end, max - size - n + i - 1) = max - n + head + i - 1 /\ i <= n - head
    BY <1>1, <1>5 DEF RingOK, fifo_offset
  <2> QED BY <1>3, <1>5, <2>1 DEF TailCopied
<1> QED BY <1>4, <1>5
=============================================================================
