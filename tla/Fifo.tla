-------------------------------- MODULE Fifo --------------------------------
(***************************************************************************)
(* The ring buffer of zf_common_fifo.cpp: one action for each operation.   *)
(* Its callers come one after the other, so `execution`, which refuses an  *)
(* operation nested in another, is idle whenever one starts and is left    *)
(* out; the three element widths run the same code.  A caller passes a     *)
(* buffer and a length of at least 1.                                      *)
(***************************************************************************)
EXTENDS Integers, Sequences

CONSTANTS
  Element,    \* what the buffer holds
  max,        \* its length
  Blank       \* what memset leaves in it

ASSUME MaxAssumption == max \in Nat \ {0}

VARIABLES
  head, end,  \* where the next element is written, and the oldest one
  size,       \* elements that still fit
  buffer,
  dat         \* what the last read copied to its caller

fifo == <<head, end, size, buffer>>

(* fifo_init, and a caller's buffer that nothing was copied to.            *)
FifoInit ==
  /\ head = 0 /\ end = 0 /\ size = max
  /\ buffer = [i \in 0..max - 1 |-> Blank]
  /\ dat = <<>>

fifo_used == max - size

(* fifo_head_offset and fifo_end_offset.  No caller moves an index further *)
(* than max, so their loops run once at most.                              *)
fifo_offset(index, n) == IF index + n >= max THEN index + n - max ELSE index + n

(* The two memcpys of a write: up to the end of the buffer, and the rest   *)
(* from its start.                                                         *)
Written(s) ==
  LET room == max - head
  IN [i \in 0..max - 1 |->
        IF head <= i /\ i < head + Len(s) THEN s[i - head + 1]
        ELSE IF i < Len(s) - room THEN s[room + i + 1]
        ELSE buffer[i]]

fifo_write_buffer(s) ==
  /\ IF Len(s) <= size
       THEN /\ buffer' = Written(s)
            /\ head' = fifo_offset(head, Len(s))
            /\ size' = size - Len(s)
       ELSE UNCHANGED <<head, size, buffer>>
  /\ UNCHANGED <<end, dat>>

fifo_write_element(e) ==
  /\ IF 1 <= size
       THEN /\ buffer' = [buffer EXCEPT ![head] = e]
            /\ head' = fifo_offset(head, 1)
            /\ size' = size - 1
       ELSE UNCHANGED <<head, size, buffer>>
  /\ UNCHANGED <<end, dat>>

(* [variant] The second memcpy starts one element into the buffer.         *)
Copied_late(n) ==
  [i \in 1..n |-> IF i <= max - end THEN buffer[end + i - 1] ELSE buffer[i - (max - end)]]

(* The two memcpys of a read.                                              *)
Copied(n) ==
  LET room == max - end
  IN [i \in 1..n |-> IF i <= room THEN buffer[end + i - 1] ELSE buffer[i - room - 1]]

(* FIFO_READ_AND_CLEAN                                                     *)
Clean(n) == end' = fifo_offset(end, n) /\ size' = size + n

Shorter(n) == IF n > fifo_used THEN fifo_used ELSE n

(* A length beyond what is there is corrected; an empty FIFO is left at    *)
(* once.                                                                   *)
fifo_read_buffer(length, flag) ==
  /\ IF fifo_used = 0
       THEN UNCHANGED <<end, size, dat>>
       ELSE LET n == Shorter(length)
            IN /\ dat' = Copied(n)
               /\ IF flag = "FIFO_READ_AND_CLEAN" THEN Clean(n) ELSE UNCHANGED <<end, size>>
  /\ UNCHANGED <<head, buffer>>

fifo_read_element(flag) ==
  /\ IF fifo_used < 1
       THEN UNCHANGED <<end, size, dat>>
       ELSE /\ dat' = <<buffer[end]>>
            /\ IF flag = "FIFO_READ_AND_CLEAN" THEN Clean(1) ELSE UNCHANGED <<end, size>>
  /\ UNCHANGED <<head, buffer>>

fifo_clear ==
  /\ head' = 0 /\ end' = 0 /\ size' = max
  /\ buffer' = [i \in 0..max - 1 |-> Blank]
  /\ UNCHANGED dat

(* fifo_read_tail_buffer, the n newest elements.  They lie before head, or *)
(* wrap around the end; the second copy of the wrapped case takes its      *)
(* elements from head - n on, which is then before the buffer: anything.   *)
TailInOne(n) == head > end \/ head >= n

TailCopied(n, junk) ==
  IF TailInOne(n)
    THEN [i \in 1..n |-> buffer[head - n + i - 1]]
    ELSE [i \in 1..n |-> IF i <= n - head THEN buffer[max - n + head + i - 1]
                                         ELSE junk[i]]

fifo_read_tail_buffer(length, flag) ==
  IF fifo_used = 0
    THEN UNCHANGED <<fifo, dat>>
    ELSE LET n == Shorter(length)
         IN /\ \E junk \in [1..n -> Element] : dat' = TailCopied(n, junk)
            /\ IF flag = "FIFO_READ_AND_CLEAN"
                 THEN /\ head' = 0 /\ end' = 0 /\ size' = max
                      /\ buffer' = [i \in 0..max - 1 |-> Blank]
                 ELSE UNCHANGED fifo

Flag == {"FIFO_READ_ONLY", "FIFO_READ_AND_CLEAN"}

FifoNext ==
  \/ \E e \in Element : fifo_write_element(e)
  \/ \E s \in Seq(Element) : fifo_write_buffer(s)
  \/ \E n \in Nat \ {0}, flag \in Flag : fifo_read_buffer(n, flag)
  \/ \E flag \in Flag : fifo_read_element(flag)
  \/ fifo_clear

(* The operations without the tail read, which is no queue operation.      *)
FifoSpec == FifoInit /\ [][FifoNext]_<<fifo, dat>>
-----------------------------------------------------------------------------
(* The elements from the oldest to the newest.                             *)
Contents == [i \in 1..fifo_used |-> buffer[fifo_offset(end, i - 1)]]

Q == INSTANCE Queue WITH q <- Contents, Capacity <- max

(* The ring buffer is a queue: writes of several elements that wrap around *)
(* its end, reads of more than there is, a full and an empty buffer, which *)
(* have the same head and end, included.                                   *)
QueueSpec == Q!Spec
=============================================================================
