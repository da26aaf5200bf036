-------------------------------- MODULE Ring --------------------------------
(***************************************************************************)
(* The circular message buffer shared by the two Lab5 programs: how the    *)
(* code of lab5_1.c and lab5_2.c reads, writes, moves and reallocates the  *)
(* array `queue.buffer`.  A buffer is a function whose domain is the       *)
(* allocated indices 0 .. sizeQueue-1.  All operators are pure.            *)
(***************************************************************************)
EXTENDS Integers, Sequences

CONSTANTS
  Message,   (* the messages a producer can generate                       *)
  Zero,      (* a slot cleared by memset                                   *)
  Junk       (* memory that was allocated and never written, or not ours   *)

ASSUME SlotAssumption == Zero \notin Message /\ Junk \notin Message /\ Zero # Junk

Slot == Message \cup {Zero, Junk}

(* Seeded fault of Advance: the index is not wrapped.                      *)
AdvanceNoWrap(index, size) == index + 1

(* ++index; if (index == sizeQueue) index = 0;                             *)
Advance(index, size) == IF index + 1 = size THEN 0 ELSE index + 1

(* buffer[index], read or written through a C pointer: outside the block   *)
(* a read yields whatever is there and a write does not change the queue.  *)
ReadSlot(buf, index) == IF index \in DOMAIN buf THEN buf[index] ELSE Junk
WriteSlot(buf, index, value) ==
  [i \in DOMAIN buf |-> IF i = index THEN value ELSE buf[i]]

(* Seeded fault of Realloc: the block keeps its size.                      *)
ReallocSameSize(buf, size) == buf

(* realloc(buffer, size * sizeof(struct Message))                          *)
Realloc(buf, size) == [i \in 0 .. size - 1 |-> ReadSlot(buf, i)]

(* for (i = sizeQueue - 1; i > from; i--) buffer[i] = buffer[i - 1];       *)
ShiftUp(buf, from) ==
  [i \in DOMAIN buf |-> IF i > from THEN ReadSlot(buf, i - 1) ELSE buf[i]]

(* Seeded fault of MoveToFront: the last message is not moved.             *)
MoveToFrontShort(buf, head, tail) ==
  [i \in DOMAIN buf |-> IF i < tail - head - 1 THEN ReadSlot(buf, head + i) ELSE buf[i]]

(* The two loops of discrSize.  A contiguous content is moved to the front *)
(* of the buffer; of a wrapped one the part that starts at head is moved   *)
(* one slot down, into the gap between tail and head.                      *)
MoveToFront(buf, head, tail) ==
  [i \in DOMAIN buf |-> IF i < tail - head THEN ReadSlot(buf, head + i) ELSE buf[i]]
MoveDown(buf, head) ==
  [i \in DOMAIN buf |-> IF i >= head - 1 THEN ReadSlot(buf, i + 1) ELSE buf[i]]

(* discrSize up to and including its realloc: the new buffer, head, tail.  *)
ShrunkBuffer(buf, head, tail, size) ==
  Realloc(IF head < tail THEN MoveToFront(buf, head, tail)
          ELSE IF head = tail THEN buf
          ELSE MoveDown(buf, head),
          size - 1)
(* Seeded fault of ShrunkHead: a wrapped head is not moved with its data.  *)
ShrunkHeadStays(head, tail) == IF head > tail THEN head ELSE 0
ShrunkHead(head, tail) == IF head > tail THEN head - 1 ELSE 0
ShrunkTail(head, tail) == IF head > tail THEN tail
                          ELSE IF head = tail THEN 0 ELSE tail - head

-----------------------------------------------------------------------------
(* The index `count` slots after `first`, and the `count` messages that    *)
(* start there, oldest first: what the buffer means as a queue.            *)
Wrap(index, size) == IF index >= size THEN index - size ELSE index

Contents(buf, first, count, size) ==
  [i \in 1 .. count |-> ReadSlot(buf, Wrap(first + i - 1, size))]

(* A ring of this size whose `count` messages start at head: tail is the   *)
(* slot after the last of them, and every one of them is a message.        *)
RingShape(buf, head, tail, count, size) ==
  /\ count \in 0 .. size
  /\ head \in 0 .. size /\ tail \in 0 .. size
  /\ size > 0 => head < size /\ tail < size
  /\ tail = IF size = 0 THEN 0 ELSE Wrap(head + count, size)
  /\ \A i \in 0 .. count - 1 : ReadSlot(buf, Wrap(head + i, size)) \in Message
=============================================================================
