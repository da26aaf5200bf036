------------------------- MODULE MessageQueueProofs -------------------------
(***************************************************************************)
(* Lemmas shared by the proofs about the two Lab5 programs.  About Ring:   *)
(* each ring operator keeps a buffer a buffer of the expected size, and    *)
(* leaves a well-shaped ring well-shaped when it is applied where the code *)
(* applies it.  About MessageQueue: the lists of threads keep their type,  *)
(* and one thread's step changes a count of threads by at most one.        *)
(***************************************************************************)
EXTENDS MessageQueue, FiniteSetTheorems, SequenceTheorems, TLAPS

-----------------------------------------------------------------------------
(* The ring operators keep a buffer a buffer.                              *)

LEMMA ReadSlotType ==
  ASSUME NEW n \in Int, NEW buf \in [0 .. n - 1 -> Slot], NEW i
  PROVE  ReadSlot(buf, i) \in Slot
  BY DEF ReadSlot, Slot

LEMMA WriteSlotType ==
  ASSUME NEW n \in Int, NEW buf \in [0 .. n - 1 -> Slot], NEW i, NEW v \in Slot
  PROVE  WriteSlot(buf, i, v) \in [0 .. n - 1 -> Slot]
  BY DEF WriteSlot

LEMMA ReallocType ==
  ASSUME NEW n \in Int, NEW buf \in [0 .. n - 1 -> Slot], NEW k \in Int
  PROVE  Realloc(buf, k) \in [0 .. k - 1 -> Slot]
  BY ReadSlotType DEF Realloc

LEMMA ShiftUpType ==
  ASSUME NEW n \in Int, NEW buf \in [0 .. n - 1 -> Slot], NEW from \in Int
  PROVE  ShiftUp(buf, from) \in [0 .. n - 1 -> Slot]
  BY ReadSlotType DEF ShiftUp

LEMMA ShrunkBufferType ==
  ASSUME NEW n \in Int, NEW buf \in [0 .. n - 1 -> Slot], NEW h \in Int, NEW t \in Int
  PROVE  ShrunkBuffer(buf, h, t, n) \in [0 .. (n - 1) - 1 -> Slot]
<1>1. MoveToFront(buf, h, t) \in [0 .. n - 1 -> Slot]
  BY ReadSlotType DEF MoveToFront
<1>2. MoveDown(buf, h) \in [0 .. n - 1 -> Slot]
  BY ReadSlotType DEF MoveDown
<1>3. \A b \in [0 .. n - 1 -> Slot] : Realloc(b, n - 1) \in [0 .. (n - 1) - 1 -> Slot]
  BY ReallocType
<1>4. \/ ShrunkBuffer(buf, h, t, n) = Realloc(MoveToFront(buf, h, t), n - 1)
      \/ ShrunkBuffer(buf, h, t, n) = Realloc(buf, n - 1)
      \/ ShrunkBuffer(buf, h, t, n) = Realloc(MoveDown(buf, h), n - 1)
  BY DEF ShrunkBuffer
<1> QED BY <1>1, <1>2, <1>3, <1>4

-----------------------------------------------------------------------------
(* The shape of the ring.  First what RingShape says of a single slot.     *)

LEMMA WrapRange ==
  ASSUME NEW s \in Int, NEW h \in 0 .. s - 1, NEW i \in 0 .. s
  PROVE  Wrap(h + i, s) \in 0 .. s - 1
  BY DEF Wrap

LEMMA WriteShape ==
  ASSUME NEW s \in Int, NEW b \in [0 .. s - 1 -> Slot],
         NEW h \in Int, NEW t \in Int, NEW n \in Int, NEW v \in Message,
         RingShape(b, h, t, n, s), n < s
  PROVE  RingShape(WriteSlot(b, t, v), h, t, n, s)
<1>1. h \in 0 .. s - 1 /\ t \in 0 .. s - 1 /\ t = Wrap(h + n, s)
  BY DEF RingShape
<1>2. \A i \in 0 .. n - 1 : Wrap(h + i, s) \in 0 .. s - 1 /\ Wrap(h + i, s) # t
  BY <1>1 DEF Wrap, RingShape
<1>3. \A i \in 0 .. n - 1 :
        ReadSlot(WriteSlot(b, t, v), Wrap(h + i, s)) = ReadSlot(b, Wrap(h + i, s))
  BY <1>2 DEF ReadSlot, WriteSlot
<1> QED BY <1>3 DEF RingShape

LEMMA PutShape ==
  ASSUME NEW s \in Int, NEW b, NEW h \in Int, NEW t \in Int, NEW n \in Int,
         RingShape(b, h, t, n, s), n < s, ReadSlot(b, t) \in Message
  PROVE  RingShape(b, h, Advance(t, s), n + 1, s)
<1>1. h \in 0 .. s - 1 /\ t = Wrap(h + n, s) /\ n \in 0 .. s
  BY DEF RingShape
<1>2. Advance(t, s) \in 0 .. s - 1 /\ Advance(t, s) = Wrap(h + (n + 1), s)
  BY <1>1 DEF Advance, Wrap
<1>3. \A i \in 0 .. (n + 1) - 1 : i \in 0 .. n - 1 \/ i = n
  BY <1>1
<1>4. \A i \in 0 .. (n + 1) - 1 : ReadSlot(b, Wrap(h + i, s)) \in Message
  BY <1>1, <1>3 DEF RingShape
<1> QED BY <1>1, <1>2, <1>4 DEF RingShape

LEMMA TakeShape ==
  ASSUME NEW s \in Int, NEW b,
         NEW h \in Int, NEW t \in Int, NEW n \in Int, NEW v,
         RingShape(b, h, t, n, s), n > 0
  PROVE  /\ RingShape(WriteSlot(b, h, v), Advance(h, s), t, n - 1, s)
         /\ ReadSlot(b, h) \in Message
<1>1. h \in 0 .. s - 1 /\ t \in 0 .. s - 1 /\ t = Wrap(h + n, s) /\ n \in 1 .. s
  BY DEF RingShape
<1>2. ReadSlot(b, Wrap(h + 0, s)) \in Message /\ Wrap(h + 0, s) = h
  BY <1>1 DEF RingShape, Wrap
<1>3. Advance(h, s) \in 0 .. s - 1 /\ t = Wrap(Advance(h, s) + (n - 1), s)
  BY <1>1 DEF Advance, Wrap
<1>4. \A i \in 0 .. (n - 1) - 1 :
        /\ i + 1 \in 0 .. n - 1
        /\ Wrap(Advance(h, s) + i, s) = Wrap(h + (i + 1), s)
        /\ Wrap(h + (i + 1), s) \in 0 .. s - 1
        /\ Wrap(h + (i + 1), s) # h
  BY <1>1 DEF Advance, Wrap
<1>5. \A i \in 0 .. (n - 1) - 1 :
        ReadSlot(WriteSlot(b, h, v), Wrap(Advance(h, s) + i, s)) \in Message
  BY <1>4 DEF ReadSlot, WriteSlot, RingShape
<1> QED BY <1>1, <1>2, <1>3, <1>5 DEF RingShape

(* A resize moves messages between slots: these lemmas say that the i-th   *)
(* message is still the i-th message.                                      *)

(* incremSize of lab5_2.c, on a ring that is not full.                     *)
LEMMA GrowSlotsWrapped ==
  ASSUME NEW s \in Int, NEW b \in [0 .. s - 1 -> Slot],
         NEW h \in 0 .. s - 1, NEW i \in 0 .. s - 1
  PROVE  ReadSlot(ShiftUp(Realloc(b, s + 1), h), Wrap((h + 1) + i, s + 1))
           = ReadSlot(b, Wrap(h + i, s))
<1>1. CASE h + i < s
  <2>1. Wrap((h + 1) + i, s + 1) = h + i + 1 /\ Wrap(h + i, s) = h + i
    BY <1>1 DEF Wrap
  <2>2. h + i \in 0 .. s - 1 /\ h + i + 1 \in 0 .. s /\ h + i + 1 > h
    BY <1>1
  <2> QED BY <2>1, <2>2 DEF ReadSlot, ShiftUp, Realloc
<1>2. CASE h + i >= s
  <2>1. /\ Wrap((h + 1) + i, s + 1) = h + i - s /\ Wrap(h + i, s) = h + i - s
        /\ h + i - s \in 0 .. s - 1 /\ h + i - s <= h
    BY <1>2 DEF Wrap
  <2> QED BY <2>1 DEF ReadSlot, ShiftUp, Realloc
<1> QED BY <1>1, <1>2

LEMMA GrowSlotsFlat ==
  ASSUME NEW s \in Int, NEW b \in [0 .. s - 1 -> Slot],
         NEW h \in 0 .. s - 1, NEW i \in 0 .. s - 1, h + i < s
  PROVE  ReadSlot(Realloc(b, s + 1), Wrap(h + i, s + 1)) = ReadSlot(b, Wrap(h + i, s))
<1>1. /\ Wrap(h + i, s + 1) = h + i /\ Wrap(h + i, s) = h + i /\ h + i \in 0 .. s - 1
  BY DEF Wrap
<1> QED BY <1>1 DEF ReadSlot, Realloc

LEMMA GrowShape ==
  ASSUME NEW s \in Int, NEW b \in [0 .. s - 1 -> Slot],
         NEW h \in Int, NEW t \in Int, NEW n \in Int,
         RingShape(b, h, t, n, s), n < s \/ s = 0
  PROVE  /\ h > t => RingShape(ShiftUp(Realloc(b, s + 1), h), h + 1, t, n, s + 1)
         /\ h <= t => RingShape(Realloc(b, s + 1), h, t, n, s + 1)
<1>1. /\ n \in 0 .. s /\ s \in Nat
      /\ s > 0 => h \in 0 .. s - 1 /\ t \in 0 .. s - 1
      /\ s = 0 => h = 0 /\ t = 0 /\ n = 0
      /\ s > 0 => t = Wrap(h + n, s)
      /\ \A i \in 0 .. n - 1 : ReadSlot(b, Wrap(h + i, s)) \in Message
  BY DEF RingShape
<1>2. CASE h > t
  <2>1. s > 0 /\ h + n >= s /\ t = h + n - s
    BY <1>1, <1>2 DEF Wrap
  <2>2. t = Wrap((h + 1) + n, s + 1)
    BY <1>1, <2>1 DEF Wrap
  <2>3. ASSUME NEW i \in 0 .. n - 1
        PROVE  ReadSlot(ShiftUp(Realloc(b, s + 1), h), Wrap((h + 1) + i, s + 1)) \in Message
    <3>1. ReadSlot(ShiftUp(Realloc(b, s + 1), h), Wrap((h + 1) + i, s + 1))
            = ReadSlot(b, Wrap(h + i, s))
      <4>1. h \in 0 .. s - 1 /\ i \in 0 .. s - 1
        BY <1>1, <2>1
      <4> QED BY <4>1, GrowSlotsWrapped
    <3> QED BY <1>1, <3>1
  <2>4. /\ n \in 0 .. s + 1 /\ h + 1 \in 0 .. s + 1 /\ t \in 0 .. s + 1
        /\ h + 1 < s + 1 /\ t < s + 1 /\ s + 1 # 0
    BY <1>1, <2>1
  <2> QED BY <1>2, <2>2, <2>3, <2>4 DEF RingShape
<1>3. CASE h <= t
  <2>1. h + n <= s /\ (s > 0 => h + n < s) /\ t = h + n
    BY <1>1, <1>3 DEF Wrap
  <2>2. t = Wrap(h + n, s + 1)
    BY <1>1, <2>1 DEF Wrap
  <2>3. ASSUME NEW i \in 0 .. n - 1
        PROVE  ReadSlot(Realloc(b, s + 1), Wrap(h + i, s + 1)) \in Message
    <3>1. ReadSlot(Realloc(b, s + 1), Wrap(h + i, s + 1)) = ReadSlot(b, Wrap(h + i, s))
      <4>1. h \in 0 .. s - 1 /\ i \in 0 .. s - 1 /\ h + i < s
        BY <1>1, <2>1
      <4> QED BY <4>1, GrowSlotsFlat
    <3> QED BY <1>1, <3>1
  <2>4. /\ n \in 0 .. s + 1 /\ h \in 0 .. s + 1 /\ t \in 0 .. s + 1
        /\ h < s + 1 /\ t < s + 1 /\ s + 1 # 0
    BY <1>1, <2>1
  <2> QED BY <1>3, <2>2, <2>3, <2>4 DEF RingShape
<1> QED BY <1>2, <1>3

(* discrSize, on a ring that is not full and whose content does not end in *)
(* its last slot.                                                          *)
LEMMA ShrinkSlots ==
  ASSUME NEW s \in Int, NEW b \in [0 .. s - 1 -> Slot],
         NEW h \in Int, NEW t \in Int, NEW n \in Int,
         RingShape(b, h, t, n, s), n < s, ~(h < t /\ t - h = s - 1),
         NEW i \in 0 .. n - 1
  PROVE  ReadSlot(ShrunkBuffer(b, h, t, s), Wrap(ShrunkHead(h, t) + i, s - 1))
           = ReadSlot(b, Wrap(h + i, s))
<1>1. /\ n \in 0 .. s - 1 /\ h \in 0 .. s - 1 /\ t \in 0 .. s - 1 /\ t = Wrap(h + n, s)
  BY DEF RingShape
<1>2. CASE h < t
  <2>1. n = t - h /\ n < s - 1
    BY <1>1, <1>2 DEF Wrap
  <2>2. /\ Wrap(0 + i, s - 1) = i /\ Wrap(h + i, s) = h + i
        /\ i \in 0 .. s - 2 /\ i \in 0 .. s - 1 /\ h + i \in 0 .. s - 1 /\ i < t - h
    BY <1>1, <1>2, <2>1 DEF Wrap
  <2>3. /\ ShrunkBuffer(b, h, t, s) = Realloc(MoveToFront(b, h, t), s - 1)
        /\ ShrunkHead(h, t) = 0
    BY <1>2 DEF ShrunkBuffer, ShrunkHead
  <2> QED BY <2>2, <2>3 DEF ReadSlot, Realloc, MoveToFront
<1>3. CASE h = t
  <2>1. n = 0
    BY <1>1, <1>3 DEF Wrap
  <2> QED BY <2>1
<1>4. CASE h > t
  <2>1. h + n >= s /\ t = h + n - s /\ s - 1 > 0
    BY <1>1, <1>4 DEF Wrap
  <2>2. /\ ShrunkBuffer(b, h, t, s) = Realloc(MoveDown(b, h), s - 1)
        /\ ShrunkHead(h, t) = h - 1
    BY <1>4 DEF ShrunkBuffer, ShrunkHead
  <2>3. CASE h + i < s
    <3>1. /\ Wrap((h - 1) + i, s - 1) = h + i - 1 /\ Wrap(h + i, s) = h + i
          /\ h + i - 1 \in 0 .. s - 2 /\ h + i - 1 \in 0 .. s - 1 /\ h + i \in 0 .. s - 1
          /\ h + i - 1 >= h - 1 /\ (h + i - 1) + 1 = h + i
      BY <1>1, <1>4, <2>1, <2>3 DEF Wrap
    <3> QED BY <2>2, <3>1 DEF ReadSlot, Realloc, MoveDown
  <2>4. CASE h + i >= s
    <3>1. /\ Wrap((h - 1) + i, s - 1) = h + i - s /\ Wrap(h + i, s) = h + i - s
          /\ h + i - s \in 0 .. s - 2 /\ h + i - s \in 0 .. s - 1
          /\ ~(h + i - s >= h - 1)
      BY <1>1, <1>4, <2>1, <2>4 DEF Wrap
    <3> QED BY <2>2, <3>1 DEF ReadSlot, Realloc, MoveDown
  <2> QED BY <1>1, <2>3, <2>4
<1> QED BY <1>1, <1>2, <1>3, <1>4

LEMMA ShrinkShape ==
  ASSUME NEW s \in Int, NEW b \in [0 .. s - 1 -> Slot],
         NEW h \in Int, NEW t \in Int, NEW n \in Int,
         RingShape(b, h, t, n, s), n < s, ~(h < t /\ t - h = s - 1)
  PROVE  RingShape(ShrunkBuffer(b, h, t, s), ShrunkHead(h, t), ShrunkTail(h, t), n, s - 1)
<1>1. /\ n \in 0 .. s - 1 /\ h \in 0 .. s - 1 /\ t \in 0 .. s - 1 /\ t = Wrap(h + n, s)
      /\ \A i \in 0 .. n - 1 : ReadSlot(b, Wrap(h + i, s)) \in Message
  BY DEF RingShape
<1>2. ASSUME NEW i \in 0 .. n - 1
      PROVE  ReadSlot(ShrunkBuffer(b, h, t, s), Wrap(ShrunkHead(h, t) + i, s - 1)) \in Message
  <2>1. ReadSlot(ShrunkBuffer(b, h, t, s), Wrap(ShrunkHead(h, t) + i, s - 1))
          = ReadSlot(b, Wrap(h + i, s))
    BY ShrinkSlots
  <2> QED BY <1>1, <2>1
<1>3. CASE h < t
  <2>1. n = t - h /\ n < s - 1
    BY <1>1, <1>3 DEF Wrap
  <2>2. ShrunkHead(h, t) = 0 /\ ShrunkTail(h, t) = n
    BY <1>3, <2>1 DEF ShrunkHead, ShrunkTail
  <2>3. n = Wrap(0 + n, s - 1)
    BY <1>1, <2>1 DEF Wrap
  <2> QED BY <1>1, <1>2, <2>1, <2>2, <2>3 DEF RingShape
<1>4. CASE h = t
  <2>1. n = 0
    BY <1>1, <1>4 DEF Wrap
  <2>2. ShrunkHead(h, t) = 0 /\ ShrunkTail(h, t) = 0
    BY <1>4 DEF ShrunkHead, ShrunkTail
  <2> QED BY <1>1, <2>1, <2>2 DEF RingShape, Wrap
<1>5. CASE h > t
  <2>1. h + n >= s /\ t = h + n - s /\ s - 1 > 0
    BY <1>1, <1>5 DEF Wrap
  <2>2. ShrunkHead(h, t) = h - 1 /\ ShrunkTail(h, t) = t
    BY <1>5 DEF ShrunkHead, ShrunkTail
  <2>3. t = Wrap((h - 1) + n, s - 1)
    BY <1>1, <2>1 DEF Wrap
  <2>4. /\ n \in 0 .. s - 1 /\ h - 1 \in 0 .. s - 1 /\ t \in 0 .. s - 1
        /\ h - 1 < s - 1 /\ t < s - 1 /\ s - 1 # 0
    BY <1>1, <1>5, <2>1
  <2> QED BY <1>2, <2>2, <2>3, <2>4 DEF RingShape
<1> QED BY <1>1, <1>3, <1>4, <1>5

-----------------------------------------------------------------------------
(* The contents of the ring, as a sequence of messages.                    *)

LEMMA ContentsType ==
  ASSUME NEW s \in Int, NEW b, NEW h \in Int, NEW t \in Int, NEW n \in Int,
         RingShape(b, h, t, n, s)
  PROVE  /\ Contents(b, h, n, s) \in Seq(Message)
         /\ Len(Contents(b, h, n, s)) = n
         /\ \A i \in 1 .. n : Contents(b, h, n, s)[i] = ReadSlot(b, Wrap(h + i - 1, s))
<1> DEFINE q == Contents(b, h, n, s)
<1>1. n \in Nat /\ h \in Int
  BY DEF RingShape
<1>2. \A i \in 1 .. n : i - 1 \in 0 .. n - 1 /\ h + i - 1 = h + (i - 1)
  BY <1>1
<1>3. q \in [1 .. n -> Message]
  BY <1>2 DEF RingShape, Contents
<1>4. q \in Seq(Message)
  BY <1>1, <1>3, SeqDef
<1>5. Len(q) = n
  BY <1>1, <1>3, <1>4, LenProperties
<1>6. \A i \in 1 .. n : q[i] = ReadSlot(b, Wrap(h + i - 1, s))
  BY DEF Contents
<1> QED BY <1>4, <1>5, <1>6

(* Writing the free slot at tail changes no message.                       *)
LEMMA WriteContents ==
  ASSUME NEW s \in Int, NEW b,
         NEW h \in Int, NEW t \in Int, NEW n \in Int, NEW v,
         RingShape(b, h, t, n, s), n < s
  PROVE  Contents(WriteSlot(b, t, v), h, n, s) = Contents(b, h, n, s)
<1>1. h \in 0 .. s - 1 /\ t \in 0 .. s - 1 /\ t = Wrap(h + n, s)
  BY DEF RingShape
<1>2. \A i \in 1 .. n : Wrap(h + i - 1, s) \in 0 .. s - 1 /\ Wrap(h + i - 1, s) # t
  BY <1>1 DEF Wrap, RingShape
<1>3. \A i \in 1 .. n :
        ReadSlot(WriteSlot(b, t, v), Wrap(h + i - 1, s)) = ReadSlot(b, Wrap(h + i - 1, s))
  BY <1>2 DEF ReadSlot, WriteSlot
<1> QED BY <1>3 DEF Contents

(* Moving tail appends the message in the slot it leaves.                  *)
LEMMA PutContents ==
  ASSUME NEW s \in Int, NEW b, NEW h \in Int, NEW t \in Int, NEW n \in Int,
         RingShape(b, h, t, n, s), n < s, ReadSlot(b, t) \in Message
  PROVE  Contents(b, h, n + 1, s) = Append(Contents(b, h, n, s), ReadSlot(b, t))
<1> DEFINE q == Contents(b, h, n, s)
           r == Contents(b, h, n + 1, s)
<1>1. n \in Nat /\ t = Wrap(h + n, s)
  BY DEF RingShape
<1>2. RingShape(b, h, Advance(t, s), n + 1, s)
  BY PutShape
<1>3. q \in Seq(Message) /\ Len(q) = n
      /\ \A i \in 1 .. n : q[i] = ReadSlot(b, Wrap(h + i - 1, s))
  BY ContentsType
<1>4. Advance(t, s) \in Int
  BY DEF Advance
<1>5. r \in Seq(Message) /\ Len(r) = n + 1
      /\ \A i \in 1 .. n + 1 : r[i] = ReadSlot(b, Wrap(h + i - 1, s))
  BY <1>2, <1>4, ContentsType
<1>6. /\ Append(q, ReadSlot(b, t)) \in Seq(Message)
      /\ Len(Append(q, ReadSlot(b, t))) = n + 1
      /\ \A i \in 1 .. n : Append(q, ReadSlot(b, t))[i] = q[i]
      /\ Append(q, ReadSlot(b, t))[n + 1] = ReadSlot(b, t)
  <2> HIDE DEF q
  <2> QED BY <1>3, AppendProperties
<1>7. \A i \in 1 .. n + 1 : r[i] = Append(q, ReadSlot(b, t))[i]
  <2>1. \A i \in 1 .. n + 1 : i \in 1 .. n \/ (i = n + 1 /\ h + i - 1 = h + n)
    BY <1>1
  <2> HIDE DEF q, r
  <2> QED BY <1>1, <1>3, <1>5, <1>6, <2>1
<1> HIDE DEF q, r
<1>8. r = Append(q, ReadSlot(b, t))
  BY <1>5, <1>6, <1>7, SeqEqual
<1> QED BY <1>8 DEF q, r

(* Taking the message at head leaves the rest, whatever is written there.  *)
LEMMA TakeContents ==
  ASSUME NEW s \in Int, NEW b,
         NEW h \in Int, NEW t \in Int, NEW n \in Int, NEW v,
         RingShape(b, h, t, n, s), n > 0
  PROVE  /\ Contents(b, h, n, s) # <<>>
         /\ ReadSlot(b, h) = Head(Contents(b, h, n, s))
         /\ Contents(WriteSlot(b, h, v), Advance(h, s), n - 1, s) = Tail(Contents(b, h, n, s))
<1> DEFINE q == Contents(b, h, n, s)
           r == Contents(WriteSlot(b, h, v), Advance(h, s), n - 1, s)
<1>1. h \in 0 .. s - 1 /\ n \in 1 .. s
  BY DEF RingShape
<1>2. RingShape(WriteSlot(b, h, v), Advance(h, s), t, n - 1, s)
  BY TakeShape
<1>3. q \in Seq(Message) /\ Len(q) = n
      /\ \A i \in 1 .. n : q[i] = ReadSlot(b, Wrap(h + i - 1, s))
  BY ContentsType
<1>4. Advance(h, s) \in Int
  BY DEF Advance
<1>5. r \in Seq(Message) /\ Len(r) = n - 1
      /\ \A i \in 1 .. n - 1 :
           r[i] = ReadSlot(WriteSlot(b, h, v), Wrap(Advance(h, s) + i - 1, s))
  <2> DEFINE c == WriteSlot(b, h, v)
             g == Advance(h, s)
             m == n - 1
  <2>1. RingShape(c, g, t, m, s) /\ g \in Int /\ m \in Int
    BY <1>1, <1>2, <1>4
  <2> HIDE DEF c, g, m
  <2>2. /\ Contents(c, g, m, s) \in Seq(Message) /\ Len(Contents(c, g, m, s)) = m
        /\ \A i \in 1 .. m : Contents(c, g, m, s)[i] = ReadSlot(c, Wrap(g + i - 1, s))
    BY <2>1, ContentsType
  <2> QED BY <2>2 DEF c, g, m
<1>6. q # <<>>
  <2> HIDE DEF q
  <2> QED BY <1>1, <1>3, EmptySeq
<1>7. /\ Tail(q) \in Seq(Message) /\ Len(Tail(q)) = n - 1
      /\ \A i \in 1 .. n - 1 : Tail(q)[i] = q[i + 1]
      /\ Head(q) = q[1]
  <2> HIDE DEF q
  <2> QED BY <1>3, <1>6, HeadTailProperties
<1>8. Head(q) = ReadSlot(b, h)
  <2>1. 1 \in 1 .. n /\ Wrap(h + 1 - 1, s) = h
    BY <1>1 DEF Wrap
  <2> HIDE DEF q
  <2> QED BY <1>3, <1>7, <2>1
<1>9. ASSUME NEW i \in 1 .. n - 1 PROVE r[i] = Tail(q)[i]
  <2>1. /\ Wrap(Advance(h, s) + i - 1, s) = Wrap(h + (i + 1) - 1, s)
        /\ Wrap(h + (i + 1) - 1, s) \in 0 .. s - 1
        /\ Wrap(h + (i + 1) - 1, s) # h
        /\ i + 1 \in 1 .. n
    BY <1>1 DEF Advance, Wrap
  <2>2. ReadSlot(WriteSlot(b, h, v), Wrap(h + (i + 1) - 1, s))
          = ReadSlot(b, Wrap(h + (i + 1) - 1, s))
    BY <2>1 DEF ReadSlot, WriteSlot
  <2>3. q[i + 1] = ReadSlot(b, Wrap(h + (i + 1) - 1, s))
    BY <1>3, <2>1
  <2> HIDE DEF q, r
  <2> QED BY <1>5, <1>7, <2>1, <2>2, <2>3
<1>10. r = Tail(q)
  <2> HIDE DEF q, r
  <2> QED BY <1>5, <1>7, <1>9, SeqEqual
<1> QED BY <1>6, <1>8, <1>10

(* Resizing changes no message.                                            *)
LEMMA GrowContents ==
  ASSUME NEW s \in Int, NEW b \in [0 .. s - 1 -> Slot],
         NEW h \in Int, NEW t \in Int, NEW n \in Int,
         RingShape(b, h, t, n, s), n < s \/ s = 0
  PROVE  /\ h > t => Contents(ShiftUp(Realloc(b, s + 1), h), h + 1, n, s + 1)
                       = Contents(b, h, n, s)
         /\ h <= t => Contents(Realloc(b, s + 1), h, n, s + 1) = Contents(b, h, n, s)
<1>1. CASE h > t
  <2>1. ASSUME NEW i \in 1 .. n
        PROVE  ReadSlot(ShiftUp(Realloc(b, s + 1), h), Wrap((h + 1) + i - 1, s + 1))
                 = ReadSlot(b, Wrap(h + i - 1, s))
    <3> DEFINE j == i - 1
    <3>1. /\ h \in 0 .. s - 1 /\ j \in 0 .. s - 1
          /\ h + i - 1 = h + j /\ (h + 1) + i - 1 = (h + 1) + j
      BY <1>1 DEF RingShape
    <3>2. ReadSlot(ShiftUp(Realloc(b, s + 1), h), Wrap((h + 1) + j, s + 1))
            = ReadSlot(b, Wrap(h + j, s))
      <4> HIDE DEF j
      <4> QED BY <3>1, GrowSlotsWrapped
    <3> HIDE DEF j
    <3> QED BY <3>1, <3>2
  <2>2. Contents(ShiftUp(Realloc(b, s + 1), h), h + 1, n, s + 1) = Contents(b, h, n, s)
    <3> DEFINE c == ShiftUp(Realloc(b, s + 1), h)
    <3>1. \A i \in 1 .. n : ReadSlot(c, Wrap((h + 1) + i - 1, s + 1))
                             = ReadSlot(b, Wrap(h + i - 1, s))
      BY <2>1
    <3> HIDE DEF c
    <3>2. Contents(c, h + 1, n, s + 1) = Contents(b, h, n, s)
      BY ONLY <3>1 DEF Contents
    <3> QED BY <3>2 DEF c
  <2>3. ~(h <= t)
    BY <1>1
  <2> QED BY <2>2, <2>3
<1>2. CASE h <= t
  <2>1. ASSUME NEW i \in 1 .. n
        PROVE  ReadSlot(Realloc(b, s + 1), Wrap(h + i - 1, s + 1))
                 = ReadSlot(b, Wrap(h + i - 1, s))
    <3> DEFINE j == i - 1
    <3>1. h \in 0 .. s - 1 /\ j \in 0 .. s - 1 /\ h + j < s /\ h + i - 1 = h + j
      BY <1>2 DEF RingShape, Wrap
    <3>2. ReadSlot(Realloc(b, s + 1), Wrap(h + j, s + 1)) = ReadSlot(b, Wrap(h + j, s))
      <4> HIDE DEF j
      <4> QED BY <3>1, GrowSlotsFlat
    <3> HIDE DEF j
    <3> QED BY <3>1, <3>2
  <2>2. Contents(Realloc(b, s + 1), h, n, s + 1) = Contents(b, h, n, s)
    <3> DEFINE c == Realloc(b, s + 1)
    <3>1. \A i \in 1 .. n : ReadSlot(c, Wrap(h + i - 1, s + 1))
                             = ReadSlot(b, Wrap(h + i - 1, s))
      BY <2>1
    <3> HIDE DEF c
    <3>2. Contents(c, h, n, s + 1) = Contents(b, h, n, s)
      BY ONLY <3>1 DEF Contents
    <3> QED BY <3>2 DEF c
  <2>3. ~(h > t)
    BY <1>2
  <2> QED BY <2>2, <2>3
<1> QED BY <1>1, <1>2

LEMMA ShrinkContents ==
  ASSUME NEW s \in Int, NEW b \in [0 .. s - 1 -> Slot],
         NEW h \in Int, NEW t \in Int, NEW n \in Int,
         RingShape(b, h, t, n, s), n < s, ~(h < t /\ t - h = s - 1)
  PROVE  Contents(ShrunkBuffer(b, h, t, s), ShrunkHead(h, t), n, s - 1) = Contents(b, h, n, s)
<1>1. \A i \in 1 .. n : i - 1 \in 0 .. n - 1 /\ h + i - 1 = h + (i - 1)
  OBVIOUS
<1>2. ShrunkHead(h, t) \in Int
  BY DEF ShrunkHead
<1>3. \A i \in 1 .. n : ShrunkHead(h, t) + i - 1 = ShrunkHead(h, t) + (i - 1)
  BY <1>2
<1>4. ASSUME NEW i \in 1 .. n
      PROVE  ReadSlot(ShrunkBuffer(b, h, t, s), Wrap(ShrunkHead(h, t) + (i - 1), s - 1))
               = ReadSlot(b, Wrap(h + (i - 1), s))
  <2>1. i - 1 \in 0 .. n - 1
    OBVIOUS
  <2> QED BY <2>1, ShrinkSlots
<1> QED BY <1>1, <1>3, <1>4 DEF Contents

-----------------------------------------------------------------------------
(* The lists of threads, and counts of threads.                            *)

LEMMA WithoutType ==
  ASSUME NEW S, NEW seq \in Seq(S), NEW t
  PROVE  Without(seq, t) \in Seq(S)
<1>1. Len(seq) \in Nat /\ \A i \in 1 .. Len(seq) : seq[i] \in S
  BY LenProperties, ElementOfSeq
<1>2. CASE \E i \in 1 .. Len(seq) : seq[i] = t
  <2> DEFINE k == CHOOSE i \in 1 .. Len(seq) : seq[i] = t
             n == Len(seq) - 1
             shorter == [i \in 1 .. n |-> seq[IF i < k THEN i ELSE i + 1]]
  <2>1. k \in 1 .. Len(seq) /\ n \in Nat
    BY <1>1, <1>2
  <2>2. \A i \in 1 .. n : (IF i < k THEN i ELSE i + 1) \in 1 .. Len(seq)
    BY <1>1, <2>1
  <2>3. shorter \in [1 .. n -> S]
    BY <1>1, <2>2
  <2>4. shorter \in Seq(S)
    <3> HIDE DEF shorter, n
    <3> QED BY <2>1, <2>3, SeqDef
  <2> QED BY <1>2, <2>4 DEF Without
<1>3. CASE ~\E i \in 1 .. Len(seq) : seq[i] = t
  BY <1>3 DEF Without
<1> QED BY <1>2, <1>3

(* What p- and c- have in common, whatever entry they meet.                *)
LEMMA DestroyCounts == Destroy => cancels < MaxCancels /\ cancels' = cancels + 1
  BY DEF Destroy, DestroyThread, DestroyFailed, CancelThread, CancelNobody

LEMMA DestroySteps ==
  Destroy => /\ \E to \in {"join", "menu", "exited"} : Step(Main, "menu", to)
             /\ UNCHANGED <<ring, mutex, msg>>
  BY DEF Destroy, DestroyThread, DestroyFailed, CancelThread, CancelNobody

LEMMA DestroyTypes ==
  ASSUME prodIdMas \in Seq(Producers), consIdMas \in Seq(Consumers),
         target \in Threads, Destroy
  PROVE  target' \in Threads /\ UNCHANGED <<prodIdMas, consIdMas>>
<1>1. ASSUME NEW t \in Workers, CancelThread(t)
      PROVE  target' \in Threads /\ UNCHANGED <<prodIdMas, consIdMas>>
  BY <1>1 DEF CancelThread, Threads
<1>2. CASE DestroyThread(prodIdMas)
  <2>1. prodIdMas[Len(prodIdMas)] \in Workers
    BY <1>2, LenProperties, EmptySeq DEF DestroyThread, Workers
  <2> QED BY <1>1, <1>2, <2>1 DEF DestroyThread
<1>3. CASE DestroyThread(consIdMas)
  <2>1. consIdMas[Len(consIdMas)] \in Workers
    BY <1>3, LenProperties, EmptySeq DEF DestroyThread, Workers
  <2> QED BY <1>1, <1>3, <2>1 DEF DestroyThread
<1>4. CASE DestroyFailed
  BY <1>1, <1>4 DEF DestroyFailed, CancelNobody
<1> QED BY <1>2, <1>3, <1>4 DEF Destroy

(* How many of the threads in S are at one of the places P, and how that   *)
(* changes when thread t moves.                                            *)
CountAt(S, P) == Cardinality({s \in S : pc[s] \in P})

LEMMA CountAtType ==
  ASSUME NEW S, IsFiniteSet(S), NEW P
  PROVE  CountAt(S, P) \in Nat
<1>1. IsFiniteSet({s \in S : pc[s] \in P})
  BY FS_Subset
<1> QED BY <1>1, FS_CardinalityType DEF CountAt

LEMMA CountAtPositive ==
  ASSUME NEW S, IsFiniteSet(S), NEW P, NEW s \in S, pc[s] \in P
  PROVE  CountAt(S, P) >= 1
<1> DEFINE A == {u \in S : pc[u] \in P}
<1>1. s \in A /\ IsFiniteSet(A)
  BY FS_Subset
<1>2. Cardinality(A) \in Nat /\ Cardinality(A) # 0
  <2> HIDE DEF A
  <2> QED BY <1>1, FS_CardinalityType, FS_EmptySet
<1> QED BY <1>2 DEF CountAt

LEMMA CountAtSame ==
  ASSUME NEW S, NEW P, \A s \in S : pc'[s] \in P <=> pc[s] \in P
  PROVE  CountAt(S, P)' = CountAt(S, P)
<1>1. {s \in S : pc'[s] \in P} = {s \in S : pc[s] \in P}
  OBVIOUS
<1> QED BY <1>1 DEF CountAt

LEMMA CountStep ==
  ASSUME NEW S \in SUBSET Threads, IsFiniteSet(S), NEW pcs, pc \in [Threads -> pcs],
         NEW t \in Threads, NEW from, NEW to, Step(t, from, to), NEW P
  PROVE  /\ t \notin S \/ (to \in P <=> from \in P) => CountAt(S, P)' = CountAt(S, P)
         /\ t \in S /\ to \in P /\ from \notin P => CountAt(S, P)' = CountAt(S, P) + 1
         /\ t \in S /\ to \notin P /\ from \in P => CountAt(S, P)' = CountAt(S, P) - 1
<1> DEFINE A == {s \in S : pc[s] \in P}
           B == {s \in S : pc'[s] \in P}
<1>0. CountAt(S, P)' = Cardinality(B) /\ CountAt(S, P) = Cardinality(A)
  BY DEF CountAt
<1>1. pc[t] = from /\ \A s \in Threads : pc'[s] = IF s = t THEN to ELSE pc[s]
  BY DEF Step
<1>2. IsFiniteSet(A)
  BY FS_Subset
<1>3. CASE t \notin S \/ (to \in P <=> from \in P)
  <2>1. A = B
    BY <1>1, <1>3
  <2> QED BY <1>0, <1>3, <2>1
<1>4. CASE t \in S /\ to \in P /\ from \notin P
  <2>1. B = A \cup {t} /\ t \notin A
    BY <1>1, <1>4
  <2>2. Cardinality(B) = Cardinality(A) + 1
    <3> HIDE DEF A, B
    <3> QED BY <1>2, <2>1, FS_AddElement
  <2> QED BY <1>0, <1>4, <2>2
<1>5. CASE t \in S /\ to \notin P /\ from \in P
  <2>1. B = A \ {t} /\ t \in A
    BY <1>1, <1>5
  <2>2. Cardinality(B) = Cardinality(A) - 1
    <3> HIDE DEF A, B
    <3> QED BY <1>2, <2>1, FS_RemoveElement
  <2> QED BY <1>0, <1>5, <2>2
<1> QED BY <1>3, <1>4, <1>5
=============================================================================
