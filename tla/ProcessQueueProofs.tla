------------------------- MODULE ProcessQueueProofs -------------------------
(* For any number of processes and slots, as many signals as there may be: *)
(* types, and, as long as none cuts sem_wait(&mutex) short, that one       *)
(* producer at a time is inside the queue and which tokens are lost.       *)
EXTENDS ProcessQueue, FiniteSetTheorems, SequenceTheorems, TLAPS

(* What keeps the semaphore a mutex: its token is there only when nobody   *)
(* is inside.                                                              *)
MutexType ==
  /\ mutex \in Nat /\ interrupted \in BOOLEAN /\ pc \in [Workers -> Pc]

TokenMeansFree ==
  ~interrupted =>
    /\ mutex \in {0, 1}
    /\ mutex = 1 => \A p \in Producers : ~Inside(p)

MutexInv == MutexType /\ TokenMeansFree /\ MutualExclusion

(* A step that changes neither mutex nor interrupted nor who is inside     *)
(* keeps the invariant.                                                    *)
LEMMA SameInside ==
  ASSUME MutexInv, mutex' = mutex, interrupted' = interrupted, pc' \in [Workers -> Pc],
         \A p \in Producers : Inside(p)' => Inside(p)
  PROVE  MutexInv'
<1>1. MutexType' BY DEF MutexInv, MutexType
<1>2. TokenMeansFree' BY DEF MutexInv, TokenMeansFree
<1>3. MutualExclusion' BY DEF MutexInv, MutualExclusion
<1>4. QED BY <1>1, <1>2, <1>3 DEF MutexInv

(* Going from a place outside keeps everyone else where they are.          *)
LEMMA GotoOutside ==
  ASSUME MutexInv, NEW w \in Workers, NEW from, NEW to \in Pc, Goto(w, from, to),
         to \in InsidePc => from \in InsidePc,
         mutex' = mutex, interrupted' = interrupted
  PROVE  MutexInv'
<1>1. pc' \in [Workers -> Pc] BY DEF MutexInv, MutexType, Goto
<1>2. ASSUME NEW p \in Producers, Inside(p)' PROVE Inside(p)
  <2>1. p \in Workers BY DEF Workers
  <2>2. CASE p = w BY <1>2, <2>1, <2>2 DEF Inside, Goto, MutexInv, MutexType
  <2>3. CASE p # w BY <1>2, <2>1, <2>3 DEF Inside, Goto, MutexInv, MutexType
  <2>4. QED BY <2>2, <2>3
<1>3. QED BY <1>1, <1>2, SameInside

(* Initially everyone is outside and the token is there.                   *)
LEMMA MutexInit == Init => MutexInv
<1> SUFFICES ASSUME Init PROVE MutexInv OBVIOUS
<1>1. MutexType BY DEF Init, MutexType, Pc
<1>2. \A p \in Producers : ~Inside(p) BY DEF Init, Inside, InsidePc, Workers
<1>3. TokenMeansFree BY <1>2 DEF Init, TokenMeansFree
<1>4. MutualExclusion BY <1>2 DEF MutualExclusion
<1>5. QED BY <1>1, <1>3, <1>4 DEF MutexInv

(* A producer takes the token and goes inside: nobody was there.           *)
LEMMA MutexTaken ==
  ASSUME MutexInv, NEW p \in Producers, SemWaitMutex(p)
  PROVE  MutexInv'
<1>1. p \in Workers /\ pc' = [pc EXCEPT ![p] = "header"] /\ interrupted' = interrupted
  BY DEF SemWaitMutex, Goto, Workers
<1>2. mutex' = mutex - 1 /\ mutex > 0 BY DEF SemWaitMutex
<1>3. MutexType' BY <1>1, <1>2 DEF MutexInv, MutexType, Pc, InsidePc
<1>4. ASSUME ~interrupted, NEW q \in Producers, q # p PROVE ~Inside(q)'
  <2>1. mutex = 1 BY <1>2, <1>4 DEF MutexInv, TokenMeansFree
  <2>2. ~Inside(q) BY <2>1, <1>4 DEF MutexInv, TokenMeansFree
  <2>3. QED BY <2>2, <1>1, <1>4 DEF Inside, MutexInv, MutexType, Workers
<1>5. ~interrupted => mutex' = 0 BY <1>2 DEF MutexInv, TokenMeansFree
<1>6. TokenMeansFree' BY <1>5, <1>1 DEF TokenMeansFree
<1>7. MutualExclusion' BY <1>1, <1>4 DEF MutualExclusion
<1>8. QED BY <1>3, <1>6, <1>7 DEF MutexInv

(* The one inside posts the token and leaves: nobody is left there.        *)
LEMMA MutexPosted ==
  ASSUME MutexInv, NEW p \in Producers, Post(p)
  PROVE  MutexInv'
<1>1. p \in Workers /\ pc[p] = "post" /\ pc' = [pc EXCEPT ![p] = "gen"] /\ interrupted' = interrupted
  BY DEF Post, Goto, Workers
<1>2. mutex' = mutex + 1 BY DEF Post
<1>3. MutexType' BY <1>1, <1>2 DEF MutexInv, MutexType, Pc
<1>4. Inside(p) BY <1>1 DEF Inside, InsidePc
<1>5. ASSUME ~interrupted, NEW q \in Producers PROVE ~Inside(q)'
  <2>1. CASE q = p BY <2>1, <1>1 DEF Inside, InsidePc, MutexInv, MutexType
  <2>2. CASE q # p
    <3>1. ~Inside(q) BY <2>2, <1>4, <1>5 DEF MutexInv, MutualExclusion
    <3>2. QED BY <3>1, <2>2, <1>1 DEF Inside, MutexInv, MutexType, Workers
  <2>3. QED BY <2>1, <2>2
<1>6. ~interrupted => mutex' = 1 BY <1>2, <1>4 DEF MutexInv, TokenMeansFree
<1>7. TokenMeansFree' BY <1>1, <1>5, <1>6 DEF TokenMeansFree
<1>8. MutualExclusion' BY <1>1, <1>5 DEF MutualExclusion
<1>9. QED BY <1>3, <1>7, <1>8 DEF MutexInv

(* The steps of a producer.                                                *)
LEMMA MutexProducer ==
  ASSUME MutexInv, NEW p \in Producers, ProducerStep(p)
  PROVE  MutexInv'
<1> USE DEF InsidePc, Pc
<1>0. p \in Workers BY DEF Workers
<1>1. CASE GenerateMessage(p)
  BY <1>0, <1>1, GotoOutside DEF GenerateMessage, queue
<1>2. CASE SemWaitEmpty(p)
  BY <1>0, <1>2, GotoOutside DEF SemWaitEmpty
<1>3. CASE TestFlag(p)
  <2>1. mutex' = mutex /\ interrupted' = interrupted BY <1>3 DEF TestFlag, queue
  <2>2. CASE sigTERMsignalFlag[p]
    <3>1. Goto(p, "testFlag", "exited") BY <1>3, <2>2 DEF TestFlag
    <3>2. QED BY <1>0, <2>1, <3>1, GotoOutside
  <2>3. CASE ~sigTERMsignalFlag[p]
    <3>1. Goto(p, "testFlag", "waitMutex") BY <1>3, <2>3 DEF TestFlag
    <3>2. QED BY <1>0, <2>1, <3>1, GotoOutside
  <2>4. QED BY <2>2, <2>3
<1>4. CASE SemWaitMutex(p) BY <1>4, MutexTaken
<1>5. CASE WriteHeader(p)
  BY <1>0, <1>5, GotoOutside DEF WriteHeader, WritePart
<1>6. CASE WriteData(p)
  BY <1>0, <1>6, GotoOutside DEF WriteData, WritePart
<1>7. CASE Post(p) BY <1>7, MutexPosted
<1>8. QED BY <1>1, <1>2, <1>3, <1>4, <1>5, <1>6, <1>7 DEF ProducerStep

(* A consumer never touches the mutex.                                     *)
LEMMA MutexConsumer ==
  ASSUME MutexInv, NEW c \in Consumers, SemWaitFull(c)
  PROVE  MutexInv'
<1> USE DEF InsidePc, Pc
<1>1. c \in Workers BY DEF Workers
<1>2. mutex' = mutex /\ interrupted' = interrupted BY DEF SemWaitFull
<1>3. CASE sigTERMsignalFlag[c]
  <2>1. Goto(c, "waitFull", "exited") BY <1>3 DEF SemWaitFull
  <2>2. QED BY <1>1, <1>2, <2>1, GotoOutside
<1>4. CASE ~sigTERMsignalFlag[c]
  <2>1. Goto(c, "waitFull", "waitFull") BY <1>4 DEF SemWaitFull
  <2>2. QED BY <1>1, <1>2, <2>1, GotoOutside
<1>5. QED BY <1>3, <1>4

(* A signal either leaves all where they are, or sends one on outside, or  *)
(* is the one that the property excepts.                                   *)
LEMMA MutexSignal ==
  ASSUME MutexInv, NEW w \in Workers, Signal(w)
  PROVE  MutexInv'
<1> USE DEF InsidePc, Pc
<1>1. mutex' = mutex BY DEF Signal, SignalRestarts, SignalInterrupts, HandlerSIGUSR1, queue
<1>2. CASE SignalRestarts(w)
  BY <1>1, <1>2, SameInside DEF SignalRestarts, Inside, MutexInv, MutexType
<1>3. CASE SignalInterrupts(w)
  <2>1. CASE Goto(w, "waitEmpty", "testFlag") /\ UNCHANGED interrupted
    BY <1>1, <2>1, GotoOutside
  <2>2. CASE Goto(w, "waitFull", "exited") /\ UNCHANGED interrupted
    BY <1>1, <2>2, GotoOutside
  <2>3. CASE Goto(w, "waitMutex", "header") /\ interrupted' = TRUE
    <3>1. MutexType' BY <1>1, <2>3 DEF Goto, MutexInv, MutexType
    <3>2. TokenMeansFree' /\ MutualExclusion' BY <2>3 DEF TokenMeansFree, MutualExclusion
    <3>3. QED BY <3>1, <3>2 DEF MutexInv
  <2>4. QED BY <1>3, <2>1, <2>2, <2>3 DEF SignalInterrupts
<1>4. QED BY <1>2, <1>3 DEF Signal

(* main creates processes outside the queue, and does not move the others. *)
LEMMA MutexCommand ==
  ASSUME MutexInv, Command
  PROVE  MutexInv'
<1> USE DEF InsidePc, Pc
<1>1. CASE CreateProducer
  <2>1. PICK p \in Producers : Goto(p, "none", "gen") BY <1>1 DEF CreateProducer
  <2>2. p \in Workers BY DEF Workers
  <2>3. mutex' = mutex /\ interrupted' = interrupted BY <1>1 DEF CreateProducer, queue
  <2>4. QED BY <2>1, <2>2, <2>3, GotoOutside
<1>2. CASE CreateConsumer
  <2>1. PICK c \in Consumers : Goto(c, "none", "waitFull") BY <1>2 DEF CreateConsumer
  <2>2. c \in Workers BY DEF Workers
  <2>3. mutex' = mutex /\ interrupted' = interrupted BY <1>2 DEF CreateConsumer, queue
  <2>4. QED BY <2>1, <2>2, <2>3, GotoOutside
<1>3. CASE ForkFails \/ DestroyChildProcess \/ Quit
  <2>1. pc' = pc /\ mutex' = mutex /\ interrupted' = interrupted
    BY <1>3 DEF ForkFails, DestroyChildProcess, Quit, queue
  <2>2. QED BY <2>1, SameInside DEF Inside, MutexInv, MutexType
<1>4. QED BY <1>1, <1>2, <1>3 DEF Command

(* Every step keeps the invariant.                                         *)
LEMMA MutexStep == MutexInv /\ [Next]_vars => MutexInv'
<1> SUFFICES ASSUME MutexInv, [Next]_vars PROVE MutexInv' OBVIOUS
<1>1. CASE \E p \in Producers : ProducerStep(p) BY <1>1, MutexProducer
<1>2. CASE \E c \in Consumers : SemWaitFull(c) BY <1>2, MutexConsumer
<1>3. CASE \E w \in Workers : Signal(w) BY <1>3, MutexSignal
<1>4. CASE Command BY <1>4, MutexCommand
<1>5. CASE UNCHANGED vars
  <2>1. pc' = pc /\ mutex' = mutex /\ interrupted' = interrupted BY <1>5 DEF vars, queue
  <2>2. QED BY <2>1, SameInside DEF Inside, MutexInv, MutexType
<1>6. QED BY <1>1, <1>2, <1>3, <1>4, <1>5 DEF Next

(* One producer at a time writes to the queue (lab4Main.c:105), as long as *)
(* no signal cut its sem_wait short.                                       *)
THEOREM MutexExcludes == Spec => []MutualExclusion
<1>1. MutexInv => MutualExclusion BY DEF MutexInv
<1>2. QED BY <1>1, MutexInit, MutexStep, PTL DEF Spec, Safety

-----------------------------------------------------------------------------
(* Tokens.  `empty` is posted by nobody, so there are BufferSize tokens of *)
(* it and twice as many parts of messages, once and for all.               *)

(* Producers with a token that are going to write; those between the two   *)
(* parts; those that are going to post; and those that may have kept one.  *)
Before  == {p \in Producers : pc[p] \in {"waitMutex", "header"} \/ (pc[p] = "testFlag" /\ ~sigTERMsignalFlag[p])}
Between == {p \in Producers : pc[p] = "data"}
Posting == {p \in Producers : pc[p] = "post"}
Spent   == {p \in Producers : HoldsToken(p) \/ pc[p] = "exited"}

(* The parts that have been written.                                       *)
Written == {i \in Parts : buffer[i] > 0}

AllFinite ==
  /\ IsFiniteSet(Before) /\ IsFiniteSet(Between)
  /\ IsFiniteSet(Posting) /\ IsFiniteSet(Spent)

(* The parts still to be written, those that done counts included, are     *)
(* paid for by tokens.                                                     *)
PaidFor(done) ==
  done + 2 * Cardinality(Before) + Cardinality(Between) + 2 * empty <= 2 * BufferSize

(* The tokens of `full`, and those that are going to be posted.            *)
FullPaidFor ==
  full + Cardinality(Before) + Cardinality(Between) + Cardinality(Posting) + empty <= BufferSize

ConsumersOutside == \A c \in Consumers : pc[c] \in {"none", "waitFull", "exited"}

TokenInv ==
  /\ TypeOK /\ AllFinite /\ ConsumersOutside
  /\ PaidFor(tail) /\ FullPaidFor

(* As long as no signal cut sem_wait(&mutex) short: the ring is written    *)
(* from its first part on, and no token is lost but by those in Spent.     *)
RingAt(w) ==
  /\ \A i \in Parts : buffer[i] = IF i < w THEN 1 ELSE 0
  /\ tail = IF w = 2 * BufferSize THEN 0 ELSE w
  /\ PaidFor(w)
  /\ 2 * BufferSize <= 2 * empty + w + Cardinality(Between) + 2 * Cardinality(Spent)
  /\ \E m \in Nat : w + Cardinality(Between) = 2 * m

RingInv == ~interrupted => RingAt(Cardinality(Written))

-----------------------------------------------------------------------------
(* How the accounts change.                                                *)

LEMMA CardinalitiesAreNat ==
  ASSUME AllFinite
  PROVE  /\ Cardinality(Before) \in Nat /\ Cardinality(Between) \in Nat
         /\ Cardinality(Posting) \in Nat /\ Cardinality(Spent) \in Nat
BY FS_CardinalityType DEF AllFinite

LEMMA Added ==
  ASSUME NEW S, IsFiniteSet(S), NEW x, x \notin S
  PROVE  IsFiniteSet(S \cup {x}) /\ Cardinality(S \cup {x}) = Cardinality(S) + 1
BY FS_AddElement

LEMMA Removed ==
  ASSUME NEW S, IsFiniteSet(S), NEW x \in S
  PROVE  /\ IsFiniteSet(S \ {x}) /\ Cardinality(S \ {x}) = Cardinality(S) - 1
         /\ Cardinality(S) \in Nat \ {0}
<1>1. IsFiniteSet(S \ {x}) /\ Cardinality(S \ {x}) = Cardinality(S) - 1 BY FS_RemoveElement
<1>2. Cardinality(S \ {x}) \in Nat /\ Cardinality(S) \in Nat BY <1>1, FS_CardinalityType
<1>3. QED BY <1>1, <1>2

LEMMA NoMore ==
  ASSUME NEW S, IsFiniteSet(S), NEW T \in SUBSET S
  PROVE  /\ IsFiniteSet(T) /\ Cardinality(T) <= Cardinality(S)
         /\ Cardinality(S) \in Nat /\ Cardinality(T) \in Nat
<1>1. IsFiniteSet(T) /\ Cardinality(T) <= Cardinality(S) BY FS_Subset
<1>2. QED BY <1>1, FS_CardinalityType

(* A step by which no token is taken, written for or posted.               *)
TokensRest ==
  /\ Before' \subseteq Before /\ Between' = Between /\ Posting' = Posting
  /\ Spent' = Spent \/ \E w \in Workers : Spent' = Spent \cup {w}
  /\ UNCHANGED <<empty, tail>> /\ full' <= full

LEMMA RestFinite ==
  ASSUME AllFinite, TokensRest
  PROVE  /\ AllFinite'
         /\ Cardinality(Before') <= Cardinality(Before) /\ Cardinality(Spent) <= Cardinality(Spent')
<1>1. IsFiniteSet(Before') /\ Cardinality(Before') <= Cardinality(Before)
  BY NoMore DEF AllFinite, TokensRest
<1>2. IsFiniteSet(Between') /\ IsFiniteSet(Posting') BY DEF AllFinite, TokensRest
<1>3. Spent \subseteq Spent' BY DEF TokensRest
<1>4. IsFiniteSet(Spent') BY FS_AddElement DEF AllFinite, TokensRest
<1>5. Cardinality(Spent) <= Cardinality(Spent') BY <1>3, <1>4, NoMore
<1>6. QED BY <1>1, <1>2, <1>4, <1>5 DEF AllFinite

LEMMA RestKeeps ==
  ASSUME TokenInv, TokensRest, TypeOK', ConsumersOutside'
  PROVE  TokenInv'
<1>1. AllFinite /\ PaidFor(tail) /\ FullPaidFor BY DEF TokenInv
<1>2. AllFinite' /\ Cardinality(Before') <= Cardinality(Before) BY <1>1, RestFinite
<1>3. /\ Cardinality(Before) \in Nat /\ Cardinality(Between) \in Nat
      /\ Cardinality(Posting) \in Nat /\ Cardinality(Before') \in Nat
  BY <1>1, <1>2, CardinalitiesAreNat, FS_CardinalityType DEF AllFinite
<1>4. Between' = Between /\ Posting' = Posting /\ empty' = empty /\ tail' = tail /\ full' <= full
  BY DEF TokensRest
<1>5. empty \in Int /\ full \in Int /\ full' \in Int /\ tail \in Int /\ BufferSize \in Int
  BY QueueAssumption DEF TokenInv, TypeOK, Parts
<1>6. PaidFor(tail)' BY <1>1, <1>2, <1>3, <1>4, <1>5 DEF PaidFor
<1>7. FullPaidFor' BY <1>1, <1>2, <1>3, <1>4, <1>5 DEF FullPaidFor
<1>8. QED BY <1>2, <1>6, <1>7 DEF TokenInv

LEMMA WrittenIsFinite == IsFiniteSet(Written) /\ Cardinality(Written) \in Nat
<1>1. IsFiniteSet(Parts) BY FS_Interval, QueueAssumption DEF Parts
<1>2. Written \subseteq Parts BY DEF Written
<1>3. QED BY <1>1, <1>2, NoMore

LEMMA RestKeepsRing ==
  ASSUME TokenInv, RingInv, TokensRest, UNCHANGED <<buffer, interrupted>>
  PROVE  RingInv'
<1> SUFFICES ASSUME ~interrupted PROVE RingInv' BY DEF RingInv
<1> DEFINE w == Cardinality(Written)
<1>1. AllFinite BY DEF TokenInv
<1>2. /\ AllFinite' /\ Cardinality(Before') <= Cardinality(Before)
      /\ Cardinality(Spent) <= Cardinality(Spent')
  BY <1>1, RestFinite
<1>3. Written' = Written BY DEF Written
<1>4. Between' = Between /\ empty' = empty /\ tail' = tail BY DEF TokensRest
<1>5. /\ Cardinality(Before) \in Nat /\ Cardinality(Between) \in Nat /\ Cardinality(Spent) \in Nat
      /\ Cardinality(Before') \in Nat /\ Cardinality(Spent') \in Nat
  BY <1>1, <1>2, CardinalitiesAreNat, FS_CardinalityType DEF AllFinite
<1>6. w \in Nat BY WrittenIsFinite
<1>7. empty \in Int /\ BufferSize \in Int BY QueueAssumption DEF TokenInv, TypeOK
<1> HIDE DEF w
<1>8. RingAt(w) BY DEF RingInv, w
<1>9. w' = w BY <1>3 DEF w
<1>10. w + 2 * Cardinality(Before') + Cardinality(Between) + 2 * empty <= 2 * BufferSize
  BY <1>2, <1>5, <1>6, <1>7, <1>8 DEF RingAt, PaidFor
<1>11. 2 * BufferSize <= 2 * empty + w + Cardinality(Between) + 2 * Cardinality(Spent')
  BY <1>2, <1>5, <1>6, <1>7, <1>8 DEF RingAt
<1>12. RingAt(w)' BY <1>4, <1>8, <1>9, <1>10, <1>11 DEF RingAt, PaidFor
<1>13. QED BY <1>12 DEF RingInv, w

-----------------------------------------------------------------------------
(* Initially nothing was taken or written.                                 *)
LEMMA TokenInit == Init => TokenInv /\ RingInv
<1> SUFFICES ASSUME Init PROVE TokenInv /\ RingInv OBVIOUS
<1>1. /\ BufferSize \in Nat /\ BufferSize > 0 /\ empty = BufferSize /\ full = 0 /\ tail = 0
      /\ buffer = [i \in Parts |-> 0]
  BY QueueAssumption DEF Init
<1>2. Before = {} /\ Between = {} /\ Posting = {} /\ Spent = {} /\ Written = {}
  BY <1>1 DEF Init, Workers, Before, Between, Posting, Spent, HoldsToken, Written
<1>3. IsFiniteSet({}) /\ Cardinality({}) = 0 BY FS_EmptySet
<1>4. TypeOK
  <2>1. pc \in [Workers -> Pc] BY DEF Init, Pc
  <2>2. pending \in [Workers -> BOOLEAN] /\ sigTERMsignalFlag \in [Workers -> BOOLEAN] BY DEF Init
  <2>3. buffer \in [Parts -> Nat] /\ tail \in Parts BY <1>1 DEF Parts
  <2>4. empty \in 0 .. BufferSize /\ full \in 0 .. BufferSize /\ mutex \in Nat BY <1>1 DEF Init
  <2>5. prodPidMas \in Seq(Producers \cup {Everyone}) /\ consPidMas \in Seq(Consumers \cup {Everyone})
    BY DEF Init
  <2>6. main \in {"menu", "gone"} /\ interrupted \in BOOLEAN BY DEF Init
  <2>7. QED BY ONLY <2>1, <2>2, <2>3, <2>4, <2>5, <2>6, Zenon DEF TypeOK
<1>5. ConsumersOutside BY DEF Init, ConsumersOutside, Workers
<1>6. PaidFor(0) /\ PaidFor(tail) /\ FullPaidFor BY <1>1, <1>2, <1>3 DEF PaidFor, FullPaidFor
<1>7. TokenInv BY <1>2, <1>3, <1>4, <1>5, <1>6 DEF TokenInv, AllFinite
<1>8. /\ \A i \in Parts : buffer[i] = IF i < 0 THEN 1 ELSE 0
      /\ tail = IF 0 = 2 * BufferSize THEN 0 ELSE 0
      /\ PaidFor(0)
      /\ 2 * BufferSize <= 2 * empty + 0 + 0 + 2 * 0
      /\ 0 + 0 = 2 * 0
  BY <1>1, <1>6 DEF Parts
<1>9. RingInv BY <1>2, <1>3, <1>8 DEF RingInv, RingAt
<1>10. QED BY <1>7, <1>9

(* A process that goes from one place to another.                          *)
LEMMA GotoMoves ==
  ASSUME TypeOK, NEW w \in Workers, NEW from, NEW to \in Pc, Goto(w, from, to)
  PROVE  /\ pc' \in [Workers -> Pc] /\ pc[w] = from /\ pc'[w] = to
         /\ \A q \in Workers \ {w} : pc'[q] = pc[q]
BY DEF Goto, TypeOK

(* A consumer moves between its places: no producer does.                  *)
LEMMA ConsumerMoves ==
  ASSUME TokenInv, NEW c \in Consumers, NEW from, NEW to \in {"none", "waitFull", "exited"}, Goto(c, from, to),
         UNCHANGED <<empty, tail>>, full' <= full,
         \A p \in Producers : sigTERMsignalFlag[p] => sigTERMsignalFlag'[p]
  PROVE  TokensRest /\ ConsumersOutside' /\ pc' \in [Workers -> Pc]
<1>1. TypeOK /\ c \in Workers /\ to \in Pc BY DEF TokenInv, Workers, Pc
<1>2. /\ pc' \in [Workers -> Pc] /\ pc[c] = from /\ pc'[c] = to
      /\ \A q \in Workers \ {c} : pc'[q] = pc[q]
  BY <1>1, GotoMoves
<1>3. \A p \in Producers : pc'[p] = pc[p] BY <1>2, QueueAssumption DEF Workers
<1>4. Before' \subseteq Before /\ Between' = Between /\ Posting' = Posting /\ Spent' = Spent
  BY <1>3 DEF Before, Between, Posting, Spent, HoldsToken
<1>5. ConsumersOutside' BY <1>2 DEF TokenInv, ConsumersOutside, Workers
<1>6. QED BY <1>1, <1>2, <1>4, <1>5 DEF TokensRest

(* A producer that moves without a token, or with the one it has.          *)
LEMMA ProducerMoves ==
  ASSUME TokenInv, NEW p \in Producers, NEW from, NEW to \in Pc, Goto(p, from, to),
         UNCHANGED <<empty, tail, full>>,
         \A q \in Producers : sigTERMsignalFlag[q] => sigTERMsignalFlag'[q],
         {from, to} \cap {"data", "post"} = {},
         from \notin {"testFlag", "waitMutex", "header", "exited"} \/ to \in {"testFlag", "waitMutex", "header", "exited"},
         \/ to \notin {"testFlag", "waitMutex", "header"}
         \/ from \in {"waitMutex", "header"} /\ to \in {"waitMutex", "header"}
         \/ from = "testFlag" /\ to = "waitMutex" /\ ~sigTERMsignalFlag[p]
         \/ to = "testFlag" /\ sigTERMsignalFlag'[p]
  PROVE  TokensRest /\ ConsumersOutside' /\ pc' \in [Workers -> Pc]
<1>1. TypeOK /\ p \in Workers BY DEF TokenInv, Workers
<1>2. /\ pc' \in [Workers -> Pc] /\ pc[p] = from /\ pc'[p] = to
      /\ \A q \in Workers \ {p} : pc'[q] = pc[q]
  BY <1>1, GotoMoves
<1>3. \A q \in Producers \ {p} : pc'[q] = pc[q] BY <1>2 DEF Workers
<1>4. \A c \in Consumers : pc'[c] = pc[c] BY <1>2, QueueAssumption DEF Workers
<1>5. Between' = Between /\ Posting' = Posting BY <1>2, <1>3 DEF Between, Posting
<1>6. Before' \subseteq Before BY <1>2, <1>3 DEF Before
<1>7. Spent' \in {Spent, Spent \cup {p}} BY <1>2, <1>3 DEF Spent, HoldsToken
<1>8. ConsumersOutside' BY <1>4 DEF TokenInv, ConsumersOutside
<1>9. QED BY <1>1, <1>2, <1>5, <1>6, <1>7, <1>8 DEF TokensRest, TypeOK

(* Nobody moves.                                                           *)
LEMMA NobodyMoves ==
  ASSUME TokenInv, UNCHANGED <<pc, empty, tail, full>>,
         \A p \in Producers : sigTERMsignalFlag[p] => sigTERMsignalFlag'[p]
  PROVE  TokensRest /\ ConsumersOutside'
<1>1. Before' \subseteq Before /\ Between' = Between /\ Posting' = Posting /\ Spent' = Spent
  BY DEF Before, Between, Posting, Spent, HoldsToken
<1>2. ConsumersOutside' BY DEF TokenInv, ConsumersOutside
<1>3. QED BY <1>1, <1>2 DEF TokensRest, TokenInv, TypeOK

-----------------------------------------------------------------------------
(* The steps by which no token is taken, written for or posted.            *)
Quiet ==
  /\ TokensRest /\ ConsumersOutside' /\ TypeOK'
  /\ UNCHANGED buffer /\ (interrupted' = interrupted \/ interrupted')

LEMMA QuietKeeps ==
  ASSUME TokenInv, RingInv, Quiet
  PROVE  TokenInv' /\ RingInv'
<1>1. TokenInv' BY RestKeeps DEF Quiet
<1>2. CASE interrupted' = interrupted BY <1>1, <1>2, RestKeepsRing DEF Quiet
<1>3. CASE interrupted' BY <1>1, <1>3 DEF RingInv
<1>4. QED BY <1>1, <1>2, <1>3 DEF Quiet

LEMMA QuietProducer ==
  ASSUME TokenInv, NEW p \in Producers, GenerateMessage(p) \/ TestFlag(p) \/ SemWaitMutex(p)
  PROVE  Quiet
<1>1. TypeOK BY DEF TokenInv
<1>2. UNCHANGED <<buffer, tail, empty, full, interrupted>> /\ UNCHANGED <<signals, lists>>
  BY DEF GenerateMessage, TestFlag, SemWaitMutex, queue
<1>3. UNCHANGED <<pending, sigTERMsignalFlag, prodPidMas, consPidMas, main>> BY <1>2 DEF signals, lists
<1>4. TokensRest /\ ConsumersOutside' /\ pc' \in [Workers -> Pc]
  <2>1. CASE GenerateMessage(p)
    <3>1. PICK to \in {"waitEmpty", "spin"} : Goto(p, "gen", to) BY <2>1 DEF GenerateMessage
    <3>2. to \in Pc BY DEF Pc
    <3>3. QED BY <1>2, <1>3, <3>1, <3>2, ProducerMoves
  <2>2. CASE TestFlag(p)
    <3>1. CASE sigTERMsignalFlag[p]
      <4>1. Goto(p, "testFlag", "exited") /\ "exited" \in Pc BY <2>2, <3>1 DEF TestFlag, Pc
      <4>2. QED BY <1>2, <1>3, <4>1, ProducerMoves
    <3>2. CASE ~sigTERMsignalFlag[p]
      <4>1. Goto(p, "testFlag", "waitMutex") /\ "waitMutex" \in Pc BY <2>2, <3>2 DEF TestFlag, Pc
      <4>2. QED BY <1>2, <1>3, <3>2, <4>1, ProducerMoves
    <3>3. QED BY <3>1, <3>2
  <2>3. CASE SemWaitMutex(p)
    <3>1. Goto(p, "waitMutex", "header") /\ "header" \in Pc BY <2>3 DEF SemWaitMutex, Pc, InsidePc
    <3>2. QED BY <1>2, <1>3, <3>1, ProducerMoves
  <2>4. QED BY <2>1, <2>2, <2>3
<1>5. mutex' \in Nat BY <1>1 DEF GenerateMessage, TestFlag, SemWaitMutex, queue, TypeOK
<1>6. TypeOK' BY <1>1, <1>2, <1>3, <1>4, <1>5 DEF TypeOK
<1>7. QED BY <1>2, <1>4, <1>6 DEF Quiet

LEMMA QuietConsumer ==
  ASSUME TokenInv, NEW c \in Consumers, SemWaitFull(c)
  PROVE  Quiet
<1>1. TypeOK BY DEF TokenInv
<1>2. /\ UNCHANGED <<buffer, tail, empty, mutex, interrupted>> /\ UNCHANGED <<signals, lists>>
      /\ full > 0 /\ full' = full - 1
  BY DEF SemWaitFull
<1>3. UNCHANGED <<pending, sigTERMsignalFlag, prodPidMas, consPidMas, main>> BY <1>2 DEF signals, lists
<1>4. PICK to \in {"waitFull", "exited"} : Goto(c, "waitFull", to) BY DEF SemWaitFull
<1>5. full' \in 0 .. BufferSize /\ full' <= full BY <1>1, <1>2, QueueAssumption DEF TypeOK
<1>6. TokensRest /\ ConsumersOutside' /\ pc' \in [Workers -> Pc] BY <1>2, <1>3, <1>4, <1>5, ConsumerMoves
<1>7. TypeOK' BY <1>1, <1>2, <1>3, <1>5, <1>6 DEF TypeOK
<1>8. QED BY <1>2, <1>6, <1>7 DEF Quiet

(* A signal that cuts sem_wait(&empty) short sends on a producer without a *)
(* token, but its flag is set, so that it ends.                            *)
LEMMA QuietSignal ==
  ASSUME TokenInv, NEW w \in Workers, Signal(w)
  PROVE  Quiet
<1>1. TypeOK BY DEF TokenInv
<1>2. /\ pending' = [pending EXCEPT ![w] = FALSE]
      /\ sigTERMsignalFlag' = [sigTERMsignalFlag EXCEPT ![w] = TRUE]
      /\ UNCHANGED <<buffer, tail, empty, full, mutex, prodPidMas, consPidMas, main>>
      /\ interrupted' = interrupted \/ interrupted' = TRUE
  BY DEF Signal, SignalRestarts, SignalInterrupts, HandlerSIGUSR1, queue, lists
<1>3. pending' \in [Workers -> BOOLEAN] /\ sigTERMsignalFlag' \in [Workers -> BOOLEAN] /\ interrupted' \in BOOLEAN
  BY <1>1, <1>2, Zenon DEF TypeOK
<1>4. sigTERMsignalFlag'[w] /\ \A q \in Producers : sigTERMsignalFlag[q] => sigTERMsignalFlag'[q]
  BY <1>1, <1>2 DEF TypeOK, Workers
<1>5. TokensRest /\ ConsumersOutside' /\ pc' \in [Workers -> Pc]
  <2>1. CASE SignalRestarts(w) BY <1>1, <1>2, <1>4, <2>1, NobodyMoves DEF SignalRestarts, TypeOK
  <2>2. CASE SignalInterrupts(w) /\ w \in Producers
    <3>1. "testFlag" \in Pc /\ "exited" \in Pc /\ "header" \in Pc BY DEF Pc, InsidePc
    <3>2. CASE Goto(w, "waitEmpty", "testFlag") BY <1>2, <1>4, <2>2, <3>1, <3>2, ProducerMoves
    <3>3. CASE Goto(w, "waitFull", "exited") BY <1>2, <1>4, <2>2, <3>1, <3>3, ProducerMoves
    <3>4. CASE Goto(w, "waitMutex", "header") BY <1>2, <1>4, <2>2, <3>1, <3>4, ProducerMoves
    <3>5. QED BY <2>2, <3>2, <3>3, <3>4 DEF SignalInterrupts
  <2>3. CASE SignalInterrupts(w) /\ w \in Consumers
    <3>1. Goto(w, "waitFull", "exited")
      BY <2>3 DEF SignalInterrupts, Goto, TokenInv, ConsumersOutside
    <3>2. full' <= full BY <1>1, <1>2, QueueAssumption DEF TypeOK
    <3>3. QED BY <1>2, <1>4, <2>3, <3>1, <3>2, ConsumerMoves
  <2>4. QED BY <2>1, <2>2, <2>3 DEF Signal, Workers
<1>6. TypeOK' BY <1>1, <1>2, <1>3, <1>5 DEF TypeOK
<1>7. QED BY <1>2, <1>5, <1>6 DEF Quiet

LEMMA ListTypes ==
  ASSUME NEW S, NEW s \in Seq(S)
  PROVE  /\ \A x \in S : Append(s, x) \in Seq(S)
         /\ s # <<>> => ButLast(s) \in Seq(S)
<1>1. ASSUME s # <<>> PROVE ButLast(s) \in Seq(S)
  <2>1. Len(s) \in Nat \ {0} BY <1>1
  <2>2. \A i \in 1 .. Len(s) - 1 : s[i] \in S BY <2>1
  <2>3. QED BY <2>1, <2>2 DEF ButLast
<1>2. QED BY <1>1

LEMMA QuietCommand ==
  ASSUME TokenInv, Command
  PROVE  Quiet
<1>1. TypeOK BY DEF TokenInv
<1>2. UNCHANGED <<buffer, tail, empty, full, mutex, interrupted, sigTERMsignalFlag>>
  BY DEF Command, CreateProducer, CreateConsumer, ForkFails, DestroyChildProcess, Quit, queue, signals
<1>3. full' <= full BY <1>1, <1>2, QueueAssumption DEF TypeOK
<1>4. TokensRest /\ ConsumersOutside' /\ pc' \in [Workers -> Pc]
  <2>1. CASE CreateProducer
    <3>1. PICK p \in Producers : Goto(p, "none", "gen") BY <2>1 DEF CreateProducer
    <3>2. "gen" \in Pc BY DEF Pc
    <3>3. QED BY <1>2, <3>1, <3>2, ProducerMoves
  <2>2. CASE CreateConsumer
    <3>1. PICK c \in Consumers : Goto(c, "none", "waitFull") BY <2>2 DEF CreateConsumer
    <3>2. QED BY <1>2, <1>3, <3>1, ConsumerMoves
  <2>3. CASE ForkFails \/ DestroyChildProcess \/ Quit
    <3>1. UNCHANGED pc BY <2>3 DEF ForkFails, DestroyChildProcess, Quit
    <3>2. QED BY <1>1, <1>2, <3>1, NobodyMoves DEF TypeOK
  <2>4. QED BY <2>1, <2>2, <2>3 DEF Command
<1>5. pending' \in [Workers -> BOOLEAN]
  <2>1. CASE UNCHANGED pending BY <1>1, <2>1 DEF TypeOK
  <2>2. CASE \E pid : Kill(pid)
    <3>1. PICK pid : Kill(pid) BY <2>2
    <3>2. \A p \in Workers : (pending[p] \/ ((pid = p \/ pid = Everyone) /\ Alive(p))) \in BOOLEAN OBVIOUS
    <3>3. QED BY <3>1, <3>2, Zenon DEF Kill
  <2>3. QED BY <2>1, <2>2 DEF Command, CreateProducer, CreateConsumer, ForkFails, DestroyChildProcess, Quit, signals
<1>6. /\ prodPidMas' \in Seq(Producers \cup {Everyone})
      /\ consPidMas' \in Seq(Consumers \cup {Everyone})
      /\ main' \in {"menu", "gone"}
  <2>1. prodPidMas \in Seq(Producers \cup {Everyone}) /\ consPidMas \in Seq(Consumers \cup {Everyone})
        /\ main \in {"menu", "gone"}
    BY <1>1 DEF TypeOK
  <2>2. \A x \in Producers \cup {Everyone} : Append(prodPidMas, x) \in Seq(Producers \cup {Everyone})
    BY <2>1, ListTypes
  <2>3. \A x \in Consumers \cup {Everyone} : Append(consPidMas, x) \in Seq(Consumers \cup {Everyone})
    BY <2>1, ListTypes
  <2>4. prodPidMas # <<>> => ButLast(prodPidMas) \in Seq(Producers \cup {Everyone}) BY <2>1, ListTypes
  <2>5. consPidMas # <<>> => ButLast(consPidMas) \in Seq(Consumers \cup {Everyone}) BY <2>1, ListTypes
  <2>6. CASE CreateProducer BY <2>1, <2>2, <2>6 DEF CreateProducer
  <2>7. CASE CreateConsumer BY <2>1, <2>3, <2>7 DEF CreateConsumer
  <2>8. CASE ForkFails BY <2>1, <2>2, <2>3, <2>8 DEF ForkFails
  <2>9. CASE DestroyChildProcess BY <2>1, <2>4, <2>5, <2>9 DEF DestroyChildProcess
  <2>10. CASE Quit BY <2>10 DEF Quit
  <2>11. QED BY <2>6, <2>7, <2>8, <2>9, <2>10 DEF Command
<1>7. TypeOK' BY <1>1, <1>2, <1>4, <1>5, <1>6 DEF TypeOK
<1>8. QED BY <1>2, <1>4, <1>7 DEF Quiet

-----------------------------------------------------------------------------
(* A token is taken; nothing else changes but where its producer is.       *)
LEMMA TakenTokens ==
  ASSUME TokenInv, NEW p \in Producers, SemWaitEmpty(p)
  PROVE  /\ TypeOK' /\ ConsumersOutside' /\ AllFinite'
         /\ Between' = Between /\ Posting' = Posting
         /\ empty' = empty - 1 /\ UNCHANGED <<buffer, tail, full, interrupted>>
         /\ Cardinality(Before') <= Cardinality(Before) + 1
         /\ Cardinality(Spent') = Cardinality(Spent) + 1
<1>1. TypeOK /\ AllFinite /\ p \in Workers /\ "testFlag" \in Pc BY DEF TokenInv, Workers, Pc
<1>2. /\ empty > 0 /\ empty' = empty - 1 /\ Goto(p, "waitEmpty", "testFlag")
      /\ UNCHANGED <<buffer, tail, full, mutex, interrupted>> /\ UNCHANGED <<signals, lists>>
  BY DEF SemWaitEmpty
<1>3. UNCHANGED <<pending, sigTERMsignalFlag, prodPidMas, consPidMas, main>> BY <1>2 DEF signals, lists
<1>4. /\ pc' \in [Workers -> Pc] /\ pc[p] = "waitEmpty" /\ pc'[p] = "testFlag"
      /\ \A q \in Workers \ {p} : pc'[q] = pc[q]
  BY <1>1, <1>2, GotoMoves
<1>5. (\A q \in Producers \ {p} : pc'[q] = pc[q]) /\ (\A c \in Consumers : pc'[c] = pc[c])
  BY <1>4, QueueAssumption DEF Workers
<1>6. Between' = Between /\ Posting' = Posting BY <1>4, <1>5 DEF Between, Posting
<1>7. Before' \in {Before, Before \cup {p}} /\ p \notin Before BY <1>3, <1>4, <1>5 DEF Before
<1>8. Spent' = Spent \cup {p} /\ p \notin Spent BY <1>4, <1>5 DEF Spent, HoldsToken
<1>9. IsFiniteSet(Before') /\ Cardinality(Before') <= Cardinality(Before) + 1
  <2>1. IsFiniteSet(Before \cup {p}) /\ Cardinality(Before \cup {p}) = Cardinality(Before) + 1
    BY <1>1, <1>7, Added DEF AllFinite
  <2>2. Cardinality(Before) \in Nat BY <1>1, CardinalitiesAreNat
  <2>3. QED BY <1>1, <1>7, <2>1, <2>2 DEF AllFinite
<1>10. IsFiniteSet(Spent') /\ Cardinality(Spent') = Cardinality(Spent) + 1
  BY <1>1, <1>8, Added DEF AllFinite
<1>11. AllFinite' BY <1>1, <1>6, <1>9, <1>10 DEF AllFinite
<1>12. empty' \in 0 .. BufferSize BY <1>1, <1>2, QueueAssumption DEF TypeOK
<1>13. TypeOK' BY <1>1, <1>2, <1>3, <1>4, <1>12 DEF TypeOK
<1>14. ConsumersOutside' BY <1>5 DEF TokenInv, ConsumersOutside
<1>15. QED BY <1>2, <1>6, <1>9, <1>10, <1>11, <1>13, <1>14

LEMMA TakenKeeps ==
  ASSUME TokenInv, RingInv, NEW p \in Producers, SemWaitEmpty(p)
  PROVE  TokenInv' /\ RingInv'
<1> DEFINE w == Cardinality(Written)
<1>1. /\ TypeOK' /\ ConsumersOutside' /\ AllFinite'
      /\ Between' = Between /\ Posting' = Posting
      /\ empty' = empty - 1 /\ UNCHANGED <<buffer, tail, full, interrupted>>
      /\ Cardinality(Before') <= Cardinality(Before) + 1
      /\ Cardinality(Spent') = Cardinality(Spent) + 1
  BY TakenTokens
<1>2. /\ Cardinality(Before) \in Nat /\ Cardinality(Between) \in Nat /\ Cardinality(Posting) \in Nat
      /\ Cardinality(Spent) \in Nat /\ Cardinality(Before') \in Nat
  BY <1>1, CardinalitiesAreNat, FS_CardinalityType DEF TokenInv, AllFinite
<1>3. empty \in Int /\ full \in Int /\ tail \in Int /\ BufferSize \in Int
  BY QueueAssumption DEF TokenInv, TypeOK, Parts
<1>4. PaidFor(tail)' BY <1>1, <1>2, <1>3 DEF TokenInv, PaidFor
<1>5. FullPaidFor' BY <1>1, <1>2, <1>3 DEF TokenInv, FullPaidFor
<1>6. TokenInv' BY <1>1, <1>4, <1>5 DEF TokenInv
<1>7. w \in Nat BY WrittenIsFinite
<1>8. Written' = Written BY <1>1 DEF Written
<1> HIDE DEF w
<1>9. ASSUME ~interrupted' PROVE RingInv'
  <2>1. RingAt(w) BY <1>1, <1>9 DEF RingInv, w
  <2>2. w' = w BY <1>8 DEF w
  <2>3. w + 2 * Cardinality(Before') + Cardinality(Between) + 2 * empty' <= 2 * BufferSize
    BY <1>1, <1>2, <1>3, <1>7, <2>1 DEF RingAt, PaidFor
  <2>4. 2 * BufferSize <= 2 * empty' + w + Cardinality(Between) + 2 * Cardinality(Spent')
    BY <1>1, <1>2, <1>3, <1>7, <2>1 DEF RingAt
  <2>5. RingAt(w)' BY <1>1, <2>1, <2>2, <2>3, <2>4 DEF RingAt, PaidFor
  <2>6. QED BY <2>5 DEF RingInv, w
<1>10. QED BY <1>6, <1>9 DEF RingInv

-----------------------------------------------------------------------------
(* A part is written.                                                      *)

(* What the step does to buffer and tail, and leaves of everything else.   *)
LEMMA PartWritten ==
  ASSUME TokenInv, NEW p \in Producers, NEW next, WritePart(p, next)
  PROVE  /\ buffer' = [buffer EXCEPT ![tail] = @ + 1] /\ buffer' \in [Parts -> Nat]
         /\ tail' \in {tail, next}
         /\ UNCHANGED <<empty, full, mutex, pending, sigTERMsignalFlag, prodPidMas, consPidMas, main, interrupted>>
<1>1. buffer' = [buffer EXCEPT ![tail] = @ + 1] /\ tail' \in Raced(p, tail, next) BY DEF WritePart
<1>2. tail' \in {tail, next} BY <1>1 DEF Raced
<1>3. buffer' \in [Parts -> Nat] BY <1>1 DEF TokenInv, TypeOK
<1>4. QED BY <1>1, <1>2, <1>3 DEF WritePart, signals, lists

(* Nobody else is inside: the update of tail is not lost.                  *)
LEMMA AloneInside ==
  ASSUME TokenInv, MutualExclusion, ~interrupted, NEW p \in Producers, Inside(p), NEW next, WritePart(p, next)
  PROVE  tail' = next
<1>1. \A q \in Workers \ {p} : ~Inside(q)
  <2>1. \A q \in Producers \ {p} : ~Inside(q) BY DEF MutualExclusion
  <2>2. \A c \in Consumers : ~Inside(c) BY DEF TokenInv, ConsumersOutside, Inside, InsidePc
  <2>3. QED BY <2>1, <2>2 DEF Workers
<1>2. QED BY <1>1 DEF WritePart, Raced

(* The next part of the ring is one that was not written yet.              *)
LEMMA RingGrows ==
  ASSUME TokenInv, RingAt(Cardinality(Written)), Cardinality(Written) < 2 * BufferSize,
         buffer' = [buffer EXCEPT ![tail] = @ + 1]
  PROVE  /\ tail = Cardinality(Written)
         /\ Cardinality(Written') = Cardinality(Written) + 1
         /\ \A i \in Parts : buffer'[i] = IF i < Cardinality(Written) + 1 THEN 1 ELSE 0
<1> DEFINE w == Cardinality(Written)
<1>1. w \in Nat /\ IsFiniteSet(Written) BY WrittenIsFinite
<1>2. buffer \in [Parts -> Nat] /\ BufferSize \in Nat BY QueueAssumption DEF TokenInv, TypeOK
<1>3. (\A i \in Parts : i \in Written <=> buffer[i] > 0) /\ Written \subseteq Parts BY DEF Written
<1>4. (\A i \in Parts : i \in Written' <=> buffer'[i] > 0) /\ Written' \subseteq Parts BY DEF Written
<1> HIDE DEF w
<1>5. RingAt(w) /\ w < 2 * BufferSize BY DEF w
<1>6. tail = w /\ w \in Parts BY <1>1, <1>2, <1>5 DEF RingAt, Parts
<1>7. buffer[w] = 0 /\ buffer'[w] = 1 /\ \A i \in Parts \ {w} : buffer'[i] = buffer[i]
  BY <1>1, <1>2, <1>5, <1>6 DEF RingAt
<1>8. w \notin Written /\ Written' = Written \cup {w} BY <1>3, <1>4, <1>6, <1>7
<1>9. Cardinality(Written') = w + 1 BY <1>1, <1>8, Added DEF w
<1>10. \A i \in Parts : buffer'[i] = IF i < w + 1 THEN 1 ELSE 0
  BY <1>1, <1>5, <1>6, <1>7 DEF RingAt, Parts
<1>11. QED BY <1>6, <1>9, <1>10 DEF w

(* The header: a producer goes on from Before to Between.                  *)
LEMMA HeaderTokens ==
  ASSUME TokenInv, NEW p \in Producers, WriteHeader(p)
  PROVE  /\ pc' \in [Workers -> Pc] /\ ConsumersOutside' /\ AllFinite' /\ Posting' = Posting
         /\ Cardinality(Before') = Cardinality(Before) - 1 /\ Cardinality(Before) >= 1
         /\ Cardinality(Between') = Cardinality(Between) + 1
         /\ Cardinality(Spent') = Cardinality(Spent) - 1
<1>1. TypeOK /\ AllFinite /\ p \in Workers /\ "data" \in Pc BY DEF TokenInv, Workers, Pc, InsidePc
<1>2. Goto(p, "header", "data") /\ UNCHANGED sigTERMsignalFlag BY DEF WriteHeader, WritePart, signals
<1>3. /\ pc' \in [Workers -> Pc] /\ pc[p] = "header" /\ pc'[p] = "data"
      /\ \A q \in Workers \ {p} : pc'[q] = pc[q]
  BY <1>1, <1>2, GotoMoves
<1>4. (\A q \in Producers \ {p} : pc'[q] = pc[q]) /\ (\A c \in Consumers : pc'[c] = pc[c])
  BY <1>3, QueueAssumption DEF Workers
<1>5. Before' = Before \ {p} /\ p \in Before BY <1>2, <1>3, <1>4 DEF Before
<1>6. Between' = Between \cup {p} /\ p \notin Between BY <1>3, <1>4 DEF Between
<1>7. Posting' = Posting BY <1>3, <1>4 DEF Posting
<1>8. Spent' = Spent \ {p} /\ p \in Spent BY <1>3, <1>4 DEF Spent, HoldsToken
<1>9. /\ IsFiniteSet(Before') /\ Cardinality(Before') = Cardinality(Before) - 1
      /\ Cardinality(Before) \in Nat \ {0}
  BY <1>1, <1>5, Removed DEF AllFinite
<1>10. IsFiniteSet(Between') /\ Cardinality(Between') = Cardinality(Between) + 1
  BY <1>1, <1>6, Added DEF AllFinite
<1>11. IsFiniteSet(Spent') /\ Cardinality(Spent') = Cardinality(Spent) - 1
  BY <1>1, <1>8, Removed DEF AllFinite
<1>12. AllFinite' BY <1>1, <1>7, <1>9, <1>10, <1>11 DEF AllFinite
<1>13. ConsumersOutside' BY <1>4 DEF TokenInv, ConsumersOutside
<1>14. Cardinality(Before) >= 1 BY <1>9
<1>15. QED BY <1>3, <1>7, <1>9, <1>10, <1>11, <1>12, <1>13, <1>14

LEMMA HeaderKeeps ==
  ASSUME TokenInv, RingInv, MutualExclusion, NEW p \in Producers, WriteHeader(p)
  PROVE  TokenInv' /\ RingInv'
<1> DEFINE w == Cardinality(Written)
<1>1. /\ pc' \in [Workers -> Pc] /\ ConsumersOutside' /\ AllFinite' /\ Posting' = Posting
      /\ Cardinality(Before') = Cardinality(Before) - 1 /\ Cardinality(Before) >= 1
      /\ Cardinality(Between') = Cardinality(Between) + 1
      /\ Cardinality(Spent') = Cardinality(Spent) - 1
  BY HeaderTokens
<1>2. /\ Cardinality(Before) \in Nat /\ Cardinality(Between) \in Nat
      /\ Cardinality(Posting) \in Nat /\ Cardinality(Spent) \in Nat
  BY CardinalitiesAreNat DEF TokenInv
<1>3. WritePart(p, tail + 1) /\ Inside(p) BY DEF WriteHeader, Goto, Inside, InsidePc
<1>4. /\ buffer' = [buffer EXCEPT ![tail] = @ + 1] /\ buffer' \in [Parts -> Nat]
      /\ tail' \in {tail, tail + 1}
      /\ UNCHANGED <<empty, full, mutex, pending, sigTERMsignalFlag, prodPidMas, consPidMas, main, interrupted>>
  BY <1>3, PartWritten
<1>5. empty \in Nat /\ full \in Nat /\ tail \in Nat /\ BufferSize \in Nat
  BY QueueAssumption DEF TokenInv, TypeOK, Parts
<1>6. PaidFor(tail) /\ FullPaidFor BY DEF TokenInv
<1>7. tail' \in Parts BY <1>1, <1>2, <1>4, <1>5, <1>6 DEF PaidFor, Parts
<1>8. TypeOK' BY <1>1, <1>4, <1>7 DEF TokenInv, TypeOK
<1>9. PaidFor(tail)' BY <1>1, <1>2, <1>4, <1>5, <1>6 DEF PaidFor
<1>10. FullPaidFor' BY <1>1, <1>2, <1>4, <1>5, <1>6 DEF FullPaidFor
<1>11. TokenInv' BY <1>1, <1>8, <1>9, <1>10 DEF TokenInv
<1>12. ASSUME ~interrupted' PROVE RingInv'
  <2>1. RingAt(w) /\ w \in Nat BY <1>4, <1>12, WrittenIsFinite DEF RingInv
  <2>2. tail' = tail + 1 BY <1>3, <1>4, <1>12, AloneInside
  <2>3. w <= 2 * BufferSize - 2 BY <1>1, <1>2, <1>5, <2>1 DEF RingAt, PaidFor
  <2>4. /\ tail = w /\ Cardinality(Written') = w + 1
        /\ \A i \in Parts : buffer'[i] = IF i < w + 1 THEN 1 ELSE 0
    BY <1>4, <1>5, <2>1, <2>3, RingGrows
  <2> HIDE DEF w
  <2>5. tail' = IF w + 1 = 2 * BufferSize THEN 0 ELSE w + 1 BY <1>5, <2>1, <2>2, <2>3, <2>4
  <2>6. (w + 1) + 2 * Cardinality(Before') + Cardinality(Between') + 2 * empty' <= 2 * BufferSize
    BY <1>1, <1>2, <1>4, <1>5, <2>1 DEF RingAt, PaidFor
  <2>7. 2 * BufferSize <= 2 * empty' + (w + 1) + Cardinality(Between') + 2 * Cardinality(Spent')
    BY <1>1, <1>2, <1>4, <1>5, <2>1 DEF RingAt
  <2>8. \E m \in Nat : (w + 1) + Cardinality(Between') = 2 * m
    <3>1. PICK m \in Nat : w + Cardinality(Between) = 2 * m BY <2>1 DEF RingAt
    <3>2. (w + 1) + Cardinality(Between') = (w + Cardinality(Between)) + 2 BY <1>1, <1>2, <2>1
    <3>3. (w + 1) + Cardinality(Between') = 2 * (m + 1) /\ m + 1 \in Nat BY ONLY <3>1, <3>2, m \in Nat
    <3>4. QED BY <3>3
  <2>9. RingAt(Cardinality(Written))' BY <2>4, <2>5, <2>6, <2>7, <2>8 DEF RingAt, PaidFor
  <2>10. QED BY <2>9 DEF RingInv
<1>13. QED BY <1>11, <1>12 DEF RingInv

(* The data: the producer goes on from Between to Posting.                 *)
LEMMA DataTokens ==
  ASSUME TokenInv, NEW p \in Producers, WriteData(p)
  PROVE  /\ pc' \in [Workers -> Pc] /\ ConsumersOutside' /\ AllFinite'
         /\ Before' = Before /\ Spent' = Spent
         /\ Cardinality(Between') = Cardinality(Between) - 1 /\ Cardinality(Between) >= 1
         /\ Cardinality(Posting') = Cardinality(Posting) + 1
<1>1. TypeOK /\ AllFinite /\ p \in Workers /\ "post" \in Pc BY DEF TokenInv, Workers, Pc, InsidePc
<1>2. Goto(p, "data", "post") /\ UNCHANGED sigTERMsignalFlag BY DEF WriteData, WritePart, signals
<1>3. /\ pc' \in [Workers -> Pc] /\ pc[p] = "data" /\ pc'[p] = "post"
      /\ \A q \in Workers \ {p} : pc'[q] = pc[q]
  BY <1>1, <1>2, GotoMoves
<1>4. (\A q \in Producers \ {p} : pc'[q] = pc[q]) /\ (\A c \in Consumers : pc'[c] = pc[c])
  BY <1>3, QueueAssumption DEF Workers
<1>5. Before' = Before /\ Spent' = Spent BY <1>2, <1>3, <1>4 DEF Before, Spent, HoldsToken
<1>6. Between' = Between \ {p} /\ p \in Between BY <1>3, <1>4 DEF Between
<1>7. Posting' = Posting \cup {p} /\ p \notin Posting BY <1>3, <1>4 DEF Posting
<1>8. /\ IsFiniteSet(Between') /\ Cardinality(Between') = Cardinality(Between) - 1
      /\ Cardinality(Between) \in Nat \ {0}
  BY <1>1, <1>6, Removed DEF AllFinite
<1>9. IsFiniteSet(Posting') /\ Cardinality(Posting') = Cardinality(Posting) + 1
  BY <1>1, <1>7, Added DEF AllFinite
<1>10. AllFinite' BY <1>1, <1>5, <1>8, <1>9 DEF AllFinite
<1>11. ConsumersOutside' BY <1>4 DEF TokenInv, ConsumersOutside
<1>12. Cardinality(Between) >= 1 BY <1>8
<1>13. QED BY <1>3, <1>5, <1>8, <1>9, <1>10, <1>11, <1>12

(* tail goes back to the first part behind the last one.                   *)
LEMMA WrapsAround ==
  ASSUME NEW t \in Nat, t <= 2 * BufferSize
  PROVE  Wrapped(t) = IF t = 2 * BufferSize THEN 0 ELSE t
BY QueueAssumption DEF Wrapped

LEMMA DataKeeps ==
  ASSUME TokenInv, RingInv, MutualExclusion, NEW p \in Producers, WriteData(p)
  PROVE  TokenInv' /\ RingInv'
<1> DEFINE w == Cardinality(Written)
<1>1. /\ pc' \in [Workers -> Pc] /\ ConsumersOutside' /\ AllFinite'
      /\ Before' = Before /\ Spent' = Spent
      /\ Cardinality(Between') = Cardinality(Between) - 1 /\ Cardinality(Between) >= 1
      /\ Cardinality(Posting') = Cardinality(Posting) + 1
  BY DataTokens
<1>2. /\ Cardinality(Before) \in Nat /\ Cardinality(Between) \in Nat
      /\ Cardinality(Posting) \in Nat /\ Cardinality(Spent) \in Nat
  BY CardinalitiesAreNat DEF TokenInv
<1>3. WritePart(p, Wrapped(tail + 1)) /\ Inside(p) BY DEF WriteData, Goto, Inside, InsidePc
<1>4. /\ buffer' = [buffer EXCEPT ![tail] = @ + 1] /\ buffer' \in [Parts -> Nat]
      /\ tail' \in {tail, Wrapped(tail + 1)}
      /\ UNCHANGED <<empty, full, mutex, pending, sigTERMsignalFlag, prodPidMas, consPidMas, main, interrupted>>
  BY <1>3, PartWritten
<1>5. empty \in Nat /\ full \in Nat /\ tail \in Nat /\ BufferSize \in Nat \ {0}
  BY QueueAssumption DEF TokenInv, TypeOK, Parts
<1>6. PaidFor(tail) /\ FullPaidFor /\ tail \in Parts BY DEF TokenInv, TypeOK
<1>7. tail + 1 <= 2 * BufferSize /\ tail + 1 \in Nat BY <1>5, <1>6 DEF Parts
<1>8. Wrapped(tail + 1) = IF tail + 1 = 2 * BufferSize THEN 0 ELSE tail + 1 BY <1>7, WrapsAround
<1>9. tail' \in Parts /\ tail' <= tail + 1 BY <1>4, <1>5, <1>6, <1>7, <1>8 DEF Parts
<1>10. TypeOK' BY <1>1, <1>4, <1>9 DEF TokenInv, TypeOK
<1>11. tail' \in Nat BY <1>5, <1>9 DEF Parts
<1>12. PaidFor(tail)' BY <1>1, <1>2, <1>4, <1>5, <1>6, <1>9, <1>11 DEF PaidFor
<1>13. FullPaidFor' BY <1>1, <1>2, <1>4, <1>5, <1>6 DEF FullPaidFor
<1>14. TokenInv' BY <1>1, <1>10, <1>12, <1>13 DEF TokenInv
<1>15. ASSUME ~interrupted' PROVE RingInv'
  <2>1. RingAt(w) /\ w \in Nat BY <1>4, <1>15, WrittenIsFinite DEF RingInv
  <2>2. tail' = Wrapped(tail + 1) BY <1>3, <1>4, <1>15, AloneInside
  <2>3. w <= 2 * BufferSize - 1 BY <1>1, <1>2, <1>5, <2>1 DEF RingAt, PaidFor
  <2>4. /\ tail = w /\ Cardinality(Written') = w + 1
        /\ \A i \in Parts : buffer'[i] = IF i < w + 1 THEN 1 ELSE 0
    BY <1>4, <1>5, <2>1, <2>3, RingGrows
  <2> HIDE DEF w
  <2>5. tail' = IF w + 1 = 2 * BufferSize THEN 0 ELSE w + 1 BY <1>8, <2>2, <2>4
  <2>6. (w + 1) + 2 * Cardinality(Before') + Cardinality(Between') + 2 * empty' <= 2 * BufferSize
    BY <1>1, <1>2, <1>4, <1>5, <2>1 DEF RingAt, PaidFor
  <2>7. 2 * BufferSize <= 2 * empty' + (w + 1) + Cardinality(Between') + 2 * Cardinality(Spent')
    BY <1>1, <1>2, <1>4, <1>5, <2>1 DEF RingAt
  <2>8. \E m \in Nat : (w + 1) + Cardinality(Between') = 2 * m
    <3>1. PICK m \in Nat : w + Cardinality(Between) = 2 * m BY <2>1 DEF RingAt
    <3>2. (w + 1) + Cardinality(Between') = w + Cardinality(Between) BY <1>1, <1>2, <2>1
    <3>3. QED BY <3>1, <3>2
  <2>9. RingAt(Cardinality(Written))' BY <2>4, <2>5, <2>6, <2>7, <2>8 DEF RingAt, PaidFor
  <2>10. QED BY <2>9 DEF RingInv
<1>16. QED BY <1>14, <1>15 DEF RingInv

(* The message is posted.                                                  *)
LEMMA PostKeeps ==
  ASSUME TokenInv, RingInv, NEW p \in Producers, Post(p)
  PROVE  TokenInv' /\ RingInv'
<1>1. TypeOK /\ AllFinite /\ p \in Workers /\ "gen" \in Pc BY DEF TokenInv, Workers, Pc
<1>2. /\ Goto(p, "post", "gen") /\ full' = full + 1 /\ mutex' = mutex + 1
      /\ UNCHANGED <<buffer, tail, empty, interrupted>>
      /\ UNCHANGED <<pending, sigTERMsignalFlag, prodPidMas, consPidMas, main>>
  BY DEF Post, signals, lists
<1>3. /\ pc' \in [Workers -> Pc] /\ pc[p] = "post" /\ pc'[p] = "gen"
      /\ \A q \in Workers \ {p} : pc'[q] = pc[q]
  BY <1>1, <1>2, GotoMoves
<1>4. (\A q \in Producers \ {p} : pc'[q] = pc[q]) /\ (\A c \in Consumers : pc'[c] = pc[c])
  BY <1>3, QueueAssumption DEF Workers
<1>5. Before' = Before /\ Spent' = Spent /\ Between' = Between
  BY <1>2, <1>3, <1>4 DEF Before, Spent, Between, HoldsToken
<1>6. Posting' = Posting \ {p} /\ p \in Posting BY <1>3, <1>4 DEF Posting
<1>7. /\ IsFiniteSet(Posting') /\ Cardinality(Posting') = Cardinality(Posting) - 1
      /\ Cardinality(Posting) \in Nat \ {0}
  BY <1>1, <1>6, Removed DEF AllFinite
<1>8. AllFinite' BY <1>1, <1>5, <1>7 DEF AllFinite
<1>9. /\ empty \in Nat /\ full \in Nat /\ BufferSize \in Nat
      /\ Cardinality(Before) \in Nat /\ Cardinality(Between) \in Nat
  BY <1>1, CardinalitiesAreNat, QueueAssumption DEF TypeOK
<1>10. FullPaidFor BY DEF TokenInv
<1>11. FullPaidFor' BY <1>2, <1>5, <1>7, <1>9, <1>10 DEF FullPaidFor
<1>12. full' \in 0 .. BufferSize BY <1>2, <1>7, <1>9, <1>10 DEF FullPaidFor
<1>13. mutex' \in Nat BY <1>1, <1>2 DEF TypeOK
<1>14. TypeOK' BY <1>1, <1>2, <1>3, <1>12, <1>13 DEF TypeOK
<1>15. ConsumersOutside' BY <1>4 DEF TokenInv, ConsumersOutside
<1>16. PaidFor(tail)' BY <1>2, <1>5 DEF TokenInv, PaidFor
<1>17. TokenInv' BY <1>8, <1>11, <1>14, <1>15, <1>16 DEF TokenInv
<1>18. Written' = Written BY <1>2 DEF Written
<1>19. RingInv' BY <1>2, <1>5, <1>18 DEF RingInv, RingAt, PaidFor
<1>20. QED BY <1>17, <1>19

-----------------------------------------------------------------------------
QueueInv == TokenInv /\ RingInv /\ MutexInv

LEMMA QueueInit == Init => QueueInv
BY TokenInit, MutexInit DEF QueueInv

LEMMA QueueStep == QueueInv /\ [Next]_vars => QueueInv'
<1> SUFFICES ASSUME QueueInv, [Next]_vars PROVE QueueInv' OBVIOUS
<1>1. TokenInv /\ RingInv /\ MutualExclusion BY DEF QueueInv, MutexInv
<1>2. MutexInv' BY MutexStep DEF QueueInv
<1>3. CASE \E p \in Producers : ProducerStep(p)
  <2>1. PICK p \in Producers : ProducerStep(p) BY <1>3
  <2>2. CASE GenerateMessage(p) \/ TestFlag(p) \/ SemWaitMutex(p)
    BY <1>1, <1>2, <2>2, QuietProducer, QuietKeeps DEF QueueInv
  <2>3. CASE SemWaitEmpty(p) BY <1>1, <1>2, <2>3, TakenKeeps DEF QueueInv
  <2>4. CASE WriteHeader(p) BY <1>1, <1>2, <2>4, HeaderKeeps DEF QueueInv
  <2>5. CASE WriteData(p) BY <1>1, <1>2, <2>5, DataKeeps DEF QueueInv
  <2>6. CASE Post(p) BY <1>1, <1>2, <2>6, PostKeeps DEF QueueInv
  <2>7. QED BY <2>1, <2>2, <2>3, <2>4, <2>5, <2>6 DEF ProducerStep
<1>4. CASE \E c \in Consumers : SemWaitFull(c)
  BY <1>1, <1>2, <1>4, QuietConsumer, QuietKeeps DEF QueueInv
<1>5. CASE \E p \in Workers : Signal(p) BY <1>1, <1>2, <1>5, QuietSignal, QuietKeeps DEF QueueInv
<1>6. CASE Command BY <1>1, <1>2, <1>6, QuietCommand, QuietKeeps DEF QueueInv
<1>7. CASE UNCHANGED vars
  <2>1. UNCHANGED <<buffer, tail, empty, full, mutex, pc, pending, sigTERMsignalFlag,
                    prodPidMas, consPidMas, main, interrupted>>
    BY <1>7 DEF vars, queue, signals, lists
  <2>2. full' <= full BY <1>1, <2>1, QueueAssumption DEF TokenInv, TypeOK
  <2>3. TokensRest /\ ConsumersOutside' BY <1>1, <2>1, NobodyMoves
  <2>4. TypeOK' BY <1>1, <2>1 DEF TokenInv, TypeOK
  <2>5. QED BY <1>1, <1>2, <2>1, <2>3, <2>4, QuietKeeps DEF QueueInv, Quiet
<1>8. QED BY <1>3, <1>4, <1>5, <1>6, <1>7 DEF Next

(* Every variable has its type.  No process posts more tokens of `full`    *)
(* than there are slots, and tail stays within the ring, also when a       *)
(* signal lets two producers write at the same time (lab4Main.c:120-145):  *)
(* `empty` is never posted, so no more parts are written than fit.         *)
THEOREM TypeCorrect == Spec => []TypeOK
<1>1. QueueInv => TypeOK BY DEF QueueInv, TokenInv
<1>2. QED BY <1>1, QueueInit, QueueStep, PTL DEF Spec, Safety

(* Of the tokens of `empty` none is lost but those of producers that ended *)
(* with one (lab4Main.c:124-128), and no part of a message is overwritten, *)
(* as long as no signal cut sem_wait(&mutex) short.                        *)
THEOREM TokensAccounted == Spec => []TokensAccountedFor
<1> DEFINE w == Cardinality(Written)
           missing == BufferSize - empty - ((w + 1) \div 2)
           waiting == {p \in Producers : HoldsToken(p)}
<1>1. ASSUME QueueInv, ~interrupted
      PROVE  /\ \A i \in Parts : buffer[i] <= 1
             /\ missing >= Cardinality({p \in waiting : ~sigTERMsignalFlag[p]})
             /\ missing <= Cardinality(waiting \cup {p \in Producers : pc[p] = "exited"})
  <2>1. AllFinite /\ RingAt(w) /\ MutualExclusion BY <1>1 DEF QueueInv, TokenInv, RingInv, MutexInv
  <2>2. w \in Nat /\ empty \in Nat /\ BufferSize \in Nat
    BY <1>1, WrittenIsFinite, QueueAssumption DEF QueueInv, TokenInv, TypeOK
  <2>3. waiting \cup {p \in Producers : pc[p] = "exited"} = Spent BY DEF Spent
  <2>4. {p \in waiting : ~sigTERMsignalFlag[p]} \in SUBSET Before BY DEF Before, HoldsToken
  <2>5. /\ Cardinality({p \in waiting : ~sigTERMsignalFlag[p]}) <= Cardinality(Before)
        /\ Cardinality({p \in waiting : ~sigTERMsignalFlag[p]}) \in Nat
    BY <2>1, <2>4, NoMore DEF AllFinite
  <2>6. /\ Cardinality(Before) \in Nat /\ Cardinality(Between) \in Nat /\ Cardinality(Spent) \in Nat
    BY <2>1, CardinalitiesAreNat
  <2>7. Cardinality(Between) <= 1
    <3>1. \A p, q \in Between : p = q BY <1>1, <2>1 DEF MutualExclusion, Between, Inside, InsidePc
    <3>2. CASE Between = {} BY <3>2, FS_EmptySet
    <3>3. ASSUME NEW p \in Between PROVE Cardinality(Between) <= 1
      <4>1. Between = {p} BY <3>1
      <4>2. QED BY <4>1, FS_Singleton
    <3>4. QED BY <3>2, <3>3
  <2> HIDE DEF w
  <2>8. \A i \in Parts : buffer[i] <= 1 BY <2>1 DEF RingAt
  <2>9. PICK m \in Nat : w + Cardinality(Between) = 2 * m BY <2>1 DEF RingAt
  <2>10. (w + 1) \div 2 = m BY <2>2, <2>6, <2>7, <2>9
  <2>11. /\ w + 2 * Cardinality(Before) + Cardinality(Between) + 2 * empty <= 2 * BufferSize
         /\ 2 * BufferSize <= 2 * empty + w + Cardinality(Between) + 2 * Cardinality(Spent)
    BY <2>1 DEF RingAt, PaidFor
  <2>12. missing >= Cardinality(Before) /\ missing <= Cardinality(Spent)
    BY <2>2, <2>6, <2>9, <2>10, <2>11
  <2>13. missing \in Int BY <2>2, <2>10
  <2> HIDE DEF missing, waiting
  <2>14. missing >= Cardinality({p \in waiting : ~sigTERMsignalFlag[p]})
    BY <2>5, <2>6, <2>12, <2>13
  <2>15. QED BY <2>3, <2>8, <2>12, <2>14
<1>2. QueueInv => TokensAccountedFor BY <1>1 DEF TokensAccountedFor, Written
<1>3. QED BY <1>2, QueueInit, QueueStep, PTL DEF Spec, Safety
=============================================================================
