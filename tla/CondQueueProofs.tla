--------------------------- MODULE CondQueueProofs ---------------------------
(***************************************************************************)
(* Theorems about CondQueue (Lab5/lab5_2.c), for every number of threads,  *)
(* every size of the queue and every number of cancellations.              *)
(***************************************************************************)
EXTENDS CondQueue, MessageQueueProofs

-----------------------------------------------------------------------------
(* Type correctness.                                                       *)

LEMMA TypeInit == Init => TypeOK
  BY ThreadAssumption, BoundAssumption
  DEF Init, QueueInit, TypeOK, QueueTypeOK, Pc, Slot, Threads, Workers

LEMMA TypeStep == TypeOK /\ [Next]_vars => TypeOK'
<1> SUFFICES ASSUME TypeOK, [Next]_vars PROVE TypeOK'
  OBVIOUS
<1> USE DEF TypeOK, QueueTypeOK
<1>a. Message \cup {Zero, Junk} \subseteq Slot
  BY DEF Slot
<1>b. Workers \subseteq Threads /\ Main \in Threads
  BY DEF Threads
<1>r. /\ sizeQueue \in Int /\ sizeQueue + 1 \in Int /\ head \in Int /\ tail \in Int
      /\ buffer \in [0 .. sizeQueue - 1 -> Slot]
  OBVIOUS
<1>1. ASSUME NEW p \in Producers, ProducerStep(p) PROVE TypeOK'
  <2>p. p \in Workers
    BY DEF Workers
  <2>1. CASE GenerateMessage(p, "lock") /\ UNCHANGED countMsg
    BY <1>a, <1>b, <2>p, <2>1 DEF GenerateMessage, Step, ring, lists, Pc
  <2>2. CASE GenerateRandSizeSpins(p) /\ UNCHANGED countMsg
    BY <1>b, <2>p, <2>2 DEF GenerateRandSizeSpins, Step, ring, lists, Pc
  <2>3. CASE WriteMessage(p) /\ UNCHANGED countMsg
    <3>1. buffer' \in [0 .. sizeQueue - 1 -> Slot]
      BY <2>p, <2>3, WriteSlotType DEF WriteMessage
    <3> QED BY <1>b, <2>p, <2>3, <3>1 DEF WriteMessage, Step, lists, Pc
  <2>4. CASE TestRoom(p)
    BY <1>b, <2>p, <2>4 DEF TestRoom, CondWait, Step, ring, lists, Pc
  <2>5. CASE AdvanceTail(p)
    <3>1. pc' \in [Threads -> Pc]
      BY <1>b, <2>p, <2>5 DEF AdvanceTail, StepAndSignal, Workers, Pc
    <3>2. tail' \in Int /\ countMsg' \in Int
      BY <2>5 DEF AdvanceTail, Raced, Advance
    <3> QED BY <2>5, <3>1, <3>2 DEF AdvanceTail, lists
  <2>6. CASE UnlockProducer(p)
    BY <1>b, <2>p, <2>6 DEF UnlockProducer, Step, ring, lists, Pc
  <2> QED BY <1>1, <2>1, <2>2, <2>3, <2>4, <2>5, <2>6 DEF ProducerStep
<1>2. ASSUME NEW c \in Consumers, ConsumerStep(c) PROVE TypeOK'
  <2>c. c \in Workers
    BY DEF Workers
  <2>1. CASE ReadMessage(c) /\ UNCHANGED countMsg
    <3>1. buffer' \in [0 .. sizeQueue - 1 -> Slot]
      BY <1>a, <2>1, WriteSlotType DEF ReadMessage
    <3>2. msg' \in [Workers -> Slot]
      BY <2>1, ReadSlotType DEF ReadMessage
    <3> QED BY <1>b, <2>c, <2>1, <3>1, <3>2 DEF ReadMessage, Step, lists, Pc
  <2>2. CASE TestMessage(c)
    BY <1>b, <2>c, <2>2 DEF TestMessage, CondWait, Step, ring, lists, Pc
  <2>3. CASE AdvanceHead(c)
    <3>1. pc' \in [Threads -> Pc]
      BY <1>b, <2>c, <2>3 DEF AdvanceHead, StepAndSignal, Workers, Pc
    <3>2. head' \in Int
      BY <2>3 DEF AdvanceHead, Raced, Advance
    <3> QED BY <2>3, <3>1, <3>2 DEF AdvanceHead, lists
  <2>4. CASE UnlockConsumer(c)
    <3>1. countMsg' \in Int
      BY <2>4 DEF UnlockConsumer, Raced
    <3> QED BY <1>b, <2>c, <2>4, <3>1 DEF UnlockConsumer, Step, ring, lists, Pc
  <2> QED BY <1>2, <2>1, <2>2, <2>3, <2>4 DEF ConsumerStep
<1>3. ASSUME NEW t \in Workers, CommonStep(t) \/ SpuriousWakeup(t) PROVE TypeOK'
  <2>1. CASE PrintAndSleep(t, Start(t)) /\ UNCHANGED countMsg
    BY <1>a, <1>b, <2>1 DEF PrintAndSleep, Start, Step, ring, lists, Pc
  <2>2. CASE Lock(t) \/ Relock(t) \/ Cancel(t) \/ SpuriousWakeup(t)
    BY <1>b, <2>2 DEF Lock, Relock, Cancel, SpuriousWakeup, Step, ring, lists, Pc
  <2>3. CASE CleanupHandler(t)
    BY <1>a, <1>b, <2>3 DEF CleanupHandler, Step, ring, lists, Pc
  <2> QED BY <1>3, <2>1, <2>2, <2>3 DEF CommonStep
<1>4. CASE MainStep
  <2>1. CASE JoinThread /\ UNCHANGED countMsg
    <3>1. prodIdMas' \in Seq(Producers) /\ consIdMas' \in Seq(Consumers)
      BY <2>1, WithoutType DEF JoinThread
    <3> QED BY <1>b, <2>1, <3>1 DEF JoinThread, ring, Pc
  <2>2. CASE UnlockMain /\ UNCHANGED countMsg
    BY <1>b, <2>2 DEF UnlockMain, Step, ring, lists, Pc
  <2> QED BY <1>4, <2>1, <2>2 DEF MainStep
<1>5. CASE Command
  <2>1. CASE CreateProducer /\ UNCHANGED countMsg
    <3>1. PICK p \in Producers : /\ pc' = [pc EXCEPT ![p] = "gen"]
                                 /\ prodIdMas' = Append(prodIdMas, p)
      BY <2>1 DEF CreateProducer
    <3>2. prodIdMas' \in Seq(Producers)
      BY <3>1, AppendProperties
    <3> QED BY <1>b, <2>1, <3>1, <3>2 DEF CreateProducer, ring, Pc, Workers
  <2>2. CASE CreateConsumer("lock") /\ UNCHANGED countMsg
    <3>1. PICK c \in Consumers : /\ pc' = [pc EXCEPT ![c] = "lock"]
                                 /\ consIdMas' = Append(consIdMas, c)
      BY <2>2 DEF CreateConsumer
    <3>2. consIdMas' \in Seq(Consumers)
      BY <3>1, AppendProperties
    <3> QED BY <1>b, <2>2, <3>1, <3>2 DEF CreateConsumer, ring, Pc, Workers
  <2>3. CASE Destroy /\ UNCHANGED countMsg
    <3>1. PICK to \in {"join", "menu", "exited"} : Step(Main, "menu", to)
      BY <2>3, DestroySteps
    <3>2. target' \in Threads /\ UNCHANGED <<ring, mutex, msg, prodIdMas, consIdMas>>
          /\ cancels' = cancels + 1
      BY <1>b, <2>3, DestroySteps, DestroyTypes, DestroyCounts
    <3> QED BY <1>b, <2>3, <3>1, <3>2 DEF Step, ring, Pc
  <2>4. CASE Quit /\ UNCHANGED countMsg
    BY <1>b, <2>4 DEF Quit, Step, ring, lists, Pc
  <2>5. CASE IncremSize
    <3>1. pc' \in [Threads -> Pc]
      BY <1>b, <2>5 DEF IncremSize, StepAndSignal, Workers, Pc
    <3>2. Realloc(buffer, sizeQueue + 1) \in [0 .. (sizeQueue + 1) - 1 -> Slot]
      BY ONLY <1>r, ReallocType
    <3>3. ShiftUp(Realloc(buffer, sizeQueue + 1), head) \in [0 .. (sizeQueue + 1) - 1 -> Slot]
      BY ONLY <1>r, <3>2, ShiftUpType
    <3>4. buffer' \in [0 .. sizeQueue' - 1 -> Slot] /\ head' \in Int
      BY <2>5, <3>2, <3>3 DEF IncremSize
    <3> QED BY <2>5, <3>1, <3>4 DEF IncremSize, lists
  <2>6. CASE DiscrSize
    <3>1. pc' \in [Threads -> Pc]
      BY <1>b, <2>6 DEF DiscrSize, Step, Pc
    <3>2. ShrunkBuffer(buffer, head, tail, sizeQueue) \in [0 .. (sizeQueue - 1) - 1 -> Slot]
      BY ONLY <1>r, ShrunkBufferType
    <3>3. ShrinkRing => /\ buffer' \in [0 .. sizeQueue' - 1 -> Slot]
                        /\ head' \in Int /\ tail' \in Int /\ sizeQueue' \in Int
      BY <1>r, <3>2 DEF ShrinkRing, ShrunkHead, ShrunkTail
    <3> QED BY <2>6, <3>1, <3>3 DEF DiscrSize, ring, lists
  <2> QED BY <1>5, <2>1, <2>2, <2>3, <2>4, <2>5, <2>6 DEF Command, Menu
<1>6. CASE Exited \/ UNCHANGED vars
  BY <1>6 DEF Exited, vars, ring, lists
<1> QED BY <1>1, <1>2, <1>3, <1>4, <1>5, <1>6 DEF Next

(* Every reachable state is well typed: the buffer has sizeQueue slots     *)
(* after any sequence of resizes, and the lists hold threads.              *)
THEOREM TypeCorrect == Safety => []TypeOK
  BY TypeInit, TypeStep, PTL DEF Safety

-----------------------------------------------------------------------------
(* Mutual exclusion.  A step either leaves the set of threads inside the   *)
(* critical section alone, or lets one in through a free mutex, or lets    *)
(* one out, or is the cleanup handler of a cancelled thread.               *)

Stays      == mutex' = mutex /\ \A t \in Threads : Inside(t)' <=> Inside(t)
Enters(s)  == /\ mutex = 0 /\ mutex' = 1
              /\ \A t \in Threads : Inside(t)' <=> (Inside(t) \/ t = s)
Leaves(s)  == /\ Inside(s) /\ mutex' = 0
              /\ \A t \in Threads : Inside(t)' <=> (Inside(t) /\ t # s)
Cleans(s)  == /\ pc[s] \in {"cleanup", "cleanupHeld"} /\ mutex' = 0

StepKind == \/ Stays
            \/ \E s \in Threads : Enters(s) \/ Leaves(s) \/ Cleans(s)

(* No thread is being cancelled, nor where only a cancelled thread is.     *)
Calm == /\ target = Main /\ pc[Main] # "join"
        /\ \A t \in Threads : pc[t] \notin {"relock", "cleanupHeld", "cleanup", "dead"}

Uncancelled == cancels = 0 => Calm

LEMMA StepKinds == TypeOK /\ [Next]_vars => StepKind
<1> SUFFICES ASSUME TypeOK, [Next]_vars PROVE StepKind
  OBVIOUS
<1> USE DEF Inside, InsidePc
<1>a. pc \in [Threads -> Pc]
  BY DEF TypeOK, QueueTypeOK
<1>b. Workers \subseteq Threads /\ Main \in Threads
  BY DEF Threads
(* A thread, and perhaps one it signals, moves outside, or moves inside.   *)
<1>c. ASSUME NEW s \in Threads, NEW from, NEW to, Step(s, from, to), mutex' = mutex,
             (from \in InsidePc) = (to \in InsidePc)
      PROVE  StepKind
  BY <1>a, <1>c DEF Step, StepKind, Stays
<1>d. ASSUME NEW s \in Threads, NEW from, NEW to, NEW W \in SUBSET Workers,
             StepAndSignal(s, from, to, W), mutex' = mutex,
             (from \in InsidePc) = (to \in InsidePc)
      PROVE  StepKind
  <2>1. \A t \in Threads : Inside(t)' <=> Inside(t)
    BY <1>a, <1>b, <1>d DEF StepAndSignal
  <2> QED BY <1>d, <2>1 DEF StepKind, Stays
<1>e. ASSUME NEW s \in Threads, NEW from, NEW to, Step(s, from, to),
             mutex = 0, mutex' = 1, to \in InsidePc
      PROVE  StepKind
  BY <1>a, <1>e DEF Step, StepKind, Enters
<1>f. ASSUME NEW s \in Threads, NEW from, NEW to, Step(s, from, to), mutex' = 0,
             from \in InsidePc, to \notin InsidePc
      PROVE  StepKind
  BY <1>a, <1>f DEF Step, StepKind, Leaves
<1>1. ASSUME NEW p \in Producers, ProducerStep(p) PROVE StepKind
  <2>p. p \in Threads /\ Consumers \in SUBSET Workers
    BY DEF Workers, Threads
  <2>1. CASE GenerateMessage(p, "lock")
    BY <1>c, <2>p, <2>1 DEF GenerateMessage
  <2>2. CASE GenerateRandSizeSpins(p)
    BY <1>c, <2>p, <2>2 DEF GenerateRandSizeSpins
  <2>3. CASE WriteMessage(p)
    BY <1>c, <2>p, <2>3 DEF WriteMessage
  <2>4. CASE TestRoom(p)
    BY <1>c, <1>f, <2>p, <2>4 DEF TestRoom, CondWait
  <2>5. CASE AdvanceTail(p)
    BY <1>d, <2>p, <2>5 DEF AdvanceTail
  <2>6. CASE UnlockProducer(p)
    BY <1>f, <2>p, <2>6 DEF UnlockProducer
  <2> QED BY <1>1, <2>1, <2>2, <2>3, <2>4, <2>5, <2>6 DEF ProducerStep
<1>2. ASSUME NEW c \in Consumers, ConsumerStep(c) PROVE StepKind
  <2>c. c \in Threads /\ Producers \in SUBSET Workers
    BY DEF Workers, Threads
  <2>1. CASE ReadMessage(c)
    BY <1>c, <2>c, <2>1 DEF ReadMessage
  <2>2. CASE TestMessage(c)
    BY <1>c, <1>f, <2>c, <2>2 DEF TestMessage, CondWait
  <2>3. CASE AdvanceHead(c)
    BY <1>d, <2>c, <2>3 DEF AdvanceHead
  <2>4. CASE UnlockConsumer(c)
    BY <1>f, <2>c, <2>4 DEF UnlockConsumer
  <2> QED BY <1>2, <2>1, <2>2, <2>3, <2>4 DEF ConsumerStep
<1>3. ASSUME NEW t \in Workers, CommonStep(t) \/ SpuriousWakeup(t) PROVE StepKind
  <2>1. CASE PrintAndSleep(t, Start(t))
    BY <1>b, <1>c, <2>1 DEF PrintAndSleep, Start
  <2>2. CASE Lock(t)
    BY <1>b, <1>e, <2>2 DEF Lock
  <2>3. CASE Relock(t)
    BY <1>b, <1>e, <2>3 DEF Relock
  <2>4. CASE Cancel(t)
    BY <1>b, <1>c, <2>4 DEF Cancel
  <2>5. CASE SpuriousWakeup(t)
    BY <1>b, <1>c, <2>5 DEF SpuriousWakeup
  <2>6. CASE CleanupHandler(t)
    BY <1>b, <2>6 DEF CleanupHandler, Step, StepKind, Cleans
  <2> QED BY <1>3, <2>1, <2>2, <2>3, <2>4, <2>5, <2>6 DEF CommonStep
<1>4. CASE MainStep
  <2>1. CASE JoinThread
    <3>1. \A t \in Threads : Inside(t)' <=> Inside(t)
      BY <1>a, <1>b, <2>1 DEF JoinThread, TypeOK, QueueTypeOK
    <3> QED BY <2>1, <3>1 DEF JoinThread, StepKind, Stays
  <2>2. CASE UnlockMain
    BY <1>b, <1>f, <2>2 DEF UnlockMain
  <2> QED BY <1>4, <2>1, <2>2 DEF MainStep
<1>5. CASE Command
  <2>1. CASE CreateProducer \/ CreateConsumer("lock")
    <3>1. \A t \in Threads : Inside(t)' <=> Inside(t)
      BY <1>a, <2>1 DEF CreateProducer, CreateConsumer
    <3> QED BY <2>1, <3>1 DEF CreateProducer, CreateConsumer, StepKind, Stays
  <2>2. CASE Destroy
    BY <1>b, <1>c, <2>2, DestroySteps
  <2>3. CASE Quit
    BY <1>b, <1>c, <2>3 DEF Quit
  <2>4. CASE IncremSize
    <3>1. \A t \in Threads : Inside(t)' <=> (Inside(t) \/ t = Main)
      BY <1>a, <1>b, <2>4 DEF IncremSize, StepAndSignal, Workers
    <3> QED BY <1>b, <2>4, <3>1 DEF IncremSize, StepKind, Enters
  <2>5. CASE DiscrSize
    BY <1>b, <1>e, <2>5 DEF DiscrSize
  <2> QED BY <1>5, <2>1, <2>2, <2>3, <2>4, <2>5 DEF Command, Menu
<1>6. CASE Exited \/ UNCHANGED vars
  BY <1>6 DEF Exited, vars, StepKind, Stays
<1> QED BY <1>1, <1>2, <1>3, <1>4, <1>5, <1>6 DEF Next

(* A locked mutex always has a holder that will unlock it, whichever       *)
(* threads are cancelled and wherever: the cleanup handler errs only on    *)
(* the other side, by unlocking too much.                                  *)
THEOREM LockHasHolder == Safety => []NoOrphanLock
<1>1. Init => NoOrphanLock
  BY DEF Init, QueueInit, NoOrphanLock
<1>2. TypeOK /\ NoOrphanLock /\ [Next]_vars => NoOrphanLock'
  BY StepKinds DEF StepKind, Stays, Enters, Leaves, Cleans, NoOrphanLock, Inside
<1> QED BY <1>1, <1>2, TypeCorrect, PTL DEF Safety

(* As long as no thread was cancelled, no thread is where cancellation     *)
(* leads.                                                                  *)
LEMMA UncancelledInit == Init => Uncancelled
  BY DEF Init, QueueInit, Uncancelled, Calm, Threads

LEMMA CancelsGrow == [Next]_vars => cancels' = cancels \/ cancels' = cancels + 1
  BY DestroyCounts DEF Next, ProducerStep, ConsumerStep, CommonStep, MainStep, Command, Menu, Exited,
    GenerateMessage, GenerateRandSizeSpins, WriteMessage, TestRoom, AdvanceTail,
    UnlockProducer, ReadMessage, TestMessage, AdvanceHead, UnlockConsumer, CondWait,
    PrintAndSleep, Lock, Cancel, Relock, CleanupHandler, SpuriousWakeup, JoinThread,
    UnlockMain, CreateProducer, CreateConsumer, Quit, IncremSize,
    DiscrSize, vars, lists

LEMMA UncancelledStep == TypeOK /\ Uncancelled /\ [Next]_vars => Uncancelled'
<1> SUFFICES ASSUME TypeOK, Uncancelled, [Next]_vars, cancels' = 0
             PROVE  Calm'
  BY DEF Uncancelled
<1>a. pc \in [Threads -> Pc] /\ cancels \in Nat
  BY DEF TypeOK, QueueTypeOK
<1>b. Workers \subseteq Threads /\ Main \in Threads /\ Main \notin Workers
  BY ThreadAssumption DEF Threads, Workers
<1>0. cancels = 0
  BY <1>a, CancelsGrow
<1>c. Calm
  BY <1>0 DEF Uncancelled
(* A step that does not lead a thread there leaves all threads calm.       *)
<1>d. ASSUME NEW s \in Threads, NEW from, NEW to, Step(s, from, to), target' = target,
             to \notin {"relock", "cleanupHeld", "cleanup", "dead", "join"}
      PROVE  Calm'
  BY <1>a, <1>c, <1>d DEF Step, Calm
<1>e. ASSUME NEW s \in Threads, NEW from, NEW to, NEW W \in SUBSET Workers,
             StepAndSignal(s, from, to, W), target' = target,
             to \notin {"relock", "cleanupHeld", "cleanup", "dead", "join"}
      PROVE  Calm'
  <2>1. target' = Main
    BY <1>c, <1>e DEF Calm
  <2>2. \A t \in Threads : pc'[t] \in {pc[t], to, "lock"}
    BY <1>a, <1>b, <1>e DEF StepAndSignal
  <2> QED BY <1>b, <1>c, <1>e, <2>1, <2>2 DEF Calm
<1>1. ASSUME NEW p \in Producers, ProducerStep(p) PROVE Calm'
  <2>p. p \in Threads /\ p # target /\ Consumers \in SUBSET Workers
    BY <1>b, <1>c DEF Workers, Calm
  <2>1. CASE GenerateMessage(p, "lock")
    BY <1>d, <2>p, <2>1 DEF GenerateMessage, lists
  <2>2. CASE GenerateRandSizeSpins(p)
    BY <1>d, <2>p, <2>2 DEF GenerateRandSizeSpins, lists
  <2>3. CASE WriteMessage(p)
    BY <1>d, <2>p, <2>3 DEF WriteMessage, lists
  <2>4. CASE TestRoom(p)
    BY <1>d, <2>p, <2>4 DEF TestRoom, CondWait, lists
  <2>5. CASE AdvanceTail(p)
    BY <1>e, <2>p, <2>5 DEF AdvanceTail, lists
  <2>6. CASE UnlockProducer(p)
    BY <1>d, <2>p, <2>6 DEF UnlockProducer, lists
  <2> QED BY <1>1, <2>1, <2>2, <2>3, <2>4, <2>5, <2>6 DEF ProducerStep
<1>2. ASSUME NEW c \in Consumers, ConsumerStep(c) PROVE Calm'
  <2>c. c \in Threads /\ c # target /\ Producers \in SUBSET Workers
    BY <1>b, <1>c DEF Workers, Calm
  <2>1. CASE ReadMessage(c)
    BY <1>d, <2>c, <2>1 DEF ReadMessage, lists
  <2>2. CASE TestMessage(c)
    BY <1>d, <2>c, <2>2 DEF TestMessage, CondWait, lists
  <2>3. CASE AdvanceHead(c)
    BY <1>e, <2>c, <2>3 DEF AdvanceHead, lists
  <2>4. CASE UnlockConsumer(c)
    BY <1>d, <2>c, <2>4 DEF UnlockConsumer, lists
  <2> QED BY <1>2, <2>1, <2>2, <2>3, <2>4 DEF ConsumerStep
<1>3. ASSUME NEW t \in Workers, CommonStep(t) \/ SpuriousWakeup(t) PROVE Calm'
  <2>1. CASE PrintAndSleep(t, Start(t))
    BY <1>b, <1>d, <2>1 DEF PrintAndSleep, Start, lists
  <2>2. CASE Lock(t)
    BY <1>b, <1>d, <2>2 DEF Lock, lists
  <2>3. CASE SpuriousWakeup(t)
    BY <1>b, <1>d, <2>3 DEF SpuriousWakeup, lists
  <2>4. CASE Cancel(t) \/ Relock(t) \/ CleanupHandler(t)
    BY <1>b, <1>c, <2>4 DEF Cancel, Relock, CleanupHandler, Step, Calm
  <2> QED BY <1>3, <2>1, <2>2, <2>3, <2>4 DEF CommonStep
<1>4. CASE MainStep
  <2>1. CASE JoinThread
    BY <1>c, <2>1 DEF JoinThread, Calm
  <2>2. CASE UnlockMain
    BY <1>b, <1>d, <2>2 DEF UnlockMain, lists
  <2> QED BY <1>4, <2>1, <2>2 DEF MainStep
<1>5. CASE Command
  <2>1. CASE CreateProducer \/ CreateConsumer("lock")
    BY <1>a, <1>b, <1>c, <2>1 DEF CreateProducer, CreateConsumer, Calm
  <2>2. CASE Destroy
    BY <1>0, <2>2, DestroyCounts
  <2>3. CASE Quit
    BY <1>b, <1>d, <2>3 DEF Quit, lists
  <2>4. CASE IncremSize
    BY <1>b, <1>e, <2>4 DEF IncremSize, Workers, lists
  <2>5. CASE DiscrSize
    BY <1>b, <1>d, <2>5 DEF DiscrSize, lists
  <2> QED BY <1>5, <2>1, <2>2, <2>3, <2>4, <2>5 DEF Command, Menu
<1>6. CASE Exited \/ UNCHANGED vars
  BY <1>c, <1>6 DEF Exited, vars, lists, Calm
<1> QED BY <1>1, <1>2, <1>3, <1>4, <1>5, <1>6 DEF Next

LEMMA ExclusionStep ==
  TypeOK /\ Uncancelled /\ MutualExclusion /\ [Next]_vars => MutualExclusion'
<1> SUFFICES ASSUME TypeOK, Uncancelled, MutualExclusion, [Next]_vars, cancels' = 0
             PROVE  OneInside'
  BY DEF MutualExclusion
<1>1. cancels = 0 /\ Calm /\ OneInside
  BY CancelsGrow DEF Uncancelled, MutualExclusion, TypeOK, QueueTypeOK
<1>2. CASE Stays
  BY <1>1, <1>2 DEF Stays, OneInside
<1>3. ASSUME NEW s \in Threads, Enters(s) PROVE OneInside'
  BY <1>1, <1>3 DEF Enters, OneInside
<1>4. ASSUME NEW s \in Threads, Leaves(s) PROVE OneInside'
  BY <1>1, <1>4 DEF Leaves, OneInside
<1>5. ASSUME NEW s \in Threads, Cleans(s) PROVE OneInside'
  BY <1>1, <1>5 DEF Cleans, Calm
<1> QED BY StepKinds, <1>2, <1>3, <1>4, <1>5 DEF StepKind

(* Mutual exclusion, for any number of threads and any interleaving, as    *)
(* long as no thread was cancelled.                                        *)
THEOREM MutexExcludes == Safety => []MutualExclusion
<1>1. Init => MutualExclusion
  BY DEF Init, QueueInit, MutualExclusion, OneInside, Inside, InsidePc
<1> QED BY <1>1, UncancelledInit, UncancelledStep, ExclusionStep, TypeCorrect, PTL DEF Safety

-----------------------------------------------------------------------------
(* The shape of the ring.  QueueShape speaks of the moments when the mutex *)
(* is free; RingInv also says how the ring looks from inside the critical  *)
(* section: while a consumer is about to move head, the ring is in shape   *)
(* from the next slot on, and until it lowers countMsg, with one message   *)
(* less than countMsg says.                                                *)

ShapeAtRest == (\A c \in Consumers : pc[c] \notin {"advance", "unlock"})
                 => RingShape(buffer, head, tail, countMsg, sizeQueue)
ShapeInside ==
  \A c \in Consumers :
    /\ pc[c] = "read" => countMsg > 0
    /\ pc[c] = "advance" =>
         RingShape(buffer, Advance(head, sizeQueue), tail, countMsg - 1, sizeQueue)
    /\ pc[c] = "unlock" => RingShape(buffer, head, tail, countMsg - 1, sizeQueue)
RoomInside ==
  \A p \in Producers :
    /\ pc[p] \in {"write", "advance"} => countMsg < sizeQueue
    /\ pc[p] = "advance" => ReadSlot(buffer, tail) \in Message
    /\ pc[p] \in {"lock", "test", "wait", "write"} => msg[p] \in Message

RingInv == cancels = 0 => ShapeAtRest /\ ShapeInside /\ RoomInside

(* What StepAndSignal does to the program counters.                        *)
LEMMA SignalEffect ==
  ASSUME pc \in [Threads -> Pc], NEW t \in Threads, NEW from, NEW to,
         NEW waiters \in SUBSET Threads,
         StepAndSignal(t, from, to, waiters), from # "wait"
  PROVE  /\ pc'[t] = to
         /\ \A u \in Threads :
              u # t => pc'[u] = pc[u] \/ (pc[u] = "wait" /\ pc'[u] = "lock")
<1>1. pc[t] = from
  BY DEF StepAndSignal
<1>2. CASE pc' = [pc EXCEPT ![t] = to]
  BY <1>2
<1>3. CASE \E w \in waiters : pc[w] = "wait" /\ pc' = [pc EXCEPT ![t] = to, ![w] = "lock"]
  <2>1. PICK w \in waiters : pc[w] = "wait" /\ pc' = [pc EXCEPT ![t] = to, ![w] = "lock"]
    BY <1>3
  <2>2. w \in Threads /\ w # t
    BY <1>1, <2>1
  <2> QED BY <2>1, <2>2
<1> QED BY <1>2, <1>3 DEF StepAndSignal

LEMMA RingInvInit == Init => RingInv
<1> SUFFICES ASSUME Init PROVE ShapeAtRest /\ ShapeInside /\ RoomInside
  BY DEF RingInv
<1>1. \A t \in Threads : pc[t] \in {"menu", "none"}
  BY DEF Init, QueueInit
<1>2. RingShape(buffer, head, tail, countMsg, sizeQueue)
  BY BoundAssumption DEF Init, QueueInit, RingShape, Wrap
<1> QED BY <1>1, <1>2 DEF ShapeAtRest, ShapeInside, RoomInside, Threads, Workers

LEMMA RingInvStep ==
  ASSUME BoundaryResize = FALSE
  PROVE  /\ TypeOK /\ Uncancelled /\ MutualExclusion /\ RingInv
         /\ [Next]_vars
         => RingInv'
<1> SUFFICES ASSUME TypeOK, Uncancelled, MutualExclusion, RingInv, [Next]_vars, cancels' = 0
             PROVE  (ShapeAtRest /\ ShapeInside /\ RoomInside)'
  BY DEF RingInv
<1>a. /\ pc \in [Threads -> Pc] /\ msg \in [Workers -> Slot]
      /\ sizeQueue \in Int /\ head \in Int /\ tail \in Int /\ countMsg \in Int
      /\ buffer \in [0 .. sizeQueue - 1 -> Slot]
  BY DEF TypeOK, QueueTypeOK
<1>b. /\ Producers \subseteq Threads /\ Consumers \subseteq Threads /\ Main \in Threads
      /\ Workers \subseteq Threads /\ Producers \cap Consumers = {}
      /\ Main \notin Producers /\ Main \notin Consumers
  BY ThreadAssumption DEF Threads, Workers
<1>c. cancels = 0 /\ Calm /\ OneInside /\ ShapeAtRest /\ ShapeInside /\ RoomInside
  BY CancelsGrow DEF Uncancelled, MutualExclusion, RingInv, TypeOK, QueueTypeOK
(* Who is inside is alone, and finds the ring in shape.                    *)
<1>d. ASSUME NEW t \in Threads, Inside(t)
      PROVE  \A u \in Threads : u # t => ~Inside(u)
  BY <1>c, <1>d DEF OneInside
<1>e. ASSUME NEW t \in Threads, Inside(t), t \notin Consumers \/ pc[t] \notin {"advance", "unlock"}
      PROVE  RingShape(buffer, head, tail, countMsg, sizeQueue)
  BY <1>b, <1>c, <1>d, <1>e DEF ShapeAtRest, Inside, InsidePc
<1>f. ASSUME mutex = 0
      PROVE  /\ \A u \in Threads : ~Inside(u)
             /\ RingShape(buffer, head, tail, countMsg, sizeQueue)
  BY <1>b, <1>c, <1>f DEF OneInside, ShapeAtRest, Inside, InsidePc
(* A step that leaves the ring and countMsg alone, and takes no thread to  *)
(* where RingInv asks something new of it.                                 *)
<1>g. ASSUME UNCHANGED <<ring, countMsg>>,
             \A c \in Consumers : pc'[c] # pc[c] =>
               pc[c] \notin {"advance", "unlock"} /\ pc'[c] \notin {"read", "advance", "unlock"},
             \A p \in Producers :
               \/ pc'[p] = pc[p] /\ msg'[p] = msg[p]
               \/ pc'[p] \notin {"lock", "test", "wait", "write", "advance"}
               \/ pc'[p] \in {"lock", "test", "wait"} /\ msg'[p] \in Message
      PROVE  (ShapeAtRest /\ ShapeInside /\ RoomInside)'
  <2>1. ShapeAtRest'
    BY <1>c, <1>g DEF ShapeAtRest, ring
  <2>2. ShapeInside'
    BY <1>c, <1>g DEF ShapeInside, ring
  <2>3. RoomInside'
    BY <1>c, <1>g DEF RoomInside, ring
  <2> QED BY <2>1, <2>2, <2>3
<1>1. ASSUME NEW p \in Producers, ProducerStep(p)
      PROVE  (ShapeAtRest /\ ShapeInside /\ RoomInside)'
  <2>p. p \in Threads /\ p \in Workers /\ p \notin Consumers /\ p # target
    BY <1>b, <1>c DEF Workers, Calm
  <2>1. CASE GenerateMessage(p, "lock") /\ UNCHANGED countMsg
    BY <1>a, <1>b, <1>g, <2>p, <2>1 DEF GenerateMessage, Step
  <2>2. CASE GenerateRandSizeSpins(p) /\ UNCHANGED countMsg
    BY <1>a, <1>b, <1>g, <2>p, <2>2 DEF GenerateRandSizeSpins, Step
  <2>3. CASE WriteMessage(p) /\ UNCHANGED countMsg
    <3>1. pc[p] = "write" /\ Inside(p) /\ countMsg < sizeQueue /\ msg[p] \in Message
      BY <1>c, <2>3 DEF WriteMessage, Step, Inside, InsidePc, RoomInside
    <3>2. RingShape(buffer, head, tail, countMsg, sizeQueue)
      BY <1>e, <2>p, <3>1
    <3>3. /\ RingShape(buffer', head, tail, countMsg, sizeQueue)
          /\ ReadSlot(buffer', tail) = msg[p]
      <4>1. RingShape(WriteSlot(buffer, tail, msg[p]), head, tail, countMsg, sizeQueue)
        BY <1>a, <3>1, <3>2, WriteShape
      <4>2. ReadSlot(WriteSlot(buffer, tail, msg[p]), tail) = msg[p]
        BY <1>a, <3>1, <3>2 DEF RingShape, ReadSlot, WriteSlot
      <4> QED BY <2>3, <4>1, <4>2 DEF WriteMessage
    <3>4. \A u \in Threads : u # p => pc'[u] = pc[u] /\ pc[u] \notin InsidePc
      BY <1>a, <1>d, <2>p, <2>3, <3>1 DEF WriteMessage, Step, Inside
    <3>5. pc'[p] = "advance"
      BY <1>a, <2>p, <2>3 DEF WriteMessage, Step
    <3>6. ShapeAtRest' /\ ShapeInside'
      BY <1>b, <2>p, <2>3, <3>3, <3>4, <3>5
      DEF WriteMessage, ShapeAtRest, ShapeInside, InsidePc
    <3>7. RoomInside'
      BY <1>b, <1>c, <2>3, <3>1, <3>3, <3>4, <3>5 DEF WriteMessage, RoomInside, InsidePc
    <3> QED BY <3>6, <3>7
  <2>4. CASE TestRoom(p)
    <3>1. pc[p] = "test" /\ msg[p] \in Message /\ Inside(p)
      BY <1>c, <2>4 DEF TestRoom, CondWait, Step, RoomInside, Inside, InsidePc
    <3>2. CASE CondWait(p)
      BY <1>a, <1>b, <1>g, <2>p, <3>1, <3>2 DEF CondWait, Step
    <3>3. CASE countMsg < sizeQueue /\ Step(p, "test", "write")
                 /\ UNCHANGED <<ring, countMsg, mutex, msg, lists>>
      <4>1. \A u \in Threads : u # p => pc'[u] = pc[u]
        BY <1>a, <2>p, <3>3 DEF Step
      <4>2. pc'[p] = "write"
        BY <1>a, <2>p, <3>3 DEF Step
      <4>3. ShapeAtRest' /\ ShapeInside'
        BY <1>b, <1>c, <2>p, <3>3, <4>1, <4>2 DEF ShapeAtRest, ShapeInside, ring
      <4>4. RoomInside'
        BY <1>b, <1>c, <3>1, <3>3, <4>1, <4>2 DEF RoomInside, ring
      <4> QED BY <4>3, <4>4
    <3> QED BY <2>4, <3>2, <3>3 DEF TestRoom
  <2>5. CASE AdvanceTail(p)
    <3>1. /\ pc[p] = "advance" /\ Inside(p) /\ countMsg < sizeQueue
          /\ ReadSlot(buffer, tail) \in Message
      BY <1>c, <2>5 DEF AdvanceTail, StepAndSignal, Inside, InsidePc, RoomInside
    <3>2. tail' = Advance(tail, sizeQueue) /\ countMsg' = countMsg + 1
      BY <1>d, <2>p, <2>5, <3>1 DEF AdvanceTail, Raced
    <3>3. RingShape(buffer, head, tail', countMsg', sizeQueue)
      BY <1>a, <1>e, <2>p, <3>1, <3>2, PutShape
    <3>4. pc'[p] = "unlock" /\ \A u \in Threads :
             u # p => pc'[u] = pc[u] \/ (pc[u] = "wait" /\ pc'[u] = "lock")
      BY <1>a, <1>b, <2>p, <2>5, SignalEffect DEF AdvanceTail
    <3>5. \A u \in Threads : u # p => pc[u] \notin InsidePc
      BY <1>d, <2>p, <3>1 DEF Inside
    <3>6. ShapeAtRest' /\ ShapeInside'
      BY <1>b, <2>p, <2>5, <3>3, <3>4, <3>5
      DEF AdvanceTail, ShapeAtRest, ShapeInside, InsidePc
    <3>7. RoomInside'
      BY <1>b, <1>c, <2>5, <3>4, <3>5 DEF AdvanceTail, RoomInside, InsidePc
    <3> QED BY <3>6, <3>7
  <2>6. CASE UnlockProducer(p)
    BY <1>a, <1>b, <1>g, <2>p, <2>6 DEF UnlockProducer, Step
  <2> QED BY <1>1, <2>1, <2>2, <2>3, <2>4, <2>5, <2>6 DEF ProducerStep
<1>2. ASSUME NEW c \in Consumers, ConsumerStep(c)
      PROVE  (ShapeAtRest /\ ShapeInside /\ RoomInside)'
  <2>c. c \in Threads /\ c \in Workers /\ c \notin Producers /\ c # target
    BY <1>b, <1>c DEF Workers, Calm
  <2>1. CASE ReadMessage(c) /\ UNCHANGED countMsg
    <3>1. pc[c] = "read" /\ Inside(c) /\ countMsg > 0
      BY <1>c, <2>1 DEF ReadMessage, Step, Inside, InsidePc, ShapeInside
    <3>2. RingShape(buffer', Advance(head, sizeQueue), tail, countMsg - 1, sizeQueue)
      BY <1>a, <1>e, <2>c, <2>1, <3>1, TakeShape DEF ReadMessage
    <3>3. pc'[c] = "advance" /\ \A u \in Threads :
             u # c => pc'[u] = pc[u] /\ pc[u] \notin InsidePc
      BY <1>a, <1>d, <2>c, <2>1, <3>1 DEF ReadMessage, Step, Inside
    <3>4. ShapeAtRest' /\ ShapeInside'
      BY <1>b, <2>c, <2>1, <3>2, <3>3 DEF ReadMessage, ShapeAtRest, ShapeInside, InsidePc
    <3>5. \A p \in Producers : msg'[p] = msg[p] /\ pc'[p] = pc[p] /\ pc[p] \notin InsidePc
      BY <1>a, <1>b, <2>c, <2>1, <3>3 DEF ReadMessage, Workers
    <3>6. RoomInside'
      BY <1>c, <2>1, <3>5 DEF ReadMessage, RoomInside, InsidePc
    <3> QED BY <3>4, <3>6
  <2>2. CASE TestMessage(c)
    <3>1. pc[c] = "test" /\ Inside(c)
      BY <2>2 DEF TestMessage, CondWait, Step, Inside, InsidePc
    <3>2. CASE CondWait(c)
      <4>1. \A p \in Producers : pc'[p] = pc[p] /\ msg'[p] = msg[p]
        BY <1>a, <1>b, <2>c, <3>2 DEF CondWait, Step
      <4> QED BY <1>a, <1>b, <1>g, <2>c, <3>1, <3>2, <4>1 DEF CondWait, Step
    <3>3. CASE countMsg # 0 /\ Step(c, "test", "read")
                 /\ UNCHANGED <<ring, countMsg, mutex, msg, lists>>
      <4>1. pc'[c] = "read" /\ \A u \in Threads : u # c => pc'[u] = pc[u]
        BY <1>a, <2>c, <3>3 DEF Step
      <4>2. countMsg > 0
        BY <1>a, <1>e, <2>c, <3>1, <3>3 DEF RingShape
      <4>3. ShapeAtRest' /\ ShapeInside'
        BY <1>b, <1>c, <2>c, <3>1, <3>3, <4>1, <4>2 DEF ShapeAtRest, ShapeInside, ring
      <4>4. RoomInside'
        BY <1>b, <1>c, <2>c, <3>3, <4>1 DEF RoomInside, ring
      <4> QED BY <4>3, <4>4
    <3> QED BY <2>2, <3>2, <3>3 DEF TestMessage
  <2>3. CASE AdvanceHead(c)
    <3>1. pc[c] = "advance" /\ Inside(c)
      BY <2>3 DEF AdvanceHead, StepAndSignal, Inside, InsidePc
    <3>2. head' = Advance(head, sizeQueue)
      BY <1>d, <2>c, <2>3, <3>1 DEF AdvanceHead, Raced
    <3>3. RingShape(buffer, head', tail, countMsg - 1, sizeQueue)
      BY <1>c, <3>1, <3>2 DEF ShapeInside
    <3>4. pc'[c] = "unlock" /\ \A u \in Threads :
             u # c => pc'[u] = pc[u] \/ (pc[u] = "wait" /\ pc'[u] = "lock")
      BY <1>a, <1>b, <2>c, <2>3, SignalEffect DEF AdvanceHead
    <3>5. \A u \in Threads : u # c => pc[u] \notin InsidePc
      BY <1>d, <2>c, <3>1 DEF Inside
    <3>6. ShapeAtRest' /\ ShapeInside'
      BY <1>b, <2>c, <2>3, <3>3, <3>4, <3>5
      DEF AdvanceHead, ShapeAtRest, ShapeInside, InsidePc
    <3>7. RoomInside'
      BY <1>b, <1>c, <2>c, <2>3, <3>4, <3>5 DEF AdvanceHead, RoomInside, InsidePc
    <3> QED BY <3>6, <3>7
  <2>4. CASE UnlockConsumer(c)
    <3>1. pc[c] = "unlock" /\ Inside(c)
      BY <2>4 DEF UnlockConsumer, Step, Inside, InsidePc
    <3>2. countMsg' = countMsg - 1
      BY <1>d, <2>c, <2>4, <3>1 DEF UnlockConsumer, Raced
    <3>3. RingShape(buffer, head, tail, countMsg', sizeQueue)
      BY <1>c, <3>1, <3>2 DEF ShapeInside
    <3>4. pc'[c] = "out" /\ \A u \in Threads :
             u # c => pc'[u] = pc[u] /\ pc[u] \notin InsidePc
      BY <1>a, <1>d, <2>c, <2>4, <3>1 DEF UnlockConsumer, Step, Inside
    <3>5. ShapeAtRest' /\ ShapeInside'
      BY <1>b, <2>c, <2>4, <3>3, <3>4
      DEF UnlockConsumer, ShapeAtRest, ShapeInside, InsidePc, ring
    <3>6. RoomInside'
      BY <1>b, <1>c, <2>c, <2>4, <3>4 DEF UnlockConsumer, RoomInside, InsidePc, ring
    <3> QED BY <3>5, <3>6
  <2> QED BY <1>2, <2>1, <2>2, <2>3, <2>4 DEF ConsumerStep
<1>3. ASSUME NEW t \in Workers, CommonStep(t) \/ SpuriousWakeup(t)
      PROVE  (ShapeAtRest /\ ShapeInside /\ RoomInside)'
  <2>1. CASE PrintAndSleep(t, Start(t)) /\ UNCHANGED countMsg
    <3>1. \A p \in Producers : \/ pc'[p] = pc[p] /\ msg'[p] = msg[p]
                               \/ pc'[p] = "gen"
      BY <1>a, <1>b, <2>1 DEF PrintAndSleep, Start, Step, Workers
    <3> QED BY <1>a, <1>b, <1>g, <2>1, <3>1 DEF PrintAndSleep, Start, Step
  <2>2. CASE Lock(t)
    <3>1. \A p \in Producers : \/ pc'[p] = pc[p] /\ msg'[p] = msg[p]
                               \/ pc'[p] = "test" /\ msg'[p] \in Message
      BY <1>a, <1>b, <1>c, <2>2 DEF Lock, Step, RoomInside
    <3> QED BY <1>a, <1>b, <1>g, <2>2, <3>1 DEF Lock, Step
  <2>3. CASE SpuriousWakeup(t)
    <3>1. \A p \in Producers : \/ pc'[p] = pc[p] /\ msg'[p] = msg[p]
                               \/ pc'[p] = "lock" /\ msg'[p] \in Message
      BY <1>a, <1>b, <1>c, <2>3 DEF SpuriousWakeup, Step, RoomInside
    <3> QED BY <1>a, <1>b, <1>g, <2>3, <3>1 DEF SpuriousWakeup, Step
  <2>4. CASE Cancel(t) \/ Relock(t) \/ CleanupHandler(t)
    BY <1>b, <1>c, <2>4, ThreadAssumption
    DEF Cancel, Relock, CleanupHandler, Step, Calm, Workers
  <2> QED BY <1>3, <2>1, <2>2, <2>3, <2>4 DEF CommonStep
<1>4. CASE MainStep
  <2>1. CASE JoinThread
    BY <1>c, <2>1 DEF JoinThread, Calm
  <2>2. CASE UnlockMain /\ UNCHANGED countMsg
    BY <1>a, <1>b, <1>g, <2>2 DEF UnlockMain, Step
  <2> QED BY <1>4, <2>1, <2>2 DEF MainStep
<1>5. CASE Command
  <2>1. CASE CreateProducer /\ UNCHANGED countMsg
    BY <1>a, <1>b, <1>g, <2>1 DEF CreateProducer
  <2>2. CASE CreateConsumer("lock") /\ UNCHANGED countMsg
    BY <1>a, <1>b, <1>g, <2>2 DEF CreateConsumer
  <2>3. CASE Destroy
    BY <1>c, <2>3, DestroyCounts
  <2>4. CASE Quit /\ UNCHANGED countMsg
    BY <1>a, <1>b, <1>g, <2>4 DEF Quit, Step
  <2>5. CASE IncremSize
    <3>1. /\ \A u \in Threads : ~Inside(u)
          /\ RingShape(buffer, head, tail, countMsg, sizeQueue)
      BY <1>f, <2>5 DEF IncremSize
    <3>2. RingShape(buffer', head', tail, countMsg, sizeQueue + 1)
      BY <1>a, <2>5, <3>1, GrowShape DEF IncremSize, ExactGrow
    <3>3. pc'[Main] = "unlock" /\ \A u \in Threads :
             u # Main => pc'[u] = pc[u] \/ (pc[u] = "wait" /\ pc'[u] = "lock")
      BY <1>a, <1>b, <2>5, SignalEffect DEF IncremSize
    <3> QED BY <1>b, <1>c, <2>5, <3>1, <3>2, <3>3
            DEF IncremSize, ShapeAtRest, ShapeInside, RoomInside, Inside, InsidePc
  <2>6. CASE DiscrSize
    <3>1. /\ \A u \in Threads : ~Inside(u)
          /\ RingShape(buffer, head, tail, countMsg, sizeQueue)
      BY <1>f, <2>6 DEF DiscrSize
    <3>2. RingShape(buffer', head', tail', countMsg, sizeQueue')
      <4>1. CASE countMsg < sizeQueue /\ ShrinkRing
        BY <1>a, <2>6, <3>1, <4>1, ShrinkShape DEF DiscrSize, ExactShrink, ShrinkRing
      <4>2. CASE UNCHANGED ring
        BY <3>1, <4>2 DEF ring
      <4> QED BY <2>6, <4>1, <4>2 DEF DiscrSize
    <3>3. pc'[Main] = "unlock" /\ \A u \in Threads : u # Main => pc'[u] = pc[u]
      BY <1>a, <1>b, <2>6 DEF DiscrSize, Step
    <3> QED BY <1>b, <1>c, <2>6, <3>1, <3>2, <3>3
            DEF DiscrSize, ShapeAtRest, ShapeInside, RoomInside, Inside, InsidePc
  <2> QED BY <1>5, <2>1, <2>2, <2>3, <2>4, <2>5, <2>6 DEF Command, Menu
<1>6. CASE Exited \/ UNCHANGED vars
  BY <1>g, <1>6 DEF Exited, vars
<1> QED BY <1>1, <1>2, <1>3, <1>4, <1>5, <1>6 DEF Next

(* The ring is in shape whenever the mutex is free, for any number of      *)
(* threads, any queue size and any sequence of the resizes that are exact, *)
(* as long as no thread was cancelled.                                     *)
THEOREM RingStaysInShape ==
  ASSUME BoundaryResize = FALSE
  PROVE  Safety => []QueueShape
<1>1. MutualExclusion /\ RingInv => QueueShape
  <2> SUFFICES ASSUME MutualExclusion, RingInv, mutex = 0, cancels = 0
               PROVE  RingShape(buffer, head, tail, countMsg, sizeQueue)
    BY DEF QueueShape
  <2>1. \A c \in Consumers : pc[c] \notin {"advance", "unlock"}
    BY DEF MutualExclusion, OneInside, Inside, InsidePc, Threads, Workers
  <2> QED BY <2>1 DEF RingInv, ShapeAtRest
<1> QED BY <1>1, RingInvInit, RingInvStep, UncancelledInit, UncancelledStep,
           MutexExcludes, TypeCorrect, PTL DEF Safety

-----------------------------------------------------------------------------
(* Refinement.  The abstract queue starts at First: where head is, or will *)
(* be once the consumer inside has moved it; and holds Count messages:     *)
(* countMsg, or one less until the consumer inside has lowered it.  A      *)
(* consumer's step from "read" maps to Get and its step from "out" to      *)
(* Handled, a producer's from "advance" to Put, a resize that changes the  *)
(* ring to Grow or Shrink, and every other step stutters.  For Get and     *)
(* Handled, Handed says when a consumer's `msg` holds a message.           *)

First     == IF Taking THEN Advance(head, sizeQueue) ELSE head
Count     == IF Taking \/ Leaving THEN countMsg - 1 ELSE countMsg
Delivered == [c \in Consumers |-> msg[c]]

EmptyPc == {"none", "lock", "test", "wait", "read"}
TakenPc == {"advance", "unlock", "out"}
HandedTo(c) == /\ pc[c] \in EmptyPc => msg[c] = Junk
               /\ pc[c] \in TakenPc => msg[c] \in Message
Handed == cancels = 0 => \A c \in Consumers : HandedTo(c)

Maps == Abstract!Next \/ UNCHANGED Abstract!vars

LEMMA QueuedMeans == Queued = Contents(buffer, First, Count, sizeQueue)
  BY DEF Queued, First, Count

(* What it takes to be a step of the abstract queue, in terms of the view. *)
LEMMA MapsStutter ==
  UNCHANGED <<Queued, sizeQueue, Delivered>> => Maps
  BY DEF Maps, Abstract!vars, Delivered

LEMMA MapsPut ==
  ASSUME NEW m \in Message, Len(Queued) < sizeQueue, Queued' = Append(Queued, m),
         UNCHANGED <<sizeQueue, Delivered>>
  PROVE  Maps
  BY DEF Maps, Abstract!Next, Abstract!Put, Delivered

LEMMA MapsGet ==
  ASSUME NEW c \in Consumers, Queued # <<>>, msg[c] = Junk,
         Delivered' = [Delivered EXCEPT ![c] = Head(Queued)], Queued' = Tail(Queued),
         UNCHANGED sizeQueue
  PROVE  Maps
  BY DEF Maps, Abstract!Next, Abstract!Get, Delivered

LEMMA MapsHandled ==
  ASSUME NEW c \in Consumers, msg[c] # Junk,
         Delivered' = [Delivered EXCEPT ![c] = Junk],
         UNCHANGED <<Queued, sizeQueue>>
  PROVE  Maps
  BY DEF Maps, Abstract!Next, Abstract!Handled, Delivered

LEMMA MapsResize ==
  ASSUME \/ sizeQueue' = sizeQueue + 1
         \/ sizeQueue' = sizeQueue - 1 /\ Len(Queued) < sizeQueue,
         UNCHANGED <<Queued, Delivered>>
  PROVE  Maps
  BY DEF Maps, Abstract!Next, Abstract!Grow, Abstract!Shrink, Delivered

(* Seen from First, the ring is in shape at every moment.                  *)
LEMMA ViewInShape ==
  ASSUME RingInv, OneInside, cancels = 0
  PROVE  RingShape(buffer, First, tail, Count, sizeQueue)
<1>a. \A c \in Consumers : c \in Threads
  BY DEF Threads, Workers
<1>1. ~(Taking /\ Leaving)
  BY <1>a DEF Taking, Leaving, OneInside, Inside, InsidePc
<1>2. CASE Taking
  BY <1>2 DEF RingInv, ShapeInside, First, Count, Taking
<1>3. CASE ~Taking /\ Leaving
  BY <1>3 DEF RingInv, ShapeInside, First, Count, Leaving
<1>4. CASE ~Taking /\ ~Leaving
  BY <1>4 DEF RingInv, ShapeAtRest, First, Count, Taking, Leaving
<1> QED BY <1>2, <1>3, <1>4

LEMMA RefinementInit == Init => Abstract!Init /\ Handed
<1> SUFFICES ASSUME Init PROVE Abstract!Init /\ Handed
  OBVIOUS
<1>1. \A t \in Threads : pc[t] \in {"menu", "none"}
  BY DEF Init, QueueInit
<1>2. \A c \in Consumers : msg[c] = Junk /\ pc[c] \in {"menu", "none"}
  BY <1>1 DEF Init, QueueInit, Workers, Threads
<1>3. First = 0 /\ Count = 0 /\ sizeQueue \in Nat \ {0}
  BY <1>2, BoundAssumption DEF First, Count, Taking, Leaving, Init, QueueInit
<1>4. RingShape(buffer, First, tail, Count, sizeQueue) /\ tail \in Int
  BY <1>3 DEF Init, QueueInit, RingShape, Wrap
<1>5. Queued \in Seq(Message) /\ Len(Queued) = 0
  BY <1>3, <1>4, ContentsType, QueuedMeans
<1>6. Queued = <<>>
  BY <1>5, EmptySeq
<1>7. Abstract!Init
  BY <1>2, <1>3, <1>6 DEF Abstract!Init
<1> QED BY <1>2, <1>7 DEF Handed, HandedTo, TakenPc

(* A step that leaves the ring and every consumer's message alone, and     *)
(* takes no consumer into or out of the part where it moves the ring.      *)
LEMMA QuietStep ==
  ASSUME UNCHANGED <<ring, countMsg>>, Handed, cancels = 0,
         \A c \in Consumers :
           /\ msg'[c] = msg[c]
           /\ \/ pc'[c] = pc[c]
              \/ pc[c] \in EmptyPc /\ pc'[c] \in EmptyPc
  PROVE  Maps /\ Handed'
<1>1. (Taking' <=> Taking) /\ (Leaving' <=> Leaving)
  BY DEF Taking, Leaving, EmptyPc
<1>2. First' = First /\ Count' = Count
  BY <1>1 DEF First, Count, ring
<1>3. Queued' = Queued /\ sizeQueue' = sizeQueue
  <2>1. buffer' = buffer /\ sizeQueue' = sizeQueue
    BY DEF ring
  <2>2. Queued' = Contents(buffer', First', Count', sizeQueue')
    BY DEF Queued, First, Count
  <2> QED BY <1>2, <2>1, <2>2, QueuedMeans
<1>4. Delivered' = Delivered
  BY DEF Delivered
<1>5. \A c \in Consumers : HandedTo(c)'
  BY DEF Handed, HandedTo, EmptyPc, TakenPc
<1> QED BY <1>3, <1>4, <1>5, MapsStutter DEF Handed

LEMMA RefinementStep ==
  ASSUME BoundaryResize = FALSE
  PROVE  /\ TypeOK /\ Uncancelled /\ MutualExclusion /\ RingInv /\ Handed
         /\ [Next]_vars /\ cancels' = 0
         => Maps /\ Handed'
<1> SUFFICES ASSUME TypeOK, Uncancelled, MutualExclusion, RingInv, Handed,
                    [Next]_vars, cancels' = 0
             PROVE  Maps /\ Handed'
  OBVIOUS
<1>a. /\ pc \in [Threads -> Pc] /\ msg \in [Workers -> Slot]
      /\ sizeQueue \in Int /\ head \in Int /\ tail \in Int /\ countMsg \in Int
      /\ buffer \in [0 .. sizeQueue - 1 -> Slot]
  BY DEF TypeOK, QueueTypeOK
<1>b. /\ Producers \subseteq Threads /\ Consumers \subseteq Threads /\ Main \in Threads
      /\ Workers \subseteq Threads /\ Producers \cap Consumers = {}
      /\ Main \notin Producers /\ Main \notin Consumers
  BY ThreadAssumption DEF Threads, Workers
<1>c. /\ cancels = 0 /\ Calm /\ OneInside /\ ShapeInside /\ RoomInside
      /\ \A c \in Consumers : HandedTo(c)
  BY CancelsGrow DEF Uncancelled, MutualExclusion, RingInv, TypeOK, QueueTypeOK, Handed
<1>v. /\ RingShape(buffer, First, tail, Count, sizeQueue) /\ First \in Int /\ Count \in Int
      /\ Len(Queued) = Count
  <2>1. RingShape(buffer, First, tail, Count, sizeQueue) /\ First \in Int /\ Count \in Int
    BY <1>a, <1>c, ViewInShape DEF First, Count, Advance
  <2> QED BY <1>a, <2>1, ContentsType, QueuedMeans
<1>d. ASSUME NEW t \in Threads, Inside(t)
      PROVE  \A u \in Threads : u # t => ~Inside(u)
  BY <1>c, <1>d DEF OneInside
<1>1. ASSUME NEW p \in Producers, ProducerStep(p)
      PROVE  Maps /\ Handed'
  <2>p. p \in Threads /\ p \in Workers /\ p \notin Consumers
    BY <1>b DEF Workers
  <2>q. ASSUME NEW to, Step(p, pc[p], to) PROVE \A c \in Consumers : pc'[c] = pc[c]
    BY <1>a, <1>b, <2>p, <2>q DEF Step
  <2>1. CASE GenerateMessage(p, "lock") /\ UNCHANGED countMsg
    <3>1. \A c \in Consumers : pc'[c] = pc[c] /\ msg'[c] = msg[c]
      BY <1>a, <1>b, <2>p, <2>1 DEF GenerateMessage, Step
    <3> QED BY <1>c, <2>1, <3>1, QuietStep DEF GenerateMessage
  <2>2. CASE GenerateRandSizeSpins(p) /\ UNCHANGED countMsg
    <3>1. \A c \in Consumers : pc'[c] = pc[c] /\ msg'[c] = msg[c]
      BY <1>a, <1>b, <2>p, <2>2 DEF GenerateRandSizeSpins, Step
    <3> QED BY <1>c, <2>2, <3>1, QuietStep DEF GenerateRandSizeSpins
  <2>3. CASE TestRoom(p)
    <3>1. \A c \in Consumers : pc'[c] = pc[c] /\ msg'[c] = msg[c]
      BY <1>a, <1>b, <2>p, <2>3 DEF TestRoom, CondWait, Step
    <3> QED BY <1>c, <2>3, <3>1, QuietStep DEF TestRoom, CondWait
  <2>4. CASE UnlockProducer(p)
    <3>1. \A c \in Consumers : pc'[c] = pc[c] /\ msg'[c] = msg[c]
      BY <1>a, <1>b, <2>p, <2>4 DEF UnlockProducer, Step
    <3> QED BY <1>c, <2>4, <3>1, QuietStep DEF UnlockProducer
  <2>5. CASE WriteMessage(p) /\ UNCHANGED countMsg
    <3>1. /\ pc[p] = "write" /\ Inside(p) /\ countMsg < sizeQueue
          /\ \A c \in Consumers : pc'[c] = pc[c]
      BY <1>c, <2>q, <2>5 DEF WriteMessage, Step, Inside, InsidePc, RoomInside
    <3>2. ~Taking /\ ~Leaving /\ ~Taking' /\ ~Leaving'
      BY <1>b, <1>d, <2>p, <3>1 DEF Taking, Leaving, Inside, InsidePc
    <3>3. First = head /\ First' = head /\ Count = countMsg /\ Count' = countMsg
      BY <2>5, <3>2 DEF WriteMessage, First, Count
    <3>4. Queued' = Queued
      <4>1. Contents(WriteSlot(buffer, tail, msg[p]), head, countMsg, sizeQueue)
              = Contents(buffer, head, countMsg, sizeQueue)
        <5>1. /\ sizeQueue \in Int /\ head \in Int /\ tail \in Int /\ countMsg \in Int
              /\ RingShape(buffer, head, tail, countMsg, sizeQueue)
          BY <1>a, <1>v, <3>3
        <5> QED BY ONLY <3>1, <5>1, WriteContents
      <4> QED BY <2>5, <3>2, <4>1 DEF WriteMessage, Queued
    <3>5. Handed' /\ Delivered' = Delivered
      BY <1>c, <2>5, <3>1 DEF WriteMessage, Handed, HandedTo, Delivered
    <3> QED BY <2>5, <3>4, <3>5, MapsStutter DEF WriteMessage
  <2>6. CASE AdvanceTail(p)
    <3>1. /\ pc[p] = "advance" /\ Inside(p) /\ countMsg < sizeQueue
          /\ ReadSlot(buffer, tail) \in Message
      BY <1>c, <2>6 DEF AdvanceTail, StepAndSignal, Inside, InsidePc, RoomInside
    <3>2. \A c \in Consumers : pc'[c] = pc[c] \/ (pc[c] = "wait" /\ pc'[c] = "lock")
      BY <1>a, <1>b, <2>p, <2>6, SignalEffect DEF AdvanceTail
    <3>3. ~Taking /\ ~Leaving /\ ~Taking' /\ ~Leaving'
      BY <1>b, <1>d, <2>p, <3>1, <3>2 DEF Taking, Leaving, Inside, InsidePc
    <3>4. First = head /\ Count = countMsg /\ countMsg' = countMsg + 1
      BY <1>d, <2>p, <2>6, <3>1, <3>3 DEF AdvanceTail, Raced, First, Count
    <3>5. Queued' = Append(Queued, ReadSlot(buffer, tail))
      <4>1. Contents(buffer, head, countMsg + 1, sizeQueue)
              = Append(Contents(buffer, head, countMsg, sizeQueue), ReadSlot(buffer, tail))
        <5>1. /\ sizeQueue \in Int /\ head \in Int /\ tail \in Int /\ countMsg \in Int
              /\ RingShape(buffer, head, tail, countMsg, sizeQueue)
          BY <1>a, <1>v, <3>4
        <5> QED BY ONLY <3>1, <5>1, PutContents
      <4> QED BY <2>6, <3>3, <3>4, <4>1 DEF AdvanceTail, Queued
    <3>6. Handed' /\ Delivered' = Delivered
      BY <1>c, <2>6, <3>2 DEF AdvanceTail, Handed, HandedTo, EmptyPc, TakenPc, Delivered
    <3> QED BY <1>v, <2>6, <3>1, <3>4, <3>5, <3>6, MapsPut DEF AdvanceTail
  <2> QED BY <1>1, <2>1, <2>2, <2>3, <2>4, <2>5, <2>6 DEF ProducerStep
<1>2. ASSUME NEW c \in Consumers, ConsumerStep(c)
      PROVE  Maps /\ Handed'
  <2>c. c \in Threads /\ c \in Workers /\ c # target
    BY <1>b, <1>c DEF Workers, Calm
  <2>1. CASE ReadMessage(c) /\ UNCHANGED countMsg
    <3>1. pc[c] = "read" /\ Inside(c) /\ countMsg > 0
      BY <1>c, <2>1 DEF ReadMessage, Step, Inside, InsidePc, ShapeInside
    <3>2. pc'[c] = "advance" /\ \A u \in Consumers : u # c => pc'[u] = pc[u]
      BY <1>a, <1>b, <2>c, <2>1 DEF ReadMessage, Step
    <3>3. ~Taking /\ ~Leaving /\ Taking'
      BY <1>b, <1>d, <2>c, <3>1, <3>2 DEF Taking, Leaving, Inside, InsidePc
    <3>4. First = head /\ Count = countMsg
      BY <3>3 DEF First, Count
    <3>5. /\ sizeQueue \in Int /\ head \in Int /\ tail \in Int /\ countMsg \in Int
          /\ RingShape(buffer, head, tail, countMsg, sizeQueue)
      BY <1>a, <1>v, <3>4
    <3>6. Queued = Contents(buffer, head, countMsg, sizeQueue)
      BY <3>3 DEF Queued
    <3>7. Queued # <<>> /\ ReadSlot(buffer, head) = Head(Queued) /\ Queued' = Tail(Queued)
      <4>1. /\ Queued # <<>> /\ ReadSlot(buffer, head) = Head(Queued)
            /\ Contents(WriteSlot(buffer, head, Zero), Advance(head, sizeQueue), countMsg - 1,
                        sizeQueue) = Tail(Queued)
        BY ONLY <3>1, <3>5, <3>6, TakeContents
      <4> QED BY <2>1, <3>3, <4>1 DEF ReadMessage, Queued
    <3>8. ReadSlot(buffer, head) \in Message
      BY <3>1, <3>5, TakeShape
    <3>9. msg' = [msg EXCEPT ![c] = ReadSlot(buffer, head)] /\ msg[c] = Junk
      BY <1>c, <2>1, <3>1 DEF ReadMessage, HandedTo, EmptyPc
    <3>10. Delivered' = [Delivered EXCEPT ![c] = Head(Queued)]
      BY <1>a, <3>7, <3>9 DEF Delivered, Workers
    <3>11. Handed'
      BY <1>a, <1>c, <2>c, <3>2, <3>8, <3>9 DEF Handed, HandedTo, EmptyPc, TakenPc, Workers
    <3> QED BY <2>1, <3>7, <3>9, <3>10, <3>11, MapsGet DEF ReadMessage
  <2>2. CASE TestMessage(c)
    <3>1. /\ pc[c] = "test" /\ pc'[c] \in {"wait", "read"}
          /\ \A u \in Consumers : u # c => pc'[u] = pc[u]
      BY <1>a, <1>b, <2>c, <2>2 DEF TestMessage, CondWait, Step
    <3> QED BY <1>c, <2>2, <3>1, QuietStep DEF TestMessage, CondWait, EmptyPc
  <2>3. CASE AdvanceHead(c)
    <3>1. pc[c] = "advance" /\ Inside(c)
      BY <2>3 DEF AdvanceHead, StepAndSignal, Inside, InsidePc
    <3>2. head' = Advance(head, sizeQueue)
      BY <1>d, <2>c, <2>3, <3>1 DEF AdvanceHead, Raced
    <3>3. pc'[c] = "unlock" /\ \A u \in Consumers :
             u # c => pc'[u] = pc[u] \/ (pc[u] = "wait" /\ pc'[u] = "lock")
      BY <1>a, <1>b, <2>c, <2>3, SignalEffect DEF AdvanceHead
    <3>4. Taking /\ ~Taking' /\ Leaving'
      BY <1>b, <1>d, <2>c, <3>1, <3>3 DEF Taking, Leaving, Inside, InsidePc
    <3>5. Queued' = Queued /\ Delivered' = Delivered
      BY <2>3, <3>2, <3>4 DEF AdvanceHead, Queued, Delivered
    <3>6. Handed'
      BY <1>c, <2>3, <3>1, <3>3 DEF AdvanceHead, Handed, HandedTo, EmptyPc, TakenPc
    <3> QED BY <2>3, <3>5, <3>6, MapsStutter DEF AdvanceHead
  <2>4. CASE UnlockConsumer(c)
    <3>1. pc[c] = "unlock" /\ Inside(c)
      BY <2>4 DEF UnlockConsumer, Step, Inside, InsidePc
    <3>2. countMsg' = countMsg - 1
      BY <1>d, <2>c, <2>4, <3>1 DEF UnlockConsumer, Raced
    <3>3. pc'[c] = "out" /\ \A u \in Consumers : u # c => pc'[u] = pc[u]
      BY <1>a, <1>b, <2>c, <2>4 DEF UnlockConsumer, Step
    <3>4. ~Taking /\ Leaving /\ ~Taking' /\ ~Leaving'
      BY <1>b, <1>d, <2>c, <3>1, <3>3 DEF Taking, Leaving, Inside, InsidePc
    <3>5. Queued' = Queued /\ Delivered' = Delivered
      BY <2>4, <3>2, <3>4 DEF UnlockConsumer, Queued, Delivered, ring
    <3>6. Handed'
      BY <1>c, <2>4, <3>1, <3>3 DEF UnlockConsumer, Handed, HandedTo, EmptyPc, TakenPc
    <3> QED BY <2>4, <3>5, <3>6, MapsStutter DEF UnlockConsumer, ring
  <2> QED BY <1>2, <2>1, <2>2, <2>3, <2>4 DEF ConsumerStep
<1>3. ASSUME NEW t \in Workers, CommonStep(t) \/ SpuriousWakeup(t)
      PROVE  Maps /\ Handed'
  <2>t. t \in Threads /\ (t \in Producers \/ t \in Consumers)
    BY <1>b DEF Workers
  <2>1. CASE PrintAndSleep(t, Start(t)) /\ UNCHANGED countMsg
    <3>1. /\ pc[t] = "out" /\ \A u \in Workers : u # t => pc'[u] = pc[u] /\ msg'[u] = msg[u]
          /\ pc'[t] = Start(t) /\ msg'[t] = Junk
      BY <1>a, <1>b, <2>1 DEF PrintAndSleep, Step
    <3>2. CASE t \in Producers
      <4>1. \A c \in Consumers : pc'[c] = pc[c] /\ msg'[c] = msg[c]
        BY <1>b, <3>1, <3>2 DEF Workers
      <4> QED BY <1>c, <2>1, <4>1, QuietStep DEF PrintAndSleep
    <3>3. CASE t \in Consumers
      <4>1. pc'[t] = "lock" /\ msg[t] # Junk
        BY <1>b, <1>c, <3>1, <3>3, SlotAssumption DEF HandedTo, TakenPc, Start
      <4>2. (Taking' <=> Taking) /\ (Leaving' <=> Leaving)
        BY <3>1, <4>1 DEF Taking, Leaving, Workers
      <4>3. First' = First /\ Count' = Count
        BY <2>1, <4>2 DEF First, Count, PrintAndSleep, ring
      <4>4. Queued' = Queued /\ sizeQueue' = sizeQueue
        <5>1. buffer' = buffer /\ sizeQueue' = sizeQueue
          BY <2>1 DEF PrintAndSleep, ring
        <5>2. Queued' = Contents(buffer', First', Count', sizeQueue')
          BY DEF Queued, First, Count
        <5> QED BY <4>3, <5>1, <5>2, QueuedMeans
      <4>5. Delivered' = [Delivered EXCEPT ![t] = Junk]
        BY <3>1, <3>3 DEF Delivered, Workers
      <4>6. Handed'
        BY <1>c, <3>1, <4>1 DEF Handed, HandedTo, EmptyPc, TakenPc, Workers
      <4> QED BY <3>3, <4>1, <4>4, <4>5, <4>6, MapsHandled
    <3> QED BY <2>t, <3>2, <3>3
  <2>2. CASE Lock(t)
    <3>1. \A c \in Consumers : pc'[c] = pc[c] \/ (pc[c] = "lock" /\ pc'[c] = "test")
      BY <1>a, <1>b, <2>2 DEF Lock, Step
    <3> QED BY <1>c, <2>2, <3>1, QuietStep DEF Lock, EmptyPc
  <2>3. CASE SpuriousWakeup(t)
    <3>1. \A c \in Consumers : pc'[c] = pc[c] \/ (pc[c] = "wait" /\ pc'[c] = "lock")
      BY <1>a, <1>b, <2>3 DEF SpuriousWakeup, Step
    <3> QED BY <1>c, <2>3, <3>1, QuietStep DEF SpuriousWakeup, EmptyPc
  <2>4. CASE Cancel(t) \/ Relock(t) \/ CleanupHandler(t)
    BY <1>b, <1>c, <2>4, ThreadAssumption
    DEF Cancel, Relock, CleanupHandler, Step, Calm, Workers
  <2> QED BY <1>3, <2>1, <2>2, <2>3, <2>4 DEF CommonStep
<1>4. CASE MainStep
  <2>1. CASE JoinThread
    BY <1>c, <2>1 DEF JoinThread, Calm
  <2>2. CASE UnlockMain /\ UNCHANGED countMsg
    <3>1. \A c \in Consumers : pc'[c] = pc[c]
      BY <1>a, <1>b, <2>2 DEF UnlockMain, Step
    <3> QED BY <1>c, <2>2, <3>1, QuietStep DEF UnlockMain
  <2> QED BY <1>4, <2>1, <2>2 DEF MainStep
(* A resize meets nobody inside, and wakes at most a producer.             *)
<1>i. ASSUME mutex = 0, UNCHANGED <<msg, countMsg>>,
             \A c \in Consumers : pc'[c] = pc[c] \/ (pc[c] = "wait" /\ pc'[c] = "lock")
      PROVE  /\ First = head /\ Count = countMsg
             /\ Handed' /\ Delivered' = Delivered
             /\ Queued = Contents(buffer, head, countMsg, sizeQueue)
             /\ Queued' = Contents(buffer', head', countMsg, sizeQueue')
  <2>1. ~Taking /\ ~Leaving /\ ~Taking' /\ ~Leaving'
    BY <1>b, <1>c, <1>i DEF OneInside, Inside, InsidePc, Taking, Leaving
  <2>2. Handed' /\ Delivered' = Delivered
    BY <1>c, <1>i DEF Handed, HandedTo, EmptyPc, TakenPc, Delivered
  <2> QED BY <1>i, <2>1, <2>2 DEF First, Count, Queued
<1>5. CASE Command
  <2>1. CASE CreateProducer /\ UNCHANGED countMsg
    <3>1. \A c \in Consumers : pc'[c] = pc[c]
      BY <1>a, <1>b, <2>1 DEF CreateProducer
    <3> QED BY <1>c, <2>1, <3>1, QuietStep DEF CreateProducer
  <2>2. CASE CreateConsumer("lock") /\ UNCHANGED countMsg
    <3>1. \A c \in Consumers : pc'[c] = pc[c] \/ (pc[c] = "none" /\ pc'[c] = "lock")
      BY <1>a, <1>b, <2>2 DEF CreateConsumer
    <3> QED BY <1>c, <2>2, <3>1, QuietStep DEF CreateConsumer, EmptyPc
  <2>3. CASE Destroy
    BY <1>c, <2>3, DestroyCounts
  <2>4. CASE Quit /\ UNCHANGED countMsg
    <3>1. \A c \in Consumers : pc'[c] = pc[c]
      BY <1>a, <1>b, <2>4 DEF Quit, Step
    <3> QED BY <1>c, <2>4, <3>1, QuietStep DEF Quit
  <2>5. CASE IncremSize
    <3>1. /\ mutex = 0 /\ UNCHANGED <<msg, countMsg>>
          /\ (countMsg < sizeQueue \/ sizeQueue = 0)
          /\ tail' = tail /\ sizeQueue' = sizeQueue + 1
      BY <2>5 DEF IncremSize, ExactGrow
    <3>2. \A c \in Consumers : pc'[c] = pc[c] \/ (pc[c] = "wait" /\ pc'[c] = "lock")
      BY <1>a, <1>b, <2>5, SignalEffect DEF IncremSize
    <3>3. RingShape(buffer, head, tail, countMsg, sizeQueue)
      BY <1>i, <1>v, <3>1, <3>2
    <3>4. /\ head > tail => Contents(ShiftUp(Realloc(buffer, sizeQueue + 1), head), head + 1,
                                     countMsg, sizeQueue + 1)
                              = Contents(buffer, head, countMsg, sizeQueue)
          /\ head <= tail => Contents(Realloc(buffer, sizeQueue + 1), head, countMsg,
                                      sizeQueue + 1)
                               = Contents(buffer, head, countMsg, sizeQueue)
      BY <1>a, <3>1, <3>3, GrowContents
    <3>5. Queued' = Queued
      <4>1. CASE head > tail
        <5>1. /\ buffer' = ShiftUp(Realloc(buffer, sizeQueue + 1), head)
              /\ head' = head + 1
          BY <2>5, <4>1 DEF IncremSize
        <5> QED BY <1>i, <3>1, <3>2, <3>4, <4>1, <5>1
      <4>2. CASE head <= tail
        <5>1. buffer' = Realloc(buffer, sizeQueue + 1) /\ head' = head
          BY <1>a, <2>5, <4>2 DEF IncremSize
        <5> QED BY <1>i, <3>1, <3>2, <3>4, <4>2, <5>1
      <4> QED BY <1>a, <4>1, <4>2
    <3> QED BY <1>i, <3>1, <3>2, <3>5, MapsResize
  <2>6. CASE DiscrSize
    <3>1. \A c \in Consumers : pc'[c] = pc[c]
      BY <1>a, <1>b, <2>6 DEF DiscrSize, Step
    <3>2. mutex = 0 /\ UNCHANGED <<msg, countMsg>>
      BY <2>6 DEF DiscrSize
    <3>3. CASE countMsg < sizeQueue /\ ShrinkRing
      <4>1. RingShape(buffer, head, tail, countMsg, sizeQueue) /\ Count = countMsg
        BY <1>i, <1>v, <3>1, <3>2
      <4>2. ~(head < tail /\ tail - head = sizeQueue - 1)
        BY <2>6 DEF DiscrSize, ExactShrink
      <4>3. /\ buffer' = ShrunkBuffer(buffer, head, tail, sizeQueue)
            /\ head' = ShrunkHead(head, tail) /\ sizeQueue' = sizeQueue - 1
        BY <3>3 DEF ShrinkRing
      <4>4. Contents(buffer', head', countMsg, sizeQueue - 1)
              = Contents(buffer, head, countMsg, sizeQueue)
        BY <1>a, <3>3, <4>1, <4>2, <4>3, ShrinkContents
      <4>5. Queued' = Queued
        BY <1>i, <3>1, <3>2, <4>3, <4>4
      <4> QED BY <1>i, <1>v, <3>1, <3>2, <3>3, <4>1, <4>3, <4>5, MapsResize
    <3>4. CASE UNCHANGED ring
      BY <1>c, <3>1, <3>2, <3>4, QuietStep
    <3> QED BY <2>6, <3>3, <3>4 DEF DiscrSize
  <2> QED BY <1>5, <2>1, <2>2, <2>3, <2>4, <2>5, <2>6 DEF Command, Menu
<1>6. CASE Exited \/ UNCHANGED vars
  BY <1>c, <1>6, QuietStep DEF Exited, vars
<1> QED BY <1>1, <1>2, <1>3, <1>4, <1>5, <1>6 DEF Next

(* Until the first thread is cancelled the program is a first-in first-out *)
(* bounded queue, for any number of threads, any size and any sequence of  *)
(* the resizes that are exact: no message is lost, duplicated, reordered   *)
(* or handed to two consumers.                                             *)
THEOREM QueueUntilCancelled ==
  ASSUME BoundaryResize = FALSE
  PROVE  Safety => Abstract!Init /\ [][cancels' = 0 => Abstract!Next \/ UNCHANGED Abstract!vars]_vars
<1>1. /\ TypeOK /\ Uncancelled /\ MutualExclusion /\ RingInv /\ Handed /\ [Next]_vars
      => [cancels' = 0 => Abstract!Next \/ UNCHANGED Abstract!vars]_vars
  BY RefinementStep DEF Maps
<1>2. Handed /\ TypeOK /\ Uncancelled /\ MutualExclusion /\ RingInv /\ [Next]_vars
      => Handed'
  BY RefinementStep DEF Handed
<1> QED BY <1>1, <1>2, RefinementInit, RingInvInit, RingInvStep, UncancelledInit,
           UncancelledStep, MutexExcludes, TypeCorrect, PTL DEF Safety

NoneCancelled == cancels = 0

(* So a program in which p- and c- are never pressed implements the        *)
(* abstract queue.                                                         *)
THEOREM ImplementsBoundedQueue ==
  ASSUME BoundaryResize = FALSE, MaxCancels = 0
  PROVE  Safety => ImplementsQueue
<1>1. Init => NoneCancelled
  BY DEF Init, QueueInit, NoneCancelled
<1>2. NoneCancelled /\ [Next]_vars => NoneCancelled'
  <2> SUFFICES ASSUME cancels = 0, [Next]_vars PROVE cancels' = 0
    BY DEF NoneCancelled
  <2>1. ~Destroy
    BY DestroyCounts
  <2> QED BY <2>1 DEF Next, ProducerStep, ConsumerStep, CommonStep, MainStep, Command, Menu,
    Exited, GenerateMessage, GenerateRandSizeSpins, WriteMessage, TestRoom, CondWait,
    AdvanceTail, UnlockProducer, ReadMessage, TestMessage, AdvanceHead, UnlockConsumer,
    PrintAndSleep, Lock, Cancel, Relock, CleanupHandler, SpuriousWakeup, JoinThread,
    UnlockMain, CreateProducer, CreateConsumer, Quit, IncremSize, DiscrSize, vars, lists
<1>3. /\ NoneCancelled'
      /\ [cancels' = 0 => Abstract!Next \/ UNCHANGED Abstract!vars]_vars
      => [Abstract!Next]_(Abstract!vars)
  BY DEF NoneCancelled, Abstract!vars, vars, ring, Queued, Taking, Leaving
<1>4. Safety => Abstract!Init /\ [][cancels' = 0 => Abstract!Next \/ UNCHANGED Abstract!vars]_vars
  BY QueueUntilCancelled
<1>5. Safety => []NoneCancelled
  BY <1>1, <1>2, PTL DEF Safety
<1> QED BY <1>3, <1>4, <1>5, PTL DEF ImplementsQueue, Abstract!Spec
=============================================================================
