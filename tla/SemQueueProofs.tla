--------------------------- MODULE SemQueueProofs ---------------------------
(***************************************************************************)
(* Theorems about SemQueue (Lab5/lab5_1.c), for every number of threads,   *)
(* every size of the queue and every number of cancellations.              *)
(***************************************************************************)
EXTENDS SemQueue, MessageQueueProofs

-----------------------------------------------------------------------------
(* Type correctness.                                                       *)

LEMMA TypeInit == Init => TypeOK
  BY ThreadAssumption, BoundAssumption
  DEF Init, QueueInit, TypeOK, QueueTypeOK, Pc, Slot, Threads, Workers

LEMMA TypeStep == TypeOK /\ [Next]_vars => TypeOK'
<1> SUFFICES ASSUME TypeOK, [Next]_vars PROVE TypeOK'
  OBVIOUS
<1> USE DEF TypeOK, QueueTypeOK
<1>a. Message \cup {Zero, Junk} \subseteq Slot
  BY DEF Slot
<1>b. Workers \subseteq Threads /\ Main \in Threads
  BY DEF Threads
<1>r. /\ sizeQueue \in Int /\ sizeQueue + 1 \in Int /\ head \in Int /\ tail \in Int
      /\ buffer \in [0 .. sizeQueue - 1 -> Slot]
  OBVIOUS
<1>1. ASSUME NEW p \in Producers,
             \/ /\ GenerateMessage(p, "wait") \/ GenerateRandSizeSpins(p) \/ WriteMessage(p)
                /\ UNCHANGED sems
             \/ SemWaitEmpty(p) \/ AdvanceTail(p)
      PROVE  TypeOK'
  <2>p. p \in Workers
    BY DEF Workers
  <2>1. CASE GenerateMessage(p, "wait") /\ UNCHANGED sems
    BY <1>a, <1>b, <2>p, <2>1 DEF GenerateMessage, Step, ring, sems, lists, Pc
  <2>2. CASE GenerateRandSizeSpins(p) /\ UNCHANGED sems
    BY <1>b, <2>p, <2>2 DEF GenerateRandSizeSpins, Step, ring, sems, lists, Pc
  <2>3. CASE WriteMessage(p) /\ UNCHANGED sems
    <3>1. buffer' \in [0 .. sizeQueue - 1 -> Slot]
      BY <2>p, <2>3, WriteSlotType DEF WriteMessage
    <3> QED BY <1>b, <2>p, <2>3, <3>1 DEF WriteMessage, Step, sems, lists, Pc
  <2>4. CASE SemWaitEmpty(p)
    BY <1>b, <2>p, <2>4 DEF SemWaitEmpty, Step, ring, lists, Pc
  <2>5. CASE AdvanceTail(p)
    <3>1. tail' \in Int
      BY <2>5 DEF AdvanceTail, Raced, Advance
    <3> QED BY <1>b, <2>p, <2>5, <3>1 DEF AdvanceTail, Step, lists, Pc
  <2> QED BY <1>1, <2>1, <2>2, <2>3, <2>4, <2>5
<1>2. ASSUME NEW c \in Consumers,
             \/ ReadMessage(c) /\ UNCHANGED sems
             \/ SemWaitFull(c) \/ PrintAfterSem(c) \/ AdvanceHead(c)
      PROVE  TypeOK'
  <2>c. c \in Workers
    BY DEF Workers
  <2>1. CASE ReadMessage(c) /\ UNCHANGED sems
    <3>1. buffer' \in [0 .. sizeQueue - 1 -> Slot]
      BY <1>a, <2>1, WriteSlotType DEF ReadMessage
    <3>2. msg' \in [Workers -> Slot]
      BY <2>1, ReadSlotType DEF ReadMessage
    <3> QED BY <1>b, <2>c, <2>1, <3>1, <3>2 DEF ReadMessage, Step, sems, lists, Pc
  <2>2. CASE SemWaitFull(c)
    BY <1>b, <2>c, <2>2 DEF SemWaitFull, Step, ring, lists, Pc
  <2>3. CASE PrintAfterSem(c)
    BY <1>b, <2>c, <2>3 DEF PrintAfterSem, Step, ring, sems, lists, Pc
  <2>4. CASE AdvanceHead(c)
    <3>1. head' \in Int
      BY <2>4 DEF AdvanceHead, Raced, Advance
    <3> QED BY <1>b, <2>c, <2>4, <3>1 DEF AdvanceHead, Step, lists, Pc
  <2> QED BY <1>2, <2>1, <2>2, <2>3, <2>4
<1>3. ASSUME NEW t \in Workers,
             \/ PrintAndSleep(t, Start(t)) /\ UNCHANGED sems
             \/ Lock(t) \/ Unlock(t) \/ Cancel(t) \/ CleanupHandler(t)
      PROVE  TypeOK'
  <2>1. CASE PrintAndSleep(t, Start(t)) /\ UNCHANGED sems
    BY <1>a, <1>b, <2>1 DEF PrintAndSleep, Start, Step, ring, sems, lists, Pc
  <2>2. CASE Lock(t) \/ Unlock(t) \/ Cancel(t)
    BY <1>b, <2>2 DEF Lock, Unlock, Cancel, Step, ring, sems, lists, Pc
  <2>3. CASE CleanupHandler(t)
    BY <1>a, <1>b, <2>3 DEF CleanupHandler, Step, ring, sems, lists, Pc
  <2> QED BY <1>3, <2>1, <2>2, <2>3
<1>4. CASE (Menu("wait") \/ JoinThread \/ UnlockMain) /\ UNCHANGED sems
  <2>1. CASE CreateProducer /\ UNCHANGED sems
    <3>1. PICK p \in Producers : /\ pc' = [pc EXCEPT ![p] = "gen"]
                                 /\ prodIdMas' = Append(prodIdMas, p)
      BY <2>1 DEF CreateProducer
    <3>2. prodIdMas' \in Seq(Producers)
      BY <3>1, AppendProperties
    <3> QED BY <1>b, <2>1, <3>1, <3>2 DEF CreateProducer, ring, sems, Pc, Workers
  <2>2. CASE CreateConsumer("wait") /\ UNCHANGED sems
    <3>1. PICK c \in Consumers : /\ pc' = [pc EXCEPT ![c] = "wait"]
                                 /\ consIdMas' = Append(consIdMas, c)
      BY <2>2 DEF CreateConsumer
    <3>2. consIdMas' \in Seq(Consumers)
      BY <3>1, AppendProperties
    <3> QED BY <1>b, <2>2, <3>1, <3>2 DEF CreateConsumer, ring, sems, Pc, Workers
  <2>3. CASE Destroy /\ UNCHANGED sems
    <3>1. PICK to \in {"join", "menu", "exited"} : Step(Main, "menu", to)
      BY <2>3, DestroySteps
    <3>2. target' \in Threads /\ UNCHANGED <<ring, mutex, msg, prodIdMas, consIdMas>>
          /\ cancels' = cancels + 1
      BY <1>b, <2>3, DestroySteps, DestroyTypes, DestroyCounts
    <3> QED BY <1>b, <2>3, <3>1, <3>2 DEF Step, ring, sems, Pc
  <2>4. CASE (Quit \/ UnlockMain) /\ UNCHANGED sems
    BY <1>b, <2>4 DEF Quit, UnlockMain, Step, ring, sems, lists, Pc
  <2>5. CASE JoinThread /\ UNCHANGED sems
    <3>1. prodIdMas' \in Seq(Producers) /\ consIdMas' \in Seq(Consumers)
      BY <2>5, WithoutType DEF JoinThread
    <3> QED BY <1>b, <2>5, <3>1 DEF JoinThread, ring, sems, Pc
  <2> QED BY <1>4, <2>1, <2>2, <2>3, <2>4, <2>5 DEF Menu
<1>5. CASE IncremSize
  <2>1. Realloc(buffer, sizeQueue + 1) \in [0 .. (sizeQueue + 1) - 1 -> Slot]
    BY ONLY <1>r, ReallocType
  <2>2. ShiftUp(Realloc(buffer, sizeQueue + 1), tail) \in [0 .. (sizeQueue + 1) - 1 -> Slot]
    BY ONLY <1>r, <2>1, ShiftUpType
  <2>3. buffer' \in [0 .. sizeQueue' - 1 -> Slot] /\ tail' \in Int
    BY <1>5, <2>1, <2>2 DEF IncremSize
  <2> QED BY <1>b, <1>5, <2>3 DEF IncremSize, Step, lists, Pc
<1>6. CASE DiscrSize
  <2>1. ShrunkBuffer(buffer, head, tail, sizeQueue) \in [0 .. (sizeQueue - 1) - 1 -> Slot]
    BY ONLY <1>r, ShrunkBufferType
  <2>2. ShrinkRing => /\ buffer' \in [0 .. sizeQueue' - 1 -> Slot]
                      /\ head' \in Int /\ tail' \in Int /\ sizeQueue' \in Int
    BY <1>r, <2>1 DEF ShrinkRing, ShrunkHead, ShrunkTail
  <2> QED BY <1>b, <1>6, <2>2 DEF DiscrSize, Step, ring, sems, lists, Pc
<1>7. CASE TakeEmptyToken
  BY <1>b, <1>7 DEF TakeEmptyToken, Step, ring, lists, Pc
<1>8. CASE Exited \/ UNCHANGED vars
  BY <1>8 DEF Exited, vars, ring, sems, lists
<1> QED BY <1>1, <1>2, <1>3, <1>4, <1>5, <1>6, <1>7, <1>8 DEF Next

(* Every reachable state is well typed: the buffer has sizeQueue slots     *)
(* after any sequence of resizes, and no semaphore is ever negative.       *)
THEOREM TypeCorrect == Spec => []TypeOK
  BY TypeInit, TypeStep, PTL DEF Spec

-----------------------------------------------------------------------------
(* Mutual exclusion.  A step either leaves the set of threads inside the   *)
(* critical section alone, or lets one in through a free mutex, or lets    *)
(* one out, or is the cleanup handler of a cancelled thread.               *)

Stays      == mutex' = mutex /\ \A t \in Threads : Inside(t)' <=> Inside(t)
Enters(s)  == /\ mutex = 0 /\ mutex' = 1
              /\ \A t \in Threads : Inside(t)' <=> (Inside(t) \/ t = s)
Leaves(s)  == /\ Inside(s) /\ mutex' = 0
              /\ \A t \in Threads : Inside(t)' <=> (Inside(t) /\ t # s)
Cleans(s)  == pc[s] = "cleanup" /\ mutex' = 0

StepKind == \/ Stays
            \/ \E s \in Threads : Enters(s) \/ Leaves(s) \/ Cleans(s)

(* No thread is being cancelled, nor where only a cancelled thread is.     *)
Calm == /\ target = Main /\ pc[Main] # "join"
        /\ \A t \in Threads : pc[t] \notin {"cleanup", "dead"}

Uncancelled == cancels = 0 => Calm

LEMMA StepKinds == TypeOK /\ [Next]_vars => StepKind
<1> SUFFICES ASSUME TypeOK, [Next]_vars PROVE StepKind
  OBVIOUS
<1> USE DEF Inside, InsidePc
<1>a. pc \in [Threads -> Pc]
  BY DEF TypeOK, QueueTypeOK
<1>b. Workers \subseteq Threads /\ Main \in Threads
  BY DEF Threads
<1>c. ASSUME NEW s \in Threads, NEW from, NEW to, Step(s, from, to), mutex' = mutex,
             (from \in InsidePc) = (to \in InsidePc)
      PROVE  StepKind
  BY <1>a, <1>c DEF Step, StepKind, Stays
<1>d. ASSUME NEW s \in Threads, NEW from, NEW to, Step(s, from, to),
             mutex = 0, mutex' = 1, to \in InsidePc
      PROVE  StepKind
  BY <1>a, <1>d DEF Step, StepKind, Enters
<1>e. ASSUME NEW s \in Threads, NEW from, NEW to, Step(s, from, to), mutex' = 0,
             from \in InsidePc, to \notin InsidePc
      PROVE  StepKind
  BY <1>a, <1>e DEF Step, StepKind, Leaves
<1>1. ASSUME NEW p \in Producers,
             \/ /\ GenerateMessage(p, "wait") \/ GenerateRandSizeSpins(p) \/ WriteMessage(p)
                /\ UNCHANGED sems
             \/ SemWaitEmpty(p) \/ AdvanceTail(p)
      PROVE  StepKind
  <2>p. p \in Threads
    BY DEF Workers, Threads
  <2>1. CASE GenerateMessage(p, "wait") \/ GenerateRandSizeSpins(p)
    BY <1>c, <2>p, <2>1 DEF GenerateMessage, GenerateRandSizeSpins
  <2>2. CASE WriteMessage(p)
    BY <1>c, <2>p, <2>2 DEF WriteMessage
  <2>3. CASE SemWaitEmpty(p) \/ AdvanceTail(p)
    BY <1>c, <2>p, <2>3 DEF SemWaitEmpty, AdvanceTail
  <2> QED BY <1>1, <2>1, <2>2, <2>3
<1>2. ASSUME NEW c \in Consumers,
             \/ ReadMessage(c) /\ UNCHANGED sems
             \/ SemWaitFull(c) \/ PrintAfterSem(c) \/ AdvanceHead(c)
      PROVE  StepKind
  <2>c. c \in Threads
    BY DEF Workers, Threads
  <2>1. CASE ReadMessage(c) \/ AdvanceHead(c)
    BY <1>c, <2>c, <2>1 DEF ReadMessage, AdvanceHead
  <2>2. CASE SemWaitFull(c) \/ PrintAfterSem(c)
    BY <1>c, <2>c, <2>2 DEF SemWaitFull, PrintAfterSem
  <2> QED BY <1>2, <2>1, <2>2
<1>3. ASSUME NEW t \in Workers,
             \/ PrintAndSleep(t, Start(t)) /\ UNCHANGED sems
             \/ Lock(t) \/ Unlock(t) \/ Cancel(t) \/ CleanupHandler(t)
      PROVE  StepKind
  <2>1. CASE PrintAndSleep(t, Start(t))
    BY <1>b, <1>c, <2>1 DEF PrintAndSleep, Start
  <2>2. CASE Lock(t)
    BY <1>b, <1>d, <2>2 DEF Lock
  <2>3. CASE Unlock(t)
    BY <1>b, <1>e, <2>3 DEF Unlock
  <2>4. CASE Cancel(t)
    BY <1>b, <1>c, <2>4 DEF Cancel
  <2>5. CASE CleanupHandler(t)
    BY <1>b, <2>5 DEF CleanupHandler, Step, StepKind, Cleans
  <2> QED BY <1>3, <2>1, <2>2, <2>3, <2>4, <2>5
<1>4. CASE (Menu("wait") \/ JoinThread \/ UnlockMain) /\ UNCHANGED sems
  <2>1. CASE CreateProducer \/ CreateConsumer("wait")
    <3>1. \A t \in Threads : Inside(t)' <=> Inside(t)
      BY <1>a, <2>1 DEF CreateProducer, CreateConsumer
    <3> QED BY <2>1, <3>1 DEF CreateProducer, CreateConsumer, StepKind, Stays
  <2>2. CASE Destroy \/ Quit
    BY <1>b, <1>c, <2>2, DestroySteps DEF Quit
  <2>3. CASE JoinThread
    <3>1. \A t \in Threads : Inside(t)' <=> Inside(t)
      BY <1>a, <1>b, <2>3 DEF JoinThread, TypeOK, QueueTypeOK
    <3> QED BY <2>3, <3>1 DEF JoinThread, StepKind, Stays
  <2>4. CASE UnlockMain
    BY <1>b, <1>e, <2>4 DEF UnlockMain
  <2> QED BY <1>4, <2>1, <2>2, <2>3, <2>4 DEF Menu
<1>5. CASE IncremSize \/ DiscrSize
  BY <1>b, <1>d, <1>5 DEF IncremSize, DiscrSize
<1>6. CASE TakeEmptyToken
  BY <1>b, <1>c, <1>6 DEF TakeEmptyToken
<1>7. CASE Exited \/ UNCHANGED vars
  BY <1>7 DEF Exited, vars, StepKind, Stays
<1> QED BY <1>1, <1>2, <1>3, <1>4, <1>5, <1>6, <1>7 DEF Next

(* As long as no thread was cancelled, no thread is where cancellation     *)
(* leads.                                                                  *)
LEMMA UncancelledInit == Init => Uncancelled
  BY DEF Init, QueueInit, Uncancelled, Calm, Threads

LEMMA CancelsGrow == [Next]_vars => cancels' = cancels \/ cancels' = cancels + 1
  BY DestroyCounts DEF Next, Menu, Exited, GenerateMessage, GenerateRandSizeSpins, WriteMessage,
    SemWaitEmpty, AdvanceTail, ReadMessage, SemWaitFull, PrintAfterSem, AdvanceHead,
    PrintAndSleep, Lock, Unlock, Cancel, CleanupHandler, JoinThread, UnlockMain,
    CreateProducer, CreateConsumer, Quit, IncremSize, DiscrSize,
    TakeEmptyToken, vars, lists

LEMMA UncancelledStep == TypeOK /\ Uncancelled /\ [Next]_vars => Uncancelled'
<1> SUFFICES ASSUME TypeOK, Uncancelled, [Next]_vars, cancels' = 0
             PROVE  Calm'
  BY DEF Uncancelled
<1>a. pc \in [Threads -> Pc] /\ cancels \in Nat
  BY DEF TypeOK, QueueTypeOK
<1>b. Workers \subseteq Threads /\ Main \in Threads /\ Main \notin Workers
  BY ThreadAssumption DEF Threads, Workers
<1>0. cancels = 0
  BY <1>a, CancelsGrow
<1>c. Calm
  BY <1>0 DEF Uncancelled
<1>d. ASSUME NEW s \in Threads, NEW from, NEW to, Step(s, from, to), target' = target,
             to \notin {"cleanup", "dead", "join"}
      PROVE  Calm'
  BY <1>a, <1>c, <1>d DEF Step, Calm
<1>1. ASSUME NEW p \in Producers,
             \/ /\ GenerateMessage(p, "wait") \/ GenerateRandSizeSpins(p) \/ WriteMessage(p)
                /\ UNCHANGED sems
             \/ SemWaitEmpty(p) \/ AdvanceTail(p)
      PROVE  Calm'
  <2>p. p \in Threads
    BY DEF Workers, Threads
  <2>1. CASE GenerateMessage(p, "wait") \/ GenerateRandSizeSpins(p) \/ WriteMessage(p)
    BY <1>d, <2>p, <2>1 DEF GenerateMessage, GenerateRandSizeSpins, WriteMessage, lists
  <2>2. CASE SemWaitEmpty(p) \/ AdvanceTail(p)
    BY <1>d, <2>p, <2>2 DEF SemWaitEmpty, AdvanceTail, lists
  <2> QED BY <1>1, <2>1, <2>2
<1>2. ASSUME NEW c \in Consumers,
             \/ ReadMessage(c) /\ UNCHANGED sems
             \/ SemWaitFull(c) \/ PrintAfterSem(c) \/ AdvanceHead(c)
      PROVE  Calm'
  <2>c. c \in Threads
    BY DEF Workers, Threads
  <2>1. CASE ReadMessage(c) \/ AdvanceHead(c)
    BY <1>d, <2>c, <2>1 DEF ReadMessage, AdvanceHead, lists
  <2>2. CASE SemWaitFull(c) \/ PrintAfterSem(c)
    BY <1>d, <2>c, <2>2 DEF SemWaitFull, PrintAfterSem, lists
  <2> QED BY <1>2, <2>1, <2>2
<1>3. ASSUME NEW t \in Workers,
             \/ PrintAndSleep(t, Start(t)) /\ UNCHANGED sems
             \/ Lock(t) \/ Unlock(t) \/ Cancel(t) \/ CleanupHandler(t)
      PROVE  Calm'
  <2>1. CASE PrintAndSleep(t, Start(t))
    BY <1>b, <1>d, <2>1 DEF PrintAndSleep, Start, lists
  <2>2. CASE Lock(t) \/ Unlock(t)
    BY <1>b, <1>d, <2>2 DEF Lock, Unlock, lists
  <2>3. CASE Cancel(t) \/ CleanupHandler(t)
    BY <1>b, <1>c, <2>3 DEF Cancel, CleanupHandler, Step, Calm
  <2> QED BY <1>3, <2>1, <2>2, <2>3
<1>4. CASE (Menu("wait") \/ JoinThread \/ UnlockMain) /\ UNCHANGED sems
  <2>1. CASE CreateProducer \/ CreateConsumer("wait")
    BY <1>a, <1>b, <1>c, <2>1 DEF CreateProducer, CreateConsumer, Calm
  <2>2. CASE Destroy
    BY <1>0, <2>2, DestroyCounts
  <2>3. CASE JoinThread
    BY <1>c, <2>3 DEF JoinThread, Calm
  <2>4. CASE Quit \/ UnlockMain
    BY <1>b, <1>d, <2>4 DEF Quit, UnlockMain, lists
  <2> QED BY <1>4, <2>1, <2>2, <2>3, <2>4 DEF Menu
<1>5. CASE IncremSize \/ DiscrSize \/ TakeEmptyToken
  BY <1>b, <1>d, <1>5 DEF IncremSize, DiscrSize, TakeEmptyToken, lists
<1>6. CASE Exited \/ UNCHANGED vars
  BY <1>c, <1>6 DEF Exited, vars, lists, Calm
<1> QED BY <1>1, <1>2, <1>3, <1>4, <1>5, <1>6 DEF Next

LEMMA ExclusionStep ==
  TypeOK /\ Uncancelled /\ MutualExclusion /\ [Next]_vars => MutualExclusion'
<1> SUFFICES ASSUME TypeOK, Uncancelled, MutualExclusion, [Next]_vars, cancels' = 0
             PROVE  OneInside'
  BY DEF MutualExclusion
<1>1. cancels = 0 /\ Calm /\ OneInside
  BY CancelsGrow DEF Uncancelled, MutualExclusion, TypeOK, QueueTypeOK
<1>2. CASE Stays
  BY <1>1, <1>2 DEF Stays, OneInside
<1>3. ASSUME NEW s \in Threads, Enters(s) PROVE OneInside'
  BY <1>1, <1>3 DEF Enters, OneInside
<1>4. ASSUME NEW s \in Threads, Leaves(s) PROVE OneInside'
  BY <1>1, <1>4 DEF Leaves, OneInside
<1>5. ASSUME NEW s \in Threads, Cleans(s) PROVE OneInside'
  BY <1>1, <1>5 DEF Cleans, Calm
<1> QED BY StepKinds, <1>2, <1>3, <1>4, <1>5 DEF StepKind

(* Mutual exclusion, for any number of threads and any interleaving, as    *)
(* long as no thread was cancelled.                                        *)
THEOREM MutexExcludes == Spec => []MutualExclusion
<1>1. Init => MutualExclusion
  BY DEF Init, QueueInit, MutualExclusion, OneInside, Inside, InsidePc
<1> QED BY <1>1, UncancelledInit, UncancelledStep, ExclusionStep, TypeCorrect, PTL DEF Spec

-----------------------------------------------------------------------------
(* The tokens.  TokenInv is TokensConserved with names for its parts; it   *)
(* is inductive with Uncancelled, because only Cancel drops a token, and   *)
(* that needs a cancellation.                                              *)

HoldPc == {"after", "lock", "write", "read", "advance"}
Held   == CountAt(Workers, HoldPc)
Owed   == IF pc[Main] = "shrinkWait" THEN 1 ELSE 0

TokenInv == /\ empty + full + Held <= sizeQueue + Owed
            /\ cancels = 0 => empty + full + Held = sizeQueue + Owed

LEMMA TokenInvMeans == TokenInv <=> TokensConserved
<1>1. {t \in Workers : Holding(t)} = {t \in Workers : pc[t] \in HoldPc}
  BY DEF Holding, HoldPc
<1> QED BY <1>1 DEF TokenInv, TokensConserved, Held, CountAt, Owed

(* What one thread's step does to the number of tokens held and owed.      *)
LEMMA HeldStep ==
  ASSUME TypeOK, NEW t \in Threads, NEW from, NEW to, Step(t, from, to)
  PROVE  /\ Held \in Nat /\ Owed \in Nat
         /\ Held' = Held + (IF t \in Workers /\ to \in HoldPc THEN 1 ELSE 0)
                         - (IF t \in Workers /\ from \in HoldPc THEN 1 ELSE 0)
         /\ t \in Workers => Owed' = Owed
         /\ t = Main => /\ Owed' = IF to = "shrinkWait" THEN 1 ELSE 0
                        /\ Owed = IF from = "shrinkWait" THEN 1 ELSE 0
<1>1. pc \in [Threads -> Pc] /\ Workers \in SUBSET Threads
      /\ Main \in Threads /\ Main \notin Workers
  BY ThreadAssumption DEF TypeOK, QueueTypeOK, Threads, Workers
<1>2. Held \in Nat
  BY FiniteAssumption, CountAtType DEF Held
<1>3. Held' = Held + (IF t \in Workers /\ to \in HoldPc THEN 1 ELSE 0)
                   - (IF t \in Workers /\ from \in HoldPc THEN 1 ELSE 0)
  <2>1. /\ t \notin Workers \/ (to \in HoldPc <=> from \in HoldPc) => Held' = Held
        /\ t \in Workers /\ to \in HoldPc /\ from \notin HoldPc => Held' = Held + 1
        /\ t \in Workers /\ to \notin HoldPc /\ from \in HoldPc => Held' = Held - 1
    BY <1>1, FiniteAssumption, CountStep DEF Held
  <2>2. CASE t \notin Workers \/ (to \notin HoldPc /\ from \notin HoldPc)
    BY <1>2, <2>1, <2>2
  <2>3. CASE t \in Workers /\ (to \in HoldPc \/ from \in HoldPc)
    BY <1>2, <2>1, <2>3
  <2> QED BY <2>2, <2>3
<1>4. /\ Owed \in Nat
      /\ t \in Workers => Owed' = Owed
      /\ t = Main => /\ Owed' = IF to = "shrinkWait" THEN 1 ELSE 0
                     /\ Owed = IF from = "shrinkWait" THEN 1 ELSE 0
  BY <1>1 DEF Owed, Step
<1> QED BY <1>2, <1>3, <1>4

LEMMA TokenInit == Init => TokenInv
<1> SUFFICES ASSUME Init PROVE TokenInv
  OBVIOUS
<1>1. {t \in Workers : pc[t] \in HoldPc} = {}
  BY ThreadAssumption DEF Init, QueueInit, HoldPc, Threads, Workers
<1>2. Held = 0
  BY <1>1, FS_EmptySet DEF Held, CountAt
<1>3. Owed = 0
  BY DEF Owed, Init, QueueInit, Threads
<1> QED BY <1>2, <1>3, BoundAssumption DEF TokenInv, Init, QueueInit

LEMMA TokenStep == TypeOK /\ Uncancelled /\ TokenInv /\ [Next]_vars => TokenInv'
<1> SUFFICES ASSUME TypeOK, Uncancelled, TokenInv, [Next]_vars PROVE TokenInv'
  OBVIOUS
<1>a. /\ pc \in [Threads -> Pc] /\ sizeQueue \in Int /\ empty \in Nat /\ full \in Nat
      /\ cancels \in Nat
  BY DEF TypeOK, QueueTypeOK
<1>b. Workers \subseteq Threads /\ Main \in Threads /\ Main \notin Workers
  BY ThreadAssumption DEF Threads, Workers
<1>c. Held \in Nat /\ Owed \in Nat
  BY FiniteAssumption, CountAtType DEF Held, Owed
(* A worker's step that takes no token, or drops one.                      *)
<1>d. ASSUME NEW t \in Workers, NEW from, NEW to, Step(t, from, to),
             to \in HoldPc <=> from \in HoldPc,
             UNCHANGED <<empty, full, sizeQueue, cancels>>
      PROVE  TokenInv'
  <2>1. Held' = Held /\ Owed' = Owed
    BY <1>b, <1>c, <1>d, HeldStep
  <2> QED BY <1>d, <2>1 DEF TokenInv
(* A step after which the same threads hold tokens.                        *)
<1>e. ASSUME \A t \in Workers : pc'[t] \in HoldPc <=> pc[t] \in HoldPc,
             pc'[Main] = "shrinkWait" <=> pc[Main] = "shrinkWait",
             UNCHANGED <<empty, full, sizeQueue>>, cancels' = 0 => cancels = 0
      PROVE  TokenInv'
  <2>1. Held' = Held
    BY <1>e, CountAtSame DEF Held
  <2>2. Owed' = Owed
    BY <1>e DEF Owed
  <2> QED BY <1>e, <2>1, <2>2 DEF TokenInv
<1>1. ASSUME NEW p \in Producers,
             \/ /\ GenerateMessage(p, "wait") \/ GenerateRandSizeSpins(p) \/ WriteMessage(p)
                /\ UNCHANGED sems
             \/ SemWaitEmpty(p) \/ AdvanceTail(p)
      PROVE  TokenInv'
  <2>p. p \in Workers
    BY DEF Workers
  <2>1. CASE GenerateMessage(p, "wait") /\ UNCHANGED sems
    BY <1>d, <2>p, <2>1 DEF GenerateMessage, HoldPc, sems, ring, lists
  <2>2. CASE GenerateRandSizeSpins(p) /\ UNCHANGED sems
    BY <1>d, <2>p, <2>2 DEF GenerateRandSizeSpins, HoldPc, sems, ring, lists
  <2>3. CASE WriteMessage(p) /\ UNCHANGED sems
    BY <1>d, <2>p, <2>3 DEF WriteMessage, HoldPc, sems, ring, lists
  <2>4. CASE SemWaitEmpty(p)
    <3>1. Step(p, "wait", "lock")
      BY <2>4 DEF SemWaitEmpty
    <3>2. Held' = Held + 1 /\ Owed' = Owed
      BY <1>b, <1>c, <2>p, <3>1, HeldStep DEF HoldPc
    <3>3. UNCHANGED <<full, sizeQueue, cancels>> /\ empty' = empty - 1
      BY <2>4 DEF SemWaitEmpty, ring, lists
    <3> QED BY <1>a, <1>c, <3>2, <3>3 DEF TokenInv
  <2>5. CASE AdvanceTail(p)
    <3>1. Step(p, "advance", "unlock")
      BY <2>5 DEF AdvanceTail
    <3>2. Held' = Held - 1 /\ Owed' = Owed
      BY <1>b, <1>c, <2>p, <3>1, HeldStep DEF HoldPc
    <3>3. UNCHANGED <<empty, sizeQueue, cancels>> /\ full' = full + 1
      BY <2>5 DEF AdvanceTail, lists
    <3> QED BY <1>a, <1>c, <3>2, <3>3 DEF TokenInv
  <2> QED BY <1>1, <2>1, <2>2, <2>3, <2>4, <2>5
<1>2. ASSUME NEW c \in Consumers,
             \/ ReadMessage(c) /\ UNCHANGED sems
             \/ SemWaitFull(c) \/ PrintAfterSem(c) \/ AdvanceHead(c)
      PROVE  TokenInv'
  <2>c. c \in Workers
    BY DEF Workers
  <2>1. CASE ReadMessage(c) /\ UNCHANGED sems
    BY <1>d, <2>c, <2>1 DEF ReadMessage, HoldPc, sems, lists
  <2>2. CASE SemWaitFull(c)
    <3>1. Step(c, "wait", "after")
      BY <2>2 DEF SemWaitFull
    <3>2. Held' = Held + 1 /\ Owed' = Owed
      BY <1>b, <1>c, <2>c, <3>1, HeldStep DEF HoldPc
    <3>3. UNCHANGED <<empty, sizeQueue, cancels>> /\ full' = full - 1
      BY <2>2 DEF SemWaitFull, ring, lists
    <3> QED BY <1>a, <1>c, <3>2, <3>3 DEF TokenInv
  <2>3. CASE PrintAfterSem(c)
    BY <1>d, <2>c, <2>3 DEF PrintAfterSem, HoldPc, sems, ring, lists
  <2>4. CASE AdvanceHead(c)
    <3>1. Step(c, "advance", "unlock")
      BY <2>4 DEF AdvanceHead
    <3>2. Held' = Held - 1 /\ Owed' = Owed
      BY <1>b, <1>c, <2>c, <3>1, HeldStep DEF HoldPc
    <3>3. UNCHANGED <<full, sizeQueue, cancels>> /\ empty' = empty + 1
      BY <2>4 DEF AdvanceHead, lists
    <3> QED BY <1>a, <1>c, <3>2, <3>3 DEF TokenInv
  <2> QED BY <1>2, <2>1, <2>2, <2>3, <2>4
<1>3. ASSUME NEW t \in Workers,
             \/ PrintAndSleep(t, Start(t)) /\ UNCHANGED sems
             \/ Lock(t) \/ Unlock(t) \/ Cancel(t) \/ CleanupHandler(t)
      PROVE  TokenInv'
  <2>1. CASE PrintAndSleep(t, Start(t)) /\ UNCHANGED sems
    BY <1>d, <2>1 DEF PrintAndSleep, Start, HoldPc, sems, ring, lists
  <2>2. CASE Lock(t)
    BY <1>d, <2>2 DEF Lock, HoldPc, sems, ring, lists
  <2>3. CASE Unlock(t)
    BY <1>d, <2>3 DEF Unlock, HoldPc, sems, ring, lists
  <2>4. CASE Cancel(t)
    <3>1. /\ cancels # 0 /\ cancels' = cancels
          /\ empty' = empty /\ full' = full /\ sizeQueue' = sizeQueue
      BY <1>b, <2>4 DEF Cancel, Uncancelled, Calm, sems, ring, lists
    <3>2. (Held' = Held \/ Held' = Held - 1) /\ Owed' = Owed
      BY <1>b, <1>c, <2>4, HeldStep DEF Cancel, HoldPc
    <3> QED BY <1>a, <1>c, <3>1, <3>2 DEF TokenInv
  <2>5. CASE CleanupHandler(t)
    BY <1>d, <2>5 DEF CleanupHandler, HoldPc, sems, ring, lists
  <2> QED BY <1>3, <2>1, <2>2, <2>3, <2>4, <2>5
<1>4. CASE (Menu("wait") \/ JoinThread \/ UnlockMain) /\ UNCHANGED sems
  <2>1. CASE (CreateProducer \/ CreateConsumer("wait")) /\ UNCHANGED sems
    <3>1. PICK t \in Workers, to \in {"gen", "wait"} :
            pc[t] = "none" /\ pc' = [pc EXCEPT ![t] = to]
      BY <2>1 DEF CreateProducer, CreateConsumer, Workers
    <3>2. \A s \in Workers : pc'[s] \in HoldPc <=> pc[s] \in HoldPc
      BY <1>a, <1>b, <3>1 DEF HoldPc
    <3>3. pc'[Main] = pc[Main]
      BY <1>a, <1>b, <3>1
    <3> QED BY <1>e, <2>1, <3>2, <3>3 DEF CreateProducer, CreateConsumer, ring, sems
  <2>2. CASE Destroy /\ UNCHANGED sems
    <3>1. cancels' # 0 /\ UNCHANGED <<empty, full, sizeQueue>>
      BY <1>a, <2>2, DestroyCounts, DestroySteps DEF ring, sems
    <3>2. /\ pc[Main] = "menu"
          /\ \E to \in {"join", "menu", "exited"} : pc' = [pc EXCEPT ![Main] = to]
      BY <2>2, DestroySteps DEF Step
    <3> QED BY <1>a, <1>b, <1>e, <3>1, <3>2
  <2>3. CASE JoinThread /\ UNCHANGED sems
    <3>1. /\ pc[Main] = "join" /\ pc[target] = "dead" /\ target \in Threads
          /\ pc' = [pc EXCEPT ![Main] = "menu", ![target] = "none"]
      BY <2>3 DEF JoinThread, TypeOK, QueueTypeOK
    <3>2. \A s \in Workers : pc'[s] \in HoldPc <=> pc[s] \in HoldPc
      BY <1>a, <1>b, <3>1 DEF HoldPc
    <3>3. pc'[Main] # "shrinkWait"
      BY <1>a, <1>b, <3>1
    <3> QED BY <1>e, <2>3, <3>1, <3>2, <3>3 DEF JoinThread, ring, sems
  <2>4. CASE (Quit \/ UnlockMain) /\ UNCHANGED sems
    <3>1. /\ pc[Main] \in {"menu", "unlock"}
          /\ \E to \in {"exited", "menu"} : pc' = [pc EXCEPT ![Main] = to]
      BY <2>4 DEF Quit, UnlockMain, Step
    <3> QED BY <1>a, <1>b, <1>e, <2>4, <3>1 DEF Quit, UnlockMain, ring, lists, sems
  <2> QED BY <1>4, <2>1, <2>2, <2>3, <2>4 DEF Menu
<1>5. CASE IncremSize
  <2>1. Step(Main, "menu", "unlock")
    BY <1>5 DEF IncremSize
  <2>2. Held' = Held /\ Owed' = 0 /\ Owed = 0
    BY <1>b, <1>c, <2>1, HeldStep
  <2>3. sizeQueue' = sizeQueue + 1 /\ empty' = empty + 1 /\ UNCHANGED <<full, cancels>>
    BY <1>5 DEF IncremSize, lists
  <2> QED BY <1>a, <1>c, <2>2, <2>3 DEF TokenInv
<1>6. CASE DiscrSize
  <2>1. CASE Step(Main, "menu", "shrinkWait") /\ ShrinkRing
    <3>1. Held' = Held /\ Owed' = 1 /\ Owed = 0
      BY <1>b, <1>c, <2>1, HeldStep
    <3>2. sizeQueue' = sizeQueue - 1 /\ UNCHANGED <<empty, full, cancels>>
      BY <1>6, <2>1 DEF DiscrSize, ShrinkRing, sems, lists
    <3> QED BY <1>a, <1>c, <3>1, <3>2 DEF TokenInv
  <2>2. CASE Step(Main, "menu", "unlock") /\ UNCHANGED ring
    <3>1. Held' = Held /\ Owed' = 0 /\ Owed = 0
      BY <1>b, <1>c, <2>2, HeldStep
    <3>2. UNCHANGED <<sizeQueue, empty, full, cancels>>
      BY <1>6, <2>2 DEF DiscrSize, ring, sems, lists
    <3> QED BY <3>1, <3>2 DEF TokenInv
  <2> QED BY <1>6, <2>1, <2>2 DEF DiscrSize
<1>7. CASE TakeEmptyToken
  <2>1. Step(Main, "shrinkWait", "unlock")
    BY <1>7 DEF TakeEmptyToken
  <2>2. Held' = Held /\ Owed' = 0 /\ Owed = 1
    BY <1>b, <1>c, <2>1, HeldStep
  <2>3. empty' = empty - 1 /\ UNCHANGED <<full, sizeQueue, cancels>>
    BY <1>7 DEF TakeEmptyToken, ring, lists
  <2> QED BY <1>a, <1>c, <2>2, <2>3 DEF TokenInv
<1>8. CASE Exited \/ UNCHANGED vars
  BY <1>e, <1>8 DEF Exited, vars, ring, sems, lists
<1> QED BY <1>1, <1>2, <1>3, <1>4, <1>5, <1>6, <1>7, <1>8 DEF Next

(* No step forges a token, whatever threads are cancelled wherever, and    *)
(* none is lost as long as no thread is cancelled.                         *)
THEOREM TokensAreConserved == Spec => []TokensConserved
  BY TokenInit, TokenStep, TokenInvMeans, UncancelledInit, UncancelledStep, TypeCorrect, PTL
  DEF Spec

-----------------------------------------------------------------------------
(* The shape of the ring.  QueueShape speaks of the moments when the mutex *)
(* is free; RingInv also says how the ring looks from inside the critical  *)
(* section: a consumer that has copied its message out and has not moved   *)
(* head yet sees the ring in shape from the next slot on.  That a producer *)
(* inside finds a slot free is not part of RingInv: it follows from        *)
(* TokenInv, by counting the tokens of the threads that hold one.          *)

StoredPc == {"after", "lock", "read"}
Taken    == CountAt(Consumers, StoredPc)

ShapeAtRest == (\A c \in Consumers : pc[c] # "advance")
                 => RingShape(buffer, head, tail, Stored, sizeQueue)
ShapeInside == \A c \in Consumers :
  pc[c] = "advance" => RingShape(buffer, Advance(head, sizeQueue), tail, Stored, sizeQueue)
MessageInside == \A p \in Producers :
  /\ pc[p] \in {"wait", "lock", "write"} => msg[p] \in Message
  /\ pc[p] = "advance" => ReadSlot(buffer, tail) \in Message

RingInv == cancels = 0 => ShapeAtRest /\ ShapeInside /\ MessageInside

LEMMA StoredMeans == Stored = full + Taken
  BY DEF Stored, Taken, StoredPc, CountAt

LEMMA TakenType == Taken \in Nat
<1>1. IsFiniteSet(Consumers)
  BY FiniteAssumption, FS_Subset DEF Workers
<1> QED BY <1>1, CountAtType DEF Taken

(* What one thread's step does to the number of messages stored.           *)
LEMMA TakenStep ==
  ASSUME TypeOK, NEW t \in Threads, NEW from, NEW to, Step(t, from, to)
  PROVE  Taken' = Taken + (IF t \in Consumers /\ to \in StoredPc THEN 1 ELSE 0)
                        - (IF t \in Consumers /\ from \in StoredPc THEN 1 ELSE 0)
<1>1. pc \in [Threads -> Pc] /\ Consumers \in SUBSET Threads
  BY DEF TypeOK, QueueTypeOK, Threads, Workers
<1>2. IsFiniteSet(Consumers)
  BY FiniteAssumption, FS_Subset DEF Workers
<1>3. /\ t \notin Consumers \/ (to \in StoredPc <=> from \in StoredPc) => Taken' = Taken
      /\ t \in Consumers /\ to \in StoredPc /\ from \notin StoredPc => Taken' = Taken + 1
      /\ t \in Consumers /\ to \notin StoredPc /\ from \in StoredPc => Taken' = Taken - 1
  BY <1>1, <1>2, CountStep DEF Taken
<1>4. CASE t \notin Consumers \/ (to \notin StoredPc /\ from \notin StoredPc)
  BY <1>3, <1>4, TakenType
<1>5. CASE t \in Consumers /\ (to \in StoredPc \/ from \in StoredPc)
  BY <1>3, <1>5, TakenType
<1> QED BY <1>4, <1>5

(* A producer inside has taken a token that no consumer holds, so a slot   *)
(* is free for it.                                                         *)
LEMMA RoomForProducer ==
  ASSUME TypeOK, OneInside, TokenInv, cancels = 0,
         NEW p \in Producers, pc[p] \in {"write", "advance"}
  PROVE  Stored < sizeQueue
<1> DEFINE A == {c \in Consumers : pc[c] \in StoredPc}
           B == {t \in Workers : pc[t] \in HoldPc}
<1>1. p \in Threads /\ Main \in Threads /\ p # Main
  BY ThreadAssumption DEF Threads, Workers
<1>2. Owed = 0
  BY <1>1 DEF Owed, OneInside, Inside, InsidePc
<1>3. A \cup {p} \subseteq B /\ p \notin A
  BY ThreadAssumption DEF StoredPc, HoldPc, Workers
<1>4. IsFiniteSet(Consumers) /\ IsFiniteSet(A) /\ IsFiniteSet(B)
  BY FiniteAssumption, FS_Subset DEF Workers
<1>5. Cardinality(A) + 1 <= Cardinality(B) /\ Cardinality(A) \in Nat /\ Cardinality(B) \in Nat
  <2> HIDE DEF A, B
  <2>1. Cardinality(A \cup {p}) = Cardinality(A) + 1
    BY <1>3, <1>4, FS_AddElement
  <2>2. Cardinality(A \cup {p}) <= Cardinality(B)
    BY <1>3, <1>4, FS_Subset
  <2> QED BY <1>4, <2>1, <2>2, FS_CardinalityType
<1>6. Taken + 1 <= Held /\ Taken \in Nat /\ Held \in Nat
  BY <1>5 DEF Taken, Held, CountAt
<1>7. empty + full + Held = sizeQueue /\ empty \in Nat /\ full \in Nat /\ sizeQueue \in Int
  BY <1>2, <1>6 DEF TokenInv, TypeOK, QueueTypeOK
<1> QED BY <1>6, <1>7, StoredMeans

LEMMA RingInvInit == Init => RingInv
<1> SUFFICES ASSUME Init PROVE ShapeAtRest /\ ShapeInside /\ MessageInside
  BY DEF RingInv
<1>1. \A t \in Threads : pc[t] \in {"menu", "none"}
  BY DEF Init, QueueInit
<1>2. {c \in Consumers : pc[c] \in StoredPc} = {}
  BY <1>1 DEF StoredPc, Threads, Workers
<1>3. Stored = 0
  BY <1>2, FS_EmptySet, StoredMeans DEF Taken, CountAt, Init
<1>4. RingShape(buffer, head, tail, Stored, sizeQueue)
  BY <1>3, BoundAssumption DEF Init, QueueInit, RingShape, Wrap
<1> QED BY <1>1, <1>4 DEF ShapeAtRest, ShapeInside, MessageInside, Threads, Workers

LEMMA RingInvStep ==
  ASSUME BoundaryResize = FALSE
  PROVE  /\ TypeOK /\ Uncancelled /\ MutualExclusion /\ TokenInv /\ RingInv
         /\ [Next]_vars
         => RingInv'
<1> SUFFICES ASSUME TypeOK, Uncancelled, MutualExclusion, TokenInv, RingInv, [Next]_vars,
                    cancels' = 0
             PROVE  (ShapeAtRest /\ ShapeInside /\ MessageInside)'
  BY DEF RingInv
<1>a. /\ pc \in [Threads -> Pc] /\ msg \in [Workers -> Slot]
      /\ sizeQueue \in Int /\ head \in Int /\ tail \in Int /\ empty \in Nat /\ full \in Nat
      /\ buffer \in [0 .. sizeQueue - 1 -> Slot]
  BY DEF TypeOK, QueueTypeOK
<1>b. /\ Producers \subseteq Threads /\ Consumers \subseteq Threads /\ Main \in Threads
      /\ Workers \subseteq Threads /\ Producers \cap Consumers = {}
      /\ Main \notin Producers /\ Main \notin Consumers
  BY ThreadAssumption DEF Threads, Workers
<1>c. cancels = 0 /\ Calm /\ OneInside /\ ShapeAtRest /\ ShapeInside /\ MessageInside
  BY CancelsGrow DEF Uncancelled, MutualExclusion, RingInv, TypeOK, QueueTypeOK
<1>s. Stored = full + Taken /\ Stored' = full' + Taken' /\ Taken \in Nat /\ Stored \in Int
  BY <1>a, StoredMeans, TakenType DEF Stored, Taken, StoredPc, CountAt
(* Who is inside is alone, and finds the ring in shape.                    *)
<1>d. ASSUME NEW t \in Threads, Inside(t)
      PROVE  \A u \in Threads : u # t => ~Inside(u)
  BY <1>c, <1>d DEF OneInside
<1>e. ASSUME NEW t \in Threads, Inside(t), t \notin Consumers \/ pc[t] # "advance"
      PROVE  RingShape(buffer, head, tail, Stored, sizeQueue)
  BY <1>b, <1>c, <1>d, <1>e DEF ShapeAtRest, Inside, InsidePc
<1>f. ASSUME mutex = 0
      PROVE  /\ \A u \in Threads : ~Inside(u)
             /\ RingShape(buffer, head, tail, Stored, sizeQueue)
  BY <1>b, <1>c, <1>f DEF OneInside, ShapeAtRest, Inside, InsidePc
(* A step that leaves the ring and the number of its messages alone, and   *)
(* takes no thread to where RingInv asks something new of it.              *)
<1>g. ASSUME UNCHANGED ring, Stored' = Stored,
             \A c \in Consumers : pc'[c] = "advance" <=> pc[c] = "advance",
             \A p \in Producers :
               \/ pc'[p] = pc[p] /\ msg'[p] = msg[p]
               \/ pc'[p] \notin {"wait", "lock", "write", "advance"}
               \/ pc'[p] \in {"wait", "lock", "write"} /\ msg'[p] \in Message
      PROVE  (ShapeAtRest /\ ShapeInside /\ MessageInside)'
  <2>1. ShapeAtRest'
    BY <1>c, <1>g DEF ShapeAtRest, ring
  <2>2. ShapeInside'
    BY <1>c, <1>g DEF ShapeInside, ring
  <2>3. MessageInside'
    BY <1>c, <1>g DEF MessageInside, ring
  <2> QED BY <2>1, <2>2, <2>3
<1>1. ASSUME NEW p \in Producers,
             \/ /\ GenerateMessage(p, "wait") \/ GenerateRandSizeSpins(p) \/ WriteMessage(p)
                /\ UNCHANGED sems
             \/ SemWaitEmpty(p) \/ AdvanceTail(p)
      PROVE  (ShapeAtRest /\ ShapeInside /\ MessageInside)'
  <2>p. p \in Threads /\ p \in Workers /\ p \notin Consumers
    BY <1>b DEF Workers
  <2>t. ASSUME NEW from, NEW to, Step(p, from, to) PROVE Taken' = Taken
    BY <1>s, <2>p, <2>t, TakenStep
  <2>1. CASE GenerateMessage(p, "wait") /\ UNCHANGED sems
    <3>1. Stored' = Stored
      BY <1>s, <2>1, <2>t DEF GenerateMessage, sems
    <3> QED BY <1>a, <1>b, <1>g, <2>p, <2>1, <3>1 DEF GenerateMessage, Step
  <2>2. CASE GenerateRandSizeSpins(p) /\ UNCHANGED sems
    <3>1. Stored' = Stored
      BY <1>s, <2>2, <2>t DEF GenerateRandSizeSpins, sems
    <3> QED BY <1>a, <1>b, <1>g, <2>p, <2>2, <3>1 DEF GenerateRandSizeSpins, Step
  <2>3. CASE WriteMessage(p) /\ UNCHANGED sems
    <3>1. pc[p] = "write" /\ Inside(p) /\ msg[p] \in Message
      BY <1>c, <2>3 DEF WriteMessage, Step, Inside, InsidePc, MessageInside
    <3>2. RingShape(buffer, head, tail, Stored, sizeQueue) /\ Stored < sizeQueue
      BY <1>c, <1>e, <2>p, <3>1, RoomForProducer
    <3>3. Stored' = Stored
      BY <1>s, <2>3, <2>t DEF WriteMessage, sems
    <3>4. /\ RingShape(buffer', head, tail, Stored', sizeQueue)
          /\ ReadSlot(buffer', tail) = msg[p]
      <4>1. RingShape(WriteSlot(buffer, tail, msg[p]), head, tail, Stored, sizeQueue)
        BY <1>a, <1>s, <3>1, <3>2, WriteShape
      <4>2. ReadSlot(WriteSlot(buffer, tail, msg[p]), tail) = msg[p]
        BY <1>a, <1>s, <3>1, <3>2 DEF RingShape, ReadSlot, WriteSlot
      <4> QED BY <2>3, <3>3, <4>1, <4>2 DEF WriteMessage
    <3>5. pc'[p] = "advance" /\ \A u \in Threads :
             u # p => pc'[u] = pc[u] /\ pc[u] \notin InsidePc
      BY <1>a, <1>d, <2>p, <2>3, <3>1 DEF WriteMessage, Step, Inside
    <3>6. ShapeAtRest' /\ ShapeInside'
      BY <1>b, <2>p, <2>3, <3>4, <3>5 DEF WriteMessage, ShapeAtRest, ShapeInside, InsidePc
    <3>7. MessageInside'
      BY <1>b, <1>c, <2>3, <3>1, <3>4, <3>5 DEF WriteMessage, MessageInside, InsidePc
    <3> QED BY <3>6, <3>7
  <2>4. CASE SemWaitEmpty(p)
    <3>1. Stored' = Stored
      BY <1>s, <2>4, <2>t DEF SemWaitEmpty
    <3>2. msg[p] \in Message
      BY <1>c, <2>4 DEF SemWaitEmpty, Step, MessageInside
    <3> QED BY <1>a, <1>b, <1>g, <2>p, <2>4, <3>1, <3>2 DEF SemWaitEmpty, Step
  <2>5. CASE AdvanceTail(p)
    <3>1. pc[p] = "advance" /\ Inside(p) /\ ReadSlot(buffer, tail) \in Message
      BY <1>c, <2>5 DEF AdvanceTail, Step, Inside, InsidePc, MessageInside
    <3>2. RingShape(buffer, head, tail, Stored, sizeQueue) /\ Stored < sizeQueue
      BY <1>c, <1>e, <2>p, <3>1, RoomForProducer
    <3>3. tail' = Advance(tail, sizeQueue) /\ Stored' = Stored + 1
      BY <1>a, <1>d, <1>s, <2>p, <2>5, <2>t, <3>1 DEF AdvanceTail, Raced
    <3>4. RingShape(buffer, head, tail', Stored', sizeQueue)
      BY <1>a, <1>s, <3>1, <3>2, <3>3, PutShape
    <3>5. pc'[p] = "unlock" /\ \A u \in Threads :
             u # p => pc'[u] = pc[u] /\ pc[u] \notin InsidePc
      BY <1>a, <1>d, <2>p, <2>5, <3>1 DEF AdvanceTail, Step, Inside
    <3>6. ShapeAtRest' /\ ShapeInside'
      BY <1>b, <2>p, <2>5, <3>4, <3>5 DEF AdvanceTail, ShapeAtRest, ShapeInside, InsidePc
    <3>7. MessageInside'
      BY <1>b, <1>c, <2>5, <3>5 DEF AdvanceTail, MessageInside, InsidePc
    <3> QED BY <3>6, <3>7
  <2> QED BY <1>1, <2>1, <2>2, <2>3, <2>4, <2>5
<1>2. ASSUME NEW c \in Consumers,
             \/ ReadMessage(c) /\ UNCHANGED sems
             \/ SemWaitFull(c) \/ PrintAfterSem(c) \/ AdvanceHead(c)
      PROVE  (ShapeAtRest /\ ShapeInside /\ MessageInside)'
  <2>c. c \in Threads /\ c \in Workers /\ c \notin Producers
    BY <1>b DEF Workers
  <2>1. CASE ReadMessage(c) /\ UNCHANGED sems
    <3>1. pc[c] = "read" /\ Inside(c)
      BY <2>1 DEF ReadMessage, Step, Inside, InsidePc
    <3>2. Stored > 0
      <4>1. IsFiniteSet(Consumers)
        BY FiniteAssumption, FS_Subset DEF Workers
      <4>2. Taken >= 1
        BY <3>1, <4>1, CountAtPositive DEF Taken, StoredPc
      <4> QED BY <1>a, <1>s, <4>2
    <3>3. Stored' = Stored - 1
      BY <1>a, <1>s, <2>c, <2>1, TakenStep DEF ReadMessage, StoredPc, sems
    <3>4. RingShape(buffer', Advance(head, sizeQueue), tail, Stored', sizeQueue)
      <4>1. RingShape(buffer, head, tail, Stored, sizeQueue)
        BY <1>e, <2>c, <3>1
      <4> QED BY <1>a, <1>s, <2>1, <3>2, <3>3, <4>1, TakeShape DEF ReadMessage
    <3>5. pc'[c] = "advance" /\ \A u \in Threads :
             u # c => pc'[u] = pc[u] /\ pc[u] \notin InsidePc
      BY <1>a, <1>d, <2>c, <2>1, <3>1 DEF ReadMessage, Step, Inside
    <3>6. ShapeAtRest' /\ ShapeInside'
      BY <1>b, <2>c, <2>1, <3>4, <3>5 DEF ReadMessage, ShapeAtRest, ShapeInside, InsidePc
    <3>7. \A p \in Producers : msg'[p] = msg[p] /\ pc'[p] = pc[p] /\ pc[p] \notin InsidePc
      BY <1>a, <1>b, <2>c, <2>1, <3>5 DEF ReadMessage, Workers
    <3>8. MessageInside'
      BY <1>c, <2>1, <3>7 DEF ReadMessage, MessageInside, InsidePc
    <3> QED BY <3>6, <3>8
  <2>2. CASE SemWaitFull(c)
    <3>1. Stored' = Stored
      BY <1>a, <1>s, <2>c, <2>2, TakenStep DEF SemWaitFull, StoredPc
    <3>2. \A p \in Producers : pc'[p] = pc[p] /\ msg'[p] = msg[p]
      BY <1>a, <1>b, <2>c, <2>2 DEF SemWaitFull, Step
    <3> QED BY <1>a, <1>b, <1>g, <2>c, <2>2, <3>1, <3>2 DEF SemWaitFull, Step
  <2>3. CASE PrintAfterSem(c)
    <3>1. Stored' = Stored
      BY <1>a, <1>s, <2>c, <2>3, TakenStep DEF PrintAfterSem, StoredPc, sems
    <3>2. \A p \in Producers : pc'[p] = pc[p] /\ msg'[p] = msg[p]
      BY <1>a, <1>b, <2>c, <2>3 DEF PrintAfterSem, Step
    <3> QED BY <1>a, <1>b, <1>g, <2>c, <2>3, <3>1, <3>2 DEF PrintAfterSem, Step
  <2>4. CASE AdvanceHead(c)
    <3>1. pc[c] = "advance" /\ Inside(c)
      BY <2>4 DEF AdvanceHead, Step, Inside, InsidePc
    <3>2. head' = Advance(head, sizeQueue) /\ Stored' = Stored
      <4>1. Step(c, "advance", "unlock")
        BY <2>4 DEF AdvanceHead
      <4>2. Taken' = Taken
        BY <1>s, <2>c, <4>1, TakenStep DEF StoredPc
      <4> QED BY <1>d, <1>s, <2>c, <2>4, <3>1, <4>2 DEF AdvanceHead, Raced
    <3>3. RingShape(buffer, head', tail, Stored', sizeQueue)
      BY <1>c, <3>1, <3>2 DEF ShapeInside
    <3>4. pc'[c] = "unlock" /\ \A u \in Threads :
             u # c => pc'[u] = pc[u] /\ pc[u] \notin InsidePc
      BY <1>a, <1>d, <2>c, <2>4, <3>1 DEF AdvanceHead, Step, Inside
    <3>5. ShapeAtRest' /\ ShapeInside'
      BY <1>b, <2>c, <2>4, <3>3, <3>4 DEF AdvanceHead, ShapeAtRest, ShapeInside, InsidePc
    <3>6. MessageInside'
      BY <1>b, <1>c, <2>c, <2>4, <3>4 DEF AdvanceHead, MessageInside, InsidePc
    <3> QED BY <3>5, <3>6
  <2> QED BY <1>2, <2>1, <2>2, <2>3, <2>4
<1>3. ASSUME NEW t \in Workers,
             \/ PrintAndSleep(t, Start(t)) /\ UNCHANGED sems
             \/ Lock(t) \/ Unlock(t) \/ Cancel(t) \/ CleanupHandler(t)
      PROVE  (ShapeAtRest /\ ShapeInside /\ MessageInside)'
  <2>1. CASE PrintAndSleep(t, Start(t)) /\ UNCHANGED sems
    <3>1. Stored' = Stored
      <4>1. Step(t, "out", Start(t))
        BY <2>1 DEF PrintAndSleep
      <4>2. Taken' = Taken
        BY <1>b, <1>s, <4>1, TakenStep DEF StoredPc, Start
      <4> QED BY <1>s, <2>1, <4>2 DEF sems
    <3>2. \A p \in Producers : \/ pc'[p] = pc[p] /\ msg'[p] = msg[p]
                               \/ pc'[p] = "gen"
      BY <1>a, <1>b, <2>1 DEF PrintAndSleep, Start, Step, Workers
    <3> QED BY <1>a, <1>b, <1>g, <2>1, <3>1, <3>2 DEF PrintAndSleep, Start, Step
  <2>2. CASE Lock(t)
    <3>1. Stored' = Stored
      BY <1>a, <1>b, <1>s, <2>2, TakenStep DEF Lock, StoredPc, sems
    <3>2. \A p \in Producers : \/ pc'[p] = pc[p] /\ msg'[p] = msg[p]
                               \/ pc'[p] = "write" /\ msg'[p] \in Message
      BY <1>a, <1>b, <1>c, <2>2 DEF Lock, Step, MessageInside
    <3> QED BY <1>a, <1>b, <1>g, <2>2, <3>1, <3>2 DEF Lock, Step
  <2>3. CASE Unlock(t)
    <3>1. Stored' = Stored
      <4>1. Step(t, "unlock", "out")
        BY <2>3 DEF Unlock
      <4>2. Taken' = Taken
        BY <1>b, <1>s, <4>1, TakenStep DEF StoredPc
      <4> QED BY <1>s, <2>3, <4>2 DEF Unlock, sems
    <3> QED BY <1>a, <1>b, <1>g, <2>3, <3>1 DEF Unlock, Step
  <2>4. CASE Cancel(t) \/ CleanupHandler(t)
    BY <1>b, <1>c, <2>4, ThreadAssumption DEF Cancel, CleanupHandler, Step, Calm, Workers
  <2> QED BY <1>3, <2>1, <2>2, <2>3, <2>4
<1>h. ASSUME \A c \in Consumers : pc'[c] \in StoredPc <=> pc[c] \in StoredPc
      PROVE  Taken' = Taken
  BY <1>h, CountAtSame DEF Taken
<1>4. CASE (Menu("wait") \/ JoinThread \/ UnlockMain) /\ UNCHANGED sems
  <2>1. CASE (CreateProducer \/ CreateConsumer("wait")) /\ UNCHANGED sems
    <3>1. PICK u \in Workers, to \in {"gen", "wait"} :
            /\ pc[u] = "none" /\ pc' = [pc EXCEPT ![u] = to]
            /\ u \in Producers => to = "gen"
      BY <1>b, <2>1 DEF CreateProducer, CreateConsumer, Workers
    <3>2. Taken' = Taken
      BY <1>a, <1>b, <1>h, <3>1 DEF StoredPc
    <3>3. Stored' = Stored /\ UNCHANGED <<ring, msg>>
      BY <1>s, <2>1, <3>2 DEF CreateProducer, CreateConsumer, sems
    <3> QED BY <1>a, <1>b, <1>g, <3>1, <3>3
  <2>2. CASE Destroy
    BY <1>c, <2>2, DestroyCounts
  <2>3. CASE JoinThread
    BY <1>c, <2>3 DEF JoinThread, Calm
  <2>4. CASE (Quit \/ UnlockMain) /\ UNCHANGED sems
    <3>1. /\ \A u \in Workers : pc'[u] = pc[u]
          /\ UNCHANGED <<ring, msg, full>>
      BY <1>a, <1>b, <2>4, ThreadAssumption
      DEF Quit, UnlockMain, Step, sems, Workers
    <3>2. Stored' = Stored
      BY <1>h, <1>s, <3>1 DEF Workers
    <3> QED BY <1>g, <3>1, <3>2 DEF Workers
  <2> QED BY <1>4, <2>1, <2>2, <2>3, <2>4 DEF Menu
<1>5. CASE IncremSize
  <2>1. /\ \A u \in Threads : ~Inside(u)
        /\ RingShape(buffer, head, tail, Stored, sizeQueue)
    BY <1>f, <1>5 DEF IncremSize
  <2>2. /\ \A u \in Workers : pc'[u] = pc[u]
        /\ msg' = msg /\ head' = head /\ sizeQueue' = sizeQueue + 1
    BY <1>a, <1>b, <1>5, ThreadAssumption DEF IncremSize, Step, Workers
  <2>3. Stored' = Stored
    BY <1>h, <1>s, <1>5, <2>2 DEF IncremSize, Workers
  <2>4. head <= tail /\ (Stored < sizeQueue \/ sizeQueue = 0)
    BY <1>a, <1>s, <1>5, <2>1 DEF IncremSize, ExactGrow, RingShape, Wrap
  <2>5. RingShape(Realloc(buffer, sizeQueue + 1), head, tail, Stored, sizeQueue + 1)
    BY <1>a, <1>s, <2>1, <2>4, GrowShape
  <2>6. buffer' = Realloc(buffer, sizeQueue + 1) /\ tail' = tail
    BY <1>a, <1>5, <2>4 DEF IncremSize
  <2>7. RingShape(buffer', head', tail', Stored', sizeQueue')
    BY <2>2, <2>3, <2>5, <2>6
  <2> QED BY <1>b, <1>c, <2>1, <2>2, <2>6, <2>7
          DEF ShapeAtRest, ShapeInside, MessageInside, Inside, InsidePc, Workers
<1>6. CASE DiscrSize
  <2>1. /\ \A u \in Threads : ~Inside(u)
        /\ RingShape(buffer, head, tail, Stored, sizeQueue)
    BY <1>f, <1>6 DEF DiscrSize
  <2>2. /\ \A u \in Workers : pc'[u] = pc[u]
        /\ msg' = msg /\ full' = full
    BY <1>a, <1>b, <1>6, ThreadAssumption DEF DiscrSize, Step, Workers, sems
  <2>3. Stored' = Stored
    BY <1>h, <1>s, <2>2 DEF Workers
  <2>4. CASE full < sizeQueue /\ ShrinkRing
    <3>1. Stored < sizeQueue /\ ~(head < tail /\ tail - head = sizeQueue - 1)
      BY <1>a, <1>s, <1>6, <2>1, <2>4 DEF DiscrSize, ExactShrink, RingShape, Wrap
    <3>2. RingShape(buffer', head', tail', Stored', sizeQueue')
      BY <1>a, <1>s, <2>1, <2>3, <2>4, <3>1, ShrinkShape DEF ShrinkRing
    <3> QED BY <1>b, <1>c, <2>1, <2>2, <3>2
            DEF ShapeAtRest, ShapeInside, MessageInside, Inside, InsidePc, Workers
  <2>5. CASE UNCHANGED ring
    BY <1>g, <2>2, <2>3, <2>5 DEF Workers
  <2> QED BY <1>6, <2>4, <2>5 DEF DiscrSize
<1>7. CASE TakeEmptyToken
  <2>1. /\ \A u \in Workers : pc'[u] = pc[u]
        /\ UNCHANGED <<ring, msg, full>>
    BY <1>a, <1>b, <1>7, ThreadAssumption DEF TakeEmptyToken, Step, Workers
  <2>2. Stored' = Stored
    BY <1>h, <1>s, <2>1 DEF Workers
  <2> QED BY <1>g, <2>1, <2>2 DEF Workers
<1>8. CASE Exited \/ UNCHANGED vars
  <2>1. UNCHANGED <<ring, sems, pc, msg>>
    BY <1>8 DEF Exited, vars
  <2>2. Stored' = Stored
    BY <1>h, <1>s, <2>1 DEF sems
  <2> QED BY <1>g, <2>1, <2>2
<1> QED BY <1>1, <1>2, <1>3, <1>4, <1>5, <1>6, <1>7, <1>8 DEF Next

(* The tokens describe the ring whenever the mutex is free, for any number *)
(* of threads, any queue size and any sequence of the resizes that are     *)
(* exact, as long as no thread was cancelled.                              *)
THEOREM RingStaysInShape ==
  ASSUME BoundaryResize = FALSE
  PROVE  Spec => []QueueShape
<1>1. MutualExclusion /\ RingInv => QueueShape
  <2> SUFFICES ASSUME MutualExclusion, RingInv, mutex = 0, cancels = 0
               PROVE  RingShape(buffer, head, tail, Stored, sizeQueue)
    BY DEF QueueShape
  <2>1. \A c \in Consumers : pc[c] # "advance"
    BY DEF MutualExclusion, OneInside, Inside, InsidePc, Threads, Workers
  <2> QED BY <2>1 DEF RingInv, ShapeAtRest
<1>2. Init => TokenInv
  BY TokenInit
<1>3. MutualExclusion /\ Uncancelled /\ TypeOK /\ [Next]_vars => MutualExclusion'
  BY ExclusionStep
<1> QED BY <1>1, <1>2, <1>3, RingInvInit, RingInvStep, TokenStep, UncancelledInit,
           UncancelledStep, MutexExcludes, TypeCorrect, PTL DEF Spec

-----------------------------------------------------------------------------
(* Refinement.  The abstract queue starts at First: where head is, or will *)
(* be once the consumer inside has moved it.  A consumer's step from       *)
(* "read" maps to Get and its step from "out" to Handled, a producer's     *)
(* from "advance" to Put, a resize that changes the ring to Grow or        *)
(* Shrink, and every other step stutters.  For Get and Handled, Handed     *)
(* says when a consumer's `msg` holds a message.                           *)

First     == IF Taking THEN Advance(head, sizeQueue) ELSE head
Queued    == Contents(buffer, First, Stored, sizeQueue)
Delivered == [c \in Consumers |-> msg[c]]

EmptyPc == {"none", "wait", "after", "lock", "read"}
TakenPc == {"advance", "unlock", "out"}
HandedTo(c) == /\ pc[c] \in EmptyPc => msg[c] = Junk
               /\ pc[c] \in TakenPc => msg[c] \in Message
Handed == cancels = 0 => \A c \in Consumers : HandedTo(c)

Maps == Abstract!Next \/ UNCHANGED Abstract!vars

(* What it takes to be a step of the abstract queue, in terms of the view. *)
LEMMA MapsStutter ==
  UNCHANGED <<Queued, sizeQueue, Delivered>> => Maps
  BY DEF Maps, Abstract!vars, Queued, First, Delivered

LEMMA MapsPut ==
  ASSUME NEW m \in Message, Len(Queued) < sizeQueue, Queued' = Append(Queued, m),
         UNCHANGED <<sizeQueue, Delivered>>
  PROVE  Maps
  BY DEF Maps, Abstract!Next, Abstract!Put, Queued, First, Delivered

LEMMA MapsGet ==
  ASSUME NEW c \in Consumers, Queued # <<>>, msg[c] = Junk,
         Delivered' = [Delivered EXCEPT ![c] = Head(Queued)], Queued' = Tail(Queued),
         UNCHANGED sizeQueue
  PROVE  Maps
  BY DEF Maps, Abstract!Next, Abstract!Get, Queued, First, Delivered

LEMMA MapsHandled ==
  ASSUME NEW c \in Consumers, msg[c] # Junk,
         Delivered' = [Delivered EXCEPT ![c] = Junk],
         UNCHANGED <<Queued, sizeQueue>>
  PROVE  Maps
  BY DEF Maps, Abstract!Next, Abstract!Handled, Queued, First, Delivered

LEMMA MapsResize ==
  ASSUME \/ sizeQueue' = sizeQueue + 1
         \/ sizeQueue' = sizeQueue - 1 /\ Len(Queued) < sizeQueue,
         UNCHANGED <<Queued, Delivered>>
  PROVE  Maps
  BY DEF Maps, Abstract!Next, Abstract!Grow, Abstract!Shrink, Queued, First, Delivered

LEMMA ViewInShape ==
  ASSUME RingInv, cancels = 0
  PROVE  RingShape(buffer, First, tail, Stored, sizeQueue)
  BY DEF RingInv, ShapeAtRest, ShapeInside, First, Taking

LEMMA RefinementInit == Init => Abstract!Init /\ Handed
<1> SUFFICES ASSUME Init PROVE Abstract!Init /\ Handed
  OBVIOUS
<1>1. \A t \in Threads : pc[t] \in {"menu", "none"}
  BY DEF Init, QueueInit
<1>2. \A c \in Consumers : msg[c] = Junk /\ pc[c] \in {"menu", "none"}
  BY <1>1 DEF Init, QueueInit, Workers, Threads
<1>3. {c \in Consumers : pc[c] \in StoredPc} = {}
  BY <1>2 DEF StoredPc
<1>4. Stored = 0
  BY <1>3, FS_EmptySet, StoredMeans DEF Taken, CountAt, Init
<1>5. First = 0 /\ sizeQueue \in Nat \ {0}
  BY <1>2, BoundAssumption DEF First, Taking, Init, QueueInit
<1>6. RingShape(buffer, First, tail, Stored, sizeQueue) /\ tail \in Int
  BY <1>4, <1>5 DEF Init, QueueInit, RingShape, Wrap
<1>7. Queued \in Seq(Message) /\ Len(Queued) = 0
  BY <1>4, <1>5, <1>6, ContentsType DEF Queued
<1>8. Queued = <<>>
  <2> HIDE DEF Queued
  <2> QED BY <1>7, EmptySeq
<1>9. Abstract!Init
  BY <1>2, <1>5, <1>8 DEF Abstract!Init, Queued, First
<1> QED BY <1>2, <1>9 DEF Handed, HandedTo, TakenPc

(* A step that leaves the ring, the number of its messages and every       *)
(* consumer's message alone.                                               *)
LEMMA QuietStep ==
  ASSUME UNCHANGED ring, Stored' = Stored, Handed, cancels = 0,
         \A c \in Consumers :
           /\ msg'[c] = msg[c]
           /\ pc'[c] = "advance" <=> pc[c] = "advance"
           /\ \/ pc'[c] = pc[c]
              \/ pc[c] \in EmptyPc /\ pc'[c] \in EmptyPc
              \/ pc[c] \in TakenPc /\ pc'[c] \in TakenPc
  PROVE  Maps /\ Handed'
<1>1. First' = First
  BY DEF First, Taking, ring
<1>2. Queued' = Queued /\ sizeQueue' = sizeQueue
  BY <1>1 DEF Queued, ring
<1>3. Delivered' = Delivered
  BY DEF Delivered
<1>4. \A c \in Consumers : HandedTo(c)'
  BY DEF Handed, HandedTo, EmptyPc, TakenPc
<1> QED BY <1>2, <1>3, <1>4, MapsStutter DEF Handed

LEMMA RefinementStep ==
  ASSUME BoundaryResize = FALSE
  PROVE  /\ TypeOK /\ Uncancelled /\ MutualExclusion /\ TokenInv /\ RingInv /\ Handed
         /\ [Next]_vars /\ cancels' = 0
         => Maps /\ Handed'
<1> SUFFICES ASSUME TypeOK, Uncancelled, MutualExclusion, TokenInv, RingInv, Handed,
                    [Next]_vars, cancels' = 0
             PROVE  Maps /\ Handed'
  OBVIOUS
<1>a. /\ pc \in [Threads -> Pc] /\ msg \in [Workers -> Slot]
      /\ sizeQueue \in Int /\ head \in Int /\ tail \in Int /\ empty \in Nat /\ full \in Nat
      /\ buffer \in [0 .. sizeQueue - 1 -> Slot]
  BY DEF TypeOK, QueueTypeOK
<1>b. /\ Producers \subseteq Threads /\ Consumers \subseteq Threads /\ Main \in Threads
      /\ Workers \subseteq Threads /\ Producers \cap Consumers = {}
      /\ Main \notin Producers /\ Main \notin Consumers
  BY ThreadAssumption DEF Threads, Workers
<1>c. /\ cancels = 0 /\ Calm /\ OneInside /\ MessageInside
      /\ \A c \in Consumers : HandedTo(c)
  BY CancelsGrow DEF Uncancelled, MutualExclusion, RingInv, TypeOK, QueueTypeOK, Handed
<1>s. Stored = full + Taken /\ Stored' = full' + Taken' /\ Taken \in Nat /\ Stored \in Int
  BY <1>a, StoredMeans, TakenType DEF Stored, Taken, StoredPc, CountAt
<1>v. RingShape(buffer, First, tail, Stored, sizeQueue) /\ First \in Int
  BY <1>a, <1>c, ViewInShape DEF First, Advance
<1>d. ASSUME NEW t \in Threads, Inside(t)
      PROVE  \A u \in Threads : u # t => ~Inside(u)
  BY <1>c, <1>d DEF OneInside
<1>h. ASSUME \A c \in Consumers : pc'[c] \in StoredPc <=> pc[c] \in StoredPc
      PROVE  Taken' = Taken
  BY <1>h, CountAtSame DEF Taken
(* A quiet step in which the count of tokens is not touched.               *)
<1>q. ASSUME UNCHANGED <<ring, full>>,
             \A c \in Consumers :
               /\ msg'[c] = msg[c]
               /\ pc'[c] = pc[c] \/ (pc[c] \in {"none", "wait"} /\ pc'[c] \in {"none", "wait"})
                                  \/ (pc[c] \in StoredPc /\ pc'[c] \in StoredPc)
                                  \/ (pc[c] = "unlock" /\ pc'[c] = "out")
      PROVE  Maps /\ Handed'
  <2>1. Stored' = Stored
    BY <1>h, <1>s, <1>q DEF StoredPc
  <2> QED BY <1>c, <1>q, <2>1, QuietStep DEF StoredPc, EmptyPc, TakenPc
<1>p. ASSUME NEW p \in Producers, NEW to, Step(p, pc[p], to)
      PROVE  /\ Taken' = Taken /\ Taking' = Taking
             /\ \A c \in Consumers : pc'[c] = pc[c]
  <2>1. \A c \in Consumers : pc'[c] = pc[c]
    BY <1>a, <1>b, <1>p DEF Step
  <2> QED BY <1>h, <2>1 DEF Taking
<1>1. ASSUME NEW p \in Producers,
             \/ /\ GenerateMessage(p, "wait") \/ GenerateRandSizeSpins(p) \/ WriteMessage(p)
                /\ UNCHANGED sems
             \/ SemWaitEmpty(p) \/ AdvanceTail(p)
      PROVE  Maps /\ Handed'
  <2>p. p \in Threads /\ p \in Workers /\ p \notin Consumers
    BY <1>b DEF Workers
  <2>1. CASE GenerateMessage(p, "wait") /\ UNCHANGED sems
    <3>1. \A c \in Consumers : pc'[c] = pc[c] /\ msg'[c] = msg[c]
      BY <1>a, <1>b, <2>p, <2>1 DEF GenerateMessage, Step
    <3> QED BY <1>q, <2>1, <3>1 DEF GenerateMessage, sems
  <2>2. CASE GenerateRandSizeSpins(p) /\ UNCHANGED sems
    <3>1. \A c \in Consumers : pc'[c] = pc[c] /\ msg'[c] = msg[c]
      BY <1>a, <1>b, <2>p, <2>2 DEF GenerateRandSizeSpins, Step
    <3> QED BY <1>q, <2>2, <3>1 DEF GenerateRandSizeSpins, sems
  <2>3. CASE SemWaitEmpty(p)
    <3>1. \A c \in Consumers : pc'[c] = pc[c] /\ msg'[c] = msg[c]
      BY <1>a, <1>b, <2>p, <2>3 DEF SemWaitEmpty, Step
    <3> QED BY <1>q, <2>3, <3>1 DEF SemWaitEmpty
  <2>4. CASE WriteMessage(p) /\ UNCHANGED sems
    <3>1. pc[p] = "write" /\ Step(p, pc[p], "advance")
      BY <2>4 DEF WriteMessage, Step
    <3>2. Stored < sizeQueue
      BY <1>c, <3>1, RoomForProducer
    <3>3. First' = First /\ Stored' = Stored
      BY <1>p, <1>s, <2>4, <3>1 DEF WriteMessage, First, sems
    <3>4. Queued' = Queued
      <4>1. Contents(WriteSlot(buffer, tail, msg[p]), First, Stored, sizeQueue) = Queued
        <5>1. /\ sizeQueue \in Int /\ buffer \in [0 .. sizeQueue - 1 -> Slot]
              /\ First \in Int /\ tail \in Int /\ Stored \in Int
              /\ RingShape(buffer, First, tail, Stored, sizeQueue)
          BY <1>a, <1>s, <1>v
        <5> QED BY ONLY <3>2, <5>1, WriteContents DEF Queued
      <4> QED BY <2>4, <3>3, <4>1 DEF WriteMessage, Queued
    <3>5. Handed' /\ Delivered' = Delivered
      BY <1>c, <1>p, <2>4, <3>1 DEF WriteMessage, Handed, HandedTo, Delivered
    <3> QED BY <2>4, <3>4, <3>5, MapsStutter DEF WriteMessage
  <2>5. CASE AdvanceTail(p)
    <3>1. /\ pc[p] = "advance" /\ Inside(p) /\ Step(p, pc[p], "unlock")
          /\ ReadSlot(buffer, tail) \in Message
      BY <1>c, <2>5 DEF AdvanceTail, Step, Inside, InsidePc, MessageInside
    <3>2. Stored < sizeQueue
      BY <1>c, <3>1, RoomForProducer
    <3>3. First' = First /\ Stored' = Stored + 1
      <4>1. Taken' = Taken /\ Taking' = Taking
        BY <1>p, <3>1
      <4>2. full' = full + 1 /\ UNCHANGED <<head, sizeQueue>>
        BY <2>5 DEF AdvanceTail
      <4> QED BY <1>a, <1>s, <4>1, <4>2 DEF First
    <3>4. Queued' = Append(Queued, ReadSlot(buffer, tail))
      <4>1. Contents(buffer, First, Stored + 1, sizeQueue)
              = Append(Queued, ReadSlot(buffer, tail))
        BY <1>a, <1>s, <1>v, <3>1, <3>2, PutContents DEF Queued
      <4> QED BY <2>5, <3>3, <4>1 DEF AdvanceTail, Queued
    <3>5. Len(Queued) = Stored
      BY <1>a, <1>s, <1>v, ContentsType DEF Queued
    <3>6. Handed' /\ Delivered' = Delivered
      BY <1>c, <1>p, <2>5, <3>1 DEF AdvanceTail, Handed, HandedTo, Delivered
    <3> QED BY <2>5, <3>1, <3>2, <3>4, <3>5, <3>6, MapsPut DEF AdvanceTail
  <2> QED BY <1>1, <2>1, <2>2, <2>3, <2>4, <2>5
<1>2. ASSUME NEW c \in Consumers,
             \/ ReadMessage(c) /\ UNCHANGED sems
             \/ SemWaitFull(c) \/ PrintAfterSem(c) \/ AdvanceHead(c)
      PROVE  Maps /\ Handed'
  <2>c. c \in Threads /\ c \in Workers /\ c \notin Producers
    BY <1>b DEF Workers
  <2>1. CASE ReadMessage(c) /\ UNCHANGED sems
    <3>1. pc[c] = "read" /\ Inside(c)
      BY <2>1 DEF ReadMessage, Step, Inside, InsidePc
    <3>2. Stored > 0
      <4>1. IsFiniteSet(Consumers)
        BY FiniteAssumption, FS_Subset DEF Workers
      <4>2. Taken >= 1
        BY <3>1, <4>1, CountAtPositive DEF Taken, StoredPc
      <4> QED BY <1>a, <1>s, <4>2
    <3>3. Stored' = Stored - 1
      BY <1>a, <1>s, <2>c, <2>1, TakenStep DEF ReadMessage, StoredPc, sems
    <3>4. pc'[c] = "advance" /\ \A u \in Consumers : u # c => pc'[u] = pc[u]
      BY <1>a, <1>b, <2>c, <2>1 DEF ReadMessage, Step
    <3>5. ~Taking /\ Taking'
      BY <1>b, <1>d, <2>c, <3>1, <3>4 DEF Taking, Inside, InsidePc
    <3>6. First = head /\ First' = Advance(head, sizeQueue)
      BY <2>1, <3>5 DEF First, ReadMessage
    <3>7. /\ Queued # <<>> /\ ReadSlot(buffer, head) = Head(Queued)
          /\ Queued' = Tail(Queued)
      <4>1. /\ Queued # <<>> /\ ReadSlot(buffer, head) = Head(Queued)
            /\ Contents(WriteSlot(buffer, head, Zero), Advance(head, sizeQueue), Stored - 1,
                        sizeQueue) = Tail(Queued)
        <5>1. /\ sizeQueue \in Int /\ buffer \in [0 .. sizeQueue - 1 -> Slot]
              /\ head \in Int /\ tail \in Int /\ Stored \in Int
              /\ RingShape(buffer, head, tail, Stored, sizeQueue)
          BY <1>a, <1>s, <1>v, <3>6
        <5>2. Queued = Contents(buffer, head, Stored, sizeQueue)
          BY <3>6 DEF Queued
        <5> QED BY ONLY <3>2, <5>1, <5>2, TakeContents
      <4> QED BY <2>1, <3>3, <3>6, <4>1 DEF ReadMessage, Queued
    <3>8. ReadSlot(buffer, head) \in Message
      BY <1>a, <1>s, <1>v, <3>2, <3>6, TakeShape
    <3>9. msg' = [msg EXCEPT ![c] = ReadSlot(buffer, head)] /\ msg[c] = Junk
      BY <1>c, <2>1, <3>1 DEF ReadMessage, HandedTo, EmptyPc
    <3>10. Delivered' = [Delivered EXCEPT ![c] = Head(Queued)]
      BY <1>a, <3>7, <3>9 DEF Delivered, Workers
    <3>11. Handed'
      BY <1>a, <1>c, <2>c, <3>4, <3>8, <3>9 DEF Handed, HandedTo, EmptyPc, TakenPc, Workers
    <3> QED BY <2>1, <3>7, <3>9, <3>10, <3>11, MapsGet DEF ReadMessage
  <2>2. CASE SemWaitFull(c)
    <3>1. Stored' = Stored
      BY <1>a, <1>s, <2>c, <2>2, TakenStep DEF SemWaitFull, StoredPc
    <3>2. pc[c] = "wait" /\ pc'[c] = "after" /\ \A u \in Consumers : u # c => pc'[u] = pc[u]
      BY <1>a, <1>b, <2>c, <2>2 DEF SemWaitFull, Step
    <3> QED BY <1>c, <2>2, <3>1, <3>2, QuietStep DEF SemWaitFull, EmptyPc
  <2>3. CASE PrintAfterSem(c)
    <3>1. pc[c] = "after" /\ pc'[c] = "lock" /\ \A u \in Consumers : u # c => pc'[u] = pc[u]
      BY <1>a, <1>b, <2>c, <2>3 DEF PrintAfterSem, Step
    <3> QED BY <1>q, <2>3, <3>1 DEF PrintAfterSem, StoredPc, sems
  <2>4. CASE AdvanceHead(c)
    <3>1. pc[c] = "advance" /\ Inside(c) /\ Step(c, "advance", "unlock")
      BY <2>4 DEF AdvanceHead, Step, Inside, InsidePc
    <3>2. head' = Advance(head, sizeQueue) /\ sizeQueue' = sizeQueue
      BY <1>d, <2>c, <2>4, <3>1 DEF AdvanceHead, Raced
    <3>3. pc'[c] = "unlock" /\ \A u \in Consumers : u # c => pc'[u] = pc[u]
      BY <1>a, <1>b, <3>1 DEF Step
    <3>4. Taking /\ ~Taking'
      BY <1>b, <1>d, <2>c, <3>1, <3>3 DEF Taking, Inside, InsidePc
    <3>5. First' = First
      BY <3>2, <3>4 DEF First
    <3>6. Stored' = Stored
      <4>1. Taken' = Taken
        BY <1>s, <2>c, <3>1, TakenStep DEF StoredPc
      <4> QED BY <1>s, <2>4, <4>1 DEF AdvanceHead
    <3>7. Queued' = Queued /\ Delivered' = Delivered
      BY <2>4, <3>5, <3>6 DEF AdvanceHead, Queued, Delivered
    <3>8. Handed'
      BY <1>c, <2>4, <3>1, <3>3 DEF AdvanceHead, Handed, HandedTo, EmptyPc, TakenPc
    <3> QED BY <3>2, <3>7, <3>8, MapsStutter
  <2> QED BY <1>2, <2>1, <2>2, <2>3, <2>4
<1>3. ASSUME NEW t \in Workers,
             \/ PrintAndSleep(t, Start(t)) /\ UNCHANGED sems
             \/ Lock(t) \/ Unlock(t) \/ Cancel(t) \/ CleanupHandler(t)
      PROVE  Maps /\ Handed'
  <2>t. t \in Threads /\ (t \in Producers \/ t \in Consumers)
    BY <1>b DEF Workers
  <2>1. CASE PrintAndSleep(t, Start(t)) /\ UNCHANGED sems
    <3>1. /\ pc[t] = "out" /\ \A u \in Workers : u # t => pc'[u] = pc[u] /\ msg'[u] = msg[u]
          /\ pc'[t] = Start(t) /\ msg'[t] = Junk
      BY <1>a, <1>b, <2>1 DEF PrintAndSleep, Step
    <3>2. CASE t \in Producers
      <4>1. \A c \in Consumers : pc'[c] = pc[c] /\ msg'[c] = msg[c]
        BY <1>b, <3>1, <3>2 DEF Workers
      <4> QED BY <1>q, <2>1, <4>1 DEF PrintAndSleep, sems
    <3>3. CASE t \in Consumers
      <4>1. pc'[t] = "wait" /\ msg[t] # Junk
        BY <1>b, <1>c, <3>1, <3>3, SlotAssumption DEF HandedTo, TakenPc, Start
      <4>2. First' = First
        BY <2>1, <3>1, <4>1 DEF First, Taking, PrintAndSleep, ring, Workers
      <4>3. Stored' = Stored
        <5>1. Taken' = Taken
          BY <1>h, <3>1, <4>1 DEF StoredPc, Workers
        <5> QED BY <1>s, <2>1, <5>1 DEF sems
      <4>4. Queued' = Queued /\ sizeQueue' = sizeQueue
        BY <2>1, <4>2, <4>3 DEF PrintAndSleep, Queued, ring
      <4>5. Delivered' = [Delivered EXCEPT ![t] = Junk]
        BY <3>1, <3>3 DEF Delivered, Workers
      <4>6. Handed'
        BY <1>c, <3>1, <4>1 DEF Handed, HandedTo, EmptyPc, TakenPc, Workers
      <4> QED BY <3>3, <4>1, <4>4, <4>5, <4>6, MapsHandled
    <3> QED BY <2>t, <3>2, <3>3
  <2>2. CASE Lock(t)
    <3>1. \A c \in Consumers : pc'[c] = pc[c] \/ (pc[c] = "lock" /\ pc'[c] = "read")
      BY <1>a, <1>b, <2>2 DEF Lock, Step
    <3> QED BY <1>q, <2>2, <3>1 DEF Lock, StoredPc, sems
  <2>3. CASE Unlock(t)
    <3>1. \A c \in Consumers : pc'[c] = pc[c] \/ (pc[c] = "unlock" /\ pc'[c] = "out")
      BY <1>a, <1>b, <2>3 DEF Unlock, Step
    <3> QED BY <1>q, <2>3, <3>1 DEF Unlock, sems
  <2>4. CASE Cancel(t) \/ CleanupHandler(t)
    BY <1>b, <1>c, <2>4, ThreadAssumption DEF Cancel, CleanupHandler, Step, Calm, Workers
  <2> QED BY <1>3, <2>1, <2>2, <2>3, <2>4
<1>4. CASE (Menu("wait") \/ JoinThread \/ UnlockMain) /\ UNCHANGED sems
  <2>1. CASE CreateProducer /\ UNCHANGED sems
    <3>1. \A c \in Consumers : pc'[c] = pc[c]
      BY <1>a, <1>b, <2>1 DEF CreateProducer
    <3> QED BY <1>q, <2>1, <3>1 DEF CreateProducer, sems
  <2>2. CASE CreateConsumer("wait") /\ UNCHANGED sems
    <3>1. \A c \in Consumers : pc'[c] = pc[c] \/ (pc[c] = "none" /\ pc'[c] = "wait")
      BY <1>a, <1>b, <2>2 DEF CreateConsumer
    <3> QED BY <1>q, <2>2, <3>1 DEF CreateConsumer, sems
  <2>3. CASE Destroy
    BY <1>c, <2>3, DestroyCounts
  <2>4. CASE JoinThread
    BY <1>c, <2>4 DEF JoinThread, Calm
  <2>5. CASE (Quit \/ UnlockMain) /\ UNCHANGED sems
    <3>1. \A c \in Consumers : pc'[c] = pc[c]
      BY <1>a, <1>b, <2>5 DEF Quit, UnlockMain, Step
    <3> QED BY <1>q, <2>5, <3>1 DEF Quit, UnlockMain, sems
  <2> QED BY <1>4, <2>1, <2>2, <2>3, <2>4, <2>5 DEF Menu
<1>i. ASSUME mutex = 0, NEW to, Step(Main, "menu", to), UNCHANGED <<msg, full>>
      PROVE  /\ Stored' = Stored /\ First = head /\ First' = head'
             /\ Handed' /\ Delivered' = Delivered
             /\ Queued = Contents(buffer, head, Stored, sizeQueue)
             /\ Queued' = Contents(buffer', head', Stored, sizeQueue')
             /\ Len(Queued) = Stored
  <2>1. \A c \in Consumers : pc'[c] = pc[c] /\ pc[c] # "advance"
    BY <1>a, <1>b, <1>c, <1>i DEF Step, OneInside, Inside, InsidePc
  <2>2. Stored' = Stored
    BY <1>h, <1>i, <1>s, <2>1
  <2>3. First = head /\ First' = head'
    BY <2>1 DEF First, Taking
  <2>4. Handed' /\ Delivered' = Delivered
    BY <1>c, <1>i, <2>1 DEF Handed, HandedTo, Delivered
  <2>5. Len(Queued) = Stored
    BY <1>a, <1>s, <1>v, ContentsType DEF Queued
  <2> QED BY <2>2, <2>3, <2>4, <2>5 DEF Queued
<1>5. CASE IncremSize
  <2>1. /\ mutex = 0 /\ Step(Main, "menu", "unlock") /\ UNCHANGED <<msg, full>>
        /\ head' = head /\ sizeQueue' = sizeQueue + 1
    BY <1>5 DEF IncremSize
  <2>2. First = head
    BY <1>i, <2>1
  <2>3. head <= tail /\ (Stored < sizeQueue \/ sizeQueue = 0)
    BY <1>a, <1>s, <1>v, <1>5, <2>2 DEF IncremSize, ExactGrow, RingShape, Wrap
  <2>4. Contents(Realloc(buffer, sizeQueue + 1), head, Stored, sizeQueue + 1)
          = Contents(buffer, head, Stored, sizeQueue)
    BY <1>a, <1>s, <1>v, <2>2, <2>3, GrowContents
  <2>5. buffer' = Realloc(buffer, sizeQueue + 1)
    BY <1>a, <1>5, <2>3 DEF IncremSize
  <2>6. Queued' = Queued
    BY <1>i, <2>1, <2>4, <2>5
  <2> QED BY <1>i, <2>1, <2>6, MapsResize
<1>6. CASE DiscrSize
  <2>1. CASE full < sizeQueue /\ Step(Main, "menu", "shrinkWait") /\ ShrinkRing
    <3>1. mutex = 0 /\ UNCHANGED <<msg, full>> /\ sizeQueue' = sizeQueue - 1
      BY <1>6, <2>1 DEF DiscrSize, ShrinkRing, sems
    <3>2. First = head
      BY <1>i, <2>1, <3>1
    <3>3. Stored < sizeQueue /\ ~(head < tail /\ tail - head = sizeQueue - 1)
      BY <1>a, <1>s, <1>v, <1>6, <2>1, <3>2 DEF DiscrSize, ExactShrink, RingShape, Wrap
    <3>4. Contents(buffer', head', Stored, sizeQueue - 1)
            = Contents(buffer, head, Stored, sizeQueue)
      BY <1>a, <1>s, <1>v, <2>1, <3>2, <3>3, ShrinkContents DEF ShrinkRing
    <3>5. Queued' = Queued
      BY <1>i, <2>1, <3>1, <3>4
    <3> QED BY <1>i, <2>1, <3>1, <3>3, <3>5, MapsResize
  <2>2. CASE Step(Main, "menu", "unlock") /\ UNCHANGED ring
    <3>1. \A c \in Consumers : pc'[c] = pc[c]
      BY <1>a, <1>b, <2>2 DEF Step
    <3> QED BY <1>q, <1>6, <2>2, <3>1 DEF DiscrSize, sems
  <2> QED BY <1>6, <2>1, <2>2 DEF DiscrSize
<1>7. CASE TakeEmptyToken
  <2>1. \A c \in Consumers : pc'[c] = pc[c]
    BY <1>a, <1>b, <1>7 DEF TakeEmptyToken, Step
  <2> QED BY <1>q, <1>7, <2>1 DEF TakeEmptyToken
<1>8. CASE Exited \/ UNCHANGED vars
  BY <1>q, <1>8 DEF Exited, vars, sems
<1> QED BY <1>1, <1>2, <1>3, <1>4, <1>5, <1>6, <1>7, <1>8 DEF Next

(* As long as no thread is cancelled the program is a first-in first-out   *)
(* bounded queue, for any number of threads, any size and any sequence of  *)
(* the resizes that are exact: no message is lost, duplicated, reordered   *)
(* or handed to two consumers.                                             *)
THEOREM ImplementsBoundedQueue ==
  ASSUME BoundaryResize = FALSE
  PROVE  Spec => ImplementsQueue
<1>1. /\ TypeOK /\ Uncancelled /\ MutualExclusion /\ TokenInv /\ RingInv /\ Handed
      /\ [Next]_vars
      => [cancels' = 0 => Abstract!Next \/ UNCHANGED Abstract!vars]_vars
  BY RefinementStep DEF Maps
<1>2. Handed /\ TypeOK /\ Uncancelled /\ MutualExclusion /\ TokenInv /\ RingInv
      /\ [Next]_vars => Handed'
  BY RefinementStep DEF Handed
<1>3. Init => MutualExclusion
  BY DEF Init, QueueInit, MutualExclusion, OneInside, Inside, InsidePc
<1>4. Init => Abstract!Init /\ Handed
  BY RefinementInit
<1> QED BY <1>1, <1>2, <1>3, <1>4, TokenInit, TokenStep, RingInvInit, RingInvStep,
           UncancelledInit, UncancelledStep, ExclusionStep, TypeCorrect, PTL
        DEF Spec, ImplementsQueue
=============================================================================
