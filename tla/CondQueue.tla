------------------------------ MODULE CondQueue ------------------------------
(***************************************************************************)
(* Lab5/lab5_2.c: producers and consumers share a ring of messages guarded *)
(* by one pthread mutex and two condition variables.                       *)
(***************************************************************************)
EXTENDS MessageQueue

VARIABLE countMsg         (* queue.countMsg                                *)

vars == <<ring, countMsg, mutex, pc, msg, lists>>

-----------------------------------------------------------------------------
(* Where a thread can be.  A worker waits in "wait" inside                 *)
(* pthread_cond_wait; signalled, it must lock again and repeat the test.   *)
(* "relock" is a worker cancelled in pthread_cond_wait, which takes the    *)
(* mutex back before its cleanup handler runs in "cleanupHeld"; "cleanup"  *)
(* is one cancelled in printf or sleep, which holds nothing.               *)
Pc == {"none", "gen", "spin", "lock", "test", "wait", "write", "read", "advance",
       "unlock", "out", "relock", "cleanupHeld", "cleanup", "dead",
       "menu", "join", "exited"}

(* Seeded faults of StepAndSignal: the woken thread does not lock again;   *)
(* nobody is woken.                                                        *)
StepAndSignalNoRelock(t, from, to, waiters) ==
  /\ Running
  /\ pc[t] = from
  /\ LET asleep == {w \in waiters : pc[w] = "wait"} IN
       \/ asleep = {} /\ pc' = [pc EXCEPT ![t] = to]
       \/ \E w \in asleep : pc' = [pc EXCEPT ![t] = to, ![w] = "test"]

StepAndSignalNobody(t, from, to, waiters) == Step(t, from, to)

(* pthread_cond_signal: wakes one of the threads waiting on the condition, *)
(* producers on `empty` and consumers on `full`, if there is one.          *)
StepAndSignal(t, from, to, waiters) ==
  /\ Running
  /\ pc[t] = from
  /\ LET asleep == {w \in waiters : pc[w] = "wait"} IN
       \/ asleep = {} /\ pc' = [pc EXCEPT ![t] = to]
       \/ \E w \in asleep : pc' = [pc EXCEPT ![t] = to, ![w] = "lock"]

Start(t) == IF t \in Producers THEN "gen" ELSE "lock"

Init == QueueInit /\ countMsg = 0

-----------------------------------------------------------------------------
(* Workers.                                                                *)

(* pthread_mutex_lock, at the top of the loop or inside pthread_cond_wait. *)
Lock(t) ==
  /\ mutex = 0
  /\ Step(t, "lock", "test")
  /\ mutex' = 1
  /\ UNCHANGED <<ring, countMsg, msg, lists>>

(* pthread_cond_wait unlocks the mutex and blocks, unless the thread was   *)
(* cancelled before: then the cancellation is acted upon at once.          *)
CondWait(t) ==
  /\ Step(t, "test", IF t = target THEN "relock" ELSE "wait")
  /\ mutex' = 0
  /\ UNCHANGED <<ring, countMsg, msg, lists>>

(* while (countMsg >= sizeQueue) pthread_cond_wait(&empty, &mutex)         *)
TestRoom(p) ==
  \/ countMsg >= sizeQueue /\ CondWait(p)
  \/ /\ countMsg < sizeQueue
     /\ Step(p, "test", "write")
     /\ UNCHANGED <<ring, countMsg, mutex, msg, lists>>

AdvanceTail(p) ==
  /\ StepAndSignal(p, "advance", "unlock", Consumers)
  /\ tail' \in Raced(p, tail, Advance(tail, sizeQueue))
  /\ countMsg' \in Raced(p, countMsg, countMsg + 1)
  /\ UNCHANGED <<buffer, head, sizeQueue, mutex, msg, lists>>

UnlockProducer(p) ==
  /\ Step(p, "unlock", "out")
  /\ mutex' = 0
  /\ UNCHANGED <<ring, countMsg, msg, lists>>

(* while (countMsg == 0) pthread_cond_wait(&full, &mutex)                  *)
TestMessage(c) ==
  \/ countMsg = 0 /\ CondWait(c)
  \/ /\ countMsg # 0
     /\ Step(c, "test", "read")
     /\ UNCHANGED <<ring, countMsg, mutex, msg, lists>>

AdvanceHead(c) ==
  /\ StepAndSignal(c, "advance", "unlock", Producers)
  /\ head' \in Raced(c, head, Advance(head, sizeQueue))
  /\ UNCHANGED <<buffer, tail, sizeQueue, countMsg, mutex, msg, lists>>

UnlockConsumer(c) ==
  /\ Step(c, "unlock", "out")
  /\ countMsg' \in Raced(c, countMsg, countMsg - 1)
  /\ mutex' = 0
  /\ UNCHANGED <<ring, msg, lists>>

(* pthread_cond_wait may return although nobody signalled.                 *)
SpuriousWakeup(t) ==
  /\ t # target
  /\ Step(t, "wait", "lock")
  /\ UNCHANGED <<ring, countMsg, mutex, msg, lists>>

(* The cancelled thread reaches a cancellation point.                      *)
Cancel(t) ==
  /\ t = target
  /\ Step(t, "wait", "relock") \/ Step(t, "out", "cleanup")
  /\ UNCHANGED <<ring, countMsg, mutex, msg, lists>>

Relock(t) ==
  /\ mutex = 0
  /\ Step(t, "relock", "cleanupHeld")
  /\ mutex' = 1
  /\ UNCHANGED <<ring, countMsg, msg, lists>>

(* Seeded fault of CleanupHandler: the mutex is left as it is.             *)
CleanupHandlerKeepsLock(t) ==
  /\ Step(t, "cleanupHeld", "dead") \/ Step(t, "cleanup", "dead")
  /\ msg' = [msg EXCEPT ![t] = Junk]
  /\ UNCHANGED <<ring, countMsg, mutex, lists>>

(* cleanup_handler unlocks the mutex, whoever holds it; a default pthread  *)
(* mutex does not check its owner.                                         *)
CleanupHandler(t) ==
  /\ Step(t, "cleanupHeld", "dead") \/ Step(t, "cleanup", "dead")
  /\ mutex' = 0
  /\ msg' = [msg EXCEPT ![t] = Junk]
  /\ UNCHANGED <<ring, countMsg, lists>>

-----------------------------------------------------------------------------
(* The operator's thread.                                                  *)

(* The resizes for which the ring operations of incremSize and discrSize   *)
(* keep the ring in shape: growing a queue that is not full, and shrinking *)
(* one whose content does not end in the slot that goes away; and no       *)
(* cancelled thread may have let another one in.                           *)
ExactGrow   == cancels = 0 /\ (countMsg < sizeQueue \/ sizeQueue = 0)
ExactShrink == cancels = 0 /\ ~(head < tail /\ tail - head = sizeQueue - 1)

(* Locking the mutex and resizing are one step: a command that has not got *)
(* the mutex yet has changed nothing.                                      *)
IncremSize ==
  /\ mutex = 0
  /\ sizeQueue < MaxSize
  /\ ExactGrow \/ BoundaryResize
  /\ StepAndSignal(Main, "menu", "unlock", Producers)
  /\ mutex' = 1
  /\ sizeQueue' = sizeQueue + 1
  /\ LET grown == Realloc(buffer, sizeQueue + 1) IN
       IF head > tail
       THEN buffer' = ShiftUp(grown, head) /\ head' = head + 1
       ELSE buffer' = grown /\ UNCHANGED head
  /\ UNCHANGED <<tail, countMsg, msg, lists>>

DiscrSize ==
  /\ mutex = 0
  /\ sizeQueue > MinSize
  /\ ExactShrink \/ BoundaryResize
  /\ Step(Main, "menu", "unlock")
  /\ mutex' = 1
  /\ \/ countMsg < sizeQueue /\ ShrinkRing
     \/ countMsg >= sizeQueue /\ UNCHANGED ring
  /\ UNCHANGED <<countMsg, msg, lists>>

-----------------------------------------------------------------------------
ProducerStep(p) ==
  \/ /\ GenerateMessage(p, "lock") \/ GenerateRandSizeSpins(p) \/ WriteMessage(p)
     /\ UNCHANGED countMsg
  \/ TestRoom(p) \/ AdvanceTail(p) \/ UnlockProducer(p)

ConsumerStep(c) ==
  \/ ReadMessage(c) /\ UNCHANGED countMsg
  \/ TestMessage(c) \/ AdvanceHead(c) \/ UnlockConsumer(c)

CommonStep(t) ==
  \/ PrintAndSleep(t, Start(t)) /\ UNCHANGED countMsg
  \/ Lock(t) \/ Cancel(t) \/ Relock(t) \/ CleanupHandler(t)

MainStep == (JoinThread \/ UnlockMain) /\ UNCHANGED countMsg

Command == \/ Menu("lock") /\ UNCHANGED countMsg
           \/ IncremSize \/ DiscrSize

Exited == ~Running /\ UNCHANGED vars

Next ==
  \/ \E p \in Producers : ProducerStep(p)
  \/ \E c \in Consumers : ConsumerStep(c)
  \/ \E t \in Workers : CommonStep(t) \/ SpuriousWakeup(t)
  \/ MainStep
  \/ Command
  \/ Exited

(* A thread that can go on does, and a thread that waits for the mutex     *)
(* gets it if it is free again and again: the kernel's futex wakes a       *)
(* waiter at every unlock.  The operator need not press anything.          *)
Fairness ==
  /\ \A p \in Producers : SF_vars(ProducerStep(p) \/ CommonStep(p))
  /\ \A c \in Consumers : SF_vars(ConsumerStep(c) \/ CommonStep(c))
  /\ WF_vars(MainStep)

Safety == Init /\ [][Next]_vars
Spec == Safety /\ Fairness

-----------------------------------------------------------------------------
(* Properties.                                                             *)

(* Every variable has its type; in particular the buffer always has        *)
(* sizeQueue slots.                                                        *)
TypeOK == QueueTypeOK(Pc) /\ countMsg \in Int

(* `mutex` does its work as long as no thread was cancelled: no two        *)
(* threads are between lock and unlock, and whoever is there holds it.     *)
MutualExclusion == cancels = 0 => OneInside

(* A locked mutex is held by a thread that will unlock it: cancelling a    *)
(* thread never leaves the queue locked behind it.                         *)
NoOrphanLock == mutex = 1 => \E t \in Threads : Inside(t)

(* Whenever the queue is unlocked and no thread was cancelled, head, tail, *)
(* countMsg and sizeQueue agree, and every slot they declare filled holds  *)
(* a message.                                                              *)
QueueShape == mutex = 0 /\ cancels = 0
                => RingShape(buffer, head, tail, countMsg, sizeQueue)

(* The abstract queue.  A consumer takes its message when it copies it out *)
(* of the buffer; until it has moved head, the queue starts one slot       *)
(* further on, and until it has lowered countMsg, it is one message        *)
(* shorter than countMsg says.                                             *)
Taking  == \E c \in Consumers : pc[c] = "advance"
Leaving == \E c \in Consumers : pc[c] = "unlock"

Queued == Contents(buffer,
                   IF Taking THEN Advance(head, sizeQueue) ELSE head,
                   IF Taking \/ Leaving THEN countMsg - 1 ELSE countMsg,
                   sizeQueue)

Abstract == INSTANCE BoundedQueue WITH
  None <- Junk, contents <- Queued, capacity <- sizeQueue,
  delivered <- [c \in Consumers |-> msg[c]]

(* As long as no thread is cancelled, the threads see a first-in first-out *)
(* bounded queue: every message a producer puts is handed to exactly one   *)
(* consumer, in order, also across resizes.                                *)
ImplementsQueue == Abstract!Spec

(* No wakeup is lost as long as no thread is cancelled: a consumer that    *)
(* waits while there are messages either is woken or sees the others empty *)
(* the queue, and a producer that waits while there is room is woken or    *)
(* sees the others fill it.  (Among three waiting threads the signals may  *)
(* choose two for ever, so this holds for at most two of a kind.)          *)
ConsumerServed ==
  \A c \in Consumers :
    pc[c] = "wait" /\ countMsg > 0
      ~> pc[c] # "wait" \/ countMsg = 0 \/ cancels > 0 \/ ~Running

ProducerServed ==
  \A p \in Producers :
    pc[p] = "wait" /\ countMsg < sizeQueue
      ~> pc[p] # "wait" \/ countMsg >= sizeQueue \/ cancels > 0 \/ ~Running

(* p- and c- come back to the menu: the cancelled thread reaches a         *)
(* cancellation point and its cleanup handler, whatever the others do,     *)
(* unless it is caught in generateRandSize.                                *)
DestroyReturns ==
  \A t \in Workers :
    pc[Main] = "join" /\ target = t ~> pc[Main] # "join" \/ pc[t] = "spin"
=============================================================================
