------------------------------ MODULE SemQueue ------------------------------
(***************************************************************************)
(* Lab5/lab5_1.c: producers and consumers share a ring of messages, whose  *)
(* free and filled slots are counted by two semaphores.  A thread takes a  *)
(* token from its semaphore before it locks the mutex and posts one to the *)
(* other before it unlocks.                                                *)
(***************************************************************************)
EXTENDS MessageQueue, FiniteSets

(* prodIdMas and consIdMas of functions.c have MAX_CHILD entries each.     *)
ASSUME FiniteAssumption == IsFiniteSet(Workers)

VARIABLES empty, full           (* the values of the two semaphores        *)

sems == <<empty, full>>
vars == <<ring, sems, mutex, pc, msg, lists>>

-----------------------------------------------------------------------------
(* Where a thread can be: in sem_wait ("wait"), holding a token and about  *)
(* to print ("after") or to lock ("lock"), between lock and unlock, in     *)
(* printf or sleep ("out"), or cancelled ("cleanup", then "dead").         *)
Pc == {"none", "gen", "spin", "wait", "after", "lock", "write", "read", "advance",
       "unlock", "out", "cleanup", "dead",
       "menu", "join", "shrinkWait", "exited"}

(* The thread has taken a token that it has not passed on yet.             *)
Holding(t) == pc[t] \in {"after", "lock", "write", "read", "advance"}

Start(t) == IF t \in Producers THEN "gen" ELSE "wait"

(* The semaphores are initialised with 10 and 0, as sizeQueue is with 10.  *)
Init == QueueInit /\ empty = InitSize /\ full = 0

-----------------------------------------------------------------------------
(* Workers.                                                                *)

(* sem_wait(&empty) and sem_wait(&full); a cancelled thread does not       *)
(* return from sem_wait.                                                   *)
SemWaitEmpty(p) ==
  /\ p # target
  /\ empty > 0
  /\ Step(p, "wait", "lock")
  /\ empty' = empty - 1
  /\ UNCHANGED <<ring, full, mutex, msg, lists>>

(* Seeded fault of SemWaitFull: the token is seen and not taken.           *)
SemWaitFullKeepsToken(c) ==
  /\ c # target
  /\ full > 0
  /\ Step(c, "wait", "after")
  /\ UNCHANGED <<ring, sems, mutex, msg, lists>>

SemWaitFull(c) ==
  /\ c # target
  /\ full > 0
  /\ Step(c, "wait", "after")
  /\ full' = full - 1
  /\ UNCHANGED <<ring, empty, mutex, msg, lists>>

PrintAfterSem(c) ==
  /\ Step(c, "after", "lock")
  /\ UNCHANGED <<ring, sems, mutex, msg, lists>>

(* Seeded fault of Lock: pthread_mutex_trylock, its result not checked.    *)
LockUnchecked(t) ==
  /\ Step(t, "lock", IF t \in Producers THEN "write" ELSE "read")
  /\ mutex' = 1
  /\ UNCHANGED <<ring, sems, msg, lists>>

Lock(t) ==
  /\ mutex = 0
  /\ Step(t, "lock", IF t \in Producers THEN "write" ELSE "read")
  /\ mutex' = 1
  /\ UNCHANGED <<ring, sems, msg, lists>>

AdvanceTail(p) ==
  /\ Step(p, "advance", "unlock")
  /\ tail' \in Raced(p, tail, Advance(tail, sizeQueue))
  /\ full' = full + 1
  /\ UNCHANGED <<buffer, head, sizeQueue, empty, mutex, msg, lists>>

AdvanceHead(c) ==
  /\ Step(c, "advance", "unlock")
  /\ head' \in Raced(c, head, Advance(head, sizeQueue))
  /\ empty' = empty + 1
  /\ UNCHANGED <<buffer, tail, sizeQueue, full, mutex, msg, lists>>

Unlock(t) ==
  /\ Step(t, "unlock", "out")
  /\ mutex' = 0
  /\ UNCHANGED <<ring, sems, msg, lists>>

(* The cancelled thread reaches a cancellation point: sem_wait, the printf *)
(* after it, which may also still let it pass, or printf and sleep at the  *)
(* end.  It does not hold the mutex at any of them.                        *)
Cancel(t) ==
  /\ t = target
  /\ Step(t, "wait", "cleanup") \/ Step(t, "after", "cleanup") \/ Step(t, "out", "cleanup")
  /\ UNCHANGED <<ring, sems, mutex, msg, lists>>

(* cleanup_handler unlocks the mutex, whoever holds it.                    *)
CleanupHandler(t) ==
  /\ Step(t, "cleanup", "dead")
  /\ mutex' = 0
  /\ msg' = [msg EXCEPT ![t] = Junk]
  /\ UNCHANGED <<ring, sems, lists>>

-----------------------------------------------------------------------------
(* The operator's thread.                                                  *)

(* How many messages the ring stores: those that `full` counts and those   *)
(* whose token a consumer has taken.                                       *)
Stored == full + Cardinality({c \in Consumers : pc[c] \in {"after", "lock", "read"}})

(* The resizes for which the ring operations of incremSize and discrSize   *)
(* keep the ring in shape, with no thread cancelled.  incremSize is wrong  *)
(* for content that wraps around; discrSize takes a full ring for an empty *)
(* one when a consumer holds a token, and leaves tail outside the buffer   *)
(* when the content ends in the slot that goes away.                       *)
ExactGrow   == cancels = 0 /\ (head < tail \/ Stored = 0)
ExactShrink == cancels = 0 /\ \/ full >= sizeQueue
                              \/ head = tail /\ Stored = 0
                              \/ head # tail /\ tail - head # sizeQueue - 1

(* Locking the mutex and resizing are one step: a command that has not got *)
(* the mutex yet has changed nothing.                                      *)
IncremSize ==
  /\ mutex = 0
  /\ sizeQueue < MaxSize
  /\ ExactGrow \/ BoundaryResize
  /\ Step(Main, "menu", "unlock")
  /\ mutex' = 1
  /\ sizeQueue' = sizeQueue + 1
  /\ empty' = empty + 1
  /\ LET grown == Realloc(buffer, sizeQueue + 1) IN
       IF head > tail
       THEN buffer' = ShiftUp(grown, tail) /\ tail' = tail + 1
       ELSE buffer' = grown /\ UNCHANGED tail
  /\ UNCHANGED <<head, full, msg, lists>>

(* discrSize shrinks the ring first and then takes the token of the slot   *)
(* that is gone, with the mutex locked: if there is none, everyone waits.  *)
DiscrSize ==
  /\ mutex = 0
  /\ sizeQueue > MinSize
  /\ ExactShrink \/ BoundaryResize
  /\ \/ /\ full < sizeQueue
        /\ Step(Main, "menu", "shrinkWait")
        /\ ShrinkRing
     \/ /\ full >= sizeQueue
        /\ Step(Main, "menu", "unlock")
        /\ UNCHANGED ring
  /\ mutex' = 1
  /\ UNCHANGED <<sems, msg, lists>>

(* Seeded fault of TakeEmptyToken: the counter is lowered without waiting. *)
TakeEmptyTokenNoWait ==
  /\ Step(Main, "shrinkWait", "unlock")
  /\ empty' = empty - 1
  /\ UNCHANGED <<ring, full, mutex, msg, lists>>

TakeEmptyToken ==
  /\ empty > 0
  /\ Step(Main, "shrinkWait", "unlock")
  /\ empty' = empty - 1
  /\ UNCHANGED <<ring, full, mutex, msg, lists>>

-----------------------------------------------------------------------------
Exited == ~Running /\ UNCHANGED vars

Next ==
  \/ \E p \in Producers :
       \/ /\ GenerateMessage(p, "wait") \/ GenerateRandSizeSpins(p) \/ WriteMessage(p)
          /\ UNCHANGED sems
       \/ SemWaitEmpty(p) \/ AdvanceTail(p)
  \/ \E c \in Consumers :
       \/ ReadMessage(c) /\ UNCHANGED sems
       \/ SemWaitFull(c) \/ PrintAfterSem(c) \/ AdvanceHead(c)
  \/ \E t \in Workers :
       \/ PrintAndSleep(t, Start(t)) /\ UNCHANGED sems
       \/ Lock(t) \/ Unlock(t) \/ Cancel(t) \/ CleanupHandler(t)
  \/ (Menu("wait") \/ JoinThread \/ UnlockMain) /\ UNCHANGED sems
  \/ IncremSize \/ DiscrSize \/ TakeEmptyToken
  \/ Exited

Spec == Init /\ [][Next]_vars

-----------------------------------------------------------------------------
(* Properties.                                                             *)

(* Every variable has its type; in particular the buffer always has        *)
(* sizeQueue slots and no semaphore is negative.                           *)
TypeOK == QueueTypeOK(Pc) /\ empty \in Nat /\ full \in Nat

(* As long as no thread was cancelled, no two threads are between lock and *)
(* unlock.                                                                 *)
MutualExclusion == cancels = 0 => OneInside

(* No step of any thread forges a token: the tokens in the semaphores and  *)
(* in the hands of the threads are never more than the slots, and they are *)
(* as many while no thread was cancelled.  discrSize owes one token from   *)
(* the moment it drops the slot until its sem_wait returns.                *)
TokensConserved ==
  LET held  == Cardinality({t \in Workers : Holding(t)})
      owed  == IF pc[Main] = "shrinkWait" THEN 1 ELSE 0
      total == empty + full + held
  IN  /\ total <= sizeQueue + owed
      /\ cancels = 0 => total = sizeQueue + owed

(* Whenever the mutex is free and no thread was cancelled, the tokens      *)
(* describe the ring: head, tail and sizeQueue agree with the number of    *)
(* messages stored, and each of those slots holds a message.               *)
QueueShape ==
  mutex = 0 /\ cancels = 0 => RingShape(buffer, head, tail, Stored, sizeQueue)

(* What the comments at lab5_1.c:16-17 say of the semaphores: when no      *)
(* thread is between its sem_wait and its sem_post, `full` is the number   *)
(* of filled slots and `empty` the number of free ones.                    *)
SemaphoresCountSlots ==
  (\A t \in Workers : ~Holding(t)) =>
     LET filled == Cardinality({i \in DOMAIN buffer : buffer[i] \in Message})
     IN  full = filled /\ empty = sizeQueue - filled

(* The abstract queue.  A consumer takes its message when it copies it out *)
(* of the buffer, one step before it moves head.                           *)
Taking == \E c \in Consumers : pc[c] = "advance"

Abstract == INSTANCE BoundedQueue WITH
  None <- Junk, capacity <- sizeQueue,
  contents <- Contents(buffer, IF Taking THEN Advance(head, sizeQueue) ELSE head,
                       Stored, sizeQueue),
  delivered <- [c \in Consumers |-> msg[c]]

(* As long as no thread is cancelled, the threads see a first-in first-out *)
(* bounded queue, also while it is resized.                                *)
ImplementsQueue ==
  Abstract!Init /\ [][cancels' = 0 => Abstract!Next \/ UNCHANGED Abstract!vars]_vars
=============================================================================
