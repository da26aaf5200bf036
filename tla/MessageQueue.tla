---------------------------- MODULE MessageQueue ----------------------------
(***************************************************************************)
(* What lab5_1.c and lab5_2.c have in common: the ring of messages and its *)
(* mutex, the producer and consumer threads, and the operator's thread,    *)
(* main, which creates and destroys them.  CondQueue and SemQueue extend   *)
(* this module with the way each program makes its threads wait, and with  *)
(* the resizing of the ring.                                               *)
(*                                                                         *)
(* Every thread has a program counter.  Between lock and unlock the code   *)
(* is split wherever a second thread inside the critical section could see *)
(* the difference, because cleanup_handler can unlock a mutex that another *)
(* thread holds.  queue.countAdd and queue.countGet are only printed and   *)
(* are left out.                                                           *)
(***************************************************************************)
EXTENDS Ring

CONSTANTS
  Producers, Consumers, Main,   (* the threads, and their ids              *)
  InitSize,                     (* sizeQueue at start (10 in functions.c)  *)
  MinSize, MaxSize,             (* bounds: s- and s+ stay within them      *)
  MaxCancels,                   (* bound: how often p- and c- find an id   *)
  BoundaryResize                (* whether s+ and s- are also pressed when *)
                                (* the resize damages the ring             *)

ASSUME ThreadAssumption ==
  /\ Producers \cap Consumers = {}
  /\ Main \notin Producers \cup Consumers

ASSUME BoundAssumption ==
  /\ InitSize \in Nat \ {0}
  /\ MinSize \in Nat /\ MaxSize \in Nat
  /\ MaxCancels \in Nat
  /\ BoundaryResize \in BOOLEAN

Workers == Producers \cup Consumers
Threads == Workers \cup {Main}

VARIABLES
  buffer, head, tail,           (* fields of `queue`                       *)
  sizeQueue,                    (* global of functions.c                   *)
  mutex,                        (* queue.mutex: 0 free, 1 locked           *)
  pc,                           (* where each thread is                    *)
  msg,                          (* each worker's local `msg`               *)
  prodIdMas, consIdMas,         (* the entries with a thread of their own  *)
  target,                       (* the thread being destroyed, else Main   *)
  cancels                       (* how often p- or c- found an id so far   *)

ring  == <<buffer, head, tail, sizeQueue>>
lists == <<prodIdMas, consIdMas, target, cancels>>

(* The places that lie between pthread_mutex_lock and pthread_mutex_unlock *)
(* in either program.                                                      *)
InsidePc  == {"test", "write", "read", "advance", "unlock", "cleanupHeld", "shrinkWait"}
Inside(t) == pc[t] \in InsidePc

(* What `++x` or `--x` leaves in a field of the queue: when a second thread *)
(* is inside, the unlocked update may be lost.                             *)
Raced(t, old, new) ==
  IF \E u \in Threads \ {t} : Inside(u) THEN {old, new} ELSE {new}

Running == pc[Main] # "exited"
Step(t, from, to) == /\ Running
                     /\ pc[t] = from
                     /\ pc' = [pc EXCEPT ![t] = to]

QueueInit ==
  /\ buffer = [i \in 0 .. InitSize - 1 |-> Junk]
  /\ head = 0 /\ tail = 0
  /\ sizeQueue = InitSize
  /\ mutex = 0
  /\ pc = [t \in Threads |-> IF t = Main THEN "menu" ELSE "none"]
  /\ msg = [t \in Workers |-> Junk]
  /\ prodIdMas = <<>> /\ consIdMas = <<>>
  /\ target = Main
  /\ cancels = 0

-----------------------------------------------------------------------------
(* Workers.                                                                *)

(* generateMessage.  generateRandSize never leaves its loop when           *)
(* rand() % 257 is 0: the thread spins for ever, with no cancellation      *)
(* point in the loop.                                                      *)
GenerateMessage(p, next) ==
  /\ Step(p, "gen", next)
  /\ \E m \in Message : msg' = [msg EXCEPT ![p] = m]
  /\ UNCHANGED <<ring, mutex, lists>>

GenerateRandSizeSpins(p) ==
  /\ Step(p, "gen", "spin") \/ Step(p, "spin", "spin")
  /\ UNCHANGED <<ring, mutex, msg, lists>>

(* memcpy into the slot at tail; memcpy out of the slot at head and memset *)
WriteMessage(p) ==
  /\ Step(p, "write", "advance")
  /\ buffer' = WriteSlot(buffer, tail, msg[p])
  /\ UNCHANGED <<head, tail, sizeQueue, mutex, msg, lists>>

(* Seeded fault of ReadMessage: the slot at tail is read.                  *)
ReadMessageAtTail(c) ==
  /\ Step(c, "read", "advance")
  /\ msg' = [msg EXCEPT ![c] = ReadSlot(buffer, tail)]
  /\ buffer' = WriteSlot(buffer, head, Zero)
  /\ UNCHANGED <<head, tail, sizeQueue, mutex, lists>>

ReadMessage(c) ==
  /\ Step(c, "read", "advance")
  /\ msg' = [msg EXCEPT ![c] = ReadSlot(buffer, head)]
  /\ buffer' = WriteSlot(buffer, head, Zero)
  /\ UNCHANGED <<head, tail, sizeQueue, mutex, lists>>

(* The message is printed, the thread sleeps and starts over with a fresh  *)
(* `msg`.  sleep is a cancellation point: a cancelled thread dies here.    *)
PrintAndSleep(t, start) ==
  /\ t # target
  /\ Step(t, "out", start)
  /\ msg' = [msg EXCEPT ![t] = Junk]
  /\ UNCHANGED <<ring, mutex, lists>>

-----------------------------------------------------------------------------
(* The operator's thread.                                                  *)

CreateProducer ==
  /\ Running /\ pc[Main] = "menu"
  /\ \E p \in Producers :
       /\ pc[p] = "none"
       /\ pc' = [pc EXCEPT ![p] = "gen"]
       /\ prodIdMas' = Append(prodIdMas, p)
  /\ UNCHANGED <<ring, mutex, msg, consIdMas, target, cancels>>

CreateConsumer(start) ==
  /\ Running /\ pc[Main] = "menu"
  /\ \E c \in Consumers :
       /\ pc[c] = "none"
       /\ pc' = [pc EXCEPT ![c] = start]
       /\ consIdMas' = Append(consIdMas, c)
  /\ UNCHANGED <<ring, mutex, msg, prodIdMas, target, cancels>>

(* destroyThread: cancel the thread and wait for its end.                  *)
CancelThread(t) ==
  /\ cancels < MaxCancels
  /\ Step(Main, "menu", "join")
  /\ target' = t
  /\ cancels' = cancels + 1
  /\ UNCHANGED <<ring, mutex, msg, prodIdMas, consIdMas>>

(* The same with an id that names no thread: the two calls fail, or main   *)
(* crashes in them.                                                        *)
CancelNobody ==
  /\ cancels < MaxCancels
  /\ Step(Main, "menu", "menu") \/ Step(Main, "menu", "exited")
  /\ cancels' = cancels + 1
  /\ UNCHANGED <<ring, mutex, msg, prodIdMas, consIdMas, target>>

(* p- and c-: the last entry of its list.                                  *)
DestroyThread(idMas) == idMas # <<>> /\ CancelThread(idMas[Len(idMas)])

(* p- and c- on an entry without a thread of its own.  A pthread_create    *)
(* that fails is only printed and the counter that main has raised stays,  *)
(* so the entry is an id that the failed call stored or found there: it    *)
(* names nobody, or a thread that got the same id.  Nothing but p- and c-  *)
(* looks at such an entry, so the lists leave it out and the failure       *)
(* itself is no step.                                                      *)
DestroyFailed ==
  \/ CancelNobody
  \/ \E t \in Workers : pc[t] # "none" /\ CancelThread(t)

Destroy ==
  DestroyThread(prodIdMas) \/ DestroyThread(consIdMas) \/ DestroyFailed

(* The list without the entry of a thread; the same list if it has none.   *)
Without(idMas, t) ==
  IF \E i \in 1 .. Len(idMas) : idMas[i] = t
  THEN LET k == CHOOSE i \in 1 .. Len(idMas) : idMas[i] = t
       IN  [i \in 1 .. Len(idMas) - 1 |-> idMas[IF i < k THEN i ELSE i + 1]]
  ELSE idMas

(* pthread_join returns.  The entry of a thread cancelled through another  *)
(* entry stays, and is from now on one without a thread of its own.        *)
JoinThread ==
  /\ Running /\ pc[Main] = "join"
  /\ pc[target] = "dead"
  /\ pc' = [pc EXCEPT ![Main] = "menu", ![target] = "none"]
  /\ prodIdMas' = Without(prodIdMas, target)
  /\ consIdMas' = Without(consIdMas, target)
  /\ target' = Main
  /\ UNCHANGED <<ring, mutex, msg, cancels>>

(* What discrSize does to the ring when it finds a slot free.              *)
ShrinkRing ==
  /\ buffer' = ShrunkBuffer(buffer, head, tail, sizeQueue)
  /\ head' = ShrunkHead(head, tail)
  /\ tail' = ShrunkTail(head, tail)
  /\ sizeQueue' = sizeQueue - 1

(* The end of a resize.                                                    *)
UnlockMain ==
  /\ Step(Main, "unlock", "menu")
  /\ mutex' = 0
  /\ UNCHANGED <<ring, msg, lists>>

(* q: main returns, and every thread ends with the process.                *)
Quit ==
  /\ Step(Main, "menu", "exited")
  /\ UNCHANGED <<ring, mutex, msg, lists>>

(* i, and p- or c- when there is no such thread, only print.               *)
Menu(consumerStart) ==
  \/ CreateProducer \/ CreateConsumer(consumerStart)
  \/ Destroy \/ Quit

-----------------------------------------------------------------------------
QueueTypeOK(pcs) ==
  /\ sizeQueue \in Int
  /\ buffer \in [0 .. sizeQueue - 1 -> Slot]
  /\ head \in Int /\ tail \in Int
  /\ mutex \in {0, 1}
  /\ pc \in [Threads -> pcs]
  /\ msg \in [Workers -> Slot]
  /\ prodIdMas \in Seq(Producers) /\ consIdMas \in Seq(Consumers)
  /\ target \in Threads
  /\ cancels \in Nat

(* No two threads are between lock and unlock, and whoever is there holds  *)
(* the lock.                                                               *)
OneInside ==
  \A t \in Threads : Inside(t) => /\ mutex = 1
                                  /\ \A u \in Threads : Inside(u) => u = t
=============================================================================
