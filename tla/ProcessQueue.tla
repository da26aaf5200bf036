---------------------------- MODULE ProcessQueue ----------------------------
(***************************************************************************)
(* Lab4/lab4Main.c: producers and consumers are processes that share a     *)
(* ring in shared memory, with the semaphores `empty`, `full` and `mutex`; *)
(* main creates them and ends them with SIGUSR1, whose handler sets a flag *)
(* that each process tests after a sem_wait.                               *)
(*                                                                         *)
(* What follows exit(0) in workConsumer (172-199) is never reached: the    *)
(* bracket of its `if` is closed too late.  A consumer takes tokens of     *)
(* `full` and nothing else, so no message ever leaves the ring.            *)
(***************************************************************************)
EXTENDS Integers, Sequences, FiniteSets, Functions

CONSTANTS
  Producers, Consumers,  (* the process ids that fork will return          *)
  Everyone,              (* -1: what a failed fork returns, and whom kill  *)
                         (* then signals                                   *)
  Restarting,            (* those whose handler has SA_RESTART: sa_flags   *)
                         (* is never assigned, so it may be set or not     *)
  BufferSize,            (* BUFFER_SIZE: slots of the ring                 *)
  MaxEntries             (* bound: how many entries the two lists have     *)
                         (* together                                       *)

ASSUME QueueAssumption ==
  /\ Producers \cap Consumers = {}
  /\ Restarting \subseteq Producers \cup Consumers
  /\ Everyone \notin Producers \cup Consumers
  /\ BufferSize \in Nat \ {0} /\ MaxEntries \in Nat

Workers == Producers \cup Consumers

VARIABLES
  buffer, tail,             (* the ring: each slot is a header and its     *)
                            (* data; how often each part was written       *)
  empty, full, mutex,       (* the semaphores of the queue                 *)
  pc,                       (* where each process is                       *)
  pending,                  (* whether a SIGUSR1 for it is under way       *)
  sigTERMsignalFlag,        (* its flag                                    *)
  prodPidMas, consPidMas,   (* the entries 0 .. prodCount and consCount    *)
  main,                     (* "menu" or "gone"                            *)
  interrupted               (* whether sem_wait(&mutex) was ever cut short *)

queue   == <<buffer, tail, empty, full, mutex>>
signals == <<pending, sigTERMsignalFlag>>
lists   == <<prodPidMas, consPidMas, main>>
vars    == <<queue, pc, signals, lists, interrupted>>

Parts    == 0 .. 2 * BufferSize - 1
InsidePc == {"header", "data", "post"}
Pc       == {"none", "gen", "spin", "waitEmpty", "testFlag", "waitMutex", "waitFull", "exited"}
            \cup InsidePc
Inside(p) == pc[p] \in InsidePc
Alive(p)  == pc[p] \notin {"none", "exited"}

Goto(p, from, to) == pc[p] = from /\ pc' = [pc EXCEPT ![p] = to]

Init ==
  /\ buffer = [i \in Parts |-> 0] /\ tail = 0
  /\ empty = BufferSize /\ full = 0 /\ mutex = 1
  /\ pc = [p \in Workers |-> "none"]
  /\ pending = [p \in Workers |-> FALSE]
  /\ sigTERMsignalFlag = [p \in Workers |-> FALSE]
  /\ prodPidMas = <<>> /\ consPidMas = <<>> /\ main = "menu"
  /\ interrupted = FALSE

-----------------------------------------------------------------------------
(* Producers.                                                              *)

(* generateMessage; for the residue 0 generateRandSize does not return.    *)
GenerateMessage(p) ==
  /\ Goto(p, "gen", "waitEmpty") \/ Goto(p, "gen", "spin")
  /\ UNCHANGED <<queue, signals, lists, interrupted>>

(* Seeded fault of SemWaitEmpty: no token is taken.                        *)
SemWaitEmptyKeepsToken(p) ==
  /\ empty > 0
  /\ Goto(p, "waitEmpty", "testFlag")
  /\ UNCHANGED <<queue, signals, lists, interrupted>>

SemWaitEmpty(p) ==
  /\ empty > 0 /\ empty' = empty - 1
  /\ Goto(p, "waitEmpty", "testFlag")
  /\ UNCHANGED <<buffer, tail, full, mutex, signals, lists, interrupted>>

(* A producer that ends here keeps the token it has taken.                 *)
TestFlag(p) ==
  /\ Goto(p, "testFlag", IF sigTERMsignalFlag[p] THEN "exited" ELSE "waitMutex")
  /\ UNCHANGED <<queue, signals, lists, interrupted>>

(* Seeded fault of SemWaitMutex: it does not wait.                         *)
SemWaitMutexUnchecked(p) ==
  /\ Goto(p, "waitMutex", "header")
  /\ mutex' = 0
  /\ UNCHANGED <<buffer, tail, empty, full, signals, lists, interrupted>>

SemWaitMutex(p) ==
  /\ mutex > 0 /\ mutex' = mutex - 1
  /\ Goto(p, "waitMutex", "header")
  /\ UNCHANGED <<buffer, tail, empty, full, signals, lists, interrupted>>

(* What an unlocked update may leave when another process is inside, too.  *)
Raced(p, old, new) ==
  IF \E q \in Workers \ {p} : Inside(q) THEN {old, new} ELSE {new}

(* memcpy of one part to queue->tail, and queue->tail += its size.         *)
WritePart(p, next) ==
  /\ buffer' = [buffer EXCEPT ![tail] = @ + 1]
  /\ tail' \in Raced(p, tail, next)
  /\ UNCHANGED <<empty, full, mutex, signals, lists, interrupted>>

WriteHeader(p) == Goto(p, "header", "data") /\ WritePart(p, tail + 1)

(* Seeded fault of Wrapped: the ring is taken to be one slot shorter.      *)
WrappedEarly(t) == IF t \div 2 = BufferSize - 1 THEN 0 ELSE t

(* tail goes back to the start after BufferSize whole slots.               *)
Wrapped(t) == IF t \div 2 = BufferSize THEN 0 ELSE t

WriteData(p) == Goto(p, "data", "post") /\ WritePart(p, Wrapped(tail + 1))

(* Seeded fault of Post: the mutex stays taken.                            *)
PostKeepsMutex(p) ==
  /\ Goto(p, "post", "gen")
  /\ full' = full + 1
  /\ UNCHANGED <<buffer, tail, empty, mutex, signals, lists, interrupted>>

(* sem_post of full and of mutex.                                          *)
Post(p) ==
  /\ Goto(p, "post", "gen")
  /\ full' = full + 1 /\ mutex' = mutex + 1
  /\ UNCHANGED <<buffer, tail, empty, signals, lists, interrupted>>

-----------------------------------------------------------------------------
(* Consumers: sem_wait(&full), the test of the flag, and again.            *)
SemWaitFull(c) ==
  /\ full > 0 /\ full' = full - 1
  /\ Goto(c, "waitFull", IF sigTERMsignalFlag[c] THEN "exited" ELSE "waitFull")
  /\ UNCHANGED <<buffer, tail, empty, mutex, signals, lists, interrupted>>

-----------------------------------------------------------------------------
(* SIGUSR1 reaches a process.  Without SA_RESTART a sem_wait that blocks   *)
(* returns an error, which no caller looks at.                             *)
HandlerSIGUSR1(p) ==
  /\ pending[p] /\ Alive(p)
  /\ pending' = [pending EXCEPT ![p] = FALSE]
  /\ sigTERMsignalFlag' = [sigTERMsignalFlag EXCEPT ![p] = TRUE]
  /\ UNCHANGED <<queue, lists>>

SignalRestarts(p) == HandlerSIGUSR1(p) /\ UNCHANGED <<pc, interrupted>>

SignalInterrupts(p) ==
  /\ HandlerSIGUSR1(p) /\ p \notin Restarting
  /\ \/ empty = 0 /\ Goto(p, "waitEmpty", "testFlag") /\ UNCHANGED interrupted
     \/ full = 0 /\ Goto(p, "waitFull", "exited") /\ UNCHANGED interrupted
     \/ mutex = 0 /\ Goto(p, "waitMutex", "header") /\ interrupted' = TRUE

-----------------------------------------------------------------------------
(* main.                                                                   *)
(* The bound of the model; the code compares no count with MAX_CHILD.      *)
HasRoom == Len(prodPidMas) + Len(consPidMas) < MaxEntries

CreateProducer ==
  /\ main = "menu" /\ HasRoom
  /\ \E p \in Producers : Goto(p, "none", "gen") /\ prodPidMas' = Append(prodPidMas, p)
  /\ UNCHANGED <<queue, signals, consPidMas, main, interrupted>>

(* A consumer inherits the handler of main.                                *)
CreateConsumer ==
  /\ main = "menu" /\ HasRoom
  /\ \E c \in Consumers : Goto(c, "none", "waitFull") /\ consPidMas' = Append(consPidMas, c)
  /\ UNCHANGED <<queue, signals, prodPidMas, main, interrupted>>

(* fork fails: -1 is stored like a process id (one such entry at a time).  *)
ForkFails ==
  /\ main = "menu" /\ HasRoom
  /\ Everyone \notin Range(prodPidMas) \cup Range(consPidMas)
  /\ \/ prodPidMas' = Append(prodPidMas, Everyone) /\ UNCHANGED consPidMas
     \/ consPidMas' = Append(consPidMas, Everyone) /\ UNCHANGED prodPidMas
  /\ UNCHANGED <<queue, pc, signals, main, interrupted>>

Kill(pid) ==
  pending' = [p \in Workers |-> pending[p] \/ ((pid = p \/ pid = Everyone) /\ Alive(p))]

LastOf(s)  == s[Len(s)]
ButLast(s) == SubSeq(s, 1, Len(s) - 1)

DestroyChildProcess ==
  /\ main = "menu"
  /\ \/ /\ prodPidMas # <<>> /\ Kill(LastOf(prodPidMas))
        /\ prodPidMas' = ButLast(prodPidMas) /\ UNCHANGED consPidMas
     \/ /\ consPidMas # <<>> /\ Kill(LastOf(consPidMas))
        /\ consPidMas' = ButLast(consPidMas) /\ UNCHANGED prodPidMas
  /\ UNCHANGED <<queue, pc, sigTERMsignalFlag, main, interrupted>>

(* q ends main, and its lists with it, but none of the other processes.    *)
Quit ==
  /\ main = "menu" /\ main' = "gone"
  /\ prodPidMas' = <<>> /\ consPidMas' = <<>>
  /\ UNCHANGED <<queue, pc, signals, interrupted>>

-----------------------------------------------------------------------------
ProducerStep(p) ==
  \/ GenerateMessage(p) \/ SemWaitEmpty(p) \/ TestFlag(p) \/ SemWaitMutex(p)
  \/ WriteHeader(p) \/ WriteData(p) \/ Post(p)

Signal(p) == SignalRestarts(p) \/ SignalInterrupts(p)
Command   == CreateProducer \/ CreateConsumer \/ ForkFails \/ DestroyChildProcess \/ Quit

Next ==
  \/ \E p \in Producers : ProducerStep(p)
  \/ \E c \in Consumers : SemWaitFull(c)
  \/ \E p \in Workers : Signal(p)
  \/ Command

Safety == Init /\ [][Next]_vars

(* Every process that can run does, and every signal arrives.              *)
Spec ==
  /\ Safety
  /\ \A p \in Producers : WF_vars(ProducerStep(p))
  /\ \A c \in Consumers : WF_vars(SemWaitFull(c))
  /\ \A p \in Workers : WF_vars(Signal(p))

-----------------------------------------------------------------------------
(* Properties.                                                             *)

(* Every variable has its type; the semaphores never hold more tokens than *)
(* there are slots, and tail stays within the ring.                        *)
TypeOK ==
  /\ buffer \in [Parts -> Nat] /\ tail \in Parts
  /\ empty \in 0 .. BufferSize /\ full \in 0 .. BufferSize /\ mutex \in Nat
  /\ pc \in [Workers -> Pc]
  /\ pending \in [Workers -> BOOLEAN]
  /\ sigTERMsignalFlag \in [Workers -> BOOLEAN]
  /\ prodPidMas \in Seq(Producers \cup {Everyone})
  /\ consPidMas \in Seq(Consumers \cup {Everyone})
  /\ main \in {"menu", "gone"} /\ interrupted \in BOOLEAN

(* "Мьютекс для доступа к очереди" (lab4Main.c:105): one process at a time *)
(* writes to the queue, as long as no signal cut sem_wait(&mutex) short.   *)
MutualExclusion ==
  ~interrupted => \A p, q \in Producers : Inside(p) /\ Inside(q) => p = q

(* Each token of `empty` stands for a free slot (lab4Main.c:103): what is  *)
(* missing of BufferSize is a message in the ring, or held by a producer,  *)
(* or was taken by a producer that ended, one for each of those at most.   *)
(* No part of a message is overwritten.  (Unless a signal has cut short    *)
(* sem_wait(&mutex).)                                                      *)
HoldsToken(p) == pc[p] \in {"testFlag", "waitMutex", "header"}
TokensAccountedFor ==
  ~interrupted =>
    LET written  == {i \in Parts : buffer[i] > 0}
        messages == (Cardinality(written) + 1) \div 2
        waiting  == {p \in Producers : HoldsToken(p)}
        missing  == BufferSize - empty - messages
    IN  /\ \A i \in Parts : buffer[i] <= 1
        /\ missing >= Cardinality({p \in waiting : ~sigTERMsignalFlag[p]})
        /\ missing <= Cardinality(waiting \cup {p \in Producers : pc[p] = "exited"})

(* A producer that waits for the mutex gets it: no process ends or waits   *)
(* for another message with the mutex in its hands.                        *)
MutexIsPassedOn == \A p \in Producers : pc[p] = "waitMutex" ~> Inside(p)
=============================================================================
