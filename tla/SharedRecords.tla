---------------------------- MODULE SharedRecords ----------------------------
(***************************************************************************)
(* Lab7/main.c: several processes read, edit and save the records of one   *)
(* file, each under the command of its operator.  They coordinate only     *)
(* through fcntl locks on the records; a record is read under one lock and *)
(* saved under a later one.                                                *)
(***************************************************************************)
EXTENDS Integers, Sequences

CONSTANTS
  Procs,         (* the processes                                          *)
  Size,          (* `size`: how many records the file has at start         *)
  Value,         (* the contents of a record                               *)
  Garbage,       (* the content of a variable that was never assigned      *)
  Absent,        (* "beyond the end of the file"                           *)
  MaxDeclines    (* bound: how often an operator answers 'n'               *)

ASSUME RecordsAssumption ==
  /\ Size \in Nat \ {0} /\ MaxDeclines \in Nat
  /\ Garbage \notin Value /\ Absent \notin Value \cup {Garbage}

(* The numbers an operator types after g: the records and one too many.    *)
Numbers == 0 .. Size
Content == Value \cup {Garbage}

VARIABLES
  file,                    (* the records of the file                      *)
  lock,                    (* the fcntl lock of each process on each record *)
  pc,                      (* where each process is                        *)
  currentRecord, record, newRecord,    (* variables of main                *)
  tmpRecord,               (* variable of saveRecord                       *)
  printed,                 (* the records printAllFile has printed so far  *)
  declines                 (* how often an operator answered 'n'           *)

local == <<currentRecord, record, newRecord, tmpRecord>>
vars  == <<file, lock, pc, local, printed, declines>>

-----------------------------------------------------------------------------
(* fcntl record locks.  A lock waits in one of the three places below; the *)
(* locks of a process do not conflict with each other.                     *)
Locking == {"printLock", "getLock", "saveLock"}
Pc == Locking \cup {"menu", "print", "get", "compare", "ask", "write", "sleep", "exited"}

(* Seeded fault of Wanted: printAllFile locks the first record only.       *)
WantedFirst(p) == IF pc[p] = "printLock" THEN {0} ELSE {currentRecord[p]}
Wanted(p) == IF pc[p] = "printLock" THEN Numbers ELSE {currentRecord[p]}

(* Seeded fault of LockType: saveRecord asks for a read lock.              *)
LockTypeRead(p) == "read"
LockType(p) == IF pc[p] = "saveLock" THEN "write" ELSE "read"

Blockers(p) ==
  {q \in Procs \ {p} : \E n \in Wanted(p) :
     lock[q][n] = "write" \/ (lock[q][n] = "read" /\ LockType(p) = "write")}

(* p would wait, in a circle of waiting processes, for itself.             *)
WouldDeadlock(p) ==
  \E circle \in SUBSET Procs :
    /\ p \in circle
    /\ \A q \in circle : pc[q] \in Locking /\ Blockers(q) \cap circle # {}

SetLock(p, numbers, type) ==
  lock' = [lock EXCEPT ![p] = [n \in Numbers |-> IF n \in numbers THEN type ELSE @[n]]]

Goto(p, from, to) == pc[p] = from /\ pc' = [pc EXCEPT ![p] = to]

Init ==
  /\ file \in {f \in [Numbers -> Value \cup {Absent}] :
                 \A n \in Numbers : f[n] = Absent <=> n = Size}
  /\ lock = [p \in Procs |-> [n \in Numbers |-> "none"]]
  /\ pc = [p \in Procs |-> "menu"]
  /\ currentRecord = [p \in Procs |-> 0]
  /\ record = [p \in Procs |-> Garbage]
  /\ newRecord = [p \in Procs |-> Garbage]
  /\ tmpRecord = [p \in Procs |-> Garbage]
  /\ printed = [p \in Procs |-> <<>>]
  /\ declines = 0

(* fcntl(F_SETLKW) succeeds, replacing the process's own lock, ...         *)
Acquire(p) ==
  /\ Blockers(p) = {}
  /\ \/ Goto(p, "printLock", "print")
     \/ Goto(p, "getLock", "get")
     \/ Goto(p, "saveLock", "compare")
  /\ SetLock(p, Wanted(p), LockType(p))
  /\ UNCHANGED <<file, local, printed, declines>>

(* ... or fails with EDEADLK, and the operation returns to the menu.       *)
LockFails(p) ==
  /\ WouldDeadlock(p)
  /\ \E from \in Locking : Goto(p, from, "menu")
  /\ UNCHANGED <<file, lock, local, printed, declines>>

-----------------------------------------------------------------------------
(* The menu of main.                                                       *)

(* Seeded fault of ChooseRecord: the number is checked with > for >=.      *)
ChooseRecordOffByOne(p) ==
  /\ \E n \in Numbers :
       /\ currentRecord' = [currentRecord EXCEPT ![p] = n]
       /\ Goto(p, "menu", IF n > Size THEN "menu" ELSE "getLock")
  /\ UNCHANGED <<file, lock, record, newRecord, tmpRecord, printed, declines>>

(* currentRecord is set before the number is checked.                      *)
ChooseRecord(p) ==
  /\ \E n \in Numbers :
       /\ currentRecord' = [currentRecord EXCEPT ![p] = n]
       /\ Goto(p, "menu", IF n >= Size THEN "menu" ELSE "getLock")
  /\ UNCHANGED <<file, lock, record, newRecord, tmpRecord, printed, declines>>

modifyRecord(p) ==
  /\ Goto(p, "menu", "menu")
  /\ \E v \in Value : newRecord' = [newRecord EXCEPT ![p] = v]
  /\ UNCHANGED <<file, lock, currentRecord, record, tmpRecord, printed, declines>>

(* p and s.                                                                *)
StartLocking(p) ==
  /\ Goto(p, "menu", "printLock") \/ Goto(p, "menu", "saveLock")
  /\ UNCHANGED <<file, lock, local, printed, declines>>

(* The end of a process releases its locks.                                *)
Quit(p) ==
  /\ Goto(p, "menu", "exited")
  /\ SetLock(p, Numbers, "none")
  /\ UNCHANGED <<file, local, printed, declines>>

-----------------------------------------------------------------------------
(* printAllFile reads to the end of the file and then unlocks all of it.   *)
PrintRecord(p) ==
  /\ Goto(p, "print", "print")
  /\ LET n == Len(printed[p]) IN
       /\ n \in Numbers /\ file[n] # Absent
       /\ printed' = [printed EXCEPT ![p] = Append(@, file[n])]
  /\ UNCHANGED <<file, lock, local, declines>>

PrintEnds(p) ==
  /\ Goto(p, "print", "menu")
  /\ LET n == Len(printed[p]) IN n \in Numbers => file[n] = Absent
  /\ SetLock(p, Numbers, "none")
  /\ printed' = [printed EXCEPT ![p] = <<>>]
  /\ UNCHANGED <<file, local, declines>>

(* Seeded fault of getRecordNumb: it unlocks from the position after read. *)
getRecordNumbUnlocksNext(p) ==
  /\ Goto(p, "get", "menu")
  /\ record' = [record EXCEPT ![p] = file[currentRecord[p]]]
  /\ SetLock(p, {currentRecord[p] + 1}, "none")
  /\ UNCHANGED <<file, currentRecord, newRecord, tmpRecord, printed, declines>>

(* getRecordNumb reads the record and unlocks it.                          *)
getRecordNumb(p) ==
  /\ Goto(p, "get", "menu")
  /\ record' = [record EXCEPT ![p] = file[currentRecord[p]]]
  /\ SetLock(p, {currentRecord[p]}, "none")
  /\ UNCHANGED <<file, currentRecord, newRecord, tmpRecord, printed, declines>>

(* saveRecord: reads the record again and compares it with the one read    *)
(* before.  Beyond the end of the file tmpRecord keeps what was in memory; *)
(* a comparison with such memory may come out either way.                  *)
CompareRecord(p) ==
  /\ LET n == currentRecord[p]
         found == IF file[n] = Absent THEN Garbage ELSE file[n]
     IN  /\ tmpRecord' = [tmpRecord EXCEPT ![p] = found]
         /\ \/ found = record[p] /\ Goto(p, "compare", "write")
            \/ (found # record[p] \/ found = Garbage) /\ Goto(p, "compare", "ask")
  /\ UNCHANGED <<file, lock, currentRecord, record, newRecord, printed, declines>>

AnswerYes(p) ==
  /\ Goto(p, "ask", "write")
  /\ UNCHANGED <<file, lock, local, printed, declines>>

(* The early return: the lock is kept.                                     *)
AnswerNo(p) ==
  /\ declines < MaxDeclines
  /\ Goto(p, "ask", "menu")
  /\ record' = [record EXCEPT ![p] = tmpRecord[p]]
  /\ newRecord' = [newRecord EXCEPT ![p] = tmpRecord[p]]
  /\ tmpRecord' = [tmpRecord EXCEPT ![p] = Garbage]
  /\ declines' = declines + 1
  /\ UNCHANGED <<file, lock, currentRecord, printed>>

WriteRecord(p) ==
  /\ Goto(p, "write", "sleep")
  /\ file' = [file EXCEPT ![currentRecord[p]] = newRecord[p]]
  /\ UNCHANGED <<lock, local, printed, declines>>

SaveEnds(p) ==
  /\ Goto(p, "sleep", "menu")
  /\ SetLock(p, {currentRecord[p]}, "none")
  /\ tmpRecord' = [tmpRecord EXCEPT ![p] = Garbage]
  /\ UNCHANGED <<file, currentRecord, record, newRecord, printed, declines>>

-----------------------------------------------------------------------------
(* What a process does by itself, and what its operator makes it do.       *)
ProcessStep(p) ==
  \/ Acquire(p) \/ LockFails(p)
  \/ PrintRecord(p) \/ PrintEnds(p) \/ getRecordNumb(p)
  \/ CompareRecord(p) \/ WriteRecord(p) \/ SaveEnds(p)

Operator(p) ==
  \/ ChooseRecord(p) \/ modifyRecord(p) \/ StartLocking(p) \/ Quit(p)
  \/ AnswerYes(p) \/ AnswerNo(p)

AllExited == (\A p \in Procs : pc[p] = "exited") /\ UNCHANGED vars

Next == (\E p \in Procs : ProcessStep(p) \/ Operator(p)) \/ AllExited

Safety == Init /\ [][Next]_vars

(* A process that can go on does; a lock that is free again and again is   *)
(* granted.  The operators need not do anything.                           *)
Spec == Safety /\ \A p \in Procs : SF_vars(ProcessStep(p))

-----------------------------------------------------------------------------
(* Properties.                                                             *)

(* Every variable has its type; only the record after the last can be      *)
(* missing.                                                                *)
TypeOK ==
  /\ file \in [Numbers -> Content \cup {Absent}]
  /\ \A n \in 0 .. Size - 1 : file[n] # Absent
  /\ lock \in [Procs -> [Numbers -> {"none", "read", "write"}]]
  /\ pc \in [Procs -> Pc]
  /\ currentRecord \in [Procs -> Numbers]
  /\ record \in [Procs -> Content] /\ newRecord \in [Procs -> Content]
  /\ tmpRecord \in [Procs -> Content]
  /\ printed \in [Procs -> Seq(Content)]
  /\ declines \in Nat

(* No lost update: the record that a process overwrites is still the one   *)
(* it compared with its own copy or showed to its operator, however long   *)
(* the operator takes to answer and whatever other processes save.         *)
NoBlindOverwrite ==
  \A p \in Procs :
    pc[p] = "write" =>
      LET now == file[currentRecord[p]]
      IN  tmpRecord[p] = IF now = Absent THEN Garbage ELSE now

(* printAllFile prints one state of the file: while it goes through the    *)
(* records, those it has printed do not change behind it.                  *)
PrintsOneState ==
  \A p \in Procs : \A i \in 1 .. Len(printed[p]) : printed[p][i] = file[i - 1]

(* As long as nobody answered 'n', a process at the menu or waiting for a  *)
(* lock holds none: all other ways out of the operations unlock exactly    *)
(* what was locked.                                                        *)
NothingHeldAtMenu ==
  declines = 0 =>
    \A p \in Procs : pc[p] \in Locking \cup {"menu"} =>
      \A n \in Numbers : lock[p][n] = "none"

(* As long as nobody answered 'n', no fcntl fails with EDEADLK.            *)
NoDeadlockError == declines = 0 => \A p \in Procs : ~WouldDeadlock(p)

(* As long as nobody answered 'n', a process that waits for a lock gets    *)
(* it, unless an operator leaves a question unanswered.  (Two readers that *)
(* take turns can keep a third process's write lock waiting for ever, so   *)
(* this holds for two processes.)                                          *)
LockGranted ==
  \A p \in Procs :
    pc[p] \in Locking
      ~> pc[p] \notin Locking \/ declines > 0 \/ \E q \in Procs : pc[q] = "ask"

(* What the menu says (main.c:138): "'r' - Rewrite current record" and     *)
(* "'s' - Save current record".  When s has written over a record that was *)
(* read with g and that it found unchanged, the file holds a record that   *)
(* was read or entered.                                                    *)
OnlyEnteredSaved ==
  \A p \in Procs :
    pc[p] = "sleep" /\ currentRecord[p] < Size /\ tmpRecord[p] = record[p]
      => file[currentRecord[p]] # Garbage
=============================================================================
