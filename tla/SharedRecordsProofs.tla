------------------------- MODULE SharedRecordsProofs -------------------------
(***************************************************************************)
(* Theorems about SharedRecords (Lab7/main.c), for every number of         *)
(* processes and records and for any answers of the operators.             *)
(***************************************************************************)
EXTENDS SharedRecords, TLAPS

-----------------------------------------------------------------------------
(* Type correctness.                                                       *)

(* The record in use by a process that reads or writes it exists: only the *)
(* number after the last record can be chosen without being read.          *)
GetInRange == \A p \in Procs : pc[p] \in {"getLock", "get"} => currentRecord[p] < Size

TypeInv == TypeOK /\ GetInRange

LEMMA TypeInit == Init => TypeInv
  BY RecordsAssumption
  DEF Init, TypeInv, TypeOK, GetInRange, Numbers, Content, Pc, Locking

LEMMA SetLockType ==
  ASSUME TypeOK, NEW p \in Procs, NEW numbers, NEW type \in {"none", "read", "write"},
         SetLock(p, numbers, type)
  PROVE  lock' \in [Procs -> [Numbers -> {"none", "read", "write"}]]
  BY DEF TypeOK, SetLock

LEMMA TypeStep == TypeInv /\ [Next]_vars => TypeInv'
<1> SUFFICES ASSUME TypeInv, [Next]_vars PROVE TypeInv'
  OBVIOUS
<1> USE DEF TypeInv
<1>a. TypeOK /\ GetInRange
  OBVIOUS
<1>1. ASSUME NEW p \in Procs, ProcessStep(p) \/ Operator(p) PROVE TypeInv'
  <2>1. CASE Acquire(p)
    <3>1. lock' \in [Procs -> [Numbers -> {"none", "read", "write"}]]
      BY <1>a, <2>1, SetLockType DEF Acquire, LockType
    <3> QED BY <1>a, <2>1, <3>1 DEF Acquire, Goto, TypeOK, GetInRange, Pc, Locking, local
  <2>2. CASE LockFails(p)
    BY <1>a, <2>2 DEF LockFails, Goto, TypeOK, GetInRange, Pc, Locking, local
  <2>3. CASE PrintRecord(p)
    <3>1. printed' \in [Procs -> Seq(Content)]
      BY <1>a, <2>3 DEF PrintRecord, TypeOK
    <3> QED BY <1>a, <2>3, <3>1 DEF PrintRecord, Goto, TypeOK, GetInRange, Pc, Locking, local
  <2>4. CASE PrintEnds(p)
    <3>1. lock' \in [Procs -> [Numbers -> {"none", "read", "write"}]]
      BY <1>a, <2>4, SetLockType DEF PrintEnds
    <3>2. printed' \in [Procs -> Seq(Content)]
      <4>1. <<>> \in Seq(Content)
        OBVIOUS
      <4> QED BY <1>a, <2>4, <4>1 DEF PrintEnds, TypeOK
    <3> QED BY <1>a, <2>4, <3>1, <3>2 DEF PrintEnds, Goto, TypeOK, GetInRange, Pc, Locking, local
  <2>5. CASE getRecordNumb(p)
    <3>1. lock' \in [Procs -> [Numbers -> {"none", "read", "write"}]]
      BY <1>a, <2>5, SetLockType DEF getRecordNumb
    <3>2. file[currentRecord[p]] \in Content
      BY <1>a, <2>5, RecordsAssumption
      DEF getRecordNumb, Goto, TypeOK, GetInRange, Numbers
    <3> QED BY <1>a, <2>5, <3>1, <3>2
            DEF getRecordNumb, Goto, TypeOK, GetInRange, Pc, Locking
  <2>6. CASE CompareRecord(p)
    <3>1. tmpRecord' \in [Procs -> Content]
      BY <1>a, <2>6 DEF CompareRecord, TypeOK, Content
    <3> QED BY <1>a, <2>6, <3>1 DEF CompareRecord, Goto, TypeOK, GetInRange, Pc, Locking
  <2>7. CASE WriteRecord(p)
    <3>1. /\ file' \in [Numbers -> Content \cup {Absent}]
          /\ \A n \in 0 .. Size - 1 : file'[n] # Absent
      BY <1>a, <2>7, RecordsAssumption DEF WriteRecord, TypeOK, Content, Numbers
    <3> QED BY <1>a, <2>7, <3>1 DEF WriteRecord, Goto, TypeOK, GetInRange, Pc, Locking, local
  <2>8. CASE SaveEnds(p)
    <3>1. lock' \in [Procs -> [Numbers -> {"none", "read", "write"}]]
      BY <1>a, <2>8, SetLockType DEF SaveEnds
    <3> QED BY <1>a, <2>8, <3>1 DEF SaveEnds, Goto, TypeOK, GetInRange, Pc, Locking, Content
  <2>9. CASE ChooseRecord(p)
    BY <1>a, <2>9, RecordsAssumption
    DEF ChooseRecord, Goto, TypeOK, GetInRange, Pc, Locking, Numbers
  <2>10. CASE modifyRecord(p)
    BY <1>a, <2>10 DEF modifyRecord, Goto, TypeOK, GetInRange, Pc, Locking, Content
  <2>11. CASE StartLocking(p) \/ AnswerYes(p)
    BY <1>a, <2>11 DEF StartLocking, AnswerYes, Goto, TypeOK, GetInRange, Pc, Locking, local
  <2>12. CASE Quit(p)
    <3>1. lock' \in [Procs -> [Numbers -> {"none", "read", "write"}]]
      BY <1>a, <2>12, SetLockType DEF Quit
    <3> QED BY <1>a, <2>12, <3>1 DEF Quit, Goto, TypeOK, GetInRange, Pc, Locking, local
  <2>13. CASE AnswerNo(p)
    BY <1>a, <2>13 DEF AnswerNo, Goto, TypeOK, GetInRange, Pc, Locking, Content
  <2> QED BY <1>1, <2>1, <2>2, <2>3, <2>4, <2>5, <2>6, <2>7, <2>8, <2>9, <2>10,
             <2>11, <2>12, <2>13 DEF ProcessStep, Operator
<1>2. CASE AllExited \/ UNCHANGED vars
  BY <1>a, <1>2 DEF AllExited, vars, local, TypeOK, GetInRange
<1> QED BY <1>1, <1>2 DEF Next

(* The variables keep their types: in particular the record that           *)
(* getRecordNumb copies always exists, although currentRecord may be one   *)
(* too large.                                                              *)
THEOREM TypeCorrect == Safety => []TypeOK
<1>1. TypeInv => TypeOK
  BY DEF TypeInv
<1> QED BY <1>1, TypeInit, TypeStep, PTL DEF Safety

-----------------------------------------------------------------------------
(* Who holds which lock.                                                   *)

Saving   == {"compare", "ask", "write", "sleep"}
Exclusive ==
  \A p, q \in Procs : \A n \in Numbers :
    p # q /\ lock[p][n] = "write" => lock[q][n] = "none"
HeldWhileSaving ==
  \A p \in Procs : pc[p] \in Saving => lock[p][currentRecord[p]] = "write"
HeldWhileReading ==
  \A p \in Procs : /\ pc[p] = "get" => lock[p][currentRecord[p]] # "none"
                   /\ pc[p] = "print" => \A n \in Numbers : lock[p][n] # "none"

LockInv == Exclusive /\ HeldWhileSaving /\ HeldWhileReading

LEMMA LockInit == Init => LockInv
  BY DEF Init, LockInv, Exclusive, HeldWhileSaving, HeldWhileReading, Saving

LEMMA LockStep == TypeInv /\ LockInv /\ [Next]_vars => LockInv'
<1> SUFFICES ASSUME TypeInv, LockInv, [Next]_vars PROVE LockInv'
  OBVIOUS
<1>a. /\ lock \in [Procs -> [Numbers -> {"none", "read", "write"}]]
      /\ pc \in [Procs -> Pc] /\ currentRecord \in [Procs -> Numbers]
  BY DEF TypeInv, TypeOK
<1>b. Exclusive /\ HeldWhileSaving /\ HeldWhileReading
  BY DEF LockInv
(* A step that leaves the locks alone and takes no process to a place      *)
(* where it would have to hold more.                                       *)
<1>c. ASSUME UNCHANGED lock, NEW p \in Procs,
             \A q \in Procs : q # p => pc'[q] = pc[q] /\ currentRecord'[q] = currentRecord[q],
             \/ /\ currentRecord'[p] = currentRecord[p]
                /\ pc'[p] \in Saving => pc[p] \in Saving
                /\ pc'[p] \in {"print", "get"} => pc[p] = pc'[p]
             \/ pc'[p] \in {"menu", "printLock", "getLock", "saveLock"}
      PROVE  LockInv'
  <2>1. Exclusive'
    BY <1>b, <1>c DEF Exclusive
  <2>2. HeldWhileSaving'
    BY <1>b, <1>c DEF HeldWhileSaving, Saving
  <2>3. HeldWhileReading'
    BY <1>b, <1>c DEF HeldWhileReading
  <2> QED BY <2>1, <2>2, <2>3 DEF LockInv
(* A step that ends an operation or the process, and unlocks.              *)
<1>d. ASSUME NEW p \in Procs, NEW numbers, SetLock(p, numbers, "none"),
             pc' = [pc EXCEPT ![p] = "menu"] \/ pc' = [pc EXCEPT ![p] = "exited"],
             UNCHANGED currentRecord
      PROVE  LockInv'
  <2>1. \A q \in Procs : \A n \in Numbers :
           lock'[q][n] = IF q = p /\ n \in numbers THEN "none" ELSE lock[q][n]
    BY <1>a, <1>d DEF SetLock
  <2>2. Exclusive'
    BY <1>b, <2>1 DEF Exclusive
  <2>3. \A q \in Procs : q # p => pc'[q] = pc[q]
    BY <1>a, <1>d
  <2>4. pc'[p] \in {"menu", "exited"}
    BY <1>a, <1>d
  <2>5. UNCHANGED currentRecord
    BY <1>d
  <2>6. HeldWhileSaving'
    BY <1>a, <1>b, <2>1, <2>3, <2>4, <2>5 DEF HeldWhileSaving, Saving
  <2>7. HeldWhileReading'
    BY <1>a, <1>b, <2>1, <2>3, <2>4, <2>5 DEF HeldWhileReading
  <2> QED BY <2>2, <2>6, <2>7 DEF LockInv
<1>1. ASSUME NEW p \in Procs, Acquire(p) PROVE LockInv'
  <2>1. \A q \in Procs : \A n \in Numbers :
           lock'[q][n] = IF q = p /\ n \in Wanted(p) THEN LockType(p) ELSE lock[q][n]
    BY <1>a, <1>1 DEF Acquire, SetLock
  <2>2. \A q \in Procs : \A n \in Wanted(p) :
           q # p => lock[q][n] # "write" /\ (lock[q][n] = "read" => LockType(p) # "write")
    BY <1>1 DEF Acquire, Blockers
  <2>3. Exclusive'
    <3> SUFFICES ASSUME NEW q \in Procs, NEW r \in Procs, NEW n \in Numbers,
                        q # r, lock'[q][n] = "write"
                 PROVE  lock'[r][n] = "none"
      BY DEF Exclusive
    <3>1. lock[r][n] \in {"none", "read", "write"}
      BY <1>a
    <3>2. CASE n \in Wanted(p) /\ q = p
      BY <2>1, <2>2, <3>1, <3>2
    <3>3. CASE n \in Wanted(p) /\ q # p
      BY <2>1, <2>2, <3>3
    <3>4. CASE n \notin Wanted(p)
      BY <1>b, <2>1, <3>4 DEF Exclusive
    <3> QED BY <3>2, <3>3, <3>4
  <2>4. UNCHANGED currentRecord /\ \A q \in Procs : q # p => pc'[q] = pc[q]
    BY <1>a, <1>1 DEF Acquire, Goto, local
  <2>5. \/ pc[p] = "printLock" /\ pc'[p] = "print"
        \/ pc[p] = "getLock" /\ pc'[p] = "get"
        \/ pc[p] = "saveLock" /\ pc'[p] = "compare"
    BY <1>a, <1>1 DEF Acquire, Goto
  <2>6. HeldWhileSaving'
    BY <1>a, <1>b, <2>1, <2>4, <2>5 DEF HeldWhileSaving, Saving, Wanted, LockType
  <2>7. HeldWhileReading'
    BY <1>a, <1>b, <2>1, <2>4, <2>5 DEF HeldWhileReading, Wanted, LockType
  <2> QED BY <2>3, <2>6, <2>7 DEF LockInv
<1>2. ASSUME NEW p \in Procs, PrintEnds(p) \/ getRecordNumb(p) \/ SaveEnds(p) \/ Quit(p)
      PROVE  LockInv'
  BY <1>d, <1>2 DEF PrintEnds, getRecordNumb, SaveEnds, Quit, Goto, local
<1>3. ASSUME NEW p \in Procs,
             \/ LockFails(p) \/ PrintRecord(p) \/ CompareRecord(p) \/ WriteRecord(p)
             \/ ChooseRecord(p) \/ modifyRecord(p) \/ StartLocking(p)
             \/ AnswerYes(p) \/ AnswerNo(p)
      PROVE  LockInv'
  <2>1. UNCHANGED lock
    BY <1>3 DEF LockFails, PrintRecord, CompareRecord, WriteRecord, ChooseRecord,
                modifyRecord, StartLocking, AnswerYes, AnswerNo
  <2>2. \A q \in Procs : q # p => pc'[q] = pc[q] /\ currentRecord'[q] = currentRecord[q]
    BY <1>a, <1>3 DEF LockFails, PrintRecord, CompareRecord, WriteRecord, ChooseRecord,
                modifyRecord, StartLocking, AnswerYes, AnswerNo, Goto, local
  <2>3. \/ /\ currentRecord'[p] = currentRecord[p]
           /\ pc'[p] \in Saving => pc[p] \in Saving
           /\ pc'[p] \in {"print", "get"} => pc[p] = pc'[p]
        \/ pc'[p] \in {"menu", "printLock", "getLock", "saveLock"}
    BY <1>a, <1>3 DEF LockFails, PrintRecord, CompareRecord, WriteRecord, ChooseRecord,
                modifyRecord, StartLocking, AnswerYes, AnswerNo, Goto, local, Saving
  <2> QED BY <1>c, <2>1, <2>2, <2>3
<1>4. CASE AllExited \/ UNCHANGED vars
  BY <1>b, <1>4 DEF AllExited, vars, local, LockInv, Exclusive, HeldWhileSaving, HeldWhileReading
<1> QED BY <1>1, <1>2, <1>3, <1>4 DEF Next, ProcessStep, Operator

-----------------------------------------------------------------------------
(* No lost update.                                                         *)

(* From the comparison to the write, tmpRecord is what the file holds.     *)
TmpIsFile ==
  \A p \in Procs : pc[p] \in {"ask", "write"} =>
    tmpRecord[p] = IF file[currentRecord[p]] = Absent THEN Garbage ELSE file[currentRecord[p]]

LEMMA TmpInit == Init => TmpIsFile
  BY DEF Init, TmpIsFile

LEMMA TmpStep == TypeInv /\ LockInv /\ TmpIsFile /\ [Next]_vars => TmpIsFile'
<1> SUFFICES ASSUME TypeInv, LockInv, TmpIsFile, [Next]_vars PROVE TmpIsFile'
  OBVIOUS
<1>a. /\ pc \in [Procs -> Pc] /\ currentRecord \in [Procs -> Numbers]
      /\ tmpRecord \in [Procs -> Content] /\ file \in [Numbers -> Content \cup {Absent}]
  BY DEF TypeInv, TypeOK
<1>1. ASSUME NEW p \in Procs, WriteRecord(p) PROVE TmpIsFile'
  <2>1. \A q \in Procs :
          q # p /\ pc[q] \in {"ask", "write"} => currentRecord[q] # currentRecord[p]
    BY <1>a, <1>1 DEF WriteRecord, Goto, LockInv, Exclusive, HeldWhileSaving, Saving
  <2>2. pc'[p] = "sleep" /\ \A q \in Procs : q # p => pc'[q] = pc[q]
    BY <1>a, <1>1 DEF WriteRecord, Goto
  <2> QED BY <1>a, <1>1, <2>1, <2>2 DEF TmpIsFile, WriteRecord, local
<1>2. ASSUME NEW p \in Procs, CompareRecord(p) PROVE TmpIsFile'
  BY <1>a, <1>2 DEF TmpIsFile, CompareRecord, Goto
<1>3. ASSUME NEW p \in Procs,
             \/ Acquire(p) \/ LockFails(p) \/ PrintRecord(p) \/ PrintEnds(p)
             \/ getRecordNumb(p) \/ SaveEnds(p) \/ ChooseRecord(p) \/ modifyRecord(p)
             \/ StartLocking(p) \/ Quit(p) \/ AnswerYes(p) \/ AnswerNo(p)
      PROVE  TmpIsFile'
  <2>1. UNCHANGED file
    BY <1>3 DEF Acquire, LockFails, PrintRecord, PrintEnds, getRecordNumb, SaveEnds,
                ChooseRecord, modifyRecord, StartLocking, Quit, AnswerYes, AnswerNo
  <2>2. \A q \in Procs : q # p =>
          pc'[q] = pc[q] /\ currentRecord'[q] = currentRecord[q] /\ tmpRecord'[q] = tmpRecord[q]
    BY <1>a, <1>3 DEF Acquire, LockFails, PrintRecord, PrintEnds, getRecordNumb, SaveEnds,
                ChooseRecord, modifyRecord, StartLocking, Quit, AnswerYes, AnswerNo, Goto, local
  <2>3. \/ pc'[p] \notin {"ask", "write"}
        \/ pc[p] = "ask" /\ UNCHANGED <<currentRecord, tmpRecord>>
    BY <1>a, <1>3 DEF Acquire, LockFails, PrintRecord, PrintEnds, getRecordNumb, SaveEnds,
                ChooseRecord, modifyRecord, StartLocking, Quit, AnswerYes, AnswerNo, Goto, local,
                Locking
  <2> QED BY <2>1, <2>2, <2>3 DEF TmpIsFile
<1>4. CASE AllExited \/ UNCHANGED vars
  BY <1>4 DEF AllExited, vars, local, TmpIsFile
<1> QED BY <1>1, <1>2, <1>3, <1>4 DEF Next, ProcessStep, Operator

(* However many processes save the same record and however their operators *)
(* answer, what a process overwrites is what it compared or showed.        *)
THEOREM NoLostUpdate == Safety => []NoBlindOverwrite
<1>1. TmpIsFile => NoBlindOverwrite
  BY DEF TmpIsFile, NoBlindOverwrite
<1> QED BY <1>1, TypeInit, TypeStep, LockInit, LockStep, TmpInit, TmpStep, PTL DEF Safety

-----------------------------------------------------------------------------
(* What printAllFile prints.                                               *)

PrintInv ==
  \A p \in Procs :
    /\ pc[p] # "print" => printed[p] = <<>>
    /\ \A i \in 1 .. Len(printed[p]) : i - 1 \in Numbers /\ printed[p][i] = file[i - 1]

LEMMA PrintInit == Init => PrintInv
<1> SUFFICES ASSUME Init PROVE PrintInv
  OBVIOUS
<1>1. \A p \in Procs : printed[p] = <<>>
  BY DEF Init
<1>2. ASSUME NEW p \in Procs PROVE 1 .. Len(printed[p]) = {}
  <2>1. Len(printed[p]) = 0
    BY <1>1
  <2> QED BY <2>1
<1> QED BY <1>1, <1>2 DEF PrintInv

LEMMA PrintStep == TypeInv /\ LockInv /\ PrintInv /\ [Next]_vars => PrintInv'
<1> SUFFICES ASSUME TypeInv, LockInv, PrintInv, [Next]_vars PROVE PrintInv'
  OBVIOUS
<1>a. /\ pc \in [Procs -> Pc] /\ printed \in [Procs -> Seq(Content)]
      /\ file \in [Numbers -> Content \cup {Absent}] /\ currentRecord \in [Procs -> Numbers]
  BY DEF TypeInv, TypeOK
(* While somebody saves, nobody prints.                                    *)
<1>1. ASSUME NEW p \in Procs, WriteRecord(p) PROVE PrintInv'
  <2>1. ASSUME NEW q \in Procs, pc[q] = "print" PROVE FALSE
    <3>1. pc[p] = "write" /\ q # p
      BY <1>1, <2>1 DEF WriteRecord, Goto
    <3>2. lock[p][currentRecord[p]] = "write"
      BY <3>1 DEF LockInv, HeldWhileSaving, Saving
    <3>3. lock[q][currentRecord[p]] # "none"
      BY <1>a, <2>1 DEF LockInv, HeldWhileReading
    <3> QED BY <1>a, <3>1, <3>2, <3>3 DEF LockInv, Exclusive
  <2>2. \A q \in Procs : printed'[q] = <<>>
    BY <1>1, <2>1 DEF WriteRecord, PrintInv
  <2>3. \A q \in Procs : 1 .. Len(printed'[q]) = {}
    <3>1. Len(<<>>) = 0
      OBVIOUS
    <3> QED BY <2>2, <3>1
  <2> QED BY <2>2, <2>3 DEF PrintInv
<1>2. ASSUME NEW p \in Procs, PrintRecord(p) PROVE PrintInv'
  <2>1. pc[p] = "print" /\ UNCHANGED <<pc, file>>
    BY <1>a, <1>2 DEF PrintRecord, Goto
  <2>2. \A q \in Procs : q # p => printed'[q] = printed[q]
    BY <1>a, <1>2 DEF PrintRecord
  <2> DEFINE n == Len(printed[p])
  <2>3. printed[p] \in Seq(Content) /\ n \in Nat /\ n \in Numbers /\ file[n] \in Content
    BY <1>a, <1>2 DEF PrintRecord
  <2>4. printed'[p] = Append(printed[p], file[n])
    BY <1>a, <1>2 DEF PrintRecord
  <2>5. Len(printed'[p]) = n + 1 /\ printed'[p][n + 1] = file[n]
    BY <2>3, <2>4
  <2>6. \A i \in 1 .. n : printed'[p][i] = printed[p][i]
    BY <2>3, <2>4
  <2>7. \A i \in 1 .. Len(printed'[p]) :
           i - 1 \in Numbers /\ printed'[p][i] = file[i - 1]
    <3> SUFFICES ASSUME NEW i \in 1 .. n + 1
                 PROVE  i - 1 \in Numbers /\ printed'[p][i] = file[i - 1]
      BY <2>5
    <3>1. CASE i = n + 1
      BY <2>3, <2>5, <3>1
    <3>2. CASE i \in 1 .. n
      BY <2>6, <3>2 DEF PrintInv
    <3> QED BY <2>3, <3>1, <3>2
  <2> QED BY <2>1, <2>2, <2>7 DEF PrintInv
<1>3. ASSUME NEW p \in Procs, PrintEnds(p) PROVE PrintInv'
  <2>1. UNCHANGED file /\ printed'[p] = <<>>
    BY <1>a, <1>3 DEF PrintEnds
  <2>2. \A q \in Procs : q # p => pc'[q] = pc[q] /\ printed'[q] = printed[q]
    BY <1>a, <1>3 DEF PrintEnds, Goto
  <2> QED BY <2>1, <2>2 DEF PrintInv
<1>4. ASSUME NEW p \in Procs,
             \/ Acquire(p) \/ LockFails(p) \/ getRecordNumb(p) \/ CompareRecord(p)
             \/ SaveEnds(p) \/ ChooseRecord(p) \/ modifyRecord(p) \/ StartLocking(p)
             \/ Quit(p) \/ AnswerYes(p) \/ AnswerNo(p)
      PROVE  PrintInv'
  <2>1. UNCHANGED <<file, printed>>
    BY <1>4 DEF Acquire, LockFails, getRecordNumb, CompareRecord, SaveEnds, ChooseRecord,
                modifyRecord, StartLocking, Quit, AnswerYes, AnswerNo
  <2>2. \A q \in Procs : pc[q] = "print" => pc'[q] = "print"
    BY <1>a, <1>4 DEF Acquire, LockFails, getRecordNumb, CompareRecord, SaveEnds, ChooseRecord,
                modifyRecord, StartLocking, Quit, AnswerYes, AnswerNo, Goto, Locking
  <2> QED BY <2>1, <2>2 DEF PrintInv
<1>5. CASE AllExited \/ UNCHANGED vars
  BY <1>5 DEF AllExited, vars, PrintInv
<1> QED BY <1>1, <1>2, <1>3, <1>4, <1>5 DEF Next, ProcessStep, Operator

(* The records that printAllFile prints belong together: no process saves  *)
(* a record between the first and the last of them.                        *)
THEOREM PrintIsConsistent == Safety => []PrintsOneState
<1>1. PrintInv => PrintsOneState
  BY DEF PrintInv, PrintsOneState
<1> QED BY <1>1, TypeInit, TypeStep, LockInit, LockStep, PrintInit, PrintStep, PTL DEF Safety

-----------------------------------------------------------------------------
(* Which locks are left behind.                                            *)

(* As long as nobody answered 'n', a process has locked at most what its   *)
(* operation is about.                                                     *)
HeldInv ==
  declines = 0 =>
    \A p \in Procs : \A n \in Numbers :
      \/ lock[p][n] = "none"
      \/ pc[p] = "print"
      \/ pc[p] \in Saving \cup {"get"} /\ n = currentRecord[p]

LEMMA HeldInit == Init => HeldInv
  BY DEF Init, HeldInv

LEMMA HeldStep == TypeInv /\ HeldInv /\ [Next]_vars => HeldInv'
<1> SUFFICES ASSUME TypeInv, HeldInv, [Next]_vars, declines' = 0
             PROVE  (\A p \in Procs : \A n \in Numbers :
                       \/ lock[p][n] = "none"
                       \/ pc[p] = "print"
                       \/ pc[p] \in Saving \cup {"get"} /\ n = currentRecord[p])'
  BY DEF HeldInv
<1>a. /\ lock \in [Procs -> [Numbers -> {"none", "read", "write"}]]
      /\ pc \in [Procs -> Pc] /\ currentRecord \in [Procs -> Numbers] /\ declines \in Nat
  BY DEF TypeInv, TypeOK
<1> DEFINE Ok(q) == \A n \in Numbers :
                      \/ lock[q][n] = "none"
                      \/ pc[q] = "print"
                      \/ pc[q] \in Saving \cup {"get"} /\ n = currentRecord[q]
<1>b. declines = 0 => \A q \in Procs : Ok(q)
  BY DEF HeldInv
<1>1. ASSUME NEW p \in Procs, ProcessStep(p) \/ Operator(p)
      PROVE  \A q \in Procs : Ok(q)'
  <2>0. declines = 0 /\ ~AnswerNo(p)
    BY <1>a, <1>1 DEF ProcessStep, Operator, Acquire, LockFails, PrintRecord, PrintEnds,
      getRecordNumb, CompareRecord, WriteRecord, SaveEnds, ChooseRecord, modifyRecord,
      StartLocking, Quit, AnswerYes, AnswerNo
  <2>1. ASSUME NEW q \in Procs, q # p PROVE Ok(q)'
    <3>1. lock'[q] = lock[q]
      BY <1>a, <1>1, <2>1 DEF ProcessStep, Operator, Acquire, LockFails, PrintRecord, PrintEnds,
        getRecordNumb, CompareRecord, WriteRecord, SaveEnds, ChooseRecord, modifyRecord,
        StartLocking, Quit, AnswerYes, AnswerNo, SetLock
    <3>2. pc'[q] = pc[q] /\ currentRecord'[q] = currentRecord[q]
      BY <1>a, <1>1, <2>1 DEF ProcessStep, Operator, Acquire, LockFails, PrintRecord, PrintEnds,
        getRecordNumb, CompareRecord, WriteRecord, SaveEnds, ChooseRecord, modifyRecord,
        StartLocking, Quit, AnswerYes, AnswerNo, Goto, local
    <3> QED BY <1>b, <2>0, <2>1, <3>1, <3>2
  <2>2. Ok(p)'
    <3>b. Ok(p)
      BY <1>b, <2>0
    <3>1. CASE Acquire(p)
      <4>1. \A n \in Numbers :
              lock'[p][n] = IF n \in Wanted(p) THEN LockType(p) ELSE lock[p][n]
        BY <1>a, <3>1 DEF Acquire, SetLock
      <4>2. \/ pc[p] = "printLock" /\ pc'[p] = "print"
            \/ pc[p] = "getLock" /\ pc'[p] = "get"
            \/ pc[p] = "saveLock" /\ pc'[p] = "compare"
        BY <1>a, <3>1 DEF Acquire, Goto
      <4>3. currentRecord' = currentRecord
        BY <3>1 DEF Acquire, local
      <4> QED BY <3>b, <4>1, <4>2, <4>3 DEF Wanted, Saving
    <3>2. CASE PrintEnds(p) \/ Quit(p)
      <4>1. \A n \in Numbers : lock'[p][n] = "none"
        BY <1>a, <3>2 DEF PrintEnds, Quit, SetLock
      <4> QED BY <4>1
    <3>3. CASE getRecordNumb(p) \/ SaveEnds(p)
      <4>1. \A n \in Numbers :
              lock'[p][n] = IF n = currentRecord[p] THEN "none" ELSE lock[p][n]
        BY <1>a, <3>3 DEF getRecordNumb, SaveEnds, SetLock
      <4>2. pc[p] # "print"
        BY <3>3 DEF getRecordNumb, SaveEnds, Goto
      <4> QED BY <3>b, <4>1, <4>2
    <3>4. CASE ChooseRecord(p) \/ modifyRecord(p) \/ StartLocking(p)
      <4>1. pc[p] = "menu" /\ lock' = lock
        BY <3>4 DEF ChooseRecord, modifyRecord, StartLocking, Goto
      <4> QED BY <3>b, <4>1 DEF Saving
    <3>5. CASE LockFails(p)
      <4>1. pc[p] \in Locking /\ lock' = lock
        BY <3>5 DEF LockFails, Goto
      <4> QED BY <3>b, <4>1 DEF Locking, Saving
    <3>6. CASE PrintRecord(p) \/ CompareRecord(p) \/ WriteRecord(p) \/ AnswerYes(p)
      <4>1. lock' = lock /\ currentRecord' = currentRecord
        BY <3>6 DEF PrintRecord, CompareRecord, WriteRecord, AnswerYes, local
      <4>2. \/ pc[p] = "print" /\ pc'[p] = "print"
            \/ pc[p] \in Saving /\ pc'[p] \in Saving
        BY <1>a, <3>6 DEF PrintRecord, CompareRecord, WriteRecord, AnswerYes, Goto, Saving
      <4> QED BY <3>b, <4>1, <4>2 DEF Saving
    <3> QED BY <1>1, <2>0, <3>1, <3>2, <3>3, <3>4, <3>5, <3>6 DEF ProcessStep, Operator
  <2> QED BY <2>1, <2>2
<1>2. CASE AllExited \/ UNCHANGED vars
  <2>1. UNCHANGED vars
    BY <1>2 DEF AllExited
  <2> QED BY <1>b, <2>1 DEF vars, local
<1> QED BY <1>1, <1>2 DEF Next

(* Every way out of printAllFile, getRecordNumb and saveRecord unlocks     *)
(* what was locked, except the answer 'n'.                                 *)
THEOREM LocksReleased == Safety => []NothingHeldAtMenu
<1>1. HeldInv => NothingHeldAtMenu
  BY DEF HeldInv, NothingHeldAtMenu, Locking, Saving
<1> QED BY <1>1, TypeInit, TypeStep, HeldInit, HeldStep, PTL DEF Safety

(* Who waits for a lock has none (the menu and the three waits are reached *)
(* with all locks given back), so it stands in nobody's way, and processes *)
(* can not wait for each other in a circle: no fcntl of main.c fails with  *)
(* EDEADLK until an operator has answered 'n'.                             *)
LEMMA WaitingBlocksNobody ==
  ASSUME TypeInv, HeldInv, declines = 0,
         NEW p \in Procs, NEW q \in Procs, pc[q] \in Locking
  PROVE  q \notin Blockers(p)
<1>1. Wanted(p) \subseteq Numbers
  BY DEF Wanted, TypeInv, TypeOK
<1>2. \A n \in Numbers : lock[q][n] = "none"
  BY DEF HeldInv, Locking, Saving
<1> QED BY <1>1, <1>2 DEF Blockers

THEOREM NobodyWaitsInACircle == Safety => []NoDeadlockError
<1>1. TypeInv /\ HeldInv => NoDeadlockError
  <2> SUFFICES ASSUME TypeInv, HeldInv, declines = 0,
                      NEW p \in Procs, NEW circle \in SUBSET Procs, p \in circle,
                      \A q \in circle : pc[q] \in Locking /\ Blockers(q) \cap circle # {}
               PROVE  FALSE
    BY DEF NoDeadlockError, WouldDeadlock
  <2>1. PICK q \in circle : q \in Blockers(p)
    OBVIOUS
  <2> QED BY <2>1, WaitingBlocksNobody
<1> QED BY <1>1, TypeInit, TypeStep, HeldInit, HeldStep, PTL DEF Safety
=============================================================================
