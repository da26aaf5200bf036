----------------------------- MODULE ChildStats -----------------------------
(***************************************************************************)
(* Lab3/child.c: a loop stores (0,0) and (1,1) into `pair`; the handler of *)
(* the interval timer, which may run between any two of its accesses,      *)
(* counts what it finds there; once there are enough samples the loop      *)
(* prints the counters and sets them to zero.                              *)
(***************************************************************************)
EXTENDS Integers

CONSTANTS
  MinTimes,    (* 101: a report is made of more samples than this          *)
  MaxTimes     (* bound: samples between two reports                       *)

ASSUME StatsAssumption == MinTimes \in Nat /\ MaxTimes \in Nat

Kinds == {"ZeroZero", "OneOne", "ZeroOne", "OneZero"}

VARIABLES
  first, second,       (* pair                                             *)
  count,               (* countZeroAndZero, countOneAndOne and so on       *)
  countTimes, permissionOutput,
  loop,                (* what the loop does next                          *)
  report,              (* the arguments of printf that have been read      *)
  since,               (* samples since countOneAndOne was last read       *)
  carried              (* whether the last reset has copied a sample       *)

childVars == <<first, second, count, countTimes, permissionOutput, loop, report, since, carried>>

ChildInit ==
  /\ first = 0 /\ second = 0
  /\ count = [k \in Kinds |-> 0] /\ countTimes = 0
  /\ permissionOutput = TRUE
  /\ loop = "zeroFirst" /\ report = [k \in Kinds |-> 0]
  /\ since = 0 /\ carried = FALSE

Goto(from, to) == loop = from /\ loop' = to

-----------------------------------------------------------------------------
(* main.                                                                   *)

(* Seeded fault of StorePair: pair = ONE is left half done.                *)
StorePairHalf ==
  /\ \/ Goto("zeroFirst", "zeroSecond") /\ first' = 0 /\ UNCHANGED second
     \/ Goto("zeroSecond", "oneFirst") /\ second' = 0 /\ UNCHANGED first
     \/ Goto("oneFirst", "test") /\ first' = 1 /\ UNCHANGED second
  /\ UNCHANGED <<count, countTimes, permissionOutput, report, since, carried>>

(* pair = ZERO and pair = ONE: four stores.                                *)
StorePair ==
  /\ \/ Goto("zeroFirst", "zeroSecond") /\ first' = 0 /\ UNCHANGED second
     \/ Goto("zeroSecond", "oneFirst") /\ second' = 0 /\ UNCHANGED first
     \/ Goto("oneFirst", "oneSecond") /\ first' = 1 /\ UNCHANGED second
     \/ Goto("oneSecond", "test") /\ second' = 1 /\ UNCHANGED first
  /\ UNCHANGED <<count, countTimes, permissionOutput, report, since, carried>>

(* The two operands of the condition.                                      *)
TestTimes ==
  /\ Goto("test", IF countTimes > MinTimes THEN "permission" ELSE "zeroFirst")
  /\ UNCHANGED <<first, second, count, countTimes, permissionOutput, report, since, carried>>

TestPermission ==
  /\ Goto("permission", IF permissionOutput THEN "readOneZero" ELSE "zeroFirst")
  /\ UNCHANGED <<first, second, count, countTimes, permissionOutput, report, since, carried>>

(* The arguments of printf are read one after the other, the last one      *)
(* first.                                                                  *)
ReadCounter(k) ==
  /\ report' = [report EXCEPT ![k] = count[k]]
  /\ since' = IF k = "OneOne" THEN 0 ELSE since
  /\ UNCHANGED <<first, second, count, countTimes, permissionOutput, carried>>

ReadCounters ==
  \/ Goto("readOneZero", "readZeroOne") /\ ReadCounter("OneZero")
  \/ Goto("readZeroOne", "readOneOne") /\ ReadCounter("ZeroOne")
  \/ Goto("readOneOne", "readZeroZero") /\ ReadCounter("OneOne")
  \/ Goto("readZeroZero", "print") /\ ReadCounter("ZeroZero")

PrintReport ==
  /\ Goto("print", "clearOneZero")
  /\ UNCHANGED <<first, second, count, countTimes, permissionOutput, report, since, carried>>

(* The chain of assignments of line 113, from its right end.  Each takes   *)
(* the value of the one before it: what that was assigned, or what is in   *)
(* the variable by now.                                                    *)
ClearFrom(k, before) ==
  \E v \in 0 .. count[before] :
    /\ count' = [count EXCEPT ![k] = v]
    /\ carried' = (carried \/ v > 0)
    /\ UNCHANGED <<first, second, countTimes, permissionOutput, report, since>>

ClearOneZero ==
  /\ Goto("clearOneZero", "clearZeroOne")
  /\ count' = [count EXCEPT !["OneZero"] = 0] /\ carried' = FALSE
  /\ UNCHANGED <<first, second, countTimes, permissionOutput, report, since>>

(* Seeded fault of ClearCounters: countOneAndOne is left as it is.         *)
ClearForgetsOne ==
  \/ Goto("clearZeroOne", "clearZeroZero") /\ ClearFrom("ZeroOne", "OneZero")
  \/ Goto("clearZeroZero", "clearTimes") /\ ClearFrom("ZeroZero", "ZeroOne")

ClearCounters ==
  \/ Goto("clearZeroOne", "clearOneOne") /\ ClearFrom("ZeroOne", "OneZero")
  \/ Goto("clearOneOne", "clearZeroZero") /\ ClearFrom("OneOne", "ZeroOne")
  \/ Goto("clearZeroZero", "clearTimes") /\ ClearFrom("ZeroZero", "OneOne")

(* Seeded fault of ClearTimes: countTimes is left as it is.                *)
ClearTimesForgotten ==
  /\ Goto("clearTimes", "zeroFirst")
  /\ UNCHANGED <<first, second, count, countTimes, permissionOutput, report, since, carried>>

ClearTimes ==
  /\ Goto("clearTimes", "zeroFirst")
  /\ countTimes' \in 0 .. count["ZeroZero"]
  /\ UNCHANGED <<first, second, count, permissionOutput, report, since, carried>>

-----------------------------------------------------------------------------
(* The handlers: pairProcessing, allowOutput and banOutput.                *)
Kind(f, s) ==
  IF f = 0 THEN IF s = 0 THEN "ZeroZero" ELSE "ZeroOne"
           ELSE IF s = 1 THEN "OneOne" ELSE "OneZero"

(* Seeded fault of PairProcessing: a mixed pair is not counted.            *)
PairProcessingEqual ==
  /\ countTimes < MaxTimes /\ since < MaxTimes
  /\ count' = [count EXCEPT ![Kind(first, second)] = IF first = second THEN @ + 1 ELSE @]
  /\ countTimes' = countTimes + 1 /\ since' = since + 1
  /\ UNCHANGED <<first, second, permissionOutput, loop, report, carried>>

PairProcessing ==
  /\ countTimes < MaxTimes /\ since < MaxTimes
  /\ count' = [count EXCEPT ![Kind(first, second)] = @ + 1]
  /\ countTimes' = countTimes + 1 /\ since' = since + 1
  /\ UNCHANGED <<first, second, permissionOutput, loop, report, carried>>

SetPermission ==
  /\ permissionOutput' \in BOOLEAN
  /\ UNCHANGED <<first, second, count, countTimes, loop, report, since, carried>>

-----------------------------------------------------------------------------
Loop ==
  \/ StorePair \/ TestTimes \/ TestPermission \/ ReadCounters \/ PrintReport
  \/ ClearOneZero \/ ClearCounters \/ ClearTimes

ChildNext == Loop \/ PairProcessing \/ SetPermission

ChildSpec == ChildInit /\ [][ChildNext]_childVars

-----------------------------------------------------------------------------
(* Properties.                                                             *)
Reading  == {"readOneZero", "readZeroOne", "readOneOne", "readZeroZero"}
Clearing == {"clearOneZero", "clearZeroOne", "clearOneOne", "clearZeroZero", "clearTimes"}
Storing  == {"zeroFirst", "zeroSecond", "oneFirst", "oneSecond"}
Pc       == Storing \cup Reading \cup Clearing \cup {"test", "permission", "print"}

(* Every variable has its type; while a report is made the pair is (1,1),  *)
(* and so all samples taken then are of one kind.                          *)
ChildTypeOK ==
  /\ first \in {0, 1} /\ second \in {0, 1}
  /\ count \in [Kinds -> Nat] /\ countTimes \in Nat
  /\ permissionOutput \in BOOLEAN /\ carried \in BOOLEAN
  /\ loop \in Pc /\ report \in [Kinds -> Nat] /\ since \in Nat
  /\ loop \notin Storing => first = 1 /\ second = 1

Total(c) == c["ZeroZero"] + c["OneOne"] + c["ZeroOne"] + c["OneZero"]

(* What is printed adds up to more than MinTimes samples (child.c:110),    *)
(* also when an alarm came during the last reset or after the test.        *)
ReportIsFull == loop = "print" => Total(report) > MinTimes

(* Between reports the counters hold each sample once, and none that the   *)
(* last report has shown, unless an alarm between two assignments of the   *)
(* reset was copied to the next counter.                                   *)
NoSampleTwice == loop \notin Clearing \cup {"readZeroZero", "print"} => carried \/ Total(count) <= since
=============================================================================
