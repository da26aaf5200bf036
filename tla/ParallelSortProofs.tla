------------------------- MODULE ParallelSortProofs -------------------------
(* For any number of threads, blocks, chunks and records: the threads of   *)
(* Lab6/main.c never work on the same records of the mapped file; merge is *)
(* always given two sorted halves; no step loses, repeats or invents a     *)
(* record; and when the numbers of blocks and of chunks are powers of two, *)
(* the file is sorted when main returns.                                   *)
(*                                                                         *)
(* ShareInv says which phase the barrier holds the threads in and that     *)
(* they agree on the level; DataInv says which parts of the file are       *)
(* sorted in each phase; PowerInv that a level fills its chunk.  What      *)
(* merge and qsort return is proved from their definitions, by induction   *)
(* as the lack of a least counterexample (AllNaturals).                    *)
EXTENDS ParallelSort, FiniteSetTheorems, SequenceTheorems, WellFoundedInduction, TLAPS

Merges == [blocks : Nat, size : Nat, id : Nat]

(* The phases that the barrier and the joins separate: all threads are in  *)
(* the same one.                                                           *)
Creating == \A t \in Threads : pc[t] \in {"none", "create", "start"}
Sorting  == \A t \in Threads : pc[t] \in {"own", "claim", "sort", "sorted"}
Merging  == \A t \in Threads : pc[t] \in {"level", "copy", "levelDone", "end"}
Joining  == \A t \in Threads : pc[t] = "done"
Alone    == pc[0] \in {"lastMerge", "exit"} /\ \A t \in Threads \ {0} : pc[t] = "done"

(* A thread that has been created owns the block with its number.          *)
OwnBlocks == Creating =>
  \A t \in Threads : block[t] = t /\ (pc[t] = "start" => blockMap[t] = 1)

(* While threads sort, a block that is being sorted is marked, and nobody  *)
(* else sorts it.                                                          *)
BlocksShared == Sorting =>
  \A t \in Threads : pc[t] \in {"own", "sort"} =>
    /\ blockMap[block[t]] = 1
    /\ \A u \in Threads : pc[u] \in {"own", "sort"} /\ block[u] = block[t] => u = t

(* All threads merge the same level, and go through its pairs by steps of  *)
(* ThreadNum from their own number.                                        *)
SameLevel(m) == \A t \in Threads :
  /\ m[t].blocks = m[0].blocks /\ m[t].size = m[0].size
  /\ \E k \in Nat : m[t].id = t + k * ThreadNum

LevelShared == Creating \/ Sorting \/ Merging => SameLevel(merging)

(* The level decides at which barrier a thread waits.                      *)
LevelEnds == \A t \in Threads :
  /\ pc[t] = "levelDone" => merging[t].blocks > 1
  /\ pc[t] = "end" => merging[t].blocks <= 1

ControlTypes ==
  /\ chunk \in Nat
  /\ blockMap \in [Blocks -> {0, 1}]
  /\ pc \in [Threads -> Pc]
  /\ block \in [Threads -> Blocks]
  /\ merging \in [Threads -> Merges]

PhaseInv == Creating \/ Sorting \/ Merging \/ Joining \/ Alone

ShareInv ==
  ControlTypes /\ PhaseInv /\ OwnBlocks /\ BlocksShared /\ LevelShared /\ LevelEnds

-----------------------------------------------------------------------------
(* Arithmetic.                                                             *)

(* Two merges of one level, whose numbers differ, share no record.         *)
LEMMA PairsApart ==
  ASSUME NEW base \in Nat, NEW w \in Nat, NEW i \in Nat, NEW j \in Nat, i < j,
         NEW k \in 0 .. w - 1, NEW l \in 0 .. w - 1
  PROVE  base + i * w + k < base + j * w + l
<1>1. PICK d \in Nat : j = i + 1 + d
  <2>1. j - i - 1 \in Nat /\ j = i + 1 + (j - i - 1) OBVIOUS
  <2>2. QED BY <2>1
<1>2. j * w = i * w + w + d * w BY <1>1
<1>3. d * w \in Nat /\ i * w \in Nat /\ j * w \in Nat OBVIOUS
<1>4. QED BY <1>2, <1>3

(* Two threads never merge the same pair.                                  *)
LEMMA TurnsApart ==
  ASSUME NEW t \in Threads, NEW u \in Threads, NEW k \in Nat, NEW l \in Nat,
         t + k * ThreadNum = u + l * ThreadNum
  PROVE  t = u
<1>1. ThreadNum \in Nat \ {0} BY SortAssumption
<1>2. t \in 0 .. ThreadNum - 1 /\ u \in 0 .. ThreadNum - 1 BY DEF Threads
<1>3. ASSUME k < l PROVE FALSE
  <2>1. 0 + k * ThreadNum + t < 0 + l * ThreadNum + u BY <1>1, <1>2, <1>3, PairsApart
  <2>2. k * ThreadNum \in Nat /\ l * ThreadNum \in Nat BY <1>1
  <2>3. QED BY <1>2, <2>1, <2>2
<1>4. ASSUME l < k PROVE FALSE
  <2>1. 0 + l * ThreadNum + u < 0 + k * ThreadNum + t BY <1>1, <1>2, <1>4, PairsApart
  <2>2. k * ThreadNum \in Nat /\ l * ThreadNum \in Nat BY <1>1
  <2>3. QED BY <1>2, <2>1, <2>2
<1>5. k = l BY <1>3, <1>4
<1>6. k * ThreadNum \in Nat BY <1>1
<1>7. QED BY <1>2, <1>5, <1>6

(* The chunk that is being sorted starts at a number, and has a number of  *)
(* records.                                                                *)
LEMMA StartOfFile == ASSUME chunk \in Nat PROVE tmpStart \in Nat /\ memsize \in Nat
<1>1. memsize \in Nat BY SortAssumption DEF memsize
<1>2. QED BY <1>1 DEF tmpStart

-----------------------------------------------------------------------------
(* The phases keep the records apart.                                      *)
LEMMA ShareKeepsApart == ShareInv => NoSharedRecords
<1> SUFFICES ASSUME ShareInv, NEW t \in Threads, NEW u \in Threads, t # u,
                    NEW r \in InUse(t), r \in InUse(u)
             PROVE  FALSE
  BY DEF NoSharedRecords
<1>1. ControlTypes /\ PhaseInv /\ BlocksShared /\ LevelShared BY DEF ShareInv
<1>2. tmpStart \in Nat BY <1>1, StartOfFile DEF ControlTypes
<1>3. Sorting \/ Merging
  BY <1>1 DEF PhaseInv, Creating, Joining, Alone, Threads, InUse
<1>4. CASE Sorting
  <2>1. pc[t] \in {"own", "sort"} /\ pc[u] \in {"own", "sort"} BY <1>4 DEF Sorting, InUse
  <2>2. block[t] # block[u] BY <1>1, <1>4, <2>1 DEF BlocksShared
  <2>3. PICK k \in 0 .. BlockLen - 1 : r = tmpStart + block[t] * BlockLen + k BY <2>1 DEF InUse
  <2>4. PICK l \in 0 .. BlockLen - 1 : r = tmpStart + block[u] * BlockLen + l BY <2>1 DEF InUse
  <2>5. block[t] \in Nat /\ block[u] \in Nat /\ BlockLen \in Nat
    BY <1>1, SortAssumption DEF ControlTypes, Blocks
  <2>6. ~(block[t] < block[u]) BY <1>2, <2>3, <2>4, <2>5, PairsApart
  <2>7. ~(block[u] < block[t]) BY <1>2, <2>3, <2>4, <2>5, PairsApart
  <2>8. QED BY <2>2, <2>5, <2>6, <2>7
<1>5. CASE Merging
  <2> DEFINE w == 2 * merging[t].size
  <2>1. /\ merging[t] \in Merges /\ merging[u] \in Merges
        /\ merging[t].size = merging[u].size
    BY <1>1, <1>5 DEF ControlTypes, LevelShared, SameLevel
  <2>2. w \in Nat BY <2>1 DEF Merges
  <2>3. merging[t].id \in Nat /\ merging[u].id \in Nat BY <2>1 DEF Merges
  <2>4. PICK k \in 0 .. w - 1 : r = FirstOf(tmpStart, merging[t]) + k
    BY <1>5 DEF Merging, InUse
  <2>5. PICK l \in 0 .. w - 1 : r = FirstOf(tmpStart, merging[u]) + l
    BY <1>5, <2>1 DEF Merging, InUse
  <2>6. FirstOf(tmpStart, merging[t]) = tmpStart + merging[t].id * w
    BY <1>2, <2>1 DEF FirstOf, Merges
  <2>7. FirstOf(tmpStart, merging[u]) = tmpStart + merging[u].id * w
    BY <1>2, <2>1 DEF FirstOf, Merges
  <2> HIDE DEF w
  <2>8. ~(merging[t].id < merging[u].id) /\ ~(merging[u].id < merging[t].id)
    <3>1. ASSUME merging[t].id < merging[u].id PROVE FALSE
      <4>1. tmpStart + merging[t].id * w + k < tmpStart + merging[u].id * w + l
        BY <1>2, <2>2, <2>3, <3>1, PairsApart
      <4>2. r < r BY <2>4, <2>5, <2>6, <2>7, <4>1
      <4>3. merging[t].id * w \in Nat BY <2>2, <2>3
      <4>4. r \in Int BY <1>2, <2>2, <2>4, <2>6, <4>3
      <4>5. QED BY <4>2, <4>4
    <3>2. ASSUME merging[u].id < merging[t].id PROVE FALSE
      <4>1. tmpStart + merging[u].id * w + l < tmpStart + merging[t].id * w + k
        BY <1>2, <2>2, <2>3, <3>2, PairsApart
      <4>2. r < r BY <2>4, <2>5, <2>6, <2>7, <4>1
      <4>3. merging[t].id * w \in Nat BY <2>2, <2>3
      <4>4. r \in Int BY <1>2, <2>2, <2>4, <2>6, <4>3
      <4>5. QED BY <4>2, <4>4
    <3>3. QED BY <3>1, <3>2
  <2>9. merging[t].id = merging[u].id BY <2>3, <2>8
  <2>10. PICK k1 \in Nat : merging[t].id = t + k1 * ThreadNum BY <1>1, <1>5 DEF LevelShared, SameLevel
  <2>11. PICK k2 \in Nat : merging[u].id = u + k2 * ThreadNum BY <1>1, <1>5 DEF LevelShared, SameLevel
  <2>12. QED BY <2>9, <2>10, <2>11, TurnsApart
<1>6. QED BY <1>3, <1>4, <1>5

(* A level starts with every thread at its own number.                     *)
LevelStarts(m, b, s) == \A t \in Threads : m[t] = [blocks |-> b, size |-> s, id |-> t]

(* At the start of a level all threads agree on it.                        *)
LEMMA LevelAtStart ==
  ASSUME NEW f, NEW b, NEW s, LevelStarts(f, b, s)
  PROVE  SameLevel(f)
<1> SUFFICES ASSUME NEW t \in Threads
             PROVE  /\ f[t].blocks = f[0].blocks /\ f[t].size = f[0].size
                    /\ \E k \in Nat : f[t].id = t + k * ThreadNum
  BY DEF SameLevel
<1>1. 0 \in Threads /\ t \in Nat /\ ThreadNum \in Nat BY SortAssumption DEF Threads
<1>2. f[t] = [blocks |-> b, size |-> s, id |-> t] /\ f[0] = [blocks |-> b, size |-> s, id |-> 0]
  BY <1>1 DEF LevelStarts
<1>3. f[t].blocks = b /\ f[0].blocks = b /\ f[t].size = s /\ f[0].size = s /\ f[t].id = t
  BY ONLY <1>2
<1>4. t = t + 0 * ThreadNum BY <1>1
<1>5. QED BY <1>3, <1>4

LEMMA LevelFields ==
  ASSUME NEW m, NEW b, NEW s, LevelStarts(m, b, s), NEW t \in Threads
  PROVE  m[t].blocks = b /\ m[t].size = s /\ m[t].id = t
<1>1. m[t] = [blocks |-> b, size |-> s, id |-> t] BY DEF LevelStarts
<1>2. QED BY ONLY <1>1

-----------------------------------------------------------------------------
(* The numbers of records of the whole file, and of what it is divided into. *)
Total == ChunkNum * memsize

LEMMA ConstantTypes ==
  /\ 0 \in Threads /\ Threads \subseteq Blocks /\ Threads \subseteq Nat /\ Blocks \subseteq Nat
  /\ BlockNum \in Nat /\ BlockLen \in Nat /\ ChunkNum \in Nat /\ memsize \in Nat
  /\ Total \in Nat /\ ThreadNum \in Nat \ {0} /\ BlockLen > 0 /\ BlockNum > 0
  /\ 1 <= ChunkNum
BY SortAssumption DEF Threads, Blocks, memsize, Total

(* Where one thread is tells the phase that all are in.                    *)
LEMMA PhaseOf ==
  ASSUME ShareInv, NEW t \in Threads
  PROVE  /\ pc[t] \in {"none", "create", "start"} => Creating
         /\ pc[t] \in {"own", "claim", "sort", "sorted"} => Sorting
         /\ pc[t] \in {"level", "copy", "levelDone", "end"} => Merging
         /\ pc[t] \in {"lastMerge", "exit"} => Alone
<1>1. PhaseInv BY DEF ShareInv
<1>2. 0 \in Threads BY ConstantTypes
<1>3. CASE Creating BY <1>3 DEF Creating
<1>4. CASE Sorting BY <1>4 DEF Sorting
<1>5. CASE Merging BY <1>5 DEF Merging
<1>6. CASE Joining BY <1>6 DEF Joining
<1>7. CASE Alone BY <1>7 DEF Alone
<1>8. QED BY <1>1, <1>3, <1>4, <1>5, <1>6, <1>7 DEF PhaseInv

(* There is one phase at a time.                                           *)
LEMMA PhasesDiffer ==
  /\ Creating => ~Sorting /\ ~Merging /\ ~Joining /\ ~Alone
  /\ Sorting => ~Creating /\ ~Merging /\ ~Joining /\ ~Alone
  /\ Merging => ~Creating /\ ~Sorting /\ ~Joining /\ ~Alone
  /\ Joining => ~Creating /\ ~Sorting /\ ~Merging /\ ~Alone
  /\ Alone => ~Creating /\ ~Sorting /\ ~Merging /\ ~Joining
<1>1. 0 \in Threads BY ConstantTypes
<1>2. QED BY <1>1 DEF Creating, Sorting, Merging, Joining, Alone

(* The threads that wait when the barrier opens wait at the same one.      *)
LEMMA BarrierOfPhase ==
  ASSUME ShareInv, BarrierOpens
  PROVE  \/ \A t \in Threads : pc[t] = "start"
         \/ \A t \in Threads : pc[t] = "sorted"
         \/ \A t \in Threads : pc[t] = "levelDone"
         \/ \A t \in Threads : pc[t] = "end"
<1>1. 0 \in Threads BY ConstantTypes
<1>2. \A t \in Threads : pc[t] \in AtBarrier BY DEF BarrierOpens
<1>3. ControlTypes /\ LevelShared /\ PhaseInv /\ LevelEnds BY DEF ShareInv
<1>4. Creating \/ Sorting \/ Merging
  BY <1>1, <1>2, <1>3 DEF PhaseInv, Joining, Alone, AtBarrier
<1>5. CASE Creating BY <1>2, <1>5 DEF Creating, AtBarrier
<1>6. CASE Sorting BY <1>2, <1>6 DEF Sorting, AtBarrier
<1>7. CASE Merging
  <2>1. \A t \in Threads : pc[t] \in {"levelDone", "end"} BY <1>2, <1>7 DEF Merging, AtBarrier
  <2>2. \A t \in Threads : merging[t].blocks = merging[0].blocks
    BY <1>3, <1>7 DEF LevelShared, SameLevel
  <2>3. merging[0].blocks \in Nat BY <1>1, <1>3 DEF ControlTypes, Merges
  <2>4. CASE merging[0].blocks > 1 BY <1>3, <2>1, <2>2, <2>3, <2>4 DEF LevelEnds
  <2>5. CASE merging[0].blocks <= 1 BY <1>3, <2>1, <2>2, <2>3, <2>5 DEF LevelEnds
  <2>6. QED BY <2>3, <2>4, <2>5
<1>8. QED BY <1>4, <1>5, <1>6, <1>7

LEMMA ShareInit == Init => ShareInv
<1> SUFFICES ASSUME Init PROVE ShareInv OBVIOUS
<1>1. /\ 0 \in Threads /\ Threads \subseteq Nat /\ Threads \subseteq Blocks
      /\ ThreadNum \in Nat /\ BlockNum \in Nat /\ BlockLen \in Nat
  BY SortAssumption DEF Threads, Blocks
<1>2. \A t \in Threads : pc[t] \in {"none", "create"} BY DEF Init
<1>3. ControlTypes BY <1>1 DEF Init, ControlTypes, Pc, Merges
<1>4. PhaseInv /\ ~Sorting /\ LevelEnds
  BY <1>1, <1>2 DEF PhaseInv, Creating, Sorting, LevelEnds
<1>5. OwnBlocks /\ BlocksShared BY <1>2, <1>4 DEF OwnBlocks, BlocksShared, Init
<1>6. LevelShared
  <2>1. LevelStarts(merging, BlockNum, BlockLen) BY DEF Init, LevelStarts
  <2>2. QED BY ONLY <2>1, LevelAtStart DEF LevelShared
<1>7. QED BY <1>3, <1>4, <1>5, <1>6 DEF ShareInv

-----------------------------------------------------------------------------
(* The steps of main and of the barrier.                                   *)
LEMMA ShareCreate ==
  ASSUME ShareInv, MainSorts \/ \E t \in Threads : CreateThread(t)
  PROVE  ShareInv'
<1>1. /\ 0 \in Threads /\ Threads \subseteq Blocks
  BY SortAssumption DEF Threads, Blocks
<1>2. PICK t \in Threads :
        /\ pc[0] = "create" /\ pc[t] \in {"none", "create"}
        /\ pc' = [pc EXCEPT ![t] = "start"] /\ blockMap' = [blockMap EXCEPT ![t] = 1]
        /\ UNCHANGED <<chunk, block, merging>>
  BY <1>1 DEF MainSorts, CreateThread, Goto
<1>3. ControlTypes /\ OwnBlocks /\ LevelShared /\ PhaseInv /\ LevelEnds BY DEF ShareInv
<1>4. Creating BY <1>1, <1>2, <1>3 DEF PhaseInv, Sorting, Merging, Joining, Alone
<1>5. ControlTypes' BY <1>1, <1>2, <1>3 DEF ControlTypes, Pc, AtBarrier
<1>6. pc \in [Threads -> Pc] /\ blockMap \in [Blocks -> {0, 1}] BY <1>3 DEF ControlTypes
<1>7. Creating' BY <1>2, <1>4, <1>6 DEF Creating
<1>8. PhaseInv' /\ BlocksShared' /\ LevelEnds'
  BY <1>1, <1>7 DEF PhaseInv, BlocksShared, LevelEnds, Creating, Sorting
<1>9. OwnBlocks' BY <1>1, <1>2, <1>3, <1>4, <1>6 DEF OwnBlocks
<1>10. LevelShared' BY <1>2, <1>3, <1>4 DEF LevelShared
<1>11. QED BY <1>5, <1>8, <1>9, <1>10 DEF ShareInv

(* The barrier takes all threads from one phase to the next, or to the     *)
(* next level.                                                             *)
LEMMA ShareBarrier ==
  ASSUME ShareInv, BarrierOpens
  PROVE  ShareInv'
<1>1. 0 \in Threads /\ Threads \subseteq Blocks BY SortAssumption DEF Threads, Blocks
<1>2. /\ \A t \in Threads : pc[t] \in AtBarrier
      /\ pc' = [t \in Threads |-> After[pc[t]]]
      /\ merging' = [t \in Threads |-> IF pc[t] = "levelDone"
                                       THEN NextLevel(t, merging[t]) ELSE merging[t]]
      /\ UNCHANGED <<chunk, blockMap, block>>
  BY DEF BarrierOpens
<1>3. ControlTypes /\ OwnBlocks /\ LevelShared /\ PhaseInv /\ LevelEnds /\ BlocksShared
  BY DEF ShareInv
<1>4. \A t \in Threads : pc'[t] = After[pc[t]] BY <1>2
<1>5. \A t \in Threads : merging[t] \in Merges /\ t \in Nat
  BY <1>3 DEF ControlTypes, Threads
<1>6. \A t \in Threads : NextLevel(t, merging[t]) \in Merges
  BY <1>5 DEF NextLevel, HalfOf, Merges
<1>7. merging' \in [Threads -> Merges] BY <1>2, <1>5, <1>6
<1>8. pc' \in [Threads -> Pc] BY <1>2 DEF AtBarrier, After, Pc
<1>9. ControlTypes' BY <1>2, <1>3, <1>7, <1>8 DEF ControlTypes
<1>10. \/ \A t \in Threads : pc[t] = "start"
       \/ \A t \in Threads : pc[t] = "sorted"
       \/ \A t \in Threads : pc[t] = "levelDone"
       \/ \A t \in Threads : pc[t] = "end"
  BY BarrierOfPhase
<1>11. CASE \A t \in Threads : pc[t] = "start"
  <2>1. \A t \in Threads : pc'[t] = "own" BY <1>4, <1>11 DEF After
  <2>2. merging' = merging BY <1>2, <1>3, <1>11 DEF ControlTypes
  <2>3. Creating BY <1>11 DEF Creating
  <2>4. PhaseInv' /\ LevelEnds' /\ ~Creating'
    BY <1>1, <2>1 DEF PhaseInv, LevelEnds, Sorting, Creating
  <2>5. OwnBlocks' BY <2>4 DEF OwnBlocks
  <2>6. BlocksShared' BY <1>2, <1>3, <1>11, <2>3 DEF BlocksShared, OwnBlocks
  <2>7. LevelShared' BY <1>3, <2>2, <2>3 DEF LevelShared
  <2>8. QED BY <1>9, <2>4, <2>5, <2>6, <2>7 DEF ShareInv
<1>12. CASE \A t \in Threads : pc[t] = "sorted"
  <2>1. \A t \in Threads : pc'[t] = "level" BY <1>4, <1>12 DEF After
  <2>2. merging' = merging BY <1>2, <1>3, <1>12 DEF ControlTypes
  <2>3. Sorting BY <1>12 DEF Sorting
  <2>4. PhaseInv' /\ LevelEnds' /\ ~Creating' /\ ~Sorting'
    BY <1>1, <2>1 DEF PhaseInv, LevelEnds, Sorting, Creating, Merging
  <2>5. LevelShared' BY <1>3, <2>2, <2>3 DEF LevelShared
  <2>6. QED BY <1>9, <2>4, <2>5 DEF ShareInv, OwnBlocks, BlocksShared
<1>13. CASE \A t \in Threads : pc[t] = "levelDone"
  <2>1. \A t \in Threads : pc'[t] = "level" BY <1>4, <1>13 DEF After
  <2>2. PhaseInv' /\ LevelEnds' /\ ~Creating' /\ ~Sorting'
    BY <1>1, <2>1 DEF PhaseInv, LevelEnds, Sorting, Creating, Merging
  <2>3. Merging BY <1>13 DEF Merging
  <2>4. \A t \in Threads : /\ merging[t].blocks = merging[0].blocks
                           /\ merging[t].size = merging[0].size
    BY <1>3, <2>3 DEF LevelShared, SameLevel
  <2>5. LevelStarts(merging', merging[0].blocks \div 2, 2 * merging[0].size)
    BY <1>2, <1>13, <2>4 DEF LevelStarts, NextLevel, HalfOf
  <2>6. LevelShared' BY ONLY <2>5, LevelAtStart DEF LevelShared
  <2>7. QED BY <1>9, <2>2, <2>6 DEF ShareInv, OwnBlocks, BlocksShared
<1>14. CASE \A t \in Threads : pc[t] = "end"
  <2>1. \A t \in Threads : pc'[t] = "done" BY <1>4, <1>14 DEF After
  <2>2. PhaseInv' /\ LevelEnds' /\ ~Creating' /\ ~Sorting' /\ ~Merging'
    BY <1>1, <2>1 DEF PhaseInv, LevelEnds, Sorting, Creating, Merging, Joining
  <2>3. QED BY <1>9, <2>2 DEF ShareInv, OwnBlocks, BlocksShared, LevelShared
<1>15. QED BY <1>10, <1>11, <1>12, <1>13, <1>14

(* main joins the threads, and starts all over or is left alone.           *)
LEMMA ShareJoin ==
  ASSUME ShareInv, JoinThreads
  PROVE  ShareInv'
<1>1. /\ 0 \in Threads /\ Threads \subseteq Blocks /\ Threads \subseteq Nat
      /\ BlockNum \in Nat /\ BlockLen \in Nat /\ ChunkNum \in Nat /\ memsize \in Nat
  BY SortAssumption DEF Threads, Blocks, memsize
<1>2. ControlTypes BY DEF ShareInv
<1>3. (\A t \in Threads : pc[t] = "done") /\ chunk' = chunk + 1 BY DEF JoinThreads
<1>4. chunk' \in Nat BY <1>2, <1>3 DEF ControlTypes
<1>5. CASE pc' = [t \in Threads |-> IF t = 0 THEN "create" ELSE "none"]
           /\ blockMap' = [i \in Blocks |-> 0] /\ block' = [t \in Threads |-> t]
           /\ merging' = [t \in Threads |-> [blocks |-> BlockNum, size |-> BlockLen, id |-> t]]
  <2>1. \A t \in Threads : pc'[t] \in {"none", "create"} BY <1>5
  <2>2. ControlTypes' BY <1>1, <1>4, <1>5 DEF ControlTypes, Pc, Merges
  <2>3. PhaseInv' /\ LevelEnds' /\ ~Sorting'
    BY <1>1, <2>1 DEF PhaseInv, LevelEnds, Creating, Sorting
  <2>4. OwnBlocks' BY <1>5, <2>1 DEF OwnBlocks
  <2>5. LevelStarts(merging', BlockNum, BlockLen) BY <1>5 DEF LevelStarts
  <2>6. LevelShared' BY ONLY <2>5, LevelAtStart DEF LevelShared
  <2>7. QED BY <2>2, <2>3, <2>4, <2>6 DEF ShareInv, BlocksShared
<1>6. CASE pc' = [pc EXCEPT ![0] = IF ChunkNum > 1 THEN "lastMerge" ELSE "exit"]
           /\ merging' = [merging EXCEPT ![0] = [blocks |-> ChunkNum, size |-> memsize, id |-> 0]]
           /\ UNCHANGED <<blockMap, block>>
  <2>1. pc'[0] \in {"lastMerge", "exit"} /\ \A t \in Threads \ {0} : pc'[t] = "done"
    BY <1>1, <1>2, <1>3, <1>6 DEF ControlTypes
  <2>2. merging' \in [Threads -> Merges]
    <3>1. [blocks |-> ChunkNum, size |-> memsize, id |-> 0] \in Merges BY <1>1 DEF Merges
    <3>2. QED BY <1>2, <1>6, <3>1 DEF ControlTypes
  <2>3. ControlTypes' BY <1>2, <1>4, <1>6, <2>2 DEF ControlTypes, Pc
  <2>4. PhaseInv' /\ LevelEnds' /\ ~Creating' /\ ~Sorting' /\ ~Merging'
    BY <1>1, <2>1 DEF PhaseInv, Alone, LevelEnds, Creating, Sorting, Merging
  <2>5. QED BY <2>3, <2>4 DEF ShareInv, OwnBlocks, BlocksShared, LevelShared
<1>7. QED BY <1>5, <1>6 DEF JoinThreads

-----------------------------------------------------------------------------
(* The steps of a thread.                                                  *)

(* A thread gives its block up when it is sorted, and takes one that no    *)
(* one has marked.                                                         *)
LEMMA ShareSort ==
  ASSUME ShareInv, NEW t \in Threads, SortBlock(t) \/ ClaimBlock(t) \/ NoFreeBlock(t)
  PROVE  ShareInv'
<1>1. 0 \in Threads BY SortAssumption DEF Threads
<1>2. ControlTypes /\ LevelShared /\ PhaseInv /\ LevelEnds /\ BlocksShared BY DEF ShareInv
<1>3. /\ pc[t] \in {"own", "sort", "claim"}
      /\ pc' = [pc EXCEPT ![t] = pc'[t]] /\ pc'[t] \in {"claim", "sort", "sorted"}
      /\ UNCHANGED <<chunk, merging>>
  BY <1>2 DEF SortBlock, ClaimBlock, NoFreeBlock, Goto, ControlTypes
<1>4. pc \in [Threads -> Pc] /\ block \in [Threads -> Blocks] /\ blockMap \in [Blocks -> {0, 1}]
  BY <1>2 DEF ControlTypes
<1>5. Sorting BY <1>1, <1>2, <1>3 DEF PhaseInv, Creating, Merging, Joining, Alone
<1>6. Sorting' BY <1>3, <1>4, <1>5 DEF Sorting
<1>7. PhaseInv' /\ LevelEnds' /\ ~Creating'
  BY <1>1, <1>6 DEF PhaseInv, LevelEnds, Sorting, Creating
<1>8. LevelShared' BY <1>2, <1>3, <1>5 DEF LevelShared
<1>9. ControlTypes' /\ BlocksShared'
  <2>1. CASE SortBlock(t) \/ NoFreeBlock(t)
    <3>1. UNCHANGED <<blockMap, block>> /\ pc'[t] \in {"claim", "sorted"}
      BY <1>4, <2>1 DEF SortBlock, NoFreeBlock, Goto
    <3>2. ControlTypes' BY <1>2, <1>3, <3>1 DEF ControlTypes, Pc, AtBarrier
    <3>3. \A u \in Threads : pc'[u] \in {"own", "sort"} => pc[u] \in {"own", "sort"}
      BY <1>3, <1>4, <3>1
    <3>4. BlocksShared' BY <1>2, <1>5, <3>1, <3>3 DEF BlocksShared
    <3>5. QED BY <3>2, <3>4
  <2>2. CASE ClaimBlock(t)
    <3>1. PICK i \in Blocks : /\ blockMap[i] = 0
                              /\ block' = [block EXCEPT ![t] = i]
                              /\ blockMap' = [blockMap EXCEPT ![i] = 1]
      BY <2>2 DEF ClaimBlock
    <3>2. pc[t] = "claim" /\ pc' = [pc EXCEPT ![t] = "sort"] BY <2>2 DEF ClaimBlock, Goto
    <3>3. ControlTypes' BY <1>2, <1>3, <3>1, <3>2 DEF ControlTypes, Pc, AtBarrier
    <3>4. ASSUME NEW u \in Threads, pc'[u] \in {"own", "sort"}, NEW v \in Threads,
                 pc'[v] \in {"own", "sort"}, block'[v] = block'[u]
          PROVE  blockMap'[block'[u]] = 1 /\ v = u
      <4>1. \A w \in Threads \ {t} :
              pc'[w] \in {"own", "sort"} =>
                pc[w] \in {"own", "sort"} /\ block'[w] = block[w] /\ blockMap[block[w]] = 1
        BY <1>2, <1>4, <1>5, <3>1, <3>2 DEF BlocksShared
      <4>2. block'[t] = i /\ \A w \in Threads \ {t} : pc'[w] \in {"own", "sort"} => block'[w] # i
        BY <1>4, <3>1, <4>1
      <4>3. blockMap'[block'[u]] = 1 BY <1>4, <3>1, <3>4, <4>1, <4>2
      <4>4. v = u
        <5>1. CASE u = t BY <3>4, <4>2, <5>1
        <5>2. CASE v = t BY <3>4, <4>2, <5>2
        <5>3. CASE u # t /\ v # t BY <1>2, <1>5, <3>4, <4>1, <5>3 DEF BlocksShared
        <5>4. QED BY <5>1, <5>2, <5>3
      <4>5. QED BY <4>3, <4>4
    <3>5. BlocksShared' BY <3>4 DEF BlocksShared
    <3>6. QED BY <3>3, <3>5
  <2>3. QED BY <2>1, <2>2
<1>10. QED BY <1>7, <1>8, <1>9 DEF ShareInv, OwnBlocks

(* A thread goes on to the pair ThreadNum further on, and waits at the     *)
(* barrier that its level decides.                                         *)
LEMMA ShareMerge ==
  ASSUME ShareInv, NEW t \in Threads, MergeToTemp(t) \/ CopyBack(t) \/ FinishLevel(t)
  PROVE  ShareInv'
<1>1. 0 \in Threads /\ ThreadNum \in Nat BY SortAssumption DEF Threads
<1>2. ControlTypes /\ LevelShared /\ PhaseInv /\ LevelEnds BY DEF ShareInv
<1>3. /\ pc[t] \in {"level", "copy"}
      /\ pc' = [pc EXCEPT ![t] = pc'[t]] /\ pc'[t] \in {"level", "copy", "levelDone", "end"}
      /\ UNCHANGED <<chunk, blockMap, block>>
  BY <1>2 DEF MergeToTemp, CopyBack, FinishLevel, Goto, ControlTypes
<1>4. pc \in [Threads -> Pc] /\ merging \in [Threads -> Merges] BY <1>2 DEF ControlTypes
<1>5. Merging BY <1>1, <1>2, <1>3 DEF PhaseInv, Creating, Sorting, Joining, Alone
<1>6. Merging' BY <1>3, <1>4, <1>5 DEF Merging
<1>7. PhaseInv' /\ ~Creating' /\ ~Sorting'
  BY <1>1, <1>6 DEF PhaseInv, Sorting, Creating, Merging
<1>8. \/ merging' = merging
      \/ merging' = [merging EXCEPT ![t].id = merging[t].id + ThreadNum]
  BY DEF MergeToTemp, CopyBack, FinishLevel
<1>9. \A u \in Threads :
        /\ merging'[u] \in Merges
        /\ merging'[u].blocks = merging[u].blocks /\ merging'[u].size = merging[u].size
        /\ merging'[u].id \in {merging[u].id, merging[u].id + ThreadNum}
  <2>1. CASE merging' = merging BY <1>4, <2>1
  <2>2. CASE merging' = [merging EXCEPT ![t].id = merging[t].id + ThreadNum]
    BY <1>1, <1>4, <2>2 DEF Merges
  <2>3. QED BY <1>8, <2>1, <2>2
<1>10. merging' \in [Threads -> Merges] BY <1>4, <1>8, <1>9
<1>11. ControlTypes' BY <1>2, <1>3, <1>10 DEF ControlTypes, Pc, AtBarrier
<1>12. LevelShared'
  <2>1. SameLevel(merging) BY <1>2, <1>5 DEF LevelShared
  <2>2. ASSUME NEW u \in Threads PROVE \E k \in Nat : merging'[u].id = u + k * ThreadNum
    <3>1. PICK k \in Nat : merging[u].id = u + k * ThreadNum BY <2>1 DEF SameLevel
    <3>2. u \in Nat BY DEF Threads
    <3>3. merging[u].id + ThreadNum = u + (k + 1) * ThreadNum BY <1>1, <3>1, <3>2
    <3>4. k + 1 \in Nat OBVIOUS
    <3>5. QED BY <1>9, <3>1, <3>3, <3>4
  <2>3. SameLevel(merging') BY <1>1, <1>9, <2>1, <2>2 DEF SameLevel
  <2>4. QED BY <2>3 DEF LevelShared
<1>13. LevelEnds'
  <2>1. ASSUME NEW u \in Threads
        PROVE  /\ pc'[u] = "levelDone" => merging'[u].blocks > 1
               /\ pc'[u] = "end" => merging'[u].blocks <= 1
    <3>1. CASE u # t BY <1>2, <1>3, <1>4, <1>9, <3>1 DEF LevelEnds
    <3>2. CASE u = t
      <4>1. pc'[t] = "levelDone" => merging[t].blocks > 1
        BY <1>4 DEF MergeToTemp, CopyBack, FinishLevel, Goto
      <4>2. pc'[t] = "end" => merging[t].blocks <= 1
        BY <1>4 DEF MergeToTemp, CopyBack, FinishLevel, Goto
      <4>3. QED BY <1>9, <3>2, <4>1, <4>2
    <3>3. QED BY <3>1, <3>2
  <2>2. QED BY <2>1 DEF LevelEnds
<1>14. QED BY <1>7, <1>11, <1>12, <1>13 DEF ShareInv, OwnBlocks, BlocksShared

(* main alone merges chunks.                                               *)
LEMMA ShareLast ==
  ASSUME ShareInv, LastMerge
  PROVE  ShareInv'
<1>1. 0 \in Threads BY SortAssumption DEF Threads
<1>2. ControlTypes /\ PhaseInv BY DEF ShareInv
<1>3. /\ pc[0] = "lastMerge" /\ pc' = [pc EXCEPT ![0] = pc'[0]]
      /\ pc'[0] \in {"lastMerge", "exit"}
      /\ UNCHANGED <<chunk, blockMap, block>>
  BY <1>1, <1>2 DEF LastMerge, Goto, ControlTypes
<1>4. pc \in [Threads -> Pc] /\ merging \in [Threads -> Merges] BY <1>2 DEF ControlTypes
<1>5. Alone BY <1>1, <1>2, <1>3 DEF PhaseInv, Creating, Sorting, Merging, Joining
<1>6. Alone' BY <1>1, <1>3, <1>4, <1>5 DEF Alone
<1>7. PhaseInv' /\ LevelEnds' /\ ~Creating' /\ ~Sorting' /\ ~Merging'
  BY <1>1, <1>6 DEF PhaseInv, Alone, LevelEnds, Creating, Sorting, Merging
<1>8. merging' \in [Threads -> Merges]
  <2>1. merging[0] \in Merges BY <1>1, <1>4
  <2>2. merging[0].id + 1 \in Nat /\ NextLevel(0, merging[0]) \in Merges
    BY <2>1 DEF NextLevel, HalfOf, Merges
  <2>3. CASE merging' = [merging EXCEPT ![0].id = merging[0].id + 1]
    BY <1>4, <2>1, <2>2, <2>3 DEF Merges
  <2>4. CASE merging' = [merging EXCEPT ![0] = NextLevel(0, merging[0])] BY <1>4, <2>2, <2>4
  <2>5. CASE merging' = merging BY <1>4, <2>5
  <2>6. QED BY <2>3, <2>4, <2>5 DEF LastMerge
<1>9. ControlTypes' BY <1>2, <1>3, <1>8 DEF ControlTypes, Pc
<1>10. QED BY <1>7, <1>9 DEF ShareInv, OwnBlocks, BlocksShared, LevelShared

LEMMA ShareStep == ShareInv /\ [Next]_vars => ShareInv'
<1> SUFFICES ASSUME ShareInv, [Next]_vars PROVE ShareInv' OBVIOUS
<1>1. CASE \E t \in Threads : ThreadStep(t) BY <1>1, ShareSort, ShareMerge DEF ThreadStep
<1>2. CASE BarrierOpens BY <1>2, ShareBarrier
<1>3. CASE MainStep BY <1>3, ShareCreate, ShareJoin, ShareLast DEF MainStep
<1>4. CASE Exited \/ UNCHANGED vars
  BY <1>4
  DEF Exited, vars, ShareInv, ControlTypes, PhaseInv, Creating, Sorting, Merging, Joining, Alone,
      OwnBlocks, BlocksShared, LevelShared, LevelEnds
<1>5. QED BY <1>1, <1>2, <1>3, <1>4 DEF Next

(* No two threads work on the same records (main.c: sort_thread sorts and  *)
(* merges outside map_mutex).                                              *)
THEOREM RecordsAreNotShared == Spec => []NoSharedRecords
<1>1. Init => ShareInv BY ShareInit
<1>2. ShareInv /\ [Next]_vars => ShareInv' BY ShareStep
<1>3. ShareInv => NoSharedRecords BY ShareKeepsApart
<1>4. QED BY <1>1, <1>2, <1>3, PTL DEF Spec

-----------------------------------------------------------------------------
(* Induction over the natural numbers.                                     *)
LEMMA LeastNatural ==
  ASSUME NEW S \in SUBSET Nat, S # {}
  PROVE  \E x \in S : \A y \in S : x <= y
<1>1. IsWellFoundedOn(OpToRel(<, Nat), Nat)
  BY NatLessThanWellFounded
<1>2. PICK x \in S : \A y \in S : ~(<<y, x>> \in OpToRel(<, Nat))
  BY <1>1, WFMin
<1>3. \A y \in S : ~(y < x)
  BY <1>2 DEF OpToRel
<1> QED BY <1>3

(* A set of natural numbers that has 0 and with n also n + 1 has all.      *)
LEMMA AllNaturals ==
  ASSUME NEW S, 0 \in S, \A n \in Nat : n \in S => n + 1 \in S
  PROVE  Nat \subseteq S
<1> SUFFICES ASSUME Nat \ S # {} PROVE FALSE OBVIOUS
<1>1. PICK x \in Nat \ S : \A y \in Nat \ S : x <= y BY LeastNatural
<1>2. x # 0 /\ x - 1 \in Nat /\ x - 1 \in S BY <1>1
<1>3. QED BY <1>1, <1>2

-----------------------------------------------------------------------------
(* merge.                                                                  *)

(* index is what MergeIndex defines.                                       *)
IsIndex(index, a, b) ==
  index = [k \in 0 .. Len(a) + Len(b) |->
             IF k = 0 THEN 0 ELSE NextIndex(a, b, k)[index[k - 1]]]

(* A beginning of it.                                                      *)
IndexUpto(n, index, a, b) ==
  /\ index \in [0 .. n -> Nat] /\ index[0] = 0
  /\ \A k \in 1 .. n : /\ index[k - 1] \in 0 .. k - 1
                       /\ index[k] = NextIndex(a, b, k)[index[k - 1]]

(* merge counts in its first loop what it has taken: there is such a       *)
(* count.                                                                  *)
LEMMA IndexExists ==
  ASSUME NEW a, NEW b, NEW n \in Nat
  PROVE  \E index : IndexUpto(n, index, a, b) /\ index[n] \in 0 .. n
<1> DEFINE S == {m \in Nat : \E index : IndexUpto(m, index, a, b) /\ index[m] \in 0 .. m}
<1>1. 0 \in S
  <2>1. IndexUpto(0, [k \in 0 .. 0 |-> 0], a, b) BY DEF IndexUpto
  <2>2. QED BY <2>1
<1>2. ASSUME NEW m \in Nat, m \in S PROVE m + 1 \in S
  <2>1. PICK f : IndexUpto(m, f, a, b) /\ f[m] \in 0 .. m BY <1>2
  <2> DEFINE next == NextIndex(a, b, m + 1)[f[m]]
             g    == [k \in 0 .. m + 1 |-> IF k = m + 1 THEN next ELSE f[k]]
  <2>2. next \in {f[m], f[m] + 1} BY <2>1 DEF NextIndex
  <2>3. f \in [0 .. m -> Nat] BY <2>1 DEF IndexUpto
  <2>4. next \in 0 .. m + 1 BY <2>1, <2>2
  <2>5. g \in [0 .. m + 1 -> Nat] /\ g[0] = 0 /\ g[m + 1] = next
    <3> HIDE DEF next
    <3> QED BY <2>1, <2>3, <2>4 DEF IndexUpto
  <2>6. ASSUME NEW k \in 1 .. m + 1
        PROVE  g[k - 1] \in 0 .. k - 1 /\ g[k] = NextIndex(a, b, k)[g[k - 1]]
    <3>1. CASE k = m + 1
      <4>1. g[k - 1] = f[m] /\ g[k] = next BY <3>1
      <4>2. QED BY <2>1, <3>1, <4>1
    <3>2. CASE k # m + 1
      <4>1. k \in 1 .. m /\ g[k - 1] = f[k - 1] /\ g[k] = f[k] BY <3>2
      <4>2. QED BY <2>1, <4>1 DEF IndexUpto
    <3>3. QED BY <3>1, <3>2
  <2>7. IndexUpto(m + 1, g, a, b)
    <3> HIDE DEF g
    <3> QED BY <2>5, <2>6 DEF IndexUpto
  <2>8. g[m + 1] \in 0 .. m + 1 BY <2>4, <2>5
  <2>9. m + 1 \in Nat OBVIOUS
  <2> HIDE DEF g
  <2>10. QED BY <2>7, <2>8, <2>9
<1> HIDE DEF S
<1>3. n \in S BY <1>1, <1>2, AllNaturals
<1>4. QED BY <1>3 DEF S

IndexFits(k, index, a, b) ==
  /\ index[k - 1] \in 0 .. Len(a) /\ k - 1 - index[k - 1] \in 0 .. Len(b)
  /\ index[k - 1] < Len(a) \/ k - 1 - index[k - 1] < Len(b)
  /\ index[k] = NextIndex(a, b, k)[index[k - 1]]

(* The loops of merge never read beyond either half.                       *)
LEMMA IndexInHalves ==
  ASSUME NEW a, NEW b, Len(a) \in Nat, Len(b) \in Nat
  PROVE  /\ \A k \in 1 .. Len(a) + Len(b) : IndexFits(k, MergeIndex(a, b), a, b)
         /\ MergeIndex(a, b)[0] = 0 /\ MergeIndex(a, b)[Len(a) + Len(b)] = Len(a)
<1> DEFINE n     == Len(a) + Len(b)
           index == MergeIndex(a, b)
<1>1. n \in Nat OBVIOUS
<1>2. index = CHOOSE f : IsIndex(f, a, b) BY DEF MergeIndex, IsIndex
<1>3. PICK f : IndexUpto(n, f, a, b) BY <1>1, IndexExists
<1>4. IsIndex(f, a, b)
  <2>1. f \in [0 .. n -> Nat] /\ f[0] = 0 BY <1>3 DEF IndexUpto
  <2>2. \A k \in 1 .. n : f[k] = NextIndex(a, b, k)[f[k - 1]] BY <1>3 DEF IndexUpto
  <2>3. \A k \in 0 .. n : f[k] = IF k = 0 THEN 0 ELSE NextIndex(a, b, k)[f[k - 1]]
    BY <2>1, <2>2
  <2>4. f = [k \in 0 .. n |-> f[k]] BY <2>1
  <2>5. QED BY <2>3, <2>4 DEF IsIndex
<1>5. IsIndex(index, a, b) BY <1>2, <1>4
<1> HIDE DEF index
<1>6. index[0] = 0 /\ \A k \in 1 .. n : index[k] = NextIndex(a, b, k)[index[k - 1]]
  BY <1>5 DEF IsIndex
<1> DEFINE S == {m \in Nat : m <= n => index[m] \in 0 .. Len(a) /\ m - index[m] \in 0 .. Len(b)}
<1>7. 0 \in S BY <1>6
<1>8. ASSUME NEW m \in Nat, m \in S PROVE m + 1 \in S
  <2> SUFFICES ASSUME m + 1 <= n
               PROVE  index[m + 1] \in 0 .. Len(a) /\ m + 1 - index[m + 1] \in 0 .. Len(b)
    OBVIOUS
  <2>1. index[m] \in 0 .. Len(a) /\ m - index[m] \in 0 .. Len(b) BY <1>8
  <2>2. index[m + 1] = NextIndex(a, b, m + 1)[index[m]] BY <1>6
  <2>3. index[m] \in 0 .. m BY <2>1
  <2>4. index[m + 1] = IF TakesFirst(a, b, index[m], m - index[m]) THEN index[m] + 1 ELSE index[m]
    BY <2>2, <2>3 DEF NextIndex
  <2>5. CASE TakesFirst(a, b, index[m], m - index[m])
    <3>1. index[m] < Len(a) /\ index[m + 1] = index[m] + 1 BY <2>4, <2>5 DEF TakesFirst
    <3>2. QED BY <2>1, <3>1
  <2>6. CASE ~TakesFirst(a, b, index[m], m - index[m])
    <3>1. index[m + 1] = index[m] BY <2>4, <2>6
    <3>2. ~(index[m] < Len(a)) \/ m - index[m] # Len(b) BY <2>6 DEF TakesFirst
    <3>3. m < Len(a) + Len(b) BY <1>8
    <3>4. QED BY <2>1, <3>1, <3>2, <3>3
  <2>7. QED BY <2>5, <2>6
<1> HIDE DEF S
<1>9. \A m \in Nat : m \in S BY <1>7, <1>8, AllNaturals
<1>10. \A m \in 0 .. n : index[m] \in 0 .. Len(a) /\ m - index[m] \in 0 .. Len(b)
  BY <1>9 DEF S
<1>11. ASSUME NEW k \in 1 .. n
       PROVE  IndexFits(k, index, a, b)
  <2>1. k - 1 \in 0 .. n BY <1>1
  <2>2. QED BY <1>6, <1>10, <2>1 DEF IndexFits
<1>12. index[n] = Len(a)
  <2>1. n \in 0 .. n BY <1>1
  <2>2. index[n] \in 0 .. Len(a) /\ n - index[n] \in 0 .. Len(b) BY <1>10, <2>1
  <2>3. QED BY <2>2
<1>13. QED BY <1>6, <1>11, <1>12 DEF index

(* merge: temp gets what the halves hold, and all places are filled.       *)
LEMMA MergedType ==
  ASSUME NEW l \in Nat, NEW m \in Nat, NEW a \in [1 .. l -> Keys], NEW b \in [1 .. m -> Keys]
  PROVE  Merged(a, b) \in [1 .. l + m -> Keys]
<1> DEFINE index == MergeIndex(a, b)
<1>1. Len(a) = l /\ Len(b) = m BY LenProperties
<1>2. \A k \in 1 .. l + m :
        /\ index[k - 1] \in 0 .. l /\ k - 1 - index[k - 1] \in 0 .. m
        /\ index[k - 1] < l \/ k - 1 - index[k - 1] < m
  <2>1. \A k \in 1 .. l + m : IndexFits(k, index, a, b)
    <3>1. Len(a) \in Nat /\ Len(b) \in Nat BY <1>1
    <3>2. QED BY ONLY <1>1, <3>1, IndexInHalves
  <2> HIDE DEF index
  <2>2. QED BY <1>1, <2>1 DEF IndexFits
<1> HIDE DEF index
<1>3. ASSUME NEW k \in 1 .. l + m PROVE Placed(a, b, k)[index[k - 1]] \in Keys
  <2> DEFINE i == index[k - 1]
  <2> SUFFICES Placed(a, b, k)[i] \in Keys OBVIOUS
  <2>1. /\ i \in 0 .. l /\ k - 1 - i \in 0 .. m /\ (i < l \/ k - 1 - i < m) /\ i \in 0 .. k - 1
    BY <1>2
  <2> HIDE DEF i
  <2>2. Placed(a, b, k)[i] = IF TakesFirst(a, b, i, k - 1 - i) THEN a[i + 1] ELSE b[k - i]
    BY <2>1 DEF Placed
  <2>3. CASE TakesFirst(a, b, i, k - 1 - i)
    <3>1. i + 1 \in 1 .. l BY <1>1, <2>1, <2>3 DEF TakesFirst
    <3>2. QED BY <2>2, <2>3, <3>1
  <2>4. CASE ~TakesFirst(a, b, i, k - 1 - i)
    <3>1. k - i \in 1 .. m BY <1>1, <2>1, <2>4 DEF TakesFirst
    <3>2. QED BY <2>2, <2>4, <3>1
  <2>5. QED BY <2>3, <2>4
<1>4. Merged(a, b) = [k \in 1 .. l + m |-> Placed(a, b, k)[index[k - 1]]]
  BY <1>1 DEF Merged, index
<1>5. QED BY <1>3, <1>4

(* merge of two ascending halves is ascending.                             *)
LEMMA MergedAscending ==
  ASSUME NEW l \in Nat, NEW m \in Nat, NEW a \in [1 .. l -> Keys], NEW b \in [1 .. m -> Keys],
         Ascending(a), Ascending(b)
  PROVE  Ascending(Merged(a, b))
<1> DEFINE index == MergeIndex(a, b)
<1>1. Len(a) = l /\ Len(b) = m BY LenProperties
<1>2. \A k \in 1 .. l + m :
        /\ index[k - 1] \in 0 .. l /\ k - 1 - index[k - 1] \in 0 .. m
        /\ index[k - 1] < l \/ k - 1 - index[k - 1] < m
        /\ index[k] = NextIndex(a, b, k)[index[k - 1]]
  <2>1. \A k \in 1 .. l + m : IndexFits(k, index, a, b)
    <3>1. Len(a) \in Nat /\ Len(b) \in Nat BY <1>1
    <3>2. QED BY ONLY <1>1, <3>1, IndexInHalves
  <2> HIDE DEF index
  <2>2. QED BY <1>1, <2>1 DEF IndexFits
<1> HIDE DEF index
<1>3. Merged(a, b) = [k \in 1 .. l + m |-> Placed(a, b, k)[index[k - 1]]]
  BY <1>1 DEF Merged, index
<1>4. Len(Merged(a, b)) = l + m BY <1>3, MergedType, LenProperties
<1>5. ASSUME NEW k \in 1 .. l + m - 1
      PROVE  Placed(a, b, k)[index[k - 1]] <= Placed(a, b, k + 1)[index[k]]
  <2> DEFINE i == index[k - 1]
             j == index[k]
  <2> SUFFICES Placed(a, b, k)[i] <= Placed(a, b, k + 1)[j] OBVIOUS
  <2>1. /\ i \in 0 .. l /\ k - 1 - i \in 0 .. m /\ (i < l \/ k - 1 - i < m) /\ i \in 0 .. k - 1
        /\ j = NextIndex(a, b, k)[i]
    BY <1>2
  <2>2. j \in 0 .. l /\ k - j \in 0 .. m /\ (j < l \/ k - j < m) /\ j \in 0 .. k
    <3>1. k + 1 \in 1 .. l + m /\ (k + 1) - 1 = k OBVIOUS
    <3>2. /\ index[(k + 1) - 1] \in 0 .. l /\ (k + 1) - 1 - index[(k + 1) - 1] \in 0 .. m
          /\ index[(k + 1) - 1] < l \/ (k + 1) - 1 - index[(k + 1) - 1] < m
      BY <1>2, <3>1
    <3>3. j \in 0 .. l /\ k - j \in 0 .. m /\ (j < l \/ k - j < m) BY <3>1, <3>2
    <3>4. QED BY <3>3
  <2> HIDE DEF i, j
  <2>3. /\ Placed(a, b, k)[i] = IF TakesFirst(a, b, i, k - 1 - i) THEN a[i + 1] ELSE b[k - i]
        /\ j = IF TakesFirst(a, b, i, k - 1 - i) THEN i + 1 ELSE i
    BY <2>1 DEF Placed, NextIndex
  <2>4. Placed(a, b, k + 1)[j] = IF TakesFirst(a, b, j, k - j) THEN a[j + 1] ELSE b[k + 1 - j]
    BY <2>2 DEF Placed
  <2>5. \A x \in 1 .. l : a[x] \in Int BY SortAssumption
  <2>6. \A x \in 1 .. m : b[x] \in Int BY SortAssumption
  <2>7. \A x \in 1 .. l - 1 : a[x] <= a[x + 1] BY <1>1 DEF Ascending
  <2>8. \A x \in 1 .. m - 1 : b[x] <= b[x + 1] BY <1>1 DEF Ascending
  <2>9. CASE TakesFirst(a, b, i, k - 1 - i)
    <3>1. j = i + 1 /\ Placed(a, b, k)[i] = a[j] /\ i < l /\ (k - j = m \/ a[j] < b[k + 1 - j])
      BY <1>1, <2>1, <2>3, <2>9 DEF TakesFirst
    <3>2. CASE TakesFirst(a, b, j, k - j)
      <4>1. j \in 1 .. l - 1 BY <1>1, <2>1, <2>2, <3>1, <3>2 DEF TakesFirst
      <4>2. QED BY <2>4, <2>7, <3>1, <3>2, <4>1
    <3>3. CASE ~TakesFirst(a, b, j, k - j)
      <4>1. k - j # m BY <1>1, <2>2, <3>3 DEF TakesFirst
      <4>2. a[j] < b[k + 1 - j] /\ j \in 1 .. l /\ k + 1 - j \in 1 .. m
        BY <2>1, <2>2, <3>1, <4>1
      <4>3. QED BY <2>4, <2>5, <2>6, <3>1, <3>3, <4>2
    <3>4. QED BY <3>2, <3>3
  <2>10. CASE ~TakesFirst(a, b, i, k - 1 - i)
    <3>1. /\ j = i /\ Placed(a, b, k)[i] = b[k - j]
          /\ ~(i < l) \/ (k - 1 - i # m /\ ~(a[i + 1] < b[k - i]))
      BY <1>1, <2>1, <2>3, <2>10 DEF TakesFirst
    <3>2. k - j \in 1 .. m BY <2>1, <2>2, <3>1
    <3>3. CASE TakesFirst(a, b, j, k - j)
      <4>1. i < l /\ ~(a[i + 1] < b[k - i]) /\ j + 1 \in 1 .. l
        BY <1>1, <2>2, <3>1, <3>3 DEF TakesFirst
      <4>2. QED BY <2>4, <2>5, <2>6, <3>1, <3>2, <3>3, <4>1
    <3>4. CASE ~TakesFirst(a, b, j, k - j)
      <4>1. k - j \in 1 .. m - 1 BY <1>1, <2>2, <3>2, <3>4 DEF TakesFirst
      <4>2. k - j + 1 = k + 1 - j BY <2>2
      <4>3. QED BY <2>4, <2>8, <3>1, <3>4, <4>1, <4>2
    <3>5. QED BY <3>3, <3>4
  <2>11. QED BY <2>9, <2>10
<1>6. QED BY <1>3, <1>4, <1>5 DEF Ascending

-----------------------------------------------------------------------------
(* qsort.                                                                  *)
Below(seq, k) == {j \in DOMAIN seq : seq[j] < k}
Upto(seq, k)  == {j \in DOMAIN seq : seq[j] <= k}

LEMMA PlacesFinite ==
  ASSUME NEW n \in Nat, NEW seq \in [1 .. n -> Keys], NEW k
  PROVE  /\ IsFiniteSet(Below(seq, k)) /\ Cardinality(Below(seq, k)) \in Nat
         /\ IsFiniteSet(Upto(seq, k)) /\ Cardinality(Upto(seq, k)) \in Nat
         /\ Cardinality(Upto(seq, k)) <= n
<1>1. IsFiniteSet(1 .. n) /\ Cardinality(1 .. n) = n BY FS_Interval
<1>2. Below(seq, k) \in SUBSET (1 .. n) /\ Upto(seq, k) \in SUBSET (1 .. n) BY DEF Below, Upto
<1>3. QED BY <1>1, <1>2, FS_Subset, FS_CardinalityType

(* A set of places that is not empty has one with a greatest key.          *)
LEMMA GreatestPlace ==
  ASSUME NEW n \in Nat, NEW seq \in [1 .. n -> Keys], NEW T \in SUBSET (1 .. n), T # {}
  PROVE  \E m \in T : \A j \in T : seq[j] <= seq[m]
<1> DEFINE S == {x \in Nat : \A U \in SUBSET (1 .. n) :
                   U # {} /\ U \subseteq 1 .. x => \E m \in U : \A j \in U : seq[j] <= seq[m]}
<1>1. 0 \in S
  <2>1. \A U : U \subseteq 1 .. 0 => U = {} OBVIOUS
  <2>2. QED BY <2>1
<1>2. ASSUME NEW x \in Nat, x \in S PROVE x + 1 \in S
  <2> SUFFICES ASSUME NEW U \in SUBSET (1 .. n), U # {}, U \subseteq 1 .. x + 1
               PROVE  \E m \in U : \A j \in U : seq[j] <= seq[m]
    OBVIOUS
  <2>1. \A j \in U : seq[j] \in Int BY SortAssumption
  <2>2. CASE x + 1 \notin U
    <3>1. U \subseteq 1 .. x BY <2>2
    <3>2. QED BY <1>2, <3>1
  <2>3. CASE x + 1 \in U /\ U \subseteq {x + 1} BY <2>1, <2>3
  <2>4. CASE x + 1 \in U /\ U \ {x + 1} # {}
    <3> DEFINE V == U \ {x + 1}
    <3>1. V \in SUBSET (1 .. n) /\ V # {} /\ V \subseteq 1 .. x BY <2>4
    <3>2. PICK m \in V : \A j \in V : seq[j] <= seq[m] BY <1>2, <3>1
    <3>3. CASE seq[x + 1] <= seq[m] BY <3>2, <3>3
    <3>4. CASE ~(seq[x + 1] <= seq[m])
      <4>1. \A j \in U : seq[j] <= seq[x + 1] BY <2>1, <2>4, <3>2, <3>4
      <4>2. QED BY <2>4, <4>1
    <3>5. QED BY <3>3, <3>4
  <2>5. QED BY <2>2, <2>3, <2>4
<1> HIDE DEF S
<1>3. n \in S BY <1>1, <1>2, AllNaturals
<1>4. QED BY <1>3 DEF S

(* k has rank i in seq.                                                    *)
Ranked(seq, i, k) == Cardinality(Below(seq, k)) < i /\ Cardinality(Upto(seq, k)) >= i

(* Every place has a key of that rank.                                     *)
LEMMA RankExists ==
  ASSUME NEW n \in Nat, NEW seq \in [1 .. n -> Keys], NEW i \in 1 .. n
  PROVE  \E k \in Keys : Ranked(seq, i, k)
<1> DEFINE C == {c \in Nat : c >= i /\ \E j \in 1 .. n : c = Cardinality(Upto(seq, seq[j]))}
<1>1. n \in C
  <2>1. PICK m \in 1 .. n : \A j \in 1 .. n : seq[j] <= seq[m] BY GreatestPlace
  <2>2. Upto(seq, seq[m]) = 1 .. n BY <2>1 DEF Upto
  <2>3. Cardinality(1 .. n) = n BY FS_Interval
  <2>4. QED BY <2>2, <2>3
<1>2. PICK c \in C : \A x \in C : c <= x BY <1>1, LeastNatural
<1>3. PICK j \in 1 .. n : c = Cardinality(Upto(seq, seq[j])) /\ c >= i BY <1>2
<1> DEFINE k == seq[j]
<1>4. k \in Keys /\ k \in Int BY SortAssumption
<1>5. ASSUME ~(Cardinality(Below(seq, k)) < i) PROVE FALSE
  <2>1. Cardinality(Below(seq, k)) \in Nat /\ Cardinality(Below(seq, k)) >= i BY <1>5, PlacesFinite
  <2>2. Below(seq, k) # {} BY <2>1, FS_EmptySet
  <2>3. Below(seq, k) \in SUBSET (1 .. n) BY DEF Below
  <2>4. PICK m \in Below(seq, k) : \A l \in Below(seq, k) : seq[l] <= seq[m]
    BY <2>2, <2>3, GreatestPlace
  <2>5. m \in 1 .. n /\ seq[m] < k BY <2>3, <2>4 DEF Below
  <2>6. \A l \in 1 .. n : seq[l] \in Int BY SortAssumption
  <2>7. Upto(seq, seq[m]) = Below(seq, k) BY <1>4, <2>4, <2>5, <2>6 DEF Upto, Below
  <2>8. Cardinality(Below(seq, k)) \in C BY <2>1, <2>5, <2>7
  <2>9. c <= Cardinality(Below(seq, k)) BY <1>2, <2>8
  <2>10. Below(seq, k) \in SUBSET Upto(seq, k) BY <1>4, <2>6 DEF Below, Upto
  <2>11. j \in Upto(seq, k) /\ j \notin Below(seq, k) BY <1>4 DEF Below, Upto
  <2>12. /\ Cardinality(Below(seq, k)) <= Cardinality(Upto(seq, k))
         /\ Cardinality(Upto(seq, k)) = Cardinality(Below(seq, k)) => Upto(seq, k) = Below(seq, k)
    BY <2>10, PlacesFinite, FS_Subset
  <2>13. c = Cardinality(Upto(seq, k)) /\ c \in Nat BY <1>2, <1>3
  <2>14. QED BY <2>1, <2>9, <2>11, <2>12, <2>13
<1>6. Cardinality(Upto(seq, k)) >= i BY <1>3
<1>7. QED BY <1>4, <1>5, <1>6 DEF Ranked

(* qsort puts at each place the key of that rank.                          *)
LEMMA SortedRanks ==
  ASSUME NEW n \in Nat, NEW seq \in [1 .. n -> Keys]
  PROVE  /\ Sorted(seq) \in [1 .. n -> Keys]
         /\ \A i \in 1 .. n : Ranked(seq, i, Sorted(seq)[i])
<1> DEFINE key(i) == CHOOSE k \in Keys : Ranked(seq, i, k)
<1>1. ASSUME NEW i \in 1 .. n PROVE key(i) \in Keys /\ Ranked(seq, i, key(i))
  <2>1. \E k \in Keys : Ranked(seq, i, k) BY RankExists
  <2>2. QED BY <2>1
<1>2. Sorted(seq) = [i \in 1 .. n |-> key(i)]
  <2>1. DOMAIN seq = 1 .. n OBVIOUS
  <2>2. QED BY <2>1 DEF Sorted, Ranked, Below, Upto
<1> HIDE DEF key
<1>3. QED BY <1>1, <1>2

(* Ranks decide the order.                                                 *)
LEMMA RanksOrdered ==
  ASSUME NEW n \in Nat, NEW seq \in [1 .. n -> Keys], NEW k \in Keys, NEW l \in Keys, k < l
  PROVE  Cardinality(Upto(seq, k)) <= Cardinality(Below(seq, l))
<1>1. k \in Int /\ l \in Int /\ \A j \in 1 .. n : seq[j] \in Int BY SortAssumption
<1>2. Upto(seq, k) \in SUBSET Below(seq, l) BY <1>1 DEF Upto, Below
<1>3. QED BY <1>2, PlacesFinite, FS_Subset

(* qsort leaves its records ascending.                                     *)
LEMMA SortedAscending ==
  ASSUME NEW n \in Nat, NEW seq \in [1 .. n -> Keys]
  PROVE  Ascending(Sorted(seq))
<1> DEFINE out == Sorted(seq)
<1>1. out \in [1 .. n -> Keys] /\ \A i \in 1 .. n : Ranked(seq, i, out[i]) BY SortedRanks
<1> HIDE DEF out
<1>2. Len(out) = n BY <1>1, LenProperties
<1>3. ASSUME NEW i \in 1 .. n - 1, out[i + 1] < out[i] PROVE FALSE
  <2>1. out[i] \in Keys /\ out[i + 1] \in Keys BY <1>1
  <2>2. Cardinality(Upto(seq, out[i + 1])) <= Cardinality(Below(seq, out[i]))
    BY <1>3, <2>1, RanksOrdered
  <2>3. Ranked(seq, i, out[i]) /\ Ranked(seq, i + 1, out[i + 1]) BY <1>1
  <2>4. Cardinality(Below(seq, out[i])) < i /\ Cardinality(Upto(seq, out[i + 1])) >= i + 1
    BY <2>3 DEF Ranked
  <2>5. /\ Cardinality(Below(seq, out[i])) \in Nat
        /\ Cardinality(Upto(seq, out[i + 1])) \in Nat
    BY PlacesFinite
  <2>6. QED BY <2>2, <2>4, <2>5
<1>4. ASSUME NEW i \in 1 .. n - 1 PROVE out[i] \in Int /\ out[i + 1] \in Int
  <2>1. i \in 1 .. n /\ i + 1 \in 1 .. n OBVIOUS
  <2>2. QED BY <1>1, <2>1, SortAssumption
<1>5. \A i \in 1 .. n - 1 : out[i] <= out[i + 1] BY <1>3, <1>4
<1>6. QED BY <1>2, <1>5 DEF Ascending, out

-----------------------------------------------------------------------------
(* Parts of the mapped file.                                               *)
InFile(from, len) == from \in Nat /\ len \in Nat /\ from + len <= Total

(* Two parts have no record in common.                                     *)
Apart(from, len, other, olen) == from + len <= other \/ other + olen <= from

InOrder(d, from, len) == \A i \in from .. from + len - 2 : d[i] <= d[i + 1]

LEMMA SliceType ==
  ASSUME NEW d \in [Records -> Keys], NEW from, NEW len, InFile(from, len)
  PROVE  /\ Slice(d, from, len) \in [1 .. len -> Keys]
         /\ \A k \in 1 .. len : Slice(d, from, len)[k] = d[from + k - 1]
<1>1. from \in Nat /\ len \in Nat /\ from + len <= Total BY DEF InFile
<1>2. Total \in Nat BY SortAssumption DEF Total, memsize
<1>3. \A k \in 1 .. len : from + k - 1 \in Records BY <1>1, <1>2 DEF Records, Total
<1>4. QED BY <1>3 DEF Slice

(* A slice is ascending when the records it is cut from are in order.      *)
LEMMA SliceAscends ==
  ASSUME NEW d \in [Records -> Keys], NEW from, NEW len, InFile(from, len)
  PROVE  Ascending(Slice(d, from, len)) <=> InOrder(d, from, len)
<1> DEFINE seq == Slice(d, from, len)
<1>1. from \in Nat /\ len \in Nat BY DEF InFile
<1>2. seq \in [1 .. len -> Keys] /\ \A k \in 1 .. len : seq[k] = d[from + k - 1] BY SliceType
<1> HIDE DEF seq
<1>3. Len(seq) = len BY <1>1, <1>2, LenProperties
<1>4. ASSUME InOrder(d, from, len), NEW k \in 1 .. len - 1 PROVE seq[k] <= seq[k + 1]
  <2>1. k \in 1 .. len /\ k + 1 \in 1 .. len /\ from + k - 1 \in from .. from + len - 2
    BY <1>1
  <2>2. seq[k] = d[from + k - 1] /\ seq[k + 1] = d[(from + k - 1) + 1]
    <3>1. from + (k + 1) - 1 = (from + k - 1) + 1 BY <1>1
    <3>2. QED BY <1>2, <2>1, <3>1
  <2>3. QED BY <1>4, <2>1, <2>2 DEF InOrder
<1>5. ASSUME \A k \in 1 .. len - 1 : seq[k] <= seq[k + 1], NEW i \in from .. from + len - 2
      PROVE  d[i] <= d[i + 1]
  <2> DEFINE k == i - from + 1
  <2>1. k \in 1 .. len - 1 /\ k \in 1 .. len /\ k + 1 \in 1 .. len BY <1>1
  <2>2. from + k - 1 = i /\ from + (k + 1) - 1 = i + 1 BY <1>1
  <2> HIDE DEF k
  <2>3. seq[k] = d[i] /\ seq[k + 1] = d[i + 1] BY <1>2, <2>1, <2>2
  <2>4. QED BY <1>5, <2>1, <2>3
<1>6. Ascending(seq) => InOrder(d, from, len) BY <1>3, <1>5 DEF Ascending, InOrder
<1>7. InOrder(d, from, len) => Ascending(seq) BY <1>3, <1>4 DEF Ascending
<1>8. QED BY <1>6, <1>7 DEF seq

(* e is d with seq in the len records from `from` on.                      *)
Patched(e, d, from, len, seq) ==
  /\ e \in [Records -> Keys]
  /\ \A i \in from .. from + len - 1 : e[i] = seq[i - from + 1]
  /\ \A i \in Records : i < from \/ from + len <= i => e[i] = d[i]

LEMMA PatchType ==
  ASSUME NEW d \in [Records -> Keys], NEW from, NEW len, InFile(from, len),
         NEW seq \in [1 .. len -> Keys]
  PROVE  Patched(Patch(d, from, seq), d, from, len, seq)
<1>1. from \in Nat /\ len \in Nat /\ from + len <= Total BY DEF InFile
<1>2. Len(seq) = len BY <1>1, LenProperties
<1>3. Total \in Nat BY SortAssumption DEF Total, memsize
<1>4. \A i \in from .. from + len - 1 : i - from + 1 \in 1 .. len /\ i \in Records
  BY <1>1, <1>3 DEF Records, Total
<1>5. \A i \in Records : i \in Int BY DEF Records
<1>6. Patch(d, from, seq) =
        [i \in Records |-> IF i \in from .. from + len - 1 THEN seq[i - from + 1] ELSE d[i]]
  BY <1>2 DEF Patch
<1>7. Patch(d, from, seq) \in [Records -> Keys] BY <1>4, <1>6
<1>8. \A i \in from .. from + len - 1 : Patch(d, from, seq)[i] = seq[i - from + 1]
  BY <1>4, <1>6
<1>9. \A i \in Records : i < from \/ from + len <= i => Patch(d, from, seq)[i] = d[i]
  BY <1>1, <1>5, <1>6
<1>10. QED BY <1>7, <1>8, <1>9 DEF Patched

(* Where ascending keys are written, records are in order.                 *)
LEMMA PatchInOrder ==
  ASSUME NEW d \in [Records -> Keys], NEW from, NEW len, InFile(from, len),
         NEW seq \in [1 .. len -> Keys], Ascending(seq)
  PROVE  InOrder(Patch(d, from, seq), from, len)
<1> DEFINE e == Patch(d, from, seq)
<1>1. \A i \in from .. from + len - 1 : e[i] = seq[i - from + 1]
  <2>1. Patched(e, d, from, len, seq) BY PatchType
  <2>2. QED BY <2>1 DEF Patched
<1>2. from \in Nat /\ len \in Nat BY DEF InFile
<1>3. Len(seq) = len BY <1>2, LenProperties
<1> HIDE DEF e
<1>4. ASSUME NEW i \in from .. from + len - 2 PROVE e[i] <= e[i + 1]
  <2>1. i - from + 1 \in 1 .. len - 1 /\ (i + 1) - from + 1 = (i - from + 1) + 1
    BY <1>2
  <2>2. i \in from .. from + len - 1 /\ i + 1 \in from .. from + len - 1 BY <1>2
  <2>3. e[i] = seq[i - from + 1] /\ e[i + 1] = seq[(i - from + 1) + 1] BY <1>1, <2>1, <2>2
  <2>4. QED BY <1>3, <2>1, <2>3 DEF Ascending
<1>5. QED BY <1>4 DEF InOrder, e

(* What a patch leaves as it was.                                          *)
LEMMA PatchElsewhere ==
  ASSUME NEW d \in [Records -> Keys], NEW from, NEW len, InFile(from, len),
         NEW seq \in [1 .. len -> Keys],
         NEW other, NEW olen, InFile(other, olen), Apart(from, len, other, olen)
  PROVE  /\ Slice(Patch(d, from, seq), other, olen) = Slice(d, other, olen)
         /\ InOrder(d, other, olen) => InOrder(Patch(d, from, seq), other, olen)
<1> DEFINE e == Patch(d, from, seq)
<1>1. e \in [Records -> Keys] /\ \A i \in Records : i < from \/ from + len <= i => e[i] = d[i]
  <2>1. Patched(e, d, from, len, seq) BY PatchType
  <2>2. QED BY <2>1 DEF Patched
<1>2. /\ from \in Nat /\ len \in Nat /\ other \in Nat /\ olen \in Nat /\ other + olen <= Total
      /\ (from + len <= other \/ other + olen <= from)
  BY DEF InFile, Apart
<1>3. Total \in Nat BY SortAssumption DEF Total, memsize
<1> HIDE DEF e
<1>4. \A k \in 1 .. olen : e[other + k - 1] = d[other + k - 1]
  <2> TAKE k \in 1 .. olen
  <2>1. other + k - 1 \in Records BY <1>2, <1>3 DEF Records, Total
  <2>2. other + k - 1 < from \/ from + len <= other + k - 1 BY <1>2
  <2>3. QED BY <1>1, <2>1, <2>2
<1>5. Slice(e, other, olen) = Slice(d, other, olen) BY <1>4 DEF Slice
<1>6. InOrder(d, other, olen) => InOrder(e, other, olen) BY <1>1, <1>5, SliceAscends
<1>7. QED BY <1>5, <1>6 DEF e

(* A part of what is in order is in order.                                 *)
LEMMA PartInOrder ==
  ASSUME NEW d, NEW from \in Nat, NEW len \in Nat, InOrder(d, from, len),
         NEW f \in Nat, NEW l \in Nat, from <= f, f + l <= from + len
  PROVE  InOrder(d, f, l)
<1>1. \A i \in f .. f + l - 2 : i \in from .. from + len - 2 OBVIOUS
<1>2. QED BY <1>1 DEF InOrder

-----------------------------------------------------------------------------
(* Levels of sorted parts.                                                 *)
(* The parts of a level: the s records from part i on are in order, for    *)
(* every i, and so are those of pair p of neighbours.                      *)
LevelSorted(d, base, b, s) == \A i \in 0 .. b - 1 : InOrder(d, base + i * s, s)
PairSorted(d, base, s, p)  == InOrder(d, base + p * (2 * s), 2 * s)

(* Parts of s records that follow one another do not overlap, stay inside  *)
(* what they fill, and can be merged two by two.                           *)
LEMMA PartsInOrder ==
  ASSUME NEW i \in Nat, NEW j \in Nat, NEW s \in Nat, i < j
  PROVE  i * s \in Nat /\ j * s \in Nat /\ i * s + s <= j * s
<1>1. PICK x \in Nat : j = i + 1 + x
  <2>1. j - i - 1 \in Nat /\ j = i + 1 + (j - i - 1) OBVIOUS
  <2>2. QED BY <2>1
<1>2. j * s = i * s + s + x * s BY <1>1
<1>3. x * s \in Nat /\ i * s \in Nat /\ j * s \in Nat OBVIOUS
<1>4. QED BY <1>2, <1>3

LEMMA PartsApart ==
  ASSUME NEW base \in Nat, NEW i \in Nat, NEW j \in Nat, NEW s \in Nat, i # j
  PROVE  Apart(base + i * s, s, base + j * s, s)
<1>1. CASE i < j
  <2>1. i * s \in Nat /\ j * s \in Nat /\ i * s + s <= j * s BY <1>1, PartsInOrder
  <2>2. QED BY <2>1 DEF Apart
<1>2. CASE j < i
  <2>1. i * s \in Nat /\ j * s \in Nat /\ j * s + s <= i * s BY <1>2, PartsInOrder
  <2>2. QED BY <2>1 DEF Apart
<1>3. QED BY <1>1, <1>2

LEMMA PartInFile ==
  ASSUME NEW base, NEW b \in Nat, NEW s \in Nat, InFile(base, b * s), NEW i \in 0 .. b - 1
  PROVE  /\ InFile(base + i * s, s) /\ base + i * s \in Nat
         /\ base <= base + i * s /\ base + i * s + s <= base + b * s
<1>1. base \in Nat /\ base + b * s <= Total BY DEF InFile
<1>2. i * s \in Nat /\ b * s \in Nat /\ i * s + s <= b * s BY PartsInOrder
<1>3. Total \in Int BY SortAssumption DEF Total, memsize
<1>4. QED BY <1>1, <1>2, <1>3 DEF InFile

(* The pairs of a level of b parts of s records.                           *)
LEMMA PairInLevel ==
  ASSUME NEW base, NEW b \in Nat, NEW s \in Nat, InFile(base, b * s), NEW p \in 0 .. (b \div 2) - 1
  PROVE  /\ 2 * p \in 0 .. b - 1 /\ 2 * p + 1 \in 0 .. b - 1
         /\ base + p * (2 * s) = base + (2 * p) * s
         /\ base + p * (2 * s) + s = base + (2 * p + 1) * s
         /\ InFile(base + p * (2 * s), 2 * s)
         /\ base + p * (2 * s) \in Nat
         /\ base <= base + p * (2 * s)
         /\ base + p * (2 * s) + 2 * s <= base + b * s
<1>1. 2 * p \in 0 .. b - 1 /\ 2 * p + 1 \in 0 .. b - 1 OBVIOUS
<1>2. p * (2 * s) = (2 * p) * s /\ (2 * p) * s + s = (2 * p + 1) * s OBVIOUS
<1>3. base \in Nat /\ base + b * s <= Total /\ b * s \in Nat BY DEF InFile
<1>4. Total \in Int BY SortAssumption DEF Total, memsize
<1>5. (2 * p) * s \in Nat /\ (2 * p + 1) * s \in Nat OBVIOUS
<1>6. (2 * p + 1) * s + s <= b * s BY <1>1, PartsInOrder
<1>7. base + p * (2 * s) + s = base + (2 * p + 1) * s BY <1>2, <1>3, <1>5
<1>8. (2 * p) * s + 2 * s <= b * s BY <1>2, <1>3, <1>5, <1>6
<1>9. QED BY <1>1, <1>2, <1>3, <1>4, <1>5, <1>7, <1>8 DEF InFile

(* What merge and the copy back over pair p of a level make of the file.   *)
MergedAt(d, base, s, p) ==
  Merged(Slice(d, base + p * (2 * s), s), Slice(d, base + p * (2 * s) + s, s))
MergedInto(d, base, s, p) == Patch(d, base + p * (2 * s), MergedAt(d, base, s, p))

(* They keep what is outside the level, and all other pairs.               *)
LevelKept(e, d, base, b, s, p) ==
  /\ e \in [Records -> Keys]
  /\ LevelSorted(e, base, b, s)
  /\ PairSorted(e, base, s, p)
  /\ \A q \in 0 .. (b \div 2) - 1 : PairSorted(d, base, s, q) => PairSorted(e, base, s, q)

(* The halves of a pair are parts of the file.                             *)
LEMMA MergeInputs ==
  ASSUME NEW d \in [Records -> Keys], NEW base, NEW b \in Nat, NEW s \in Nat, InFile(base, b * s),
         NEW p \in 0 .. (b \div 2) - 1
  PROVE  /\ Slice(d, base + p * (2 * s), s) \in [1 .. s -> Keys]
         /\ Slice(d, base + p * (2 * s) + s, s) \in [1 .. s -> Keys]
         /\ InFile(base + p * (2 * s), s) /\ InFile(base + p * (2 * s) + s, s)
<1>1. 2 * p \in 0 .. b - 1 /\ 2 * p + 1 \in 0 .. b - 1 BY PairInLevel
<1>2. InFile(base + p * (2 * s), s)
  <2>1. base + p * (2 * s) = base + (2 * p) * s BY PairInLevel
  <2>2. InFile(base + (2 * p) * s, s) BY <1>1, PartInFile
  <2>3. QED BY <2>1, <2>2
<1>3. InFile(base + p * (2 * s) + s, s)
  <2>1. base + p * (2 * s) + s = base + (2 * p + 1) * s BY PairInLevel
  <2>2. InFile(base + (2 * p + 1) * s, s) BY <1>1, PartInFile
  <2>3. QED BY <2>1, <2>2
<1>4. QED BY <1>2, <1>3, SliceType

(* merge is called with sorted halves when the parts of the level are      *)
(* sorted.                                                                 *)
LEMMA HalvesAscend ==
  ASSUME NEW d \in [Records -> Keys], NEW base, NEW b \in Nat, NEW s \in Nat, InFile(base, b * s),
         NEW p \in 0 .. (b \div 2) - 1, LevelSorted(d, base, b, s)
  PROVE  /\ Ascending(Slice(d, base + p * (2 * s), s))
         /\ Ascending(Slice(d, base + p * (2 * s) + s, s))
<1>1. 2 * p \in 0 .. b - 1 /\ 2 * p + 1 \in 0 .. b - 1 BY PairInLevel
<1>2. InOrder(d, base + (2 * p) * s, s) /\ InOrder(d, base + (2 * p + 1) * s, s)
  BY <1>1 DEF LevelSorted
<1>3. base + p * (2 * s) = base + (2 * p) * s /\ base + p * (2 * s) + s = base + (2 * p + 1) * s
  BY PairInLevel
<1>4. InOrder(d, base + p * (2 * s), s) /\ InOrder(d, base + p * (2 * s) + s, s)
  BY <1>2, <1>3
<1>5. InFile(base + p * (2 * s), s) /\ InFile(base + p * (2 * s) + s, s) BY MergeInputs
<1>6. QED BY <1>4, <1>5, SliceAscends

(* Merging pair p of a sorted level sorts that pair and keeps all others.  *)
LEMMA MergeStep ==
  ASSUME NEW d \in [Records -> Keys], NEW base, NEW b \in Nat, NEW s \in Nat, InFile(base, b * s),
         NEW p \in 0 .. (b \div 2) - 1, LevelSorted(d, base, b, s)
  PROVE  LevelKept(MergedInto(d, base, s, p), d, base, b, s, p)
<1> DEFINE from == base + p * (2 * s)
           lo   == Slice(d, from, s)
           hi   == Slice(d, from + s, s)
           seq  == Merged(lo, hi)
           e    == Patch(d, from, seq)
<1>1. InFile(from, 2 * s) /\ from \in Nat /\ base <= from /\ from + 2 * s <= base + b * s
  BY PairInLevel
<1>2. lo \in [1 .. s -> Keys] /\ hi \in [1 .. s -> Keys] BY MergeInputs
<1>3. Ascending(lo) /\ Ascending(hi) BY HalvesAscend
<1>4. MergedInto(d, base, s, p) = e BY DEF MergedInto, MergedAt
<1>5. base \in Nat /\ b * s \in Nat BY DEF InFile
<1> HIDE DEF lo, hi
<1>6. seq \in [1 .. 2 * s -> Keys] /\ Ascending(seq)
  <2>1. seq \in [1 .. s + s -> Keys] /\ Ascending(seq) BY <1>2, <1>3, MergedType, MergedAscending
  <2>2. s + s = 2 * s OBVIOUS
  <2>3. QED BY <2>1, <2>2
<1> HIDE DEF seq
<1>7. Patched(e, d, from, 2 * s, seq) BY <1>1, <1>6, PatchType
<1>8. InOrder(e, from, 2 * s) BY <1>1, <1>6, PatchInOrder
<1>9. ASSUME NEW other, NEW olen, InFile(other, olen), Apart(from, 2 * s, other, olen),
             InOrder(d, other, olen)
      PROVE  InOrder(e, other, olen)
  BY <1>1, <1>6, <1>9, PatchElsewhere
<1>10. e \in [Records -> Keys] BY <1>7 DEF Patched
<1>11. PairSorted(e, base, s, p) BY <1>8 DEF PairSorted
<1>12. from = base + (2 * p) * s /\ 2 * p \in 0 .. b - 1 /\ 2 * p + 1 \in 0 .. b - 1
       /\ from + s = base + (2 * p + 1) * s
  BY PairInLevel
<1>13. ASSUME NEW q \in 0 .. (b \div 2) - 1, PairSorted(d, base, s, q)
       PROVE  PairSorted(e, base, s, q)
  <2>1. CASE q = p BY <1>11, <2>1
  <2>2. CASE q # p
    <3>1. Apart(base + p * (2 * s), 2 * s, base + q * (2 * s), 2 * s)
      <4>1. p \in Nat /\ q \in Nat /\ 2 * s \in Nat OBVIOUS
      <4>2. QED BY ONLY <1>5, <2>2, <4>1, PartsApart
    <3>2. InFile(base + q * (2 * s), 2 * s) BY PairInLevel
    <3>3. InOrder(d, base + q * (2 * s), 2 * s) BY <1>13 DEF PairSorted
    <3>4. InOrder(e, base + q * (2 * s), 2 * s) BY <1>9, <3>1, <3>2, <3>3
    <3>5. QED BY <3>4 DEF PairSorted
  <2>3. QED BY <2>1, <2>2
<1> HIDE DEF from, e
<1>14. ASSUME NEW i \in 0 .. b - 1
       PROVE  InOrder(e, base + i * s, s)
  <2>1. InFile(base + i * s, s) /\ base + i * s \in Nat BY PartInFile
  <2>2. CASE i = 2 * p
    <3>1. base + i * s = from BY <1>12, <2>2
    <3>2. from \in Nat /\ 2 * s \in Nat /\ from <= from /\ from + s <= from + 2 * s BY <1>1
    <3>3. InOrder(e, from, s) BY <1>8, <3>2, PartInOrder
    <3>4. QED BY <3>1, <3>3
  <2>3. CASE i = 2 * p + 1
    <3>1. base + i * s = from + s BY <1>12, <2>3
    <3>2. /\ from \in Nat /\ 2 * s \in Nat /\ from + s \in Nat /\ from <= from + s
          /\ (from + s) + s <= from + 2 * s
      BY <1>1
    <3>3. InOrder(e, from + s, s) BY <1>8, <3>2, PartInOrder
    <3>4. QED BY <3>1, <3>3
  <2>4. CASE i < 2 * p
    <3>1. i * s \in Nat /\ (2 * p) * s \in Nat /\ i * s + s <= (2 * p) * s
      BY <1>12, <2>4, PartsInOrder
    <3>2. Apart(from, 2 * s, base + i * s, s) BY <1>5, <1>12, <3>1 DEF Apart
    <3>3. InOrder(d, base + i * s, s) BY DEF LevelSorted
    <3>4. QED BY <1>9, <2>1, <3>2, <3>3
  <2>5. CASE 2 * p + 1 < i
    <3>1. i * s \in Nat /\ (2 * p + 1) * s \in Nat /\ (2 * p + 1) * s + s <= i * s
      BY <1>12, <2>5, PartsInOrder
    <3>2. Apart(from, 2 * s, base + i * s, s) BY <1>1, <1>5, <1>12, <3>1 DEF Apart
    <3>3. InOrder(d, base + i * s, s) BY DEF LevelSorted
    <3>4. QED BY <1>9, <2>1, <3>2, <3>3
  <2>6. i < 2 * p \/ i = 2 * p \/ i = 2 * p + 1 \/ 2 * p + 1 < i BY <1>12
  <2>7. QED BY <2>2, <2>3, <2>4, <2>5, <2>6
<1>15. LevelSorted(e, base, b, s) BY <1>14 DEF LevelSorted
<1>16. QED BY <1>4, <1>10, <1>11, <1>13, <1>15 DEF LevelKept

(* When all pairs are sorted, so is the next level, of half as many parts. *)
LEMMA LevelDoubles ==
  ASSUME NEW d, NEW base, NEW b, NEW s,
         \A p \in 0 .. (b \div 2) - 1 : PairSorted(d, base, s, p)
  PROVE  LevelSorted(d, base, b \div 2, 2 * s)
BY DEF LevelSorted, PairSorted

(* Every number is some thread's at some turn.                             *)
LEMMA TurnsCover ==
  ASSUME NEW i \in Nat
  PROVE  \E u \in Threads, k \in Nat : i = u + k * ThreadNum
<1> DEFINE S == {x \in Nat : \E u \in Threads, k \in Nat : x = u + k * ThreadNum}
<1>1. ThreadNum \in Nat /\ 0 \in Threads /\ Threads = 0 .. ThreadNum - 1
  BY SortAssumption DEF Threads
<1>2. 0 \in S
  <2>1. 0 = 0 + 0 * ThreadNum BY <1>1
  <2>2. QED BY <1>1, <2>1
<1>3. ASSUME NEW x \in Nat, x \in S PROVE x + 1 \in S
  <2>1. PICK u \in Threads, k \in Nat : x = u + k * ThreadNum BY <1>3
  <2>2. k * ThreadNum \in Nat BY <1>1
  <2>3. CASE u + 1 \in Threads
    <3>1. x + 1 = (u + 1) + k * ThreadNum BY <1>1, <2>1, <2>2
    <3>2. QED BY <2>3, <3>1
  <2>4. CASE u + 1 \notin Threads
    <3>1. u = ThreadNum - 1 BY <1>1, <2>4
    <3>2. x + 1 = 0 + (k + 1) * ThreadNum BY <1>1, <2>1, <2>2, <3>1
    <3>3. k + 1 \in Nat OBVIOUS
    <3>4. x + 1 \in Nat OBVIOUS
    <3>5. QED BY <1>1, <3>2, <3>3, <3>4
  <2>5. QED BY <2>3, <2>4
<1> HIDE DEF S
<1>4. i \in S BY <1>2, <1>3, AllNaturals
<1>5. QED BY <1>4 DEF S

(* Outside the len records from `from` on, e is d.                         *)
Elsewhere(e, d, from, len) ==
  \A other, olen : InFile(other, olen) /\ Apart(from, len, other, olen) =>
    /\ Slice(e, other, olen) = Slice(d, other, olen)
    /\ InOrder(d, other, olen) => InOrder(e, other, olen)

LEMMA PatchKeepsElsewhere ==
  ASSUME NEW d \in [Records -> Keys], NEW from, NEW len, InFile(from, len),
         NEW seq \in [1 .. len -> Keys]
  PROVE  Elsewhere(Patch(d, from, seq), d, from, len)
<1> SUFFICES ASSUME NEW other, NEW olen, InFile(other, olen), Apart(from, len, other, olen)
             PROVE  /\ Slice(Patch(d, from, seq), other, olen) = Slice(d, other, olen)
                    /\ InOrder(d, other, olen) => InOrder(Patch(d, from, seq), other, olen)
  BY DEF Elsewhere
<1>1. QED BY PatchElsewhere

(* merge fills a pair, and writes nothing beyond it.                       *)
LEMMA MergedLengths ==
  ASSUME NEW d \in [Records -> Keys], NEW base, NEW b \in Nat, NEW s \in Nat, InFile(base, b * s),
         NEW p \in 0 .. (b \div 2) - 1
  PROVE  /\ MergedAt(d, base, s, p) \in [1 .. 2 * s -> Keys]
         /\ InFile(base + p * (2 * s), 2 * s)
<1>1. Slice(d, base + p * (2 * s), s) \in [1 .. s -> Keys]
      /\ Slice(d, base + p * (2 * s) + s, s) \in [1 .. s -> Keys]
  BY MergeInputs
<1>2. MergedAt(d, base, s, p) \in [1 .. s + s -> Keys] BY <1>1, MergedType DEF MergedAt
<1>3. s + s = 2 * s OBVIOUS
<1>4. QED BY <1>2, <1>3, PairInLevel

LEMMA MergedKeepsElsewhere ==
  ASSUME NEW d \in [Records -> Keys], NEW base, NEW b \in Nat, NEW s \in Nat, InFile(base, b * s),
         NEW p \in 0 .. (b \div 2) - 1
  PROVE  /\ MergedInto(d, base, s, p) \in [Records -> Keys]
         /\ Elsewhere(MergedInto(d, base, s, p), d, base + p * (2 * s), 2 * s)
<1> DEFINE seq == MergedAt(d, base, s, p)
           from == base + p * (2 * s)
<1>1. seq \in [1 .. 2 * s -> Keys] /\ InFile(from, 2 * s) BY MergedLengths
<1>2. MergedInto(d, base, s, p) = Patch(d, from, seq) BY DEF MergedInto
<1> HIDE DEF seq
<1>3. Elsewhere(Patch(d, from, seq), d, from, 2 * s) BY <1>1, PatchKeepsElsewhere
<1>4. Patched(Patch(d, from, seq), d, from, 2 * s, seq) BY <1>1, PatchType
<1>5. QED BY <1>2, <1>3, <1>4 DEF Patched

(* What qsort makes of the file.                                           *)
SortedInto(d, from, len) == Patch(d, from, Sorted(Slice(d, from, len)))

(* qsort sorts a part of the file and keeps the rest.                      *)
LEMMA SortStep ==
  ASSUME NEW d \in [Records -> Keys], NEW from, NEW len, InFile(from, len)
  PROVE  /\ SortedInto(d, from, len) \in [Records -> Keys]
         /\ InOrder(SortedInto(d, from, len), from, len)
         /\ Elsewhere(SortedInto(d, from, len), d, from, len)
<1> DEFINE seq == Sorted(Slice(d, from, len))
<1>1. len \in Nat BY DEF InFile
<1>2. Slice(d, from, len) \in [1 .. len -> Keys] BY SliceType
<1>3. seq \in [1 .. len -> Keys] /\ Ascending(seq) BY <1>1, <1>2, SortedRanks, SortedAscending
<1>4. SortedInto(d, from, len) = Patch(d, from, seq) BY DEF SortedInto
<1> HIDE DEF seq
<1>5. Patched(Patch(d, from, seq), d, from, len, seq) BY <1>3, PatchType
<1>6. Elsewhere(Patch(d, from, seq), d, from, len) BY <1>3, PatchKeepsElsewhere
<1>7. InOrder(Patch(d, from, seq), from, len) BY <1>3, PatchInOrder
<1>8. QED BY <1>4, <1>5, <1>6, <1>7 DEF Patched

(* The expressions of the model in these terms.                            *)
LEMMA PairOfRecord ==
  ASSUME NEW base \in Nat, NEW m \in Merges
  PROVE  /\ FirstOf(base, m) = base + m.id * (2 * m.size)
         /\ MergedPair(base, m) = MergedAt(data, base, m.size, m.id)
         /\ Patch(data, FirstOf(base, m), MergedPair(base, m)) = MergedInto(data, base, m.size, m.id)
<1>1. m.id \in Nat /\ m.size \in Nat BY DEF Merges
<1>2. m.id * 2 * m.size = m.id * (2 * m.size) BY <1>1
<1>3. FirstOf(base, m) = base + m.id * (2 * m.size) BY <1>2 DEF FirstOf
<1>4. QED BY <1>3 DEF MergedPair, MergedAt, MergedInto

-----------------------------------------------------------------------------
(* The invariant.                                                          *)
TempFilled == \A t \in Threads :
  temp[t] = IF pc[t] = "copy" THEN MergedPair(tmpStart, merging[t]) ELSE <<>>

DataTypes == data \in [Records -> Keys] /\ temp \in [Threads -> Seq(Keys)] /\ TempFilled

ChunkCounted ==
  chunk \in 0 .. ChunkNum /\ (chunk = ChunkNum <=> pc[0] \in {"lastMerge", "exit"})

(* Only the threads that exist have marked a block.                        *)
MarkedByThreads == Creating => \A i \in Blocks : blockMap[i] = 1 => i \in Threads /\ pc[i] = "start"

FirstLevel == Creating \/ Sorting => LevelStarts(merging, BlockNum, BlockLen)

(* A block that is marked, and that nobody sorts, is sorted.               *)
BlocksSorted == Sorting =>
  /\ \A i \in Blocks :
       blockMap[i] = 1 /\ (\A t \in Threads : pc[t] \in {"own", "sort"} => block[t] # i)
         => InOrder(data, tmpStart + i * BlockLen, BlockLen)
  /\ \A t \in Threads : pc[t] = "sorted" => \A i \in Blocks : blockMap[i] = 1

(* All parts of the level are sorted, and each thread has merged the pairs *)
(* that it has passed.                                                     *)
PairsMerged(b, s) == \A t \in Threads : \A k \in Nat :
  t + k * ThreadNum < merging[t].id /\ t + k * ThreadNum < b \div 2
    => PairSorted(data, tmpStart, s, t + k * ThreadNum)

LevelMerged(b, s) ==
  /\ b * s <= memsize
  /\ LevelSorted(data, tmpStart, b, s)
  /\ PairsMerged(b, s)
  /\ \A t \in Threads : /\ pc[t] = "copy" => merging[t].id < b \div 2
                        /\ pc[t] = "levelDone" => merging[t].id >= b \div 2

LevelInv == Merging => LevelMerged(merging[0].blocks, merging[0].size)

LastInFile == pc[0] = "lastMerge" => merging[0].blocks * merging[0].size <= Total

DataInv ==
  DataTypes /\ ChunkCounted /\ MarkedByThreads /\ FirstLevel /\ BlocksSorted /\ LevelInv /\ LastInFile

(* The chunk that is being sorted lies in the file.                        *)
LEMMA ChunkInFile ==
  ASSUME chunk \in Nat, chunk < ChunkNum, NEW len \in Nat, len <= memsize
  PROVE  InFile(tmpStart, len) /\ tmpStart \in Nat
<1>1. memsize \in Nat /\ ChunkNum \in Nat /\ Total \in Nat BY ConstantTypes
<1>2. chunk * memsize \in Nat /\ chunk * memsize + memsize <= ChunkNum * memsize
  BY <1>1, PartsInOrder
<1>3. QED BY <1>1, <1>2 DEF InFile, tmpStart, Total

(* The invariant holds when main starts its first chunk.                   *)
LEMMA DataInit == Init => DataInv
<1> SUFFICES ASSUME Init PROVE DataInv OBVIOUS
<1>1. \A t \in Threads : pc[t] \in {"none", "create"} BY DEF Init
<1>2. 0 \in Threads /\ 1 <= ChunkNum /\ ChunkNum \in Nat BY ConstantTypes
<1>3. DataTypes
  <2>1. data \in [Records -> Keys] BY FilesAssumption DEF Init
  <2>2. temp \in [Threads -> Seq(Keys)] BY DEF Init
  <2>3. TempFilled BY <1>1 DEF Init, TempFilled
  <2>4. QED BY <2>1, <2>2, <2>3 DEF DataTypes
<1>4. ChunkCounted BY <1>1, <1>2 DEF Init, ChunkCounted
<1>5. MarkedByThreads BY DEF Init, MarkedByThreads
<1>6. FirstLevel BY DEF Init, FirstLevel, LevelStarts
<1>7. ~Sorting /\ ~Merging BY <1>1, <1>2 DEF Sorting, Merging
<1>8. LastInFile BY <1>1, <1>2 DEF LastInFile
<1>9. QED BY <1>3, <1>4, <1>5, <1>6, <1>7, <1>8 DEF DataInv, BlocksSorted, LevelInv

LEMMA TempEmpty ==
  ASSUME DataTypes, \A t \in Threads : pc[t] # "copy" /\ pc'[t] # "copy", temp' = temp,
         data' \in [Records -> Keys]
  PROVE  DataTypes'
BY DEF DataTypes, TempFilled

(* A level that is halved lies inside the one before it.                   *)
LEMMA HalfLevel ==
  ASSUME NEW b \in Nat, NEW s \in Nat
  PROVE  /\ (b \div 2) * (2 * s) \in Nat /\ (b \div 2) * (2 * s) <= b * s
         /\ b % 2 = 0 => (b \div 2) * (2 * s) = b * s
<1>1. PICK h \in Nat, r \in {0, 1} : h = b \div 2 /\ b = 2 * h + r /\ r = b % 2
  <2>1. b \div 2 \in Nat OBVIOUS
  <2>2. b % 2 \in 0 .. 1 OBVIOUS
  <2>3. b = 2 * (b \div 2) + (b % 2) OBVIOUS
  <2>4. b % 2 \in {0, 1} BY <2>2
  <2>5. QED BY <2>1, <2>3, <2>4
<1>2. b * s = h * (2 * s) + r * s BY <1>1
<1>3. r * s \in Nat /\ h * (2 * s) \in Nat OBVIOUS
<1>4. r = 0 => r * s = 0 OBVIOUS
<1>5. QED BY <1>1, <1>2, <1>3, <1>4

(* The steps of main and of the barrier.                                   *)
LEMMA DataCreate ==
  ASSUME ShareInv, DataInv, MainSorts \/ \E t \in Threads : CreateThread(t)
  PROVE  DataInv'
<1>1. 0 \in Threads /\ Threads \subseteq Blocks BY ConstantTypes
<1>2. PICK t \in Threads :
        /\ pc[0] = "create" /\ pc[t] \in {"none", "create"}
        /\ pc' = [pc EXCEPT ![t] = "start"] /\ blockMap' = [blockMap EXCEPT ![t] = 1]
        /\ UNCHANGED <<data, chunk, block, merging, temp>>
  BY <1>1 DEF MainSorts, CreateThread, Goto
<1>3. Creating BY <1>1, <1>2, PhaseOf
<1>4. pc \in [Threads -> Pc] /\ blockMap \in [Blocks -> {0, 1}] BY DEF ShareInv, ControlTypes
<1>5. \A u \in Threads : pc'[u] = IF u = t THEN "start" ELSE pc[u] BY <1>2, <1>4
<1>6. \A u \in Threads : pc'[u] \in {"none", "create", "start"} BY <1>3, <1>5 DEF Creating
<1>7. Creating' /\ ~Sorting' /\ ~Merging' BY <1>1, <1>6 DEF Creating, Sorting, Merging
<1>8. DataTypes' /\ ChunkCounted' /\ LastInFile'
  <2>1. DataTypes /\ ChunkCounted BY DEF DataInv
  <2>2. data' \in [Records -> Keys] BY <1>2, <2>1 DEF DataTypes
  <2>3. DataTypes' BY <1>2, <1>3, <1>6, <2>1, <2>2, TempEmpty DEF Creating
  <2>4. ChunkCounted' BY <1>1, <1>2, <1>6, <2>1 DEF ChunkCounted
  <2>5. LastInFile' BY <1>1, <1>6 DEF LastInFile
  <2>6. QED BY <2>3, <2>4, <2>5
<1>9. MarkedByThreads'
  <2>1. ASSUME NEW i \in Blocks, blockMap'[i] = 1 PROVE i \in Threads /\ pc'[i] = "start"
    <3>1. CASE i = t BY <1>5, <3>1
    <3>2. CASE i # t
      <4>1. blockMap[i] = 1 BY <1>2, <1>4, <2>1, <3>2
      <4>2. i \in Threads /\ pc[i] = "start" BY <1>3, <4>1 DEF DataInv, MarkedByThreads
      <4>3. QED BY <1>5, <4>2
    <3>3. QED BY <3>1, <3>2
  <2>2. QED BY <2>1 DEF MarkedByThreads
<1>10. FirstLevel' BY <1>2, <1>3 DEF DataInv, FirstLevel, LevelStarts
<1>11. QED BY <1>7, <1>8, <1>9, <1>10 DEF DataInv, BlocksSorted, LevelInv

LEMMA DataBarrier ==
  ASSUME ShareInv, DataInv, BarrierOpens
  PROVE  DataInv'
<1>1. 0 \in Threads /\ Threads \subseteq Blocks /\ Threads \subseteq Nat /\ BlockNum \in Nat
      /\ BlockLen \in Nat /\ memsize \in Nat
  BY ConstantTypes
<1>2. /\ \A t \in Threads : pc[t] \in AtBarrier
      /\ \A t \in Threads : pc'[t] = After[pc[t]]
      /\ merging' = [t \in Threads |-> IF pc[t] = "levelDone"
                                       THEN NextLevel(t, merging[t]) ELSE merging[t]]
      /\ UNCHANGED <<data, chunk, blockMap, block, temp>>
  BY DEF BarrierOpens
<1>3. /\ DataTypes /\ ChunkCounted /\ MarkedByThreads /\ FirstLevel /\ BlocksSorted /\ LevelInv
      /\ LevelShared /\ OwnBlocks /\ ControlTypes /\ tmpStart \in Nat
  BY StartOfFile DEF DataInv, ShareInv, ControlTypes
<1>4. \A t \in Threads : pc[t] # "copy" /\ pc'[t] \in {"own", "level", "done"}
  BY <1>2 DEF AtBarrier, After
<1>5. data' \in [Records -> Keys] BY <1>2, <1>3 DEF DataTypes
<1>6. DataTypes' BY <1>2, <1>3, <1>4, <1>5, TempEmpty
<1>7. ChunkCounted' BY <1>1, <1>2, <1>3, <1>4 DEF ChunkCounted, AtBarrier
<1>8. LastInFile' /\ MarkedByThreads'
  BY <1>1, <1>4 DEF LastInFile, MarkedByThreads, Creating
<1>9. CASE \A t \in Threads : pc[t] = "start"
  <2>1. \A t \in Threads : pc'[t] = "own" BY <1>2, <1>9 DEF After
  <2>2. Creating /\ ~Merging' BY <1>1, <1>9, <2>1 DEF Creating, Merging
  <2>3. merging' = merging BY <1>2, <1>3, <1>9 DEF ControlTypes
  <2>4. FirstLevel' BY <1>3, <2>2, <2>3 DEF FirstLevel, LevelStarts
  <2>5. BlocksSorted'
    <3>1. \A i \in Blocks : blockMap'[i] = 1 => i \in Threads /\ pc'[i] = "own" /\ block'[i] = i
      BY <1>2, <1>3, <2>1, <2>2 DEF MarkedByThreads, OwnBlocks
    <3>2. QED BY <2>1, <3>1 DEF BlocksSorted
  <2>6. QED BY <1>6, <1>7, <1>8, <2>2, <2>4, <2>5 DEF DataInv, LevelInv
<1>10. CASE \A t \in Threads : pc[t] = "sorted"
  <2>1. \A t \in Threads : pc'[t] = "level" BY <1>2, <1>10 DEF After
  <2>2. Sorting /\ ~Creating' /\ ~Sorting' BY <1>1, <1>10, <2>1 DEF Creating, Sorting
  <2>3. merging' = merging BY <1>2, <1>3, <1>10 DEF ControlTypes
  <2>4. LevelStarts(merging', BlockNum, BlockLen) BY <1>3, <2>2, <2>3 DEF FirstLevel
  <2>5. \A t \in Threads : merging'[t].id = t /\ merging'[t].blocks = BlockNum
                           /\ merging'[t].size = BlockLen
    BY ONLY <2>4, LevelFields
  <2>6. LevelSorted(data, tmpStart, BlockNum, BlockLen)
    <3>1. \A i \in Blocks : blockMap[i] = 1 BY <1>1, <1>3, <1>10, <2>2 DEF BlocksSorted
    <3>2. \A i \in Blocks : InOrder(data, tmpStart + i * BlockLen, BlockLen)
      BY <1>3, <1>10, <2>2, <3>1 DEF BlocksSorted
    <3>3. QED BY <3>2 DEF LevelSorted, Blocks
  <2>7. tmpStart' = tmpStart BY <1>2 DEF tmpStart
  <2>8. LevelSorted(data', tmpStart', BlockNum, BlockLen) BY <1>2, <2>6, <2>7
  <2>9. PairsMerged(BlockNum, BlockLen)'
    <3>1. ASSUME NEW t \in Threads, NEW k \in Nat, t + k * ThreadNum < merging'[t].id PROVE FALSE
      <4>1. k * ThreadNum \in Nat /\ t \in Nat BY <1>1, ConstantTypes
      <4>2. t + k * ThreadNum < t BY <2>5, <3>1
      <4>3. QED BY <4>1, <4>2
    <3>2. QED BY <3>1 DEF PairsMerged
  <2>10. BlockNum * BlockLen <= memsize BY <1>1 DEF memsize
  <2>11. LevelMerged(BlockNum, BlockLen)' BY <2>1, <2>8, <2>9, <2>10 DEF LevelMerged
  <2>12. LevelInv' BY <1>1, <2>5, <2>11 DEF LevelInv
  <2>13. QED BY <1>6, <1>7, <1>8, <2>2, <2>12 DEF DataInv, FirstLevel, BlocksSorted
<1>11. CASE \A t \in Threads : pc[t] = "levelDone"
  <2>5. PICK b \in Nat, s \in Nat : b = merging[0].blocks /\ s = merging[0].size
    BY <1>1, <1>3 DEF ControlTypes, Merges
  <2>1. \A t \in Threads : pc'[t] = "level" BY <1>2, <1>11 DEF After
  <2>2. Merging /\ ~Creating' /\ ~Sorting' BY <1>1, <1>11, <2>1 DEF Creating, Sorting, Merging
  <2>3. LevelMerged(b, s) BY <1>3, <2>2, <2>5 DEF LevelInv
  <2>4. \A t \in Threads : merging[t].blocks = b /\ merging[t].size = s
    BY <1>3, <2>2, <2>5 DEF LevelShared, SameLevel
  <2>6. \A t \in Threads : merging[t].id \in Nat BY <1>3 DEF ControlTypes, Merges
  <2>7. LevelStarts(merging', b \div 2, 2 * s)
    BY <1>2, <1>11, <2>4 DEF LevelStarts, NextLevel, HalfOf
  <2>8. \A t \in Threads : merging'[t].id = t /\ merging'[t].blocks = b \div 2
                           /\ merging'[t].size = 2 * s
    BY ONLY <2>7, LevelFields
  <2>9. ASSUME NEW p \in 0 .. (b \div 2) - 1 PROVE PairSorted(data, tmpStart, s, p)
    <3>1. PICK u \in Threads, k \in Nat : p = u + k * ThreadNum
      <4>1. p \in Nat OBVIOUS
      <4>2. QED BY <4>1, TurnsCover
    <3>2. merging[u].id >= b \div 2 BY <1>11, <2>3 DEF LevelMerged
    <3>3. b \div 2 \in Nat BY <2>5
    <3>4. p < merging[u].id /\ p < b \div 2 BY <2>6, <3>2, <3>3
    <3>5. QED BY <2>3, <3>1, <3>4 DEF LevelMerged, PairsMerged
  <2>10. LevelSorted(data, tmpStart, b \div 2, 2 * s) BY <2>9, LevelDoubles
  <2>11. tmpStart' = tmpStart BY <1>2 DEF tmpStart
  <2>12. LevelSorted(data', tmpStart', b \div 2, 2 * s) BY <1>2, <2>10, <2>11
  <2>13. PairsMerged(b \div 2, 2 * s)'
    <3>1. ASSUME NEW t \in Threads, NEW k \in Nat, t + k * ThreadNum < merging'[t].id PROVE FALSE
      <4>1. k * ThreadNum \in Nat /\ t \in Nat BY <1>1, ConstantTypes
      <4>2. t + k * ThreadNum < t BY <2>8, <3>1
      <4>3. QED BY <4>1, <4>2
    <3>2. QED BY <3>1 DEF PairsMerged
  <2>14. (b \div 2) * (2 * s) <= memsize
    <3>1. b * s <= memsize /\ b * s \in Nat BY <2>3, <2>5 DEF LevelMerged
    <3>2. (b \div 2) * (2 * s) \in Nat /\ (b \div 2) * (2 * s) <= b * s BY <2>5, HalfLevel
    <3>3. QED BY <1>1, <3>1, <3>2
  <2>15. LevelMerged(b \div 2, 2 * s)' BY <2>1, <2>12, <2>13, <2>14 DEF LevelMerged
  <2>16. LevelInv' BY <1>1, <2>8, <2>15 DEF LevelInv
  <2>17. QED BY <1>6, <1>7, <1>8, <2>2, <2>16 DEF DataInv, FirstLevel, BlocksSorted
<1>12. CASE \A t \in Threads : pc[t] = "end"
  <2>1. \A t \in Threads : pc'[t] = "done" BY <1>2, <1>12 DEF After
  <2>2. ~Creating' /\ ~Sorting' /\ ~Merging' BY <1>1, <2>1 DEF Creating, Sorting, Merging
  <2>3. QED BY <1>6, <1>7, <1>8, <2>2 DEF DataInv, FirstLevel, BlocksSorted, LevelInv
<1>13. QED BY <1>9, <1>10, <1>11, <1>12, BarrierOfPhase

(* main goes to the next chunk, or to the last merges.                     *)
LEMMA DataJoin ==
  ASSUME ShareInv, DataInv, JoinThreads
  PROVE  DataInv'
<1>1. 0 \in Threads /\ ChunkNum \in Nat /\ memsize \in Nat BY ConstantTypes
<1>2. DataTypes /\ ChunkCounted /\ pc \in [Threads -> Pc] /\ merging \in [Threads -> Merges]
  BY DEF DataInv, ShareInv, ControlTypes
<1>3. /\ \A t \in Threads : pc[t] = "done"
      /\ chunk' = chunk + 1 /\ data' = data /\ temp' = temp
  BY DEF JoinThreads
<1>4. data' \in [Records -> Keys] BY <1>2, <1>3 DEF DataTypes
<1>5. chunk \in Nat /\ chunk < ChunkNum BY <1>1, <1>2, <1>3 DEF ChunkCounted
<1>6. CASE /\ chunk + 1 # ChunkNum
           /\ pc' = [t \in Threads |-> IF t = 0 THEN "create" ELSE "none"]
           /\ blockMap' = [i \in Blocks |-> 0]
           /\ merging' = [t \in Threads |-> [blocks |-> BlockNum, size |-> BlockLen, id |-> t]]
  <2>1. \A t \in Threads : pc'[t] \in {"none", "create"} BY <1>6
  <2>2. ~Sorting' /\ ~Merging' BY <1>1, <2>1 DEF Sorting, Merging
  <2>3. DataTypes' BY <1>2, <1>3, <1>4, <2>1, TempEmpty
  <2>4. ChunkCounted' BY <1>1, <1>3, <1>5, <1>6, <2>1 DEF ChunkCounted
  <2>5. MarkedByThreads' BY <1>6 DEF MarkedByThreads
  <2>6. FirstLevel' BY <1>6 DEF FirstLevel, LevelStarts
  <2>7. LastInFile' BY <1>1, <2>1 DEF LastInFile
  <2>8. QED BY <2>2, <2>3, <2>4, <2>5, <2>6, <2>7 DEF DataInv, BlocksSorted, LevelInv
<1>7. CASE /\ chunk + 1 = ChunkNum
           /\ pc' = [pc EXCEPT ![0] = IF ChunkNum > 1 THEN "lastMerge" ELSE "exit"]
           /\ merging' = [merging EXCEPT ![0] = [blocks |-> ChunkNum, size |-> memsize, id |-> 0]]
  <2>1. pc'[0] \in {"lastMerge", "exit"} /\ \A t \in Threads \ {0} : pc'[t] = "done"
    BY <1>1, <1>2, <1>3, <1>7
  <2>2. ~Creating' /\ ~Sorting' /\ ~Merging' BY <1>1, <2>1 DEF Creating, Sorting, Merging
  <2>3. DataTypes' BY <1>2, <1>3, <1>4, <2>1, TempEmpty
  <2>4. ChunkCounted' BY <1>1, <1>3, <1>5, <1>7, <2>1 DEF ChunkCounted
  <2>5. LastInFile'
    <3>1. merging'[0] = [blocks |-> ChunkNum, size |-> memsize, id |-> 0] BY <1>1, <1>2, <1>7
    <3>2. merging'[0].blocks = ChunkNum /\ merging'[0].size = memsize BY ONLY <3>1
    <3>3. ChunkNum * memsize \in Nat BY <1>1
    <3>4. QED BY <3>2, <3>3 DEF LastInFile, Total
  <2>6. QED
    BY <2>2, <2>3, <2>4, <2>5 DEF DataInv, MarkedByThreads, FirstLevel, BlocksSorted, LevelInv
<1>8. QED BY <1>6, <1>7 DEF JoinThreads

(* What qsort does to the file while the threads sort.                     *)
LEMMA SortBlockData ==
  ASSUME ShareInv, DataInv, NEW t \in Threads, SortBlock(t)
  PROVE  /\ data' = SortedInto(data, tmpStart + block[t] * BlockLen, BlockLen)
         /\ data' \in [Records -> Keys]
         /\ InOrder(data', tmpStart + block[t] * BlockLen, BlockLen)
         /\ Elsewhere(data', data, tmpStart + block[t] * BlockLen, BlockLen)
         /\ Sorting /\ InFile(tmpStart, BlockNum * BlockLen) /\ block[t] \in 0 .. BlockNum - 1
<1>1. pc[t] \in {"own", "sort"} BY DEF SortBlock, Goto
<1>2. Sorting BY <1>1, PhaseOf
<1>3. /\ data \in [Records -> Keys] /\ ChunkCounted /\ block[t] \in 0 .. BlockNum - 1
  BY DEF DataInv, DataTypes, ShareInv, ControlTypes, Blocks
<1>4. chunk \in Nat /\ chunk < ChunkNum
  BY <1>2, <1>3, ConstantTypes DEF ChunkCounted, Sorting
<1>5. InFile(tmpStart, BlockNum * BlockLen)
  <2>1. memsize \in Nat /\ memsize = BlockNum * BlockLen /\ memsize <= memsize
    BY ConstantTypes DEF memsize
  <2>2. QED BY <1>4, <2>1, ChunkInFile
<1>6. InFile(tmpStart + block[t] * BlockLen, BlockLen)
  BY <1>3, <1>5, PartInFile, ConstantTypes
<1>7. data' = SortedInto(data, tmpStart + block[t] * BlockLen, BlockLen)
  BY DEF SortBlock, SortedInto
<1>8. QED BY <1>2, <1>3, <1>5, <1>6, <1>7, SortStep

(* A thread sorts its block, or claims the next one.                       *)
LEMMA DataSort ==
  ASSUME ShareInv, DataInv, NEW t \in Threads, SortBlock(t) \/ ClaimBlock(t) \/ NoFreeBlock(t)
  PROVE  DataInv'
<1>1. 0 \in Threads BY ConstantTypes
<1>2. /\ DataTypes /\ ChunkCounted /\ FirstLevel /\ BlocksSorted
      /\ pc \in [Threads -> Pc] /\ block \in [Threads -> Blocks] /\ blockMap \in [Blocks -> {0, 1}]
  BY DEF DataInv, ShareInv, ControlTypes
<1>3. /\ pc[t] \in {"own", "sort", "claim"}
      /\ pc' = [pc EXCEPT ![t] = pc'[t]] /\ pc'[t] \in {"claim", "sort", "sorted"}
      /\ UNCHANGED <<chunk, merging, temp>>
  BY <1>2 DEF SortBlock, ClaimBlock, NoFreeBlock, Goto
<1>4. Sorting BY <1>3, PhaseOf
<1>5. \A u \in Threads \ {t} : pc'[u] = pc[u] BY <1>2, <1>3
<1>6. \A u \in Threads : pc'[u] \in {"own", "claim", "sort", "sorted"}
  BY <1>3, <1>4, <1>5 DEF Sorting
<1>7. Sorting' /\ ~Creating' /\ ~Merging' BY <1>1, <1>6 DEF Sorting, Creating, Merging
<1>8. data' \in [Records -> Keys]
  BY <1>2, SortBlockData DEF ClaimBlock, NoFreeBlock, DataTypes
<1>9. DataTypes'
  <2>1. \A u \in Threads : pc[u] # "copy" BY <1>4 DEF Sorting
  <2>2. \A u \in Threads : pc'[u] # "copy" BY <1>6
  <2>3. QED BY <1>2, <1>3, <1>8, <2>1, <2>2, TempEmpty
<1>10. ChunkCounted' /\ LastInFile'
  BY <1>1, <1>2, <1>3, <1>4, <1>6 DEF ChunkCounted, LastInFile, Sorting
<1>11. FirstLevel' BY <1>2, <1>3, <1>4 DEF FirstLevel
<1>12. tmpStart' = tmpStart BY <1>3 DEF tmpStart
<1>13. BlocksSorted'
  <2> SUFFICES
        /\ \A i \in Blocks :
             blockMap'[i] = 1 /\ (\A u \in Threads : pc'[u] \in {"own", "sort"} => block'[u] # i)
               => InOrder(data', tmpStart + i * BlockLen, BlockLen)
        /\ \A u \in Threads : pc'[u] = "sorted" => \A i \in Blocks : blockMap'[i] = 1
    BY <1>12 DEF BlocksSorted
  <2>1. ASSUME NEW i \in Blocks, blockMap[i] = 1,
               \A u \in Threads : pc[u] \in {"own", "sort"} => block[u] # i
        PROVE  InOrder(data, tmpStart + i * BlockLen, BlockLen)
    BY <1>2, <1>4, <2>1 DEF BlocksSorted
  <2>2. ASSUME NEW u \in Threads, pc[u] = "sorted", NEW i \in Blocks PROVE blockMap[i] = 1
    BY <1>2, <1>4, <2>2 DEF BlocksSorted
  <2>3. CASE SortBlock(t)
    <3>1. UNCHANGED <<blockMap, block>> /\ pc'[t] = "claim" BY <1>2, <2>3 DEF SortBlock, Goto
    <3>2. ASSUME NEW i \in Blocks, blockMap'[i] = 1,
                 \A u \in Threads : pc'[u] \in {"own", "sort"} => block'[u] # i
          PROVE  InOrder(data', tmpStart + i * BlockLen, BlockLen)
      <4>1. CASE i = block[t] BY <2>3, <4>1, SortBlockData
      <4>2. CASE i # block[t]
        <5>1. InOrder(data, tmpStart + i * BlockLen, BlockLen)
          BY <1>5, <2>1, <3>1, <3>2, <4>2
        <5>2. /\ Elsewhere(data', data, tmpStart + block[t] * BlockLen, BlockLen)
              /\ InFile(tmpStart, BlockNum * BlockLen) /\ block[t] \in 0 .. BlockNum - 1
          BY <2>3, SortBlockData
        <5>3. BlockNum \in Nat /\ BlockLen \in Nat /\ i \in 0 .. BlockNum - 1
          BY ConstantTypes DEF Blocks
        <5>4. InFile(tmpStart + i * BlockLen, BlockLen) BY <5>2, <5>3, PartInFile
        <5>5. Apart(tmpStart + block[t] * BlockLen, BlockLen, tmpStart + i * BlockLen, BlockLen)
          <6>1. tmpStart \in Nat /\ block[t] \in Nat /\ i \in Nat BY <5>2, <5>3 DEF InFile
          <6>2. QED BY <4>2, <5>3, <6>1, PartsApart
        <5>6. QED BY <5>1, <5>2, <5>4, <5>5 DEF Elsewhere
      <4>3. QED BY <4>1, <4>2
    <3>3. ASSUME NEW u \in Threads, pc'[u] = "sorted", NEW i \in Blocks PROVE blockMap'[i] = 1
      BY <1>5, <2>2, <3>1, <3>3
    <3>4. QED BY <3>2, <3>3
  <2>4. CASE ClaimBlock(t)
    <3>1. PICK j \in Blocks : /\ blockMap[j] = 0
                              /\ block' = [block EXCEPT ![t] = j]
                              /\ blockMap' = [blockMap EXCEPT ![j] = 1]
      BY <2>4 DEF ClaimBlock
    <3>2. pc[t] = "claim" /\ pc'[t] = "sort" /\ data' = data BY <1>2, <2>4 DEF ClaimBlock, Goto
    <3>3. \A i \in Blocks : blockMap'[i] = IF i = j THEN 1 ELSE blockMap[i] BY <1>2, <3>1
    <3>4. \A u \in Threads : block'[u] = IF u = t THEN j ELSE block[u] BY <1>2, <3>1
    <3>5. ASSUME NEW i \in Blocks, blockMap'[i] = 1,
                 \A u \in Threads : pc'[u] \in {"own", "sort"} => block'[u] # i
          PROVE  InOrder(data', tmpStart + i * BlockLen, BlockLen)
      <4>1. i # j BY <3>2, <3>4, <3>5
      <4>2. blockMap[i] = 1 BY <3>3, <3>5, <4>1
      <4>3. \A u \in Threads : pc[u] \in {"own", "sort"} => block[u] # i
        BY <1>5, <3>2, <3>4, <3>5
      <4>4. QED BY <2>1, <3>2, <4>2, <4>3
    <3>6. ASSUME NEW u \in Threads, pc'[u] = "sorted", NEW i \in Blocks PROVE blockMap'[i] = 1
      <4>1. u # t BY <3>2, <3>6
      <4>2. QED BY <1>5, <2>2, <3>3, <3>6, <4>1
    <3>7. QED BY <3>5, <3>6
  <2>5. CASE NoFreeBlock(t)
    <3>1. /\ pc[t] = "claim" /\ pc'[t] = "sorted" /\ UNCHANGED <<data, blockMap, block>>
          /\ \A i \in Blocks : blockMap[i] = 1
      BY <1>2, <2>5 DEF NoFreeBlock, Goto
    <3>2. ASSUME NEW i \in Blocks, blockMap'[i] = 1,
                 \A u \in Threads : pc'[u] \in {"own", "sort"} => block'[u] # i
          PROVE  InOrder(data', tmpStart + i * BlockLen, BlockLen)
      <4>1. \A u \in Threads : pc[u] \in {"own", "sort"} => block[u] # i BY <1>5, <3>1, <3>2
      <4>2. QED BY <2>1, <3>1, <4>1
    <3>3. QED BY <3>1, <3>2
  <2>6. QED BY <2>3, <2>4, <2>5
<1>14. QED
  BY <1>7, <1>9, <1>10, <1>11, <1>13 DEF DataInv, MarkedByThreads, LevelInv

(* Where a thread that merges is: its level, its next pair and the place   *)
(* of the level in the file.                                               *)
LevelPlace(t, b, s, p, n) ==
  /\ merging[t].blocks = b /\ merging[t].size = s /\ merging[t].id = p /\ HalfOf(merging[t]) = b \div 2
  /\ \A u \in Threads : merging[u].blocks = b /\ merging[u].size = s /\ merging[u].id \in Nat
  /\ p = t + n * ThreadNum
  /\ LevelMerged(b, s) /\ InFile(tmpStart, b * s)
  /\ FirstOf(tmpStart, merging[t]) = tmpStart + p * (2 * s)

LEMMA MergingPlace ==
  ASSUME ShareInv, DataInv, Merging, NEW t \in Threads
  PROVE  \E b \in Nat, s \in Nat, p \in Nat, n \in Nat : LevelPlace(t, b, s, p, n)
<1>1. 0 \in Threads BY ConstantTypes
<1>2. /\ merging \in [Threads -> Merges] /\ SameLevel(merging) /\ chunk \in Nat /\ ChunkCounted
      /\ LevelMerged(merging[0].blocks, merging[0].size)
  BY DEF ShareInv, DataInv, ControlTypes, LevelShared, LevelInv
<1>3. PICK b \in Nat, s \in Nat : b = merging[0].blocks /\ s = merging[0].size
  BY <1>1, <1>2 DEF Merges
<1>4. PICK p \in Nat : p = merging[t].id BY <1>2 DEF Merges
<1>5. PICK n \in Nat : p = t + n * ThreadNum BY <1>2, <1>4 DEF SameLevel
<1>6. \A u \in Threads : merging[u].blocks = b /\ merging[u].size = s /\ merging[u].id \in Nat
  BY <1>2, <1>3 DEF SameLevel, Merges
<1>7. LevelMerged(b, s) BY <1>2, <1>3
<1>8. InFile(tmpStart, b * s) /\ tmpStart \in Nat
  <2>1. chunk < ChunkNum BY <1>1, <1>2, ConstantTypes DEF ChunkCounted, Merging
  <2>2. b * s \in Nat /\ b * s <= memsize BY <1>7 DEF LevelMerged
  <2>3. QED BY <1>2, <2>1, <2>2, ChunkInFile
<1>9. FirstOf(tmpStart, merging[t]) = tmpStart + merging[t].id * (2 * merging[t].size)
  BY <1>2, <1>8, PairOfRecord
<1>10. LevelPlace(t, b, s, p, n) BY <1>4, <1>5, <1>6, <1>7, <1>8, <1>9 DEF LevelPlace, HalfOf
<1>11. QED BY <1>10

(* A thread merges a pair into temp.                                       *)
LEMMA DataMergeToTemp ==
  ASSUME ShareInv, DataInv, NEW t \in Threads, MergeToTemp(t)
  PROVE  DataInv'
<1>1. 0 \in Threads BY ConstantTypes
<1>2. /\ DataTypes /\ ChunkCounted /\ pc \in [Threads -> Pc] /\ merging \in [Threads -> Merges]
      /\ temp \in [Threads -> Seq(Keys)] /\ data \in [Records -> Keys]
  BY DEF DataInv, DataTypes, ShareInv, ControlTypes
<1>3. /\ merging[t].id < HalfOf(merging[t])
      /\ pc[t] = "level" /\ pc' = [pc EXCEPT ![t] = "copy"]
      /\ temp' = [temp EXCEPT ![t] = MergedPair(tmpStart, merging[t])]
      /\ UNCHANGED <<data, chunk, blockMap, block, merging>>
  BY DEF MergeToTemp, Goto
<1>4. Merging BY <1>3, PhaseOf
<1>5. \A u \in Threads : pc'[u] = IF u = t THEN "copy" ELSE pc[u] BY <1>2, <1>3
<1>6. Merging' /\ ~Creating' /\ ~Sorting'
  BY <1>1, <1>4, <1>5 DEF Merging, Creating, Sorting
<1>7. PICK b \in Nat, s \in Nat, p \in Nat, n \in Nat : LevelPlace(t, b, s, p, n)
  BY <1>4, MergingPlace
<1>8. p \in 0 .. (b \div 2) - 1 BY <1>3, <1>7 DEF LevelPlace
<1>9. \A u \in Threads : MergedPair(tmpStart, merging[u])' = MergedPair(tmpStart, merging[u])
  BY <1>3 DEF MergedPair, FirstOf, tmpStart
<1>10. MergedPair(tmpStart, merging[t]) \in Seq(Keys)
  <2>1. merging[t] \in Merges /\ tmpStart \in Nat BY <1>2, <1>7 DEF LevelPlace, InFile
  <2>2. MergedPair(tmpStart, merging[t]) = MergedAt(data, tmpStart, s, p)
    BY <1>7, <2>1, PairOfRecord DEF LevelPlace
  <2>3. InFile(tmpStart, b * s) BY <1>7 DEF LevelPlace
  <2>4. MergedAt(data, tmpStart, s, p) \in [1 .. 2 * s -> Keys]
    BY <1>2, <1>8, <2>3, MergedLengths
  <2>5. 2 * s \in Nat OBVIOUS
  <2>6. QED BY <2>2, <2>4, <2>5
<1>11. DataTypes'
  <2>1. temp' \in [Threads -> Seq(Keys)] BY <1>2, <1>3, <1>10
  <2>2. ASSUME NEW u \in Threads
        PROVE  temp'[u] = IF pc'[u] = "copy" THEN MergedPair(tmpStart, merging[u])' ELSE <<>>
    <3>1. temp[u] = IF pc[u] = "copy" THEN MergedPair(tmpStart, merging[u]) ELSE <<>>
      BY <1>2 DEF DataTypes, TempFilled
    <3>2. temp'[u] = IF u = t THEN MergedPair(tmpStart, merging[t]) ELSE temp[u]
      BY <1>2, <1>3
    <3>3. QED BY <1>5, <1>9, <3>1, <3>2
  <2>3. TempFilled' BY <2>2 DEF TempFilled
  <2>4. QED BY <1>2, <1>3, <2>1, <2>3 DEF DataTypes
<1>12. ChunkCounted' /\ LastInFile' BY <1>1, <1>2, <1>3, <1>4, <1>5 DEF ChunkCounted, LastInFile, Merging
<1>13. LevelInv'
  <2>1. LevelMerged(b, s) BY <1>7 DEF LevelPlace
  <2>2. tmpStart' = tmpStart BY <1>3 DEF tmpStart
  <2>3. PairsMerged(b, s)' BY <1>3, <2>1, <2>2 DEF LevelMerged, PairsMerged
  <2>4. \A u \in Threads : /\ pc'[u] = "copy" => merging'[u].id < b \div 2
                           /\ pc'[u] = "levelDone" => merging'[u].id >= b \div 2
    BY <1>3, <1>5, <1>7, <2>1 DEF LevelMerged, LevelPlace
  <2>5. LevelMerged(b, s)' BY <1>3, <2>1, <2>2, <2>3, <2>4 DEF LevelMerged
  <2>6. merging'[0].blocks = b /\ merging'[0].size = s BY <1>1, <1>3, <1>7 DEF LevelPlace
  <2>7. QED BY <2>5, <2>6 DEF LevelInv
<1>14. QED
  BY <1>6, <1>11, <1>12, <1>13 DEF DataInv, MarkedByThreads, FirstLevel, BlocksSorted

(* A thread that has no pair left has merged all that were its own.        *)
LEMMA DataFinish ==
  ASSUME ShareInv, DataInv, NEW t \in Threads, FinishLevel(t)
  PROVE  DataInv'
<1>1. 0 \in Threads BY ConstantTypes
<1>2. DataTypes /\ ChunkCounted /\ pc \in [Threads -> Pc] BY DEF DataInv, ShareInv, ControlTypes
<1>3. /\ pc[t] = "level" /\ pc' = [pc EXCEPT ![t] = pc'[t]] /\ pc'[t] \in {"levelDone", "end"}
      /\ pc'[t] = "levelDone" => merging[t].id >= HalfOf(merging[t])
      /\ UNCHANGED <<data, chunk, blockMap, block, merging, temp>>
  BY <1>2 DEF FinishLevel, Goto
<1>4. Merging BY <1>3, PhaseOf
<1>5. \A u \in Threads \ {t} : pc'[u] = pc[u] BY <1>2, <1>3
<1>6. Merging' /\ ~Creating' /\ ~Sorting'
  BY <1>1, <1>3, <1>4, <1>5 DEF Merging, Creating, Sorting
<1>7. PICK b \in Nat, s \in Nat, p \in Nat, n \in Nat : LevelPlace(t, b, s, p, n)
  BY <1>4, MergingPlace
<1>8. \A u \in Threads : MergedPair(tmpStart, merging[u])' = MergedPair(tmpStart, merging[u])
  BY <1>3 DEF MergedPair, FirstOf, tmpStart
<1>9. DataTypes'
  <2>1. \A u \in Threads : pc'[u] = "copy" <=> pc[u] = "copy" BY <1>3, <1>5
  <2>2. TempFilled' BY <1>2, <1>3, <1>8, <2>1 DEF DataTypes, TempFilled
  <2>3. QED BY <1>2, <1>3, <2>2 DEF DataTypes
<1>10. ChunkCounted' /\ LastInFile'
  BY <1>1, <1>2, <1>3, <1>4, <1>5 DEF ChunkCounted, LastInFile, Merging
<1>11. LevelInv'
  <2>1. LevelMerged(b, s) BY <1>7 DEF LevelPlace
  <2>2. tmpStart' = tmpStart BY <1>3 DEF tmpStart
  <2>3. PairsMerged(b, s)' BY <1>3, <2>1, <2>2 DEF LevelMerged, PairsMerged
  <2>4. \A u \in Threads : /\ pc'[u] = "copy" => merging'[u].id < b \div 2
                           /\ pc'[u] = "levelDone" => merging'[u].id >= b \div 2
    BY <1>3, <1>5, <1>7, <2>1 DEF LevelMerged, LevelPlace
  <2>5. LevelMerged(b, s)' BY <1>3, <2>1, <2>2, <2>3, <2>4 DEF LevelMerged
  <2>6. merging'[0].blocks = b /\ merging'[0].size = s BY <1>1, <1>3, <1>7 DEF LevelPlace
  <2>7. QED BY <2>5, <2>6 DEF LevelInv
<1>12. QED
  BY <1>6, <1>9, <1>10, <1>11 DEF DataInv, MarkedByThreads, FirstLevel, BlocksSorted

(* What merge and memcpy do to the file while the threads merge.           *)
LEMMA CopyBackData ==
  ASSUME ShareInv, DataInv, NEW t \in Threads, CopyBack(t),
         NEW b \in Nat, NEW s \in Nat, NEW p \in Nat, NEW n \in Nat, LevelPlace(t, b, s, p, n)
  PROVE  /\ data' = MergedInto(data, tmpStart, s, p)
         /\ p \in 0 .. (b \div 2) - 1
         /\ LevelKept(data', data, tmpStart, b, s, p)
         /\ Elsewhere(data', data, tmpStart + p * (2 * s), 2 * s)
<1>1. /\ pc[t] = "copy" /\ data' = Patch(data, FirstOf(tmpStart, merging[t]), temp[t])
  BY DEF CopyBack, Goto
<1>2. /\ data \in [Records -> Keys] /\ merging[t] \in Merges /\ tmpStart \in Nat
      /\ temp[t] = MergedPair(tmpStart, merging[t])
  BY <1>1, StartOfFile DEF DataInv, DataTypes, TempFilled, ShareInv, ControlTypes
<1>3. data' = MergedInto(data, tmpStart, s, p) BY <1>1, <1>2, PairOfRecord DEF LevelPlace
<1>4. p \in 0 .. (b \div 2) - 1 BY <1>1 DEF LevelPlace, LevelMerged
<1>5. InFile(tmpStart, b * s) /\ LevelSorted(data, tmpStart, b, s) BY DEF LevelPlace, LevelMerged
<1>6. LevelKept(data', data, tmpStart, b, s, p) BY <1>2, <1>3, <1>4, <1>5, MergeStep
<1>7. Elsewhere(data', data, tmpStart + p * (2 * s), 2 * s)
  BY <1>2, <1>3, <1>4, <1>5, MergedKeepsElsewhere
<1>8. QED BY <1>3, <1>4, <1>6, <1>7

(* Outside pair p, nothing changes; nor does the merge of pair q.          *)
OnlyPair(e, d, base, b, s, p) ==
  InFile(base, b * s) /\ p \in 0 .. (b \div 2) - 1 /\ Elsewhere(e, d, base + p * (2 * s), 2 * s)

(* Pairs that other threads merge keep their records.                      *)
LEMMA OtherPairKept ==
  ASSUME NEW d, NEW e, NEW base, NEW b \in Nat, NEW s \in Nat, NEW p, OnlyPair(e, d, base, b, s, p),
         NEW q \in 0 .. (b \div 2) - 1, q # p
  PROVE  MergedAt(e, base, s, q) = MergedAt(d, base, s, q)
<1> DEFINE from == base + p * (2 * s)
           other == base + q * (2 * s)
<1>1. base \in Nat /\ InFile(base, b * s) /\ p \in 0 .. (b \div 2) - 1 /\ Elsewhere(e, d, from, 2 * s)
  BY DEF InFile, OnlyPair
<1>2. Apart(from, 2 * s, other, 2 * s)
  <2>1. p \in Nat /\ q \in Nat /\ 2 * s \in Nat /\ p # q BY <1>1
  <2>2. QED BY ONLY <1>1, <2>1, PartsApart
<1>3. from \in Nat /\ other \in Nat BY <1>1, PairInLevel
<1>4. InFile(other, s) /\ InFile(other + s, s)
  <2>1. 2 * q \in 0 .. b - 1 /\ 2 * q + 1 \in 0 .. b - 1 BY <1>1, PairInLevel
  <2>2. InFile(base + (2 * q) * s, s) /\ InFile(base + (2 * q + 1) * s, s) BY <1>1, <2>1, PartInFile
  <2>3. other = base + (2 * q) * s /\ other + s = base + (2 * q + 1) * s BY <1>1, PairInLevel
  <2>4. QED BY <2>2, <2>3
<1> HIDE DEF from, other
<1>5. Apart(from, 2 * s, other, s) /\ Apart(from, 2 * s, other + s, s)
  BY <1>2, <1>3 DEF Apart
<1>6. Slice(e, other, s) = Slice(d, other, s) /\ Slice(e, other + s, s) = Slice(d, other + s, s)
  BY <1>1, <1>4, <1>5 DEF Elsewhere
<1>7. QED BY <1>6 DEF MergedAt, other

(* A thread copies temp back: its pair is merged, those of others are not  *)
(* touched.                                                                *)
LEMMA DataCopy ==
  ASSUME ShareInv, DataInv, NEW t \in Threads, CopyBack(t)
  PROVE  DataInv'
<1>1. 0 \in Threads /\ ThreadNum \in Nat \ {0} /\ Threads \subseteq Nat BY ConstantTypes
<1>2. /\ DataTypes /\ ChunkCounted /\ pc \in [Threads -> Pc] /\ merging \in [Threads -> Merges]
      /\ temp \in [Threads -> Seq(Keys)] /\ data \in [Records -> Keys]
      /\ (SameLevel(merging) \/ ~Merging)
  BY DEF DataInv, DataTypes, ShareInv, ControlTypes, LevelShared
<1>3. /\ pc[t] = "copy" /\ pc' = [pc EXCEPT ![t] = "level"]
      /\ temp' = [temp EXCEPT ![t] = <<>>]
      /\ merging' = [merging EXCEPT ![t].id = merging[t].id + ThreadNum]
      /\ UNCHANGED <<chunk, blockMap, block>>
  BY DEF CopyBack, Goto
<1>4. Merging BY <1>3, PhaseOf
<1>5. pc \in [Threads -> Pc] /\ merging \in [Threads -> Merges] /\ temp \in [Threads -> Seq(Keys)]
  BY DEF DataInv, DataTypes, ShareInv, ControlTypes
<1>6. \A u \in Threads : pc'[u] = IF u = t THEN "level" ELSE pc[u] BY <1>3, <1>5
<1>7. Merging' /\ ~Creating' /\ ~Sorting'
  BY <1>1, <1>4, <1>6 DEF Merging, Creating, Sorting
<1>8. PICK b \in Nat, s \in Nat, p \in Nat, n \in Nat : LevelPlace(t, b, s, p, n)
  BY <1>4, MergingPlace
<1>9. /\ p \in 0 .. (b \div 2) - 1
      /\ LevelKept(data', data, tmpStart, b, s, p)
      /\ Elsewhere(data', data, tmpStart + p * (2 * s), 2 * s)
  BY <1>8, CopyBackData
<1>10. LevelMerged(b, s) /\ InFile(tmpStart, b * s) /\ tmpStart \in Nat /\ p = t + n * ThreadNum
  BY <1>8 DEF LevelPlace, InFile
<1>11. \A u \in Threads : /\ merging[u].blocks = b /\ merging[u].size = s /\ merging[u].id \in Nat
                          /\ merging[t].id = p
  BY <1>8 DEF LevelPlace
<1>12. /\ \A u \in Threads \ {t} : merging'[u] = merging[u]
       /\ merging'[t] = [merging[t] EXCEPT !.id = p + ThreadNum]
  BY <1>3, <1>5, <1>11
<1>13. /\ merging'[t].blocks = b /\ merging'[t].size = s /\ merging'[t].id = p + ThreadNum
  <2>1. merging[t] \in Merges BY <1>5
  <2>2. QED BY <1>11, <1>12, <2>1 DEF Merges
<1>14. tmpStart' = tmpStart BY <1>3 DEF tmpStart
<1>15. data' \in [Records -> Keys] BY <1>9 DEF LevelKept
<1>16. TempFilled'
  <2>1. ASSUME NEW u \in Threads, u # t, pc[u] = "copy"
        PROVE  MergedPair(tmpStart, merging[u])' = MergedPair(tmpStart, merging[u])
    <3>1. PICK q \in Nat : q = merging[u].id BY <1>11
    <3>2. PICK k \in Nat : q = u + k * ThreadNum
      BY <1>4, <3>1 DEF ShareInv, LevelShared, SameLevel
    <3>3. q # p BY <1>10, <2>1, <3>2, TurnsApart
    <3>4. q \in 0 .. (b \div 2) - 1 BY <1>10, <2>1, <3>1 DEF LevelMerged
    <3>5. MergedAt(data', tmpStart, s, q) = MergedAt(data, tmpStart, s, q)
      <4>1. b \in Nat /\ s \in Nat /\ OnlyPair(data', data, tmpStart, b, s, p)
        BY <1>9, <1>10 DEF OnlyPair
      <4>2. QED BY ONLY <3>3, <3>4, <4>1, OtherPairKept
    <3>6. MergedPair(tmpStart, merging[u]) = MergedAt(data, tmpStart, s, q)
      BY <1>5, <1>10, <1>11, <3>1, PairOfRecord
    <3>7. MergedPair(tmpStart, merging[u])' = MergedAt(data', tmpStart, s, q)
      <4>1. FirstOf(tmpStart, merging[u]) = tmpStart + q * (2 * s)
        <5>1. merging[u] \in Merges BY <1>5
        <5>2. FirstOf(tmpStart, merging[u]) = tmpStart + merging[u].id * (2 * merging[u].size)
          BY <1>10, <5>1, PairOfRecord
        <5>3. QED BY <1>11, <3>1, <5>2
      <4>2. FirstOf(tmpStart, merging[u])' = FirstOf(tmpStart, merging[u])
        BY <1>12, <1>14, <2>1 DEF FirstOf
      <4>3. merging'[u].size = s BY <1>11, <1>12, <2>1
      <4>4. QED BY <4>1, <4>2, <4>3 DEF MergedPair, MergedAt
    <3>8. QED BY <3>5, <3>6, <3>7
  <2>2. ASSUME NEW u \in Threads
        PROVE  temp'[u] = IF pc'[u] = "copy" THEN MergedPair(tmpStart, merging[u])' ELSE <<>>
    <3>1. temp[u] = IF pc[u] = "copy" THEN MergedPair(tmpStart, merging[u]) ELSE <<>>
      BY DEF DataInv, DataTypes, TempFilled
    <3>2. temp'[u] = IF u = t THEN <<>> ELSE temp[u] BY <1>3, <1>5
    <3>3. QED BY <1>6, <2>1, <3>1, <3>2
  <2>3. QED BY <2>2 DEF TempFilled
<1>17. DataTypes'
  <2>1. temp' \in [Threads -> Seq(Keys)] BY <1>3, <1>5
  <2>2. QED BY <1>15, <1>16, <2>1 DEF DataTypes
<1>18. ChunkCounted' /\ LastInFile'
  BY <1>1, <1>2, <1>3, <1>4, <1>6 DEF ChunkCounted, LastInFile, Merging
<1>19. PairsMerged(b, s)'
  <2>1. ASSUME NEW u \in Threads, NEW k \in Nat, u + k * ThreadNum < merging'[u].id,
               u + k * ThreadNum < b \div 2
        PROVE  PairSorted(data', tmpStart, s, u + k * ThreadNum)
    <3> DEFINE q == u + k * ThreadNum
    <3>1. k * ThreadNum \in Nat /\ n * ThreadNum \in Nat /\ u \in Nat /\ t \in Nat BY <1>1
    <3>2. q \in 0 .. (b \div 2) - 1 /\ q \in Nat BY <2>1, <3>1
    <3>3. CASE q < merging[u].id
      <4>1. PairSorted(data, tmpStart, s, q) BY <1>10, <2>1, <3>3 DEF LevelMerged, PairsMerged
      <4>2. QED BY <1>9, <3>2, <4>1 DEF LevelKept
    <3>4. CASE ~(q < merging[u].id)
      <4>1. u = t BY <1>12, <2>1, <3>4
      <4>2. q >= p /\ q < p + ThreadNum BY <1>11, <1>13, <2>1, <3>2, <3>4, <4>1
      <4>3. ~(n < k)
        <5>1. ASSUME n < k PROVE FALSE
          <6>1. n * ThreadNum + ThreadNum <= k * ThreadNum BY <1>1, <5>1, PartsInOrder
          <6>2. QED BY <1>1, <1>10, <3>1, <4>1, <4>2, <6>1
        <5>2. QED BY <5>1
      <4>4. ~(k < n)
        <5>1. ASSUME k < n PROVE FALSE
          <6>1. k * ThreadNum + ThreadNum <= n * ThreadNum BY <1>1, <5>1, PartsInOrder
          <6>2. QED BY <1>1, <1>10, <3>1, <4>1, <4>2, <6>1
        <5>2. QED BY <5>1
      <4>5. k = n BY <4>3, <4>4
      <4>6. q = p BY <1>10, <4>1, <4>5
      <4>7. QED BY <1>9, <4>6 DEF LevelKept
    <3>5. QED BY <3>3, <3>4
  <2>2. QED BY <1>14, <2>1 DEF PairsMerged
<1>20. LevelInv'
  <2>1. LevelSorted(data', tmpStart', b, s) BY <1>9, <1>14 DEF LevelKept
  <2>2. \A u \in Threads : /\ pc'[u] = "copy" => merging'[u].id < b \div 2
                           /\ pc'[u] = "levelDone" => merging'[u].id >= b \div 2
    BY <1>6, <1>10, <1>12 DEF LevelMerged
  <2>3. LevelMerged(b, s)' BY <1>10, <1>19, <2>1, <2>2 DEF LevelMerged
  <2>4. merging'[0].blocks = b /\ merging'[0].size = s BY <1>1, <1>11, <1>12, <1>13
  <2>5. QED BY <2>3, <2>4 DEF LevelInv
<1>21. QED
  BY <1>7, <1>17, <1>18, <1>20 DEF DataInv, MarkedByThreads, FirstLevel, BlocksSorted

(* The last merges, of whole chunks, are those of a level at the start of  *)
(* the file.                                                               *)
LEMMA LastMergeData ==
  ASSUME ShareInv, DataInv, LastMerge
  PROVE  \E b \in Nat, s \in Nat, p \in Nat :
           /\ merging[0].blocks = b /\ merging[0].size = s /\ merging[0].id = p
           /\ InFile(0, b * s) /\ data \in [Records -> Keys] /\ Alone
           /\ \/ /\ b > 1 /\ p \in 0 .. (b \div 2) - 1 /\ data' = MergedInto(data, 0, s, p)
                 /\ pc' = pc /\ merging'[0].blocks = b /\ merging'[0].size = s /\ merging'[0].id = p + 1
              \/ /\ b > 1 /\ p >= b \div 2 /\ data' = data /\ pc' = pc
                 /\ merging'[0].blocks = b \div 2 /\ merging'[0].size = 2 * s /\ merging'[0].id = 0
              \/ /\ b <= 1 /\ data' = data /\ pc' = [pc EXCEPT ![0] = "exit"] /\ merging' = merging
<1> DEFINE m == merging[0]
<1>1. 0 \in Threads BY ConstantTypes
<1>2. pc[0] = "lastMerge" BY DEF LastMerge, Goto
<1>3. Alone BY <1>1, <1>2, PhaseOf
<1>4. /\ pc \in [Threads -> Pc] /\ merging \in [Threads -> Merges] /\ data \in [Records -> Keys]
      /\ LastInFile
  BY DEF ShareInv, ControlTypes, DataInv, DataTypes
<1>5. m \in Merges BY <1>1, <1>4
<1>6. PICK b \in Nat, s \in Nat, p \in Nat : m.blocks = b /\ m.size = s /\ m.id = p
  BY <1>5 DEF Merges
<1>7. InFile(0, b * s) BY <1>2, <1>4, <1>6 DEF LastInFile, InFile
<1>8. HalfOf(m) = b \div 2 BY <1>6 DEF HalfOf
<1>9. CASE /\ m.blocks > 1 /\ m.id < HalfOf(m) /\ Goto(0, "lastMerge", "lastMerge")
           /\ data' = Patch(data, FirstOf(0, m), MergedPair(0, m))
           /\ merging' = [merging EXCEPT ![0].id = m.id + 1]
  <2>1. data' = MergedInto(data, 0, s, p) BY <1>5, <1>6, <1>9, PairOfRecord
  <2>2. pc' = pc BY <1>4, <1>9 DEF Goto
  <2>3. merging'[0] = [m EXCEPT !.id = p + 1] BY <1>1, <1>4, <1>6, <1>9
  <2>4. merging'[0].blocks = b /\ merging'[0].size = s /\ merging'[0].id = p + 1
    BY <1>5, <1>6, <2>3 DEF Merges
  <2>5. p \in 0 .. (b \div 2) - 1 BY <1>6, <1>8, <1>9
  <2>6. QED BY <1>3, <1>4, <1>6, <1>7, <1>9, <2>1, <2>2, <2>4, <2>5
<1>10. CASE /\ m.blocks > 1 /\ m.id >= HalfOf(m) /\ Goto(0, "lastMerge", "lastMerge")
            /\ merging' = [merging EXCEPT ![0] = NextLevel(0, m)] /\ UNCHANGED data
  <2>1. pc' = pc BY <1>4, <1>10 DEF Goto
  <2>2. merging'[0] = [blocks |-> b \div 2, size |-> 2 * s, id |-> 0]
    BY <1>1, <1>4, <1>6, <1>8, <1>10 DEF NextLevel
  <2>3. merging'[0].blocks = b \div 2 /\ merging'[0].size = 2 * s /\ merging'[0].id = 0
    BY ONLY <2>2
  <2>4. QED BY <1>3, <1>4, <1>6, <1>7, <1>8, <1>10, <2>1, <2>3
<1>11. CASE m.blocks <= 1 /\ Goto(0, "lastMerge", "exit") /\ UNCHANGED <<data, merging>>
  BY <1>3, <1>4, <1>6, <1>7, <1>11 DEF Goto
<1>12. QED BY <1>9, <1>10, <1>11 DEF LastMerge

(* main merges pairs of chunks alone.                                      *)
LEMMA DataLast ==
  ASSUME ShareInv, DataInv, LastMerge
  PROVE  DataInv'
<1>1. 0 \in Threads /\ Total \in Nat BY ConstantTypes
<1>2. PICK b \in Nat, s \in Nat, p \in Nat :
           /\ merging[0].blocks = b /\ merging[0].size = s /\ merging[0].id = p
           /\ InFile(0, b * s) /\ data \in [Records -> Keys] /\ Alone
           /\ \/ /\ b > 1 /\ p \in 0 .. (b \div 2) - 1 /\ data' = MergedInto(data, 0, s, p)
                 /\ pc' = pc /\ merging'[0].blocks = b /\ merging'[0].size = s /\ merging'[0].id = p + 1
              \/ /\ b > 1 /\ p >= b \div 2 /\ data' = data /\ pc' = pc
                 /\ merging'[0].blocks = b \div 2 /\ merging'[0].size = 2 * s /\ merging'[0].id = 0
              \/ /\ b <= 1 /\ data' = data /\ pc' = [pc EXCEPT ![0] = "exit"] /\ merging' = merging
  BY LastMergeData
<1>3. pc \in [Threads -> Pc] /\ DataTypes /\ ChunkCounted /\ temp' = temp /\ chunk' = chunk
      /\ pc[0] = "lastMerge"
  BY DEF ShareInv, ControlTypes, DataInv, LastMerge, Goto
<1>4. pc'[0] \in {"lastMerge", "exit"} /\ \A u \in Threads \ {0} : pc'[u] = pc[u]
  BY <1>1, <1>2, <1>3
<1>5. \A u \in Threads : pc[u] # "copy" /\ pc'[u] # "copy" BY <1>2, <1>3, <1>4 DEF Alone
<1>6. data' \in [Records -> Keys]
  <2>1. ASSUME p \in 0 .. (b \div 2) - 1 PROVE MergedInto(data, 0, s, p) \in [Records -> Keys]
    BY <1>2, <2>1, MergedKeepsElsewhere
  <2>2. QED BY <1>2, <2>1
<1>7. DataTypes' BY <1>3, <1>5, <1>6, TempEmpty
<1>8. ChunkCounted' BY <1>3, <1>4 DEF ChunkCounted
<1>9. ~Creating' /\ ~Sorting' /\ ~Merging' BY <1>1, <1>4 DEF Creating, Sorting, Merging
<1>10. LastInFile'
  <2>1. b * s <= Total /\ b * s \in Nat BY <1>2 DEF InFile
  <2>2. (b \div 2) * (2 * s) \in Nat /\ (b \div 2) * (2 * s) <= b * s BY HalfLevel
  <2>3. QED BY <1>1, <1>2, <2>1, <2>2 DEF LastInFile
<1>11. QED
  BY <1>7, <1>8, <1>9, <1>10 DEF DataInv, MarkedByThreads, FirstLevel, BlocksSorted, LevelInv

(* All steps.                                                              *)
LEMMA DataStep == ShareInv /\ DataInv /\ [Next]_vars => DataInv'
<1> SUFFICES ASSUME ShareInv, DataInv, [Next]_vars PROVE DataInv' OBVIOUS
<1>1. CASE \E t \in Threads : ThreadStep(t)
  BY <1>1, DataSort, DataMergeToTemp, DataCopy, DataFinish DEF ThreadStep
<1>2. CASE BarrierOpens BY <1>2, DataBarrier
<1>3. CASE MainStep BY <1>3, DataCreate, DataJoin, DataLast DEF MainStep
<1>4. CASE Exited \/ UNCHANGED vars
  <2>1. UNCHANGED vars BY <1>4 DEF Exited
  <2>2. /\ data' = data /\ chunk' = chunk /\ blockMap' = blockMap /\ pc' = pc
        /\ block' = block /\ merging' = merging /\ temp' = temp
    BY <2>1 DEF vars
  <2>3. tmpStart' = tmpStart BY <2>2 DEF tmpStart
  <2>4. DataTypes' BY <2>2, <2>3 DEF DataInv, DataTypes, TempFilled, MergedPair, FirstOf
  <2>5. ChunkCounted' /\ MarkedByThreads' /\ FirstLevel' /\ LastInFile'
    BY <2>2 DEF DataInv, ChunkCounted, MarkedByThreads, FirstLevel, LastInFile, Creating, Sorting
  <2>6. BlocksSorted' BY <2>2, <2>3 DEF DataInv, BlocksSorted, Sorting
  <2>7. LevelInv' BY <2>2, <2>3 DEF DataInv, LevelInv, LevelMerged, PairsMerged, Merging
  <2>8. QED BY <2>4, <2>5, <2>6, <2>7 DEF DataInv
<1>5. QED BY <1>1, <1>2, <1>3, <1>4 DEF Next

(* What the invariant says of the runs' properties.                        *)
LEMMA DataTyped == ShareInv /\ DataInv => TypeOK
<1> SUFFICES ASSUME ShareInv, DataInv PROVE TypeOK OBVIOUS
<1>1. /\ data \in [Records -> Keys] /\ chunk \in 0 .. ChunkNum /\ blockMap \in [Blocks -> {0, 1}]
      /\ pc \in [Threads -> Pc] /\ block \in [Threads -> Blocks]
      /\ merging \in [Threads -> Merges] /\ temp \in [Threads -> Seq(Keys)] /\ TempFilled
  BY DEF ShareInv, DataInv, ControlTypes, DataTypes, ChunkCounted
<1>2. ASSUME NEW t \in Threads
      PROVE  Len(temp[t]) = IF pc[t] = "copy" THEN 2 * merging[t].size ELSE 0
  <2>1. CASE pc[t] # "copy"
    <3>1. temp[t] = <<>> BY <1>1, <2>1 DEF TempFilled
    <3>2. QED BY <2>1, <3>1
  <2>2. CASE pc[t] = "copy"
    <3>1. Merging BY <2>2, PhaseOf
    <3>2. PICK b \in Nat, s \in Nat, p \in Nat, n \in Nat : LevelPlace(t, b, s, p, n)
      BY <3>1, MergingPlace
    <3>3. /\ merging[t].size = s /\ merging[t].id = p /\ InFile(tmpStart, b * s) /\ tmpStart \in Nat
          /\ p \in 0 .. (b \div 2) - 1
      BY <2>2, <3>2 DEF LevelPlace, LevelMerged, InFile
    <3>4. MergedAt(data, tmpStart, s, p) \in [1 .. 2 * s -> Keys] BY <1>1, <3>3, MergedLengths
    <3>5. temp[t] = MergedAt(data, tmpStart, s, p)
      <4>1. temp[t] = MergedPair(tmpStart, merging[t]) BY <1>1, <2>2 DEF TempFilled
      <4>2. merging[t] \in Merges BY <1>1
      <4>3. MergedPair(tmpStart, merging[t]) = MergedAt(data, tmpStart, merging[t].size, merging[t].id)
        BY <3>3, <4>2, PairOfRecord
      <4>4. QED BY <3>3, <4>1, <4>3
    <3>6. Len(temp[t]) = 2 * s
      <4>1. temp[t] \in [1 .. 2 * s -> Keys] /\ 2 * s \in Nat BY <3>4, <3>5
      <4>2. QED BY <4>1, LenProperties
    <3>7. QED BY <2>2, <3>3, <3>6
  <2>3. QED BY <2>1, <2>2
<1>3. QED BY <1>1, <1>2 DEF TypeOK, Merges

LEMMA DataSorted == ShareInv /\ DataInv => HalvesSorted
<1> SUFFICES ASSUME ShareInv, DataInv, NEW t \in Threads,
                    pc[t] = "level", merging[t].id < HalfOf(merging[t])
             PROVE  /\ Ascending(Slice(data, FirstOf(tmpStart, merging[t]), merging[t].size))
                    /\ Ascending(Slice(data, FirstOf(tmpStart, merging[t]) + merging[t].size,
                                       merging[t].size))
  BY DEF HalvesSorted
<1>1. data \in [Records -> Keys] /\ Merging BY PhaseOf DEF DataInv, DataTypes
<1>2. PICK b \in Nat, s \in Nat, p \in Nat, n \in Nat : LevelPlace(t, b, s, p, n)
  BY <1>1, MergingPlace
<1>3. /\ merging[t].size = s /\ FirstOf(tmpStart, merging[t]) = tmpStart + p * (2 * s)
      /\ InFile(tmpStart, b * s) /\ p \in 0 .. (b \div 2) - 1 /\ LevelSorted(data, tmpStart, b, s)
  BY <1>2 DEF LevelPlace, LevelMerged
<1>4. /\ Ascending(Slice(data, tmpStart + p * (2 * s), s))
      /\ Ascending(Slice(data, tmpStart + p * (2 * s) + s, s))
  BY <1>1, <1>3, HalvesAscend
<1>5. QED BY <1>3, <1>4

(* The program counters, the blocks, the levels and the records keep their *)
(* types, and temp holds records of one pair (Lab6/main.c: sort_thread's   *)
(* locals and the globals of main).                                        *)
THEOREM SortTypes == Spec => []TypeOK
<1>1. Init => ShareInv /\ DataInv BY ShareInit, DataInit
<1>2. ShareInv /\ DataInv /\ [Next]_vars => (ShareInv /\ DataInv)' BY ShareStep, DataStep
<1>3. ShareInv /\ DataInv => TypeOK BY DataTyped
<1>4. QED BY <1>1, <1>2, <1>3, PTL DEF Spec

(* Every call of merge in sort_thread gets two halves that are sorted      *)
(* (Lab6/main.c:150), for any number of threads, blocks and chunks, powers *)
(* of two or not: no thread reaches a level before all have finished the   *)
(* one below.                                                              *)
THEOREM HalvesAreSorted == Spec => []HalvesSorted
<1>1. Init => ShareInv /\ DataInv BY ShareInit, DataInit
<1>2. ShareInv /\ DataInv /\ [Next]_vars => (ShareInv /\ DataInv)' BY ShareStep, DataStep
<1>3. ShareInv /\ DataInv => HalvesSorted BY DataSorted
<1>4. QED BY <1>1, <1>2, <1>3, PTL DEF Spec

-----------------------------------------------------------------------------
(* The whole file, sorted.                                                 *)
(* n can be halved down to 1.                                              *)
PowerOfTwo(n) ==
  \E S \in SUBSET (1 .. n) : n \in S /\ \A m \in S : m = 1 \/ (m % 2 = 0 /\ m \div 2 \in S)

(* A power of two, if greater than one, is even and its half is a power of *)
(* two.                                                                    *)
LEMMA HalfPower ==
  ASSUME NEW n \in Nat, PowerOfTwo(n)
  PROVE  n >= 1 /\ (n > 1 => n % 2 = 0 /\ PowerOfTwo(n \div 2))
<1>1. PICK S \in SUBSET (1 .. n) : n \in S /\ \A m \in S : m = 1 \/ (m % 2 = 0 /\ m \div 2 \in S)
  BY DEF PowerOfTwo
<1>2. n >= 1 BY <1>1
<1>3. ASSUME n > 1 PROVE n % 2 = 0 /\ PowerOfTwo(n \div 2)
  <2>1. n % 2 = 0 /\ n \div 2 \in S BY <1>1, <1>3
  <2> DEFINE T == S \cap (1 .. (n \div 2))
  <2>2. T \in SUBSET (1 .. (n \div 2)) /\ n \div 2 \in T
    <3>1. n \div 2 \in 1 .. (n \div 2) BY <1>3
    <3>2. QED BY <2>1, <3>1
  <2>3. ASSUME NEW m \in T, m # 1 PROVE m % 2 = 0 /\ m \div 2 \in T
    <3>1. m % 2 = 0 /\ m \div 2 \in S BY <1>1, <2>3
    <3>2. m \in 1 .. (n \div 2) /\ n \div 2 \in Nat OBVIOUS
    <3>3. m \div 2 <= n \div 2 /\ 1 <= m \div 2 BY <2>3, <3>2
    <3>4. m \div 2 \in 1 .. (n \div 2) BY <3>2, <3>3
    <3>5. QED BY <3>1, <3>4
  <2>4. QED BY <2>1, <2>2, <2>3 DEF PowerOfTwo
<1>4. QED BY <1>2, <1>3

(* With powers of two nothing is left over when a level is halved.         *)
PowersOfTwo == PowerOfTwo(BlockNum) /\ PowerOfTwo(ChunkNum)

(* The chunks that main has passed are sorted.                             *)
ChunksSorted == pc[0] \notin {"lastMerge", "exit"} =>
  \A c \in 0 .. chunk - 1 : InOrder(data, c * memsize, memsize)

(* The parts of a level fill the chunk.                                    *)
FillsChunk(b, s) == b * s = memsize /\ PowerOfTwo(b)
LevelFull == Merging => FillsChunk(merging[0].blocks, merging[0].size)

ChunkDone == Joining => InOrder(data, tmpStart, memsize)

(* The last merges: all parts are sorted, and main has merged the pairs    *)
(* that it has passed.                                                     *)
LastLevel(b, s) ==
  /\ b * s = Total /\ PowerOfTwo(b) /\ LevelSorted(data, 0, b, s)
  /\ \A q \in 0 .. (b \div 2) - 1 : q < merging[0].id => PairSorted(data, 0, s, q)
LastSorted == pc[0] = "lastMerge" => LastLevel(merging[0].blocks, merging[0].size)

AllSorted == pc[0] = "exit" => InOrder(data, 0, Total)

PowerInv == ChunksSorted /\ LevelFull /\ ChunkDone /\ LastSorted /\ AllSorted

(* A level of one part is in order.                                        *)
LEMMA LevelOfOne ==
  ASSUME NEW d, NEW base \in Nat, NEW s \in Nat, LevelSorted(d, base, 1, s)
  PROVE  InOrder(d, base, s)
<1>1. InOrder(d, base + 0 * s, s) BY DEF LevelSorted
<1>2. base + 0 * s = base OBVIOUS
<1>3. QED BY <1>1, <1>2

(* The invariant holds when main starts.                                   *)
LEMMA PowerInit == Init => PowerInv
<1> SUFFICES ASSUME Init PROVE PowerInv OBVIOUS
<1>1. \A t \in Threads : pc[t] \in {"none", "create"} BY DEF Init
<1>2. 0 \in Threads BY ConstantTypes
<1>3. ~Merging /\ ~Joining /\ pc[0] \notin {"lastMerge", "exit"}
  BY <1>1, <1>2 DEF Merging, Joining
<1>4. ChunksSorted BY DEF Init, ChunksSorted
<1>5. QED BY <1>3, <1>4 DEF PowerInv, LevelFull, ChunkDone, LastSorted, AllSorted

(* What changes in the present chunk leaves the ones before it.            *)
LEMMA ChunksKept ==
  ASSUME ShareInv, DataInv, ChunksSorted, Sorting \/ Merging, NEW from \in Nat, NEW len \in Nat,
         tmpStart <= from, Elsewhere(data', data, from, len), chunk' = chunk
  PROVE  ChunksSorted'
<1>1. 0 \in Threads /\ memsize \in Nat /\ ChunkNum \in Nat /\ Total \in Nat BY ConstantTypes
<1>2. chunk \in Nat /\ ChunkCounted /\ tmpStart \in Nat
  BY StartOfFile DEF ShareInv, ControlTypes, DataInv
<1>3. pc[0] \notin {"lastMerge", "exit"} BY <1>1 DEF Sorting, Merging
<1>4. chunk < ChunkNum BY <1>2, <1>3, <1>1 DEF ChunkCounted
<1>5. ASSUME NEW c \in 0 .. chunk - 1 PROVE InOrder(data', c * memsize, memsize)
  <2>1. c * memsize \in Nat /\ c * memsize + memsize <= chunk * memsize
    BY <1>1, <1>2, PartsInOrder
  <2>2. chunk * memsize \in Nat /\ chunk * memsize + memsize <= ChunkNum * memsize
    BY <1>1, <1>2, <1>4, PartsInOrder
  <2>3. InFile(c * memsize, memsize) BY <1>1, <2>1, <2>2 DEF InFile, Total
  <2>4. Apart(from, len, c * memsize, memsize) BY <1>1, <1>2, <2>1, <2>2 DEF Apart, tmpStart
  <2>5. InOrder(data, c * memsize, memsize) BY <1>3 DEF ChunksSorted
  <2>6. QED BY <2>3, <2>4, <2>5 DEF Elsewhere
<1>6. QED BY <1>5 DEF ChunksSorted

(* The steps of a thread stay inside the chunk and keep the ones before    *)
(* it.                                                                     *)
LEMMA PowerThread ==
  ASSUME ShareInv, DataInv, PowerInv, NEW t \in Threads, ThreadStep(t)
  PROVE  PowerInv'
<1>1. 0 \in Threads BY ConstantTypes
<1>2. ChunksSorted /\ LevelFull /\ pc \in [Threads -> Pc] /\ merging \in [Threads -> Merges]
  BY DEF PowerInv, ShareInv, ControlTypes
<1>3. CASE SortBlock(t) \/ ClaimBlock(t) \/ NoFreeBlock(t)
  <2>1. /\ pc[t] \in {"own", "sort", "claim"}
        /\ pc' = [pc EXCEPT ![t] = pc'[t]] /\ pc'[t] \in {"claim", "sort", "sorted"}
        /\ chunk' = chunk
    BY <1>2, <1>3 DEF SortBlock, ClaimBlock, NoFreeBlock, Goto
  <2>2. Sorting BY <2>1, PhaseOf
  <2>3. \A u \in Threads : pc'[u] \in {"own", "claim", "sort", "sorted"}
    BY <1>2, <2>1, <2>2 DEF Sorting
  <2>4. ~Merging' /\ ~Joining' /\ pc'[0] \notin {"lastMerge", "exit"}
    BY <1>1, <2>3 DEF Merging, Joining
  <2>5. ChunksSorted'
    <3>1. CASE SortBlock(t)
      <4>1. /\ Elsewhere(data', data, tmpStart + block[t] * BlockLen, BlockLen)
            /\ InFile(tmpStart, BlockNum * BlockLen) /\ block[t] \in 0 .. BlockNum - 1
        BY <3>1, SortBlockData
      <4>2. tmpStart + block[t] * BlockLen \in Nat /\ tmpStart <= tmpStart + block[t] * BlockLen
        BY <4>1, PartInFile, ConstantTypes
      <4>3. BlockLen \in Nat BY ConstantTypes
      <4>4. QED BY <1>2, <2>1, <2>2, <4>1, <4>2, <4>3, ChunksKept
    <3>2. CASE ClaimBlock(t) \/ NoFreeBlock(t)
      <4>1. data' = data BY <3>2 DEF ClaimBlock, NoFreeBlock
      <4>2. pc[0] \notin {"lastMerge", "exit"} BY <1>1, <2>2 DEF Sorting
      <4>3. QED BY <1>2, <2>1, <4>1, <4>2 DEF ChunksSorted
    <3>3. QED BY <1>3, <3>1, <3>2
  <2>6. QED BY <2>4, <2>5 DEF PowerInv, LevelFull, ChunkDone, LastSorted, AllSorted
<1>4. CASE MergeToTemp(t) \/ CopyBack(t) \/ FinishLevel(t)
  <2>1. /\ pc[t] \in {"level", "copy"} /\ chunk' = chunk
        /\ pc' = [pc EXCEPT ![t] = pc'[t]] /\ pc'[t] \in {"level", "copy", "levelDone", "end"}
    BY <1>2, <1>4 DEF MergeToTemp, CopyBack, FinishLevel, Goto
  <2>2. Merging BY <2>1, PhaseOf
  <2>3. \A u \in Threads : pc'[u] \in {"level", "copy", "levelDone", "end"}
    BY <1>2, <2>1, <2>2 DEF Merging
  <2>4. ~Joining' /\ pc'[0] \notin {"lastMerge", "exit"} BY <1>1, <2>3 DEF Joining
  <2>5. ChunksSorted'
    <3>1. CASE CopyBack(t)
      <4>1. PICK b \in Nat, s \in Nat, p \in Nat, n \in Nat : LevelPlace(t, b, s, p, n)
        BY <2>2, MergingPlace
      <4>2. p \in 0 .. (b \div 2) - 1 /\ Elsewhere(data', data, tmpStart + p * (2 * s), 2 * s)
        BY <3>1, <4>1, CopyBackData
      <4>3. InFile(tmpStart, b * s) BY <4>1 DEF LevelPlace
      <4>4. tmpStart + p * (2 * s) \in Nat /\ tmpStart <= tmpStart + p * (2 * s) /\ 2 * s \in Nat
        <5>1. tmpStart \in Nat /\ p * (2 * s) \in Nat BY <4>3 DEF InFile
        <5>2. QED BY <5>1
      <4>5. QED BY <1>2, <2>1, <2>2, <4>2, <4>4, ChunksKept
    <3>2. CASE MergeToTemp(t) \/ FinishLevel(t)
      <4>1. data' = data BY <3>2 DEF MergeToTemp, FinishLevel
      <4>2. pc[0] \notin {"lastMerge", "exit"} BY <1>1, <2>2 DEF Merging
      <4>3. QED BY <1>2, <2>1, <4>1, <4>2 DEF ChunksSorted
    <3>3. QED BY <1>4, <3>1, <3>2
  <2>6. merging'[0].blocks = merging[0].blocks /\ merging'[0].size = merging[0].size
    <3>1. CASE merging' = merging BY <3>1
    <3>2. CASE merging' = [merging EXCEPT ![t].id = merging[t].id + ThreadNum]
      BY <1>1, <1>2, <3>2 DEF Merges
    <3>3. QED BY <1>4, <3>1, <3>2 DEF MergeToTemp, CopyBack, FinishLevel
  <2>7. LevelFull' BY <1>2, <2>2, <2>6 DEF LevelFull
  <2>8. QED BY <2>4, <2>5, <2>7 DEF PowerInv, ChunkDone, LastSorted, AllSorted
<1>5. QED BY <1>3, <1>4 DEF ThreadStep

(* When the last level is done, the chunk is sorted.                       *)
LEMMA PowerBarrier ==
  ASSUME ShareInv, DataInv, PowerInv, PowersOfTwo, BarrierOpens
  PROVE  PowerInv'
<1>1. 0 \in Threads /\ BlockNum \in Nat /\ BlockLen \in Nat /\ memsize = BlockNum * BlockLen
  BY ConstantTypes DEF memsize
<1>2. /\ ChunksSorted /\ LevelFull /\ LevelInv /\ FirstLevel /\ LevelEnds
      /\ merging \in [Threads -> Merges] /\ tmpStart \in Nat
  BY StartOfFile DEF PowerInv, ShareInv, DataInv, ControlTypes
<1>3. /\ \A t \in Threads : pc[t] \in AtBarrier
      /\ \A t \in Threads : pc'[t] = After[pc[t]]
      /\ merging' = [t \in Threads |-> IF pc[t] = "levelDone"
                                       THEN NextLevel(t, merging[t]) ELSE merging[t]]
      /\ UNCHANGED <<data, chunk>>
  BY DEF BarrierOpens
<1>4. pc[0] \notin {"lastMerge", "exit"} /\ pc'[0] \in {"own", "level", "done"}
  BY <1>1, <1>3 DEF AtBarrier, After
<1>5. ChunksSorted' BY <1>2, <1>3, <1>4 DEF ChunksSorted
<1>6. LastSorted' /\ AllSorted' BY <1>4 DEF LastSorted, AllSorted
<1>7. CASE \A t \in Threads : pc[t] = "start"
  <2>1. pc'[0] = "own" BY <1>1, <1>3, <1>7 DEF After
  <2>2. ~Merging' /\ ~Joining' BY <1>1, <2>1 DEF Merging, Joining
  <2>3. QED BY <1>5, <1>6, <2>2 DEF PowerInv, LevelFull, ChunkDone
<1>8. CASE \A t \in Threads : pc[t] = "sorted"
  <2>1. pc'[0] = "level" BY <1>1, <1>3, <1>8 DEF After
  <2>2. Sorting /\ ~Joining' BY <1>1, <1>8, <2>1 DEF Sorting, Joining
  <2>3. LevelStarts(merging, BlockNum, BlockLen) BY <1>2, <2>2 DEF FirstLevel
  <2>4. merging[0].blocks = BlockNum /\ merging[0].size = BlockLen
    BY ONLY <1>1, <2>3, LevelFields
  <2>5. merging'[0] = merging[0] BY <1>1, <1>3, <1>8
  <2>6. LevelFull' BY <1>1, <2>4, <2>5 DEF LevelFull, FillsChunk, PowersOfTwo
  <2>7. QED BY <1>5, <1>6, <2>2, <2>6 DEF PowerInv, ChunkDone
<1>9. CASE \A t \in Threads : pc[t] = "levelDone"
  <2>1. pc'[0] = "level" BY <1>1, <1>3, <1>9 DEF After
  <2>2. Merging /\ ~Joining' BY <1>1, <1>9, <2>1 DEF Merging, Joining
  <2>3. PICK b \in Nat, s \in Nat : b = merging[0].blocks /\ s = merging[0].size
    BY <1>1, <1>2 DEF Merges
  <2>4. b > 1 /\ FillsChunk(b, s) BY <1>1, <1>2, <1>9, <2>2, <2>3 DEF LevelEnds, LevelFull
  <2>5. merging'[0] = [blocks |-> b \div 2, size |-> 2 * s, id |-> 0]
    BY <1>1, <1>3, <1>9, <2>3 DEF NextLevel, HalfOf
  <2>6. merging'[0].blocks = b \div 2 /\ merging'[0].size = 2 * s BY ONLY <2>5
  <2>7. FillsChunk(b \div 2, 2 * s)
    <3>1. b % 2 = 0 /\ PowerOfTwo(b \div 2) BY <2>4, HalfPower DEF FillsChunk
    <3>2. (b \div 2) * (2 * s) = b * s BY <3>1, HalfLevel
    <3>3. QED BY <2>4, <3>1, <3>2 DEF FillsChunk
  <2>8. LevelFull' BY <2>6, <2>7 DEF LevelFull
  <2>9. QED BY <1>5, <1>6, <2>2, <2>8 DEF PowerInv, ChunkDone
<1>10. CASE \A t \in Threads : pc[t] = "end"
  <2>1. pc'[0] = "done" BY <1>1, <1>3, <1>10 DEF After
  <2>2. Merging /\ ~Merging' BY <1>1, <1>10, <2>1 DEF Merging
  <2>3. PICK b \in Nat, s \in Nat : b = merging[0].blocks /\ s = merging[0].size
    BY <1>1, <1>2 DEF Merges
  <2>4. FillsChunk(b, s) /\ LevelSorted(data, tmpStart, b, s) /\ b <= 1
    BY <1>1, <1>2, <1>10, <2>2, <2>3 DEF LevelEnds, LevelFull, LevelInv, LevelMerged
  <2>5. b = 1 BY <2>4, HalfPower DEF FillsChunk
  <2>6. s = memsize BY <2>4, <2>5 DEF FillsChunk
  <2>7. InOrder(data, tmpStart, memsize) BY <1>2, <2>4, <2>5, <2>6, LevelOfOne
  <2>8. tmpStart' = tmpStart /\ data' = data BY <1>3 DEF tmpStart
  <2>9. ChunkDone' BY <2>7, <2>8 DEF ChunkDone
  <2>10. QED BY <1>5, <1>6, <2>2, <2>9 DEF PowerInv, LevelFull
<1>11. QED BY <1>7, <1>8, <1>9, <1>10, BarrierOfPhase

LEMMA PowerCreate ==
  ASSUME ShareInv, PowerInv, MainSorts \/ \E t \in Threads : CreateThread(t)
  PROVE  PowerInv'
<1>1. 0 \in Threads BY ConstantTypes
<1>2. PICK t \in Threads :
        /\ pc[0] = "create" /\ pc' = [pc EXCEPT ![t] = "start"] /\ UNCHANGED <<data, chunk>>
  BY <1>1 DEF MainSorts, CreateThread, Goto
<1>3. Creating /\ pc \in [Threads -> Pc] BY <1>1, <1>2, PhaseOf DEF ShareInv, ControlTypes
<1>4. pc'[0] \in {"create", "start"} BY <1>1, <1>2, <1>3
<1>5. ~Merging' /\ ~Joining' BY <1>1, <1>4 DEF Merging, Joining
<1>6. ChunksSorted' BY <1>2, <1>4 DEF PowerInv, ChunksSorted
<1>7. QED BY <1>4, <1>5, <1>6 DEF PowerInv, LevelFull, ChunkDone, LastSorted, AllSorted

(* A chunk that is sorted joins those before it.                           *)
LEMMA PowerJoin ==
  ASSUME ShareInv, DataInv, PowerInv, PowersOfTwo, JoinThreads
  PROVE  PowerInv'
<1>1. 0 \in Threads /\ ChunkNum \in Nat /\ memsize \in Nat /\ 1 <= ChunkNum BY ConstantTypes
<1>2. /\ \A t \in Threads : pc[t] = "done"
      /\ chunk' = chunk + 1 /\ data' = data
  BY DEF JoinThreads
<1>3. Joining /\ pc[0] = "done" BY <1>1, <1>2 DEF Joining
<1>4. chunk \in Nat /\ pc \in [Threads -> Pc] /\ merging \in [Threads -> Merges]
  BY DEF ShareInv, ControlTypes
<1>5. \A c \in 0 .. chunk : InOrder(data', c * memsize, memsize)
  <2>1. InOrder(data, chunk * memsize, memsize) BY <1>3 DEF PowerInv, ChunkDone, tmpStart
  <2>2. \A c \in 0 .. chunk - 1 : InOrder(data, c * memsize, memsize)
    BY <1>3 DEF PowerInv, ChunksSorted
  <2>3. \A c \in 0 .. chunk : c = chunk \/ c \in 0 .. chunk - 1 BY <1>4
  <2>4. QED BY <1>2, <2>1, <2>2, <2>3
<1>6. ChunksSorted'
  <2>1. chunk' - 1 = chunk BY <1>2, <1>4
  <2>2. QED BY <1>5, <2>1 DEF ChunksSorted
<1>7. CASE pc' = [t \in Threads |-> IF t = 0 THEN "create" ELSE "none"]
  <2>1. pc'[0] = "create" BY <1>1, <1>7
  <2>2. ~Merging' /\ ~Joining' BY <1>1, <2>1 DEF Merging, Joining
  <2>3. QED BY <1>6, <2>1, <2>2 DEF PowerInv, LevelFull, ChunkDone, LastSorted, AllSorted
<1>8. CASE /\ chunk + 1 = ChunkNum
           /\ pc' = [pc EXCEPT ![0] = IF ChunkNum > 1 THEN "lastMerge" ELSE "exit"]
           /\ merging' = [merging EXCEPT ![0] = [blocks |-> ChunkNum, size |-> memsize, id |-> 0]]
  <2>1. pc'[0] = IF ChunkNum > 1 THEN "lastMerge" ELSE "exit" BY <1>1, <1>4, <1>8
  <2>2. ~Merging' /\ ~Joining' BY <1>1, <2>1 DEF Merging, Joining
  <2>3. LevelSorted(data', 0, ChunkNum, memsize)
    <3>1. ASSUME NEW c \in 0 .. ChunkNum - 1 PROVE InOrder(data', 0 + c * memsize, memsize)
      <4>1. c \in 0 .. chunk BY <1>4, <1>8
      <4>2. 0 + c * memsize = c * memsize BY <1>1
      <4>3. QED BY <1>5, <4>1, <4>2
    <3>2. QED BY <3>1 DEF LevelSorted
  <2>4. merging'[0] = [blocks |-> ChunkNum, size |-> memsize, id |-> 0] BY <1>1, <1>4, <1>8
  <2>5. merging'[0].blocks = ChunkNum /\ merging'[0].size = memsize /\ merging'[0].id = 0
    BY ONLY <2>4
  <2>6. LastLevel(ChunkNum, memsize)' BY <2>3, <2>5 DEF LastLevel, PowersOfTwo, Total
  <2>7. LastSorted' BY <2>5, <2>6 DEF LastSorted
  <2>8. AllSorted'
    <3>1. CASE ChunkNum > 1 BY <2>1, <3>1 DEF AllSorted
    <3>2. CASE ChunkNum = 1
      <4>1. InOrder(data', 0, memsize) BY <1>1, <2>3, <3>2, LevelOfOne
      <4>2. Total = memsize BY <1>1, <3>2 DEF Total
      <4>3. QED BY <4>1, <4>2 DEF AllSorted
    <3>3. QED BY <1>1, <3>1, <3>2
  <2>9. QED BY <1>6, <2>2, <2>7, <2>8 DEF PowerInv, LevelFull, ChunkDone
<1>9. QED BY <1>7, <1>8 DEF JoinThreads

(* The last merges sort the whole file.                                    *)
LEMMA PowerLast ==
  ASSUME ShareInv, DataInv, PowerInv, LastMerge
  PROVE  PowerInv'
<1>1. 0 \in Threads BY ConstantTypes
<1>2. PICK b \in Nat, s \in Nat, p \in Nat :
           /\ merging[0].blocks = b /\ merging[0].size = s /\ merging[0].id = p
           /\ InFile(0, b * s) /\ data \in [Records -> Keys] /\ Alone
           /\ \/ /\ b > 1 /\ p \in 0 .. (b \div 2) - 1 /\ data' = MergedInto(data, 0, s, p)
                 /\ pc' = pc /\ merging'[0].blocks = b /\ merging'[0].size = s /\ merging'[0].id = p + 1
              \/ /\ b > 1 /\ p >= b \div 2 /\ data' = data /\ pc' = pc
                 /\ merging'[0].blocks = b \div 2 /\ merging'[0].size = 2 * s /\ merging'[0].id = 0
              \/ /\ b <= 1 /\ data' = data /\ pc' = [pc EXCEPT ![0] = "exit"] /\ merging' = merging
  BY LastMergeData
<1>3. pc[0] = "lastMerge" /\ pc \in [Threads -> Pc] BY DEF LastMerge, Goto, ShareInv, ControlTypes
<1>4. LastLevel(b, s) BY <1>2, <1>3 DEF PowerInv, LastSorted
<1>5. pc'[0] \in {"lastMerge", "exit"} BY <1>1, <1>2, <1>3
<1>6. ~Merging' /\ ~Joining' /\ ChunksSorted' BY <1>1, <1>5 DEF Merging, Joining, ChunksSorted
<1>7. LastSorted' /\ AllSorted'
  <2>1. CASE /\ b > 1 /\ p \in 0 .. (b \div 2) - 1 /\ data' = MergedInto(data, 0, s, p)
             /\ pc' = pc /\ merging'[0].blocks = b /\ merging'[0].size = s /\ merging'[0].id = p + 1
    <3>1. LevelKept(data', data, 0, b, s, p) BY <1>2, <1>4, <2>1, MergeStep DEF LastLevel
    <3>2. ASSUME NEW q \in 0 .. (b \div 2) - 1, q < merging'[0].id PROVE PairSorted(data', 0, s, q)
      <4>1. CASE q = p BY <3>1, <4>1 DEF LevelKept
      <4>2. CASE q # p
        <5>1. q < p BY <2>1, <3>2, <4>2
        <5>2. PairSorted(data, 0, s, q) BY <1>2, <1>4, <5>1 DEF LastLevel
        <5>3. QED BY <3>1, <5>2 DEF LevelKept
      <4>3. QED BY <4>1, <4>2
    <3>3. LastLevel(b, s)' BY <1>4, <3>1, <3>2 DEF LastLevel, LevelKept
    <3>4. QED BY <1>3, <2>1, <3>3 DEF LastSorted, AllSorted
  <2>2. CASE /\ b > 1 /\ p >= b \div 2 /\ data' = data /\ pc' = pc
             /\ merging'[0].blocks = b \div 2 /\ merging'[0].size = 2 * s /\ merging'[0].id = 0
    <3>1. b % 2 = 0 /\ PowerOfTwo(b \div 2) BY <1>4, <2>2, HalfPower DEF LastLevel
    <3>2. (b \div 2) * (2 * s) = Total BY <1>4, <3>1, HalfLevel DEF LastLevel
    <3>3. \A q \in 0 .. (b \div 2) - 1 : PairSorted(data, 0, s, q) BY <1>2, <1>4, <2>2 DEF LastLevel
    <3>4. LevelSorted(data', 0, b \div 2, 2 * s) BY <2>2, <3>3, LevelDoubles
    <3>5. LastLevel(b \div 2, 2 * s)' BY <2>2, <3>1, <3>2, <3>4 DEF LastLevel
    <3>6. QED BY <1>3, <2>2, <3>5 DEF LastSorted, AllSorted
  <2>3. CASE b <= 1 /\ data' = data /\ pc' = [pc EXCEPT ![0] = "exit"] /\ merging' = merging
    <3>1. b = 1 BY <1>4, <2>3, HalfPower DEF LastLevel
    <3>2. s = Total BY <1>4, <3>1 DEF LastLevel
    <3>3. InOrder(data, 0, Total) BY <1>4, <3>1, <3>2, LevelOfOne DEF LastLevel
    <3>4. pc'[0] = "exit" BY <1>1, <1>3, <2>3
    <3>5. QED BY <2>3, <3>3, <3>4 DEF LastSorted, AllSorted
  <2>4. QED BY <1>2, <2>1, <2>2, <2>3
<1>8. QED BY <1>6, <1>7 DEF PowerInv, LevelFull, ChunkDone

(* All steps.                                                              *)
LEMMA PowerStep == PowersOfTwo /\ ShareInv /\ DataInv /\ PowerInv /\ [Next]_vars => PowerInv'
<1> SUFFICES ASSUME PowersOfTwo, ShareInv, DataInv, PowerInv, [Next]_vars PROVE PowerInv' OBVIOUS
<1>1. CASE \E t \in Threads : ThreadStep(t) BY <1>1, PowerThread
<1>2. CASE BarrierOpens BY <1>2, PowerBarrier
<1>3. CASE MainStep BY <1>3, PowerCreate, PowerJoin, PowerLast DEF MainStep
<1>4. CASE Exited \/ UNCHANGED vars
  <2>1. data' = data /\ chunk' = chunk /\ pc' = pc /\ merging' = merging
    BY <1>4 DEF Exited, vars
  <2>2. tmpStart' = tmpStart BY <2>1 DEF tmpStart
  <2>3. QED
    BY <2>1, <2>2
    DEF PowerInv, ChunksSorted, LevelFull, ChunkDone, LastSorted, LastLevel, AllSorted, Merging, Joining
<1>5. QED BY <1>1, <1>2, <1>3, <1>4 DEF Next

(* What the invariant says of the end.                                     *)
LEMMA PowerSorted == PowerInv => SortedAtEnd
<1> SUFFICES ASSUME PowerInv, pc[0] = "exit", NEW i \in Records, i + 1 \in Records
             PROVE  data[i] <= data[i + 1]
  BY DEF SortedAtEnd
<1>1. InOrder(data, 0, Total) BY DEF PowerInv, AllSorted
<1>2. Total \in Nat /\ Records = 0 .. Total - 1 BY ConstantTypes DEF Records, Total
<1>3. i \in 0 .. 0 + Total - 2 BY <1>2
<1>4. QED BY <1>1, <1>3 DEF InOrder

(* When main returns, the whole file is sorted (Lab6/main.c: sort_thread   *)
(* and lastMerge). The hypothesis is needed: merge_blocks is halved with   *)
(* integer division (main.c:172), and main checks only that it divides.    *)
THEOREM FileIsSorted == PowersOfTwo /\ Spec => []SortedAtEnd
<1>1. Init => ShareInv /\ DataInv /\ PowerInv BY ShareInit, DataInit, PowerInit
<1>2. PowersOfTwo /\ ShareInv /\ DataInv /\ PowerInv /\ [Next]_vars
        => (PowersOfTwo /\ ShareInv /\ DataInv /\ PowerInv)'
  <2>1. PowersOfTwo => PowersOfTwo' BY DEF PowersOfTwo, PowerOfTwo
  <2>2. QED BY <2>1, ShareStep, DataStep, PowerStep
<1>3. PowerInv => SortedAtEnd BY PowerSorted
<1>4. QED BY <1>1, <1>2, <1>3, PTL DEF Spec

-----------------------------------------------------------------------------
(* The records, counted.                                                   *)
(* How often k occurs among the len elements of f from `from` on.          *)
Occurs(f, k, from, len) == Cardinality({i \in from .. from + len - 1 : f[i] = k})

(* One more element is or is not k.                                        *)
LEMMA OccursNext ==
  ASSUME NEW f, NEW k, NEW from \in Int, NEW len \in Nat
  PROVE  /\ Occurs(f, k, from, len) \in Nat
         /\ Occurs(f, k, from, 0) = 0
         /\ Occurs(f, k, from, len + 1) =
              Occurs(f, k, from, len) + (IF f[from + len] = k THEN 1 ELSE 0)
<1> DEFINE S == {i \in from .. from + len - 1 : f[i] = k}
           T == {i \in from .. from + (len + 1) - 1 : f[i] = k}
<1>1. IsFiniteSet(S) /\ Cardinality(S) \in Nat
  <2>1. IsFiniteSet(from .. from + len - 1)
    <3>1. from \in Int /\ from + len - 1 \in Int OBVIOUS
    <3>2. QED BY ONLY <3>1, FS_Interval
  <2>2. S \in SUBSET (from .. from + len - 1) OBVIOUS
  <2>3. IsFiniteSet(S) BY <2>1, <2>2, FS_Subset
  <2>4. QED BY <2>3, FS_CardinalityType
<1>2. from + len \notin S OBVIOUS
<1>3. CASE f[from + len] = k
  <2>1. T = S \cup {from + len}
    <3>1. \A i : i \in from .. from + (len + 1) - 1 <=> i \in from .. from + len - 1 \/ i = from + len
      OBVIOUS
    <3>2. QED BY <1>3, <3>1
  <2>2. Cardinality(T) = Cardinality(S) + 1 BY <1>1, <1>2, <2>1, FS_AddElement
  <2>3. QED BY <1>1, <1>3, <2>2, FS_EmptySet DEF Occurs
<1>4. CASE f[from + len] # k
  <2>1. T = S
    <3>1. \A i : i \in from .. from + (len + 1) - 1 <=> i \in from .. from + len - 1 \/ i = from + len
      OBVIOUS
    <3>2. QED BY <1>4, <3>1
  <2>2. QED BY <1>1, <1>4, <2>1, FS_EmptySet DEF Occurs
<1>5. QED BY <1>3, <1>4

LEMMA OccursEmpty ==
  ASSUME NEW f, NEW k, NEW from \in Int
  PROVE  Occurs(f, k, from, 0) = 0
BY OccursNext

(* What is counted in two stretches is counted in both together.           *)
LEMMA OccursSplit ==
  ASSUME NEW f, NEW k, NEW from \in Int, NEW len \in Nat, NEW more \in Nat
  PROVE  Occurs(f, k, from, len + more) =
           Occurs(f, k, from, len) + Occurs(f, k, from + len, more)
<1> DEFINE S == {x \in Nat : Occurs(f, k, from, len + x) =
                               Occurs(f, k, from, len) + Occurs(f, k, from + len, x)}
<1>1. 0 \in S
  <2>1. Occurs(f, k, from + len, 0) = 0 /\ Occurs(f, k, from, len) \in Nat /\ len + 0 = len
    BY OccursNext
  <2>2. QED BY <2>1
<1>2. ASSUME NEW x \in Nat, x \in S PROVE x + 1 \in S
  <2>1. /\ Occurs(f, k, from + len, x) \in Nat
        /\ Occurs(f, k, from + len, x + 1) =
             Occurs(f, k, from + len, x) + (IF f[from + len + x] = k THEN 1 ELSE 0)
    <3>1. from + len \in Int OBVIOUS
    <3>2. QED BY <3>1, OccursNext
  <2>2. Occurs(f, k, from, (len + x) + 1) =
          Occurs(f, k, from, len + x) + (IF f[from + (len + x)] = k THEN 1 ELSE 0)
    <3>1. len + x \in Nat OBVIOUS
    <3>2. QED BY <3>1, OccursNext
  <2>3. (len + x) + 1 = len + (x + 1) /\ from + (len + x) = from + len + x OBVIOUS
  <2>4. Occurs(f, k, from, len) \in Nat BY OccursNext
  <2>5. Occurs(f, k, from, len + x) = Occurs(f, k, from, len) + Occurs(f, k, from + len, x) BY <1>2
  <2>6. Occurs(f, k, from, len + (x + 1)) = Occurs(f, k, from, len) + Occurs(f, k, from + len, x + 1)
    BY <2>1, <2>2, <2>3, <2>4, <2>5
  <2>7. x + 1 \in Nat OBVIOUS
  <2>8. QED BY <2>6, <2>7
<1> HIDE DEF S
<1>3. more \in S BY <1>1, <1>2, AllNaturals
<1>4. QED BY <1>3 DEF S

(* The same elements at another place.                                     *)
Moved(f, g, from, to, len) == \A j \in 0 .. len - 1 : f[from + j] = g[to + j]

LEMMA OccursMoved ==
  ASSUME NEW f, NEW g, NEW k, NEW from \in Int, NEW to \in Int, NEW len \in Nat,
         Moved(f, g, from, to, len)
  PROVE  Occurs(f, k, from, len) = Occurs(g, k, to, len)
<1> DEFINE S == {x \in Nat : x <= len => Occurs(f, k, from, x) = Occurs(g, k, to, x)}
<1>1. 0 \in S BY OccursEmpty
<1>2. ASSUME NEW x \in Nat, x \in S PROVE x + 1 \in S
  <2>1. /\ Occurs(f, k, from, x + 1) =
             Occurs(f, k, from, x) + (IF f[from + x] = k THEN 1 ELSE 0)
        /\ Occurs(g, k, to, x + 1) =
             Occurs(g, k, to, x) + (IF g[to + x] = k THEN 1 ELSE 0)
    BY OccursNext
  <2>2. x + 1 <= len => x \in 0 .. len - 1 /\ x <= len OBVIOUS
  <2>3. x + 1 <= len => f[from + x] = g[to + x] BY <2>2 DEF Moved
  <2>4. x + 1 <= len => Occurs(f, k, from, x) = Occurs(g, k, to, x) BY <1>2, <2>2
  <2>5. x + 1 <= len => Occurs(f, k, from, x + 1) = Occurs(g, k, to, x + 1)
    BY <2>1, <2>3, <2>4
  <2>6. x + 1 \in Nat OBVIOUS
  <2>7. QED BY <2>5, <2>6
<1> HIDE DEF S
<1>3. len \in S BY <1>1, <1>2, AllNaturals
<1>4. QED BY <1>3 DEF S

(* Count is that of the whole array.                                       *)
LEMMA CountOccurs ==
  ASSUME NEW n \in Nat, NEW f, NEW k
  PROVE  /\ f \in [1 .. n -> Keys] => Count(f, k) = Occurs(f, k, 1, n)
         /\ f \in [0 .. n - 1 -> Keys] => Count(f, k) = Occurs(f, k, 0, n)
<1>1. 1 + n - 1 = n /\ 0 + n - 1 = n - 1 OBVIOUS
<1>2. QED BY <1>1 DEF Count, Occurs

LEMMA CountSlice ==
  ASSUME NEW d \in [Records -> Keys], NEW from, NEW len, InFile(from, len), NEW k
  PROVE  Count(Slice(d, from, len), k) = Occurs(d, k, from, len)
<1> DEFINE seq == Slice(d, from, len)
<1>1. from \in Nat /\ len \in Nat BY DEF InFile
<1>2. seq \in [1 .. len -> Keys] /\ \A j \in 1 .. len : seq[j] = d[from + j - 1] BY SliceType
<1> HIDE DEF seq
<1>3. \A j \in 0 .. len - 1 : seq[1 + j] = d[from + j]
  <2> TAKE j \in 0 .. len - 1
  <2>1. 1 + j \in 1 .. len /\ from + (1 + j) - 1 = from + j BY <1>1
  <2>2. QED BY <1>2, <2>1
<1>4. Occurs(seq, k, 1, len) = Occurs(d, k, from, len)
  <2>1. Moved(seq, d, 1, from, len) BY <1>3 DEF Moved
  <2>2. QED BY <1>1, <2>1, OccursMoved
<1>5. QED BY <1>1, <1>2, <1>4, CountOccurs DEF seq

(* A patch with the keys that were there keeps all counts.                 *)
LEMMA PatchKeepsCount ==
  ASSUME NEW d \in [Records -> Keys], NEW from, NEW len, InFile(from, len),
         NEW seq \in [1 .. len -> Keys], NEW k,
         Count(seq, k) = Count(Slice(d, from, len), k)
  PROVE  Count(Patch(d, from, seq), k) = Count(d, k)
<1> DEFINE e    == Patch(d, from, seq)
           rest == Total - (from + len)
<1>1. from \in Nat /\ len \in Nat /\ from + len <= Total BY DEF InFile
<1>2. Total \in Nat /\ Records = 0 .. Total - 1 BY ConstantTypes DEF Records, Total
<1>3. Patched(e, d, from, len, seq) BY PatchType
<1> HIDE DEF e
<1>4. /\ e \in [Records -> Keys]
      /\ \A i \in from .. from + len - 1 : e[i] = seq[i - from + 1]
      /\ \A i \in Records : i < from \/ from + len <= i => e[i] = d[i]
  BY <1>3 DEF Patched
<1>5. rest \in Nat /\ from + len \in Nat /\ Total = from + (len + rest) BY <1>1, <1>2
<1> HIDE DEF rest
<1>6. Occurs(e, k, 0, from) = Occurs(d, k, 0, from)
  <2>1. \A j \in 0 .. from - 1 : e[0 + j] = d[0 + j]
    <3> TAKE j \in 0 .. from - 1
    <3>1. 0 + j \in Records /\ 0 + j < from BY <1>1, <1>2
    <3>2. QED BY <1>4, <3>1
  <2>2. Moved(e, d, 0, 0, from) BY <2>1 DEF Moved
  <2>3. QED BY <1>1, <2>2, OccursMoved
<1>7. Occurs(e, k, from, len) = Occurs(d, k, from, len)
  <2>1. \A j \in 0 .. len - 1 : seq[1 + j] = e[from + j]
    <3> TAKE j \in 0 .. len - 1
    <3>1. from + j \in from .. from + len - 1 /\ (from + j) - from + 1 = 1 + j BY <1>1
    <3>2. QED BY <1>4, <3>1
  <2>2. Occurs(seq, k, 1, len) = Occurs(e, k, from, len)
    <3>1. Moved(seq, e, 1, from, len) BY <2>1 DEF Moved
    <3>2. QED BY <1>1, <3>1, OccursMoved
  <2>3. Count(seq, k) = Occurs(seq, k, 1, len) BY <1>1, CountOccurs
  <2>4. Count(Slice(d, from, len), k) = Occurs(d, k, from, len) BY CountSlice
  <2>5. QED BY <2>2, <2>3, <2>4
<1>8. Occurs(e, k, from + len, rest) = Occurs(d, k, from + len, rest)
  <2>1. \A j \in 0 .. rest - 1 : e[from + len + j] = d[from + len + j]
    <3> TAKE j \in 0 .. rest - 1
    <3>1. from + len + j \in Records /\ from + len <= from + len + j BY <1>1, <1>2, <1>5
    <3>2. QED BY <1>4, <3>1
  <2>2. Moved(e, d, from + len, from + len, rest) BY <2>1 DEF Moved
  <2>3. QED BY <1>5, <2>2, OccursMoved
<1>9. \A f : Occurs(f, k, 0, from + (len + rest)) =
               Occurs(f, k, 0, from) + (Occurs(f, k, from, len) + Occurs(f, k, from + len, rest))
  <2> TAKE f
  <2>1. Occurs(f, k, 0, from + (len + rest)) = Occurs(f, k, 0, from) + Occurs(f, k, 0 + from, len + rest)
    <3>1. len + rest \in Nat /\ 0 \in Int BY <1>1, <1>5
    <3>2. QED BY <1>1, <3>1, OccursSplit
  <2>2. Occurs(f, k, from, len + rest) = Occurs(f, k, from, len) + Occurs(f, k, from + len, rest)
    BY <1>1, <1>5, OccursSplit
  <2>3. 0 + from = from BY <1>1
  <2>4. QED BY <2>1, <2>2, <2>3
<1>10. Occurs(e, k, 0, Total) = Occurs(d, k, 0, Total) BY <1>5, <1>6, <1>7, <1>8, <1>9
<1>11. Count(e, k) = Occurs(e, k, 0, Total) /\ Count(d, k) = Occurs(d, k, 0, Total)
  BY <1>2, <1>4, CountOccurs
<1>12. QED BY <1>10, <1>11 DEF e

(* qsort gives back what it was given: each key as often.                  *)
LEMMA SortedKeepsCount ==
  ASSUME NEW n \in Nat, NEW seq \in [1 .. n -> Keys], NEW k \in Keys
  PROVE  Count(Sorted(seq), k) = Count(seq, k)
<1> DEFINE out == Sorted(seq)
           lo  == Cardinality(Below(seq, k))
           hi  == Cardinality(Upto(seq, k))
           S   == {i \in 1 .. n : seq[i] = k}
<1>1. out \in [1 .. n -> Keys] /\ \A i \in 1 .. n : Ranked(seq, i, out[i]) BY SortedRanks
<1>2. /\ lo \in Nat /\ hi \in Nat /\ hi <= n
      /\ IsFiniteSet(Below(seq, k)) /\ IsFiniteSet(Upto(seq, k))
  BY PlacesFinite
<1>3. k \in Int /\ \A j \in 1 .. n : seq[j] \in Int BY SortAssumption
<1>4. hi = lo + Cardinality(S) /\ Cardinality(S) \in Nat
  <2>1. S \in SUBSET Upto(seq, k) BY <1>3 DEF Upto
  <2>2. IsFiniteSet(S) /\ Cardinality(S) \in Nat BY <1>2, <2>1, FS_Subset, FS_CardinalityType
  <2>3. Upto(seq, k) = Below(seq, k) \cup S BY <1>3 DEF Upto, Below
  <2>4. Below(seq, k) \cap S = {} BY <1>3 DEF Below
  <2>5. Cardinality(Below(seq, k) \cup S) =
          lo + Cardinality(S) - Cardinality(Below(seq, k) \cap S)
    BY <1>2, <2>2, FS_Union
  <2>6. Cardinality(Below(seq, k) \cap S) = 0 BY <2>4, FS_EmptySet
  <2>7. hi = Cardinality(Below(seq, k) \cup S) BY <2>3
  <2> HIDE DEF lo, hi, S
  <2>8. QED BY <1>2, <2>2, <2>5, <2>6, <2>7
<1> HIDE DEF out, S
<1>5. ASSUME NEW i \in 1 .. n PROVE out[i] = k <=> i \in lo + 1 .. hi
  <2>1. Ranked(seq, i, out[i]) /\ out[i] \in Keys /\ out[i] \in Int BY <1>1, SortAssumption
  <2>2. CASE out[i] = k
    <3>1. lo < i /\ hi >= i BY <2>1, <2>2 DEF Ranked
    <3>2. QED BY <1>2, <2>2, <3>1
  <2>3. CASE out[i] < k
    <3>1. Cardinality(Upto(seq, out[i])) <= lo BY <2>1, <2>3, RanksOrdered
    <3>2. Cardinality(Upto(seq, out[i])) >= i BY <2>1 DEF Ranked
    <3>3. Cardinality(Upto(seq, out[i])) \in Nat BY PlacesFinite
    <3>4. i <= lo BY <1>2, <3>1, <3>2, <3>3
    <3>5. QED BY <1>2, <1>3, <2>1, <2>3, <3>4
  <2>4. CASE k < out[i]
    <3>1. hi <= Cardinality(Below(seq, out[i])) BY <2>1, <2>4, RanksOrdered
    <3>2. Cardinality(Below(seq, out[i])) < i BY <2>1 DEF Ranked
    <3>3. Cardinality(Below(seq, out[i])) \in Nat BY PlacesFinite
    <3>4. hi < i BY <1>2, <3>1, <3>2, <3>3
    <3>5. QED BY <1>2, <1>3, <2>1, <2>4, <3>4
  <2>5. QED BY <1>3, <2>1, <2>2, <2>3, <2>4
<1>6. {i \in DOMAIN out : out[i] = k} = lo + 1 .. hi
  <2>1. DOMAIN out = 1 .. n BY <1>1
  <2>2. lo + 1 .. hi \subseteq 1 .. n BY <1>2
  <2> HIDE DEF lo, hi
  <2>3. QED BY <1>5, <2>1, <2>2
<1>7. Cardinality(lo + 1 .. hi) = hi - lo
  <2>1. lo + 1 \in Int /\ hi \in Int /\ lo <= hi BY <1>2, <1>4
  <2> HIDE DEF lo, hi
  <2>2. Cardinality(lo + 1 .. hi) = IF lo + 1 > hi THEN 0 ELSE hi - (lo + 1) + 1
    BY <2>1, FS_Interval
  <2>3. QED BY <1>2, <2>1, <2>2
<1>8. Count(out, k) = Cardinality(S)
  <2>1. Count(out, k) = Cardinality(lo + 1 .. hi) BY <1>6 DEF Count
  <2> HIDE DEF lo, hi
  <2>2. QED BY <1>2, <1>4, <1>7, <2>1
<1>9. Count(seq, k) = Cardinality(S) BY DEF Count, S
<1>10. QED BY <1>8, <1>9 DEF out

(* One more element of a sequence.                                         *)
GrowsByOne(f, k, z) ==
  Occurs(f, k, 1, z + 1) = Occurs(f, k, 1, z) + (IF f[1 + z] = k THEN 1 ELSE 0)

LEMMA FirstOccurs ==
  ASSUME NEW f, NEW k, NEW z \in Nat
  PROVE  Occurs(f, k, 1, z) \in Nat /\ GrowsByOne(f, k, z)
<1>1. 1 \in Int OBVIOUS
<1>2. QED BY <1>1, OccursNext DEF GrowsByOne

(* merge gives back what its two halves hold: each key as often.           *)
LEMMA MergedKeepsCount ==
  ASSUME NEW l \in Nat, NEW m \in Nat, NEW a \in [1 .. l -> Keys], NEW b \in [1 .. m -> Keys], NEW k
  PROVE  Count(Merged(a, b), k) = Count(a, k) + Count(b, k)
<1> DEFINE index == MergeIndex(a, b)
           c     == Merged(a, b)
<1>1. Len(a) = l /\ Len(b) = m BY LenProperties
<1>2. /\ \A x \in 1 .. l + m : IndexFits(x, index, a, b)
      /\ index[0] = 0 /\ index[l + m] = l
  <2>1. Len(a) \in Nat /\ Len(b) \in Nat BY <1>1
  <2>2. QED BY ONLY <1>1, <2>1, IndexInHalves
<1>3. c = [x \in 1 .. l + m |-> Placed(a, b, x)[index[x - 1]]] BY <1>1 DEF Merged
<1>4. c \in [1 .. l + m -> Keys] BY MergedType
<1> HIDE DEF index, c
<1>5. ASSUME NEW x \in 0 .. l + m - 1
      PROVE  LET i == index[x] IN
             /\ i \in 0 .. l /\ x - i \in 0 .. m
             /\ \/ index[x + 1] = i + 1 /\ c[x + 1] = a[i + 1]
                \/ index[x + 1] = i /\ c[x + 1] = b[x - i + 1]
  <2> DEFINE i == index[x]
             y == x + 1
  <2>1. y \in 1 .. l + m /\ y - 1 = x OBVIOUS
  <2>2. IndexFits(y, index, a, b) BY <1>2, <2>1
  <2>3. /\ i \in 0 .. l /\ x - i \in 0 .. m /\ (i < l \/ x - i < m)
        /\ index[y] = NextIndex(a, b, y)[i]
    BY <1>1, <2>1, <2>2 DEF IndexFits
  <2>4. c[y] = Placed(a, b, y)[i] BY <1>3, <2>1
  <2> HIDE DEF i
  <2>5. i \in 0 .. y - 1 BY <2>3
  <2>6. /\ index[y] = IF TakesFirst(a, b, i, y - 1 - i) THEN i + 1 ELSE i
        /\ c[y] = IF TakesFirst(a, b, i, y - 1 - i) THEN a[i + 1] ELSE b[y - i]
    BY <2>3, <2>4, <2>5 DEF NextIndex, Placed
  <2>7. y - i = x - i + 1 BY <2>3
  <2> HIDE DEF y
  <2>8. \/ index[y] = i + 1 /\ c[y] = a[i + 1]
        \/ index[y] = i /\ c[y] = b[x - i + 1]
    BY <2>6, <2>7
  <2>9. QED BY <2>3, <2>8 DEF i, y
<1> DEFINE S == {z \in Nat : z <= l + m =>
                   /\ index[z] \in 0 .. l /\ z - index[z] \in 0 .. m
                   /\ Occurs(c, k, 1, z) = Occurs(a, k, 1, index[z]) + Occurs(b, k, 1, z - index[z])}
<1>6. 0 \in S
  <2>1. Occurs(c, k, 1, 0) = 0 /\ Occurs(a, k, 1, 0) = 0 /\ Occurs(b, k, 1, 0) = 0 BY OccursEmpty
  <2>2. index[0] = 0 /\ 0 - index[0] = 0 BY <1>2
  <2>3. Occurs(a, k, 1, index[0]) = 0 /\ Occurs(b, k, 1, 0 - index[0]) = 0 BY <2>1, <2>2
  <2>4. index[0] \in 0 .. l /\ 0 - index[0] \in 0 .. m BY <2>2
  <2>5. QED BY <2>1, <2>3, <2>4
<1>7. ASSUME NEW z \in Nat, z \in S PROVE z + 1 \in S
  <2> SUFFICES ASSUME z + 1 <= l + m
               PROVE  /\ index[z + 1] \in 0 .. l /\ z + 1 - index[z + 1] \in 0 .. m
                      /\ Occurs(c, k, 1, z + 1) =
                           Occurs(a, k, 1, index[z + 1]) + Occurs(b, k, 1, z + 1 - index[z + 1])
    OBVIOUS
  <2>1. z \in 0 .. l + m - 1 /\ z <= l + m OBVIOUS
  <2>2. PICK i : i = index[z] OBVIOUS
  <2>3. /\ i \in 0 .. l /\ z - i \in 0 .. m
        /\ Occurs(c, k, 1, z) = Occurs(a, k, 1, i) + Occurs(b, k, 1, z - i)
    BY <1>7, <2>1, <2>2
  <2>4. PICK j \in Nat : j = z - i BY <2>3
  <2>5. i \in Nat /\ z = i + j BY <2>3, <2>4
  <2>6. \/ index[z + 1] = i + 1 /\ c[z + 1] = a[i + 1]
        \/ index[z + 1] = i /\ c[z + 1] = b[j + 1]
    BY <1>5, <2>1, <2>2, <2>4
  <2>7. /\ Occurs(c, k, 1, z + 1) = Occurs(c, k, 1, z) + (IF c[z + 1] = k THEN 1 ELSE 0)
        /\ Occurs(a, k, 1, i + 1) = Occurs(a, k, 1, i) + (IF a[i + 1] = k THEN 1 ELSE 0)
        /\ Occurs(b, k, 1, j + 1) = Occurs(b, k, 1, j) + (IF b[j + 1] = k THEN 1 ELSE 0)
        /\ Occurs(a, k, 1, i) \in Nat /\ Occurs(b, k, 1, j) \in Nat /\ Occurs(c, k, 1, z) \in Nat
    <3>1. 1 + z = z + 1 /\ 1 + i = i + 1 /\ 1 + j = j + 1 BY <2>5
    <3>2. /\ Occurs(c, k, 1, z) \in Nat
          /\ Occurs(c, k, 1, z + 1) = Occurs(c, k, 1, z) + (IF c[1 + z] = k THEN 1 ELSE 0)
      BY <2>5, FirstOccurs DEF GrowsByOne
    <3>3. /\ Occurs(a, k, 1, i) \in Nat
          /\ Occurs(a, k, 1, i + 1) = Occurs(a, k, 1, i) + (IF a[1 + i] = k THEN 1 ELSE 0)
      BY <2>5, FirstOccurs DEF GrowsByOne
    <3>4. /\ Occurs(b, k, 1, j) \in Nat
          /\ Occurs(b, k, 1, j + 1) = Occurs(b, k, 1, j) + (IF b[1 + j] = k THEN 1 ELSE 0)
      BY <2>5, FirstOccurs DEF GrowsByOne
    <3>5. QED BY <3>1, <3>2, <3>3, <3>4
  <2>8. Occurs(c, k, 1, z) = Occurs(a, k, 1, i) + Occurs(b, k, 1, j) BY <2>3, <2>4
  <2>9. index[z + 1] \in 0 .. l /\ z + 1 - index[z + 1] \in 0 .. m
    <3>1. /\ IndexFits(z + 1, index, a, b) /\ z + 1 \in 1 .. l + m
          /\ z + 1 < l + m => z + 1 \in 0 .. l + m - 1
      BY <1>2, <2>1
    <3>2. CASE z + 1 < l + m BY <1>5, <3>1, <3>2
    <3>3. CASE z + 1 = l + m BY <1>2, <3>3
    <3>4. QED BY <3>2, <3>3
  <2>10. CASE index[z + 1] = i + 1 /\ c[z + 1] = a[i + 1]
    <3>1. z + 1 - (i + 1) = j BY <2>5
    <3>2. Occurs(c, k, 1, z + 1) = Occurs(a, k, 1, i + 1) + Occurs(b, k, 1, j)
      BY <2>7, <2>8, <2>10
    <3>3. QED BY <2>9, <2>10, <3>1, <3>2
  <2>11. CASE index[z + 1] = i /\ c[z + 1] = b[j + 1]
    <3>1. z + 1 - i = j + 1 BY <2>5
    <3>2. Occurs(c, k, 1, z + 1) = Occurs(a, k, 1, i) + Occurs(b, k, 1, j + 1)
      BY <2>7, <2>8, <2>11
    <3>3. QED BY <2>9, <2>11, <3>1, <3>2
  <2>12. QED BY <2>6, <2>10, <2>11
<1> HIDE DEF S
<1>8. l + m \in S BY <1>6, <1>7, AllNaturals
<1>9. Occurs(c, k, 1, l + m) = Occurs(a, k, 1, l) + Occurs(b, k, 1, m)
  <2>1. Occurs(c, k, 1, l + m) =
          Occurs(a, k, 1, index[l + m]) + Occurs(b, k, 1, l + m - index[l + m])
    BY <1>8 DEF S
  <2>2. l + m - l = m OBVIOUS
  <2>3. QED BY <1>2, <2>1, <2>2
<1>10. /\ Count(c, k) = Occurs(c, k, 1, l + m)
       /\ Count(a, k) = Occurs(a, k, 1, l) /\ Count(b, k) = Occurs(b, k, 1, m)
  <2>1. l + m \in Nat OBVIOUS
  <2>2. QED BY <1>4, <2>1, CountOccurs
<1>11. QED BY <1>9, <1>10 DEF c

(* So the file has each key as often as before, after a merge and its copy *)
(* back, and after qsort.                                                  *)
LEMMA MergedIntoKeepsCount ==
  ASSUME NEW d \in [Records -> Keys], NEW base, NEW b \in Nat, NEW s \in Nat, InFile(base, b * s),
         NEW p \in 0 .. (b \div 2) - 1, NEW k
  PROVE  Count(MergedInto(d, base, s, p), k) = Count(d, k)
<1> DEFINE from == base + p * (2 * s)
<1>1. /\ Slice(d, from, s) \in [1 .. s -> Keys] /\ Slice(d, from + s, s) \in [1 .. s -> Keys]
      /\ InFile(from, s) /\ InFile(from + s, s)
  BY MergeInputs
<1>2. MergedAt(d, base, s, p) \in [1 .. 2 * s -> Keys] /\ InFile(from, 2 * s) BY MergedLengths
<1>3. MergedInto(d, base, s, p) = Patch(d, from, MergedAt(d, base, s, p)) BY DEF MergedInto
<1>4. MergedAt(d, base, s, p) = Merged(Slice(d, from, s), Slice(d, from + s, s)) BY DEF MergedAt
<1> HIDE DEF from
<1>5. from \in Nat BY <1>1 DEF InFile
<1>6. Count(MergedAt(d, base, s, p), k) = Count(Slice(d, from, s), k) + Count(Slice(d, from + s, s), k)
  BY <1>1, <1>4, MergedKeepsCount
<1>7. Count(Slice(d, from, s), k) + Count(Slice(d, from + s, s), k) = Count(Slice(d, from, 2 * s), k)
  <2>1. Occurs(d, k, from, s + s) = Occurs(d, k, from, s) + Occurs(d, k, from + s, s)
    BY <1>5, OccursSplit
  <2>2. s + s = 2 * s OBVIOUS
  <2>3. QED BY <1>1, <1>2, <2>1, <2>2, CountSlice
<1>8. QED BY <1>2, <1>3, <1>6, <1>7, PatchKeepsCount

LEMMA SortedIntoKeepsCount ==
  ASSUME NEW d \in [Records -> Keys], NEW from, NEW len, InFile(from, len), NEW k \in Keys
  PROVE  Count(SortedInto(d, from, len), k) = Count(d, k)
<1>1. Slice(d, from, len) \in [1 .. len -> Keys] /\ len \in Nat BY SliceType DEF InFile
<1>2. /\ Sorted(Slice(d, from, len)) \in [1 .. len -> Keys]
      /\ Count(Sorted(Slice(d, from, len)), k) = Count(Slice(d, from, len), k)
  BY <1>1, SortedRanks, SortedKeepsCount
<1>3. QED BY <1>2, PatchKeepsCount DEF SortedInto

SameCounts(e, d) == \A k \in Keys : Count(e, k) = Count(d, k)

(* No step of the program changes how often a key is in the file.          *)
LEMMA StepKeepsCounts == ShareInv /\ DataInv /\ [Next]_vars => SameCounts(data', data)
<1> SUFFICES ASSUME ShareInv, DataInv, [Next]_vars, NEW k \in Keys
             PROVE  Count(data', k) = Count(data, k)
  BY DEF SameCounts
<1>1. data \in [Records -> Keys] BY DEF DataInv, DataTypes
<1>2. ASSUME NEW t \in Threads, SortBlock(t) PROVE Count(data', k) = Count(data, k)
  <2>1. /\ data' = SortedInto(data, tmpStart + block[t] * BlockLen, BlockLen)
        /\ InFile(tmpStart, BlockNum * BlockLen) /\ block[t] \in 0 .. BlockNum - 1
    BY <1>2, SortBlockData
  <2>2. InFile(tmpStart + block[t] * BlockLen, BlockLen) BY <2>1, PartInFile, ConstantTypes
  <2>3. QED BY <1>1, <2>1, <2>2, SortedIntoKeepsCount
<1>3. ASSUME NEW t \in Threads, CopyBack(t) PROVE Count(data', k) = Count(data, k)
  <2>1. Merging BY <1>3, PhaseOf DEF CopyBack, Goto
  <2>2. PICK b \in Nat, s \in Nat, p \in Nat, n \in Nat : LevelPlace(t, b, s, p, n)
    BY <2>1, MergingPlace
  <2>3. data' = MergedInto(data, tmpStart, s, p) /\ p \in 0 .. (b \div 2) - 1
    BY <1>3, <2>2, CopyBackData
  <2>4. InFile(tmpStart, b * s) BY <2>2 DEF LevelPlace
  <2>5. Count(MergedInto(data, tmpStart, s, p), k) = Count(data, k)
    BY <1>1, <2>3, <2>4, MergedIntoKeepsCount
  <2>6. QED BY <2>3, <2>5
<1>4. ASSUME LastMerge PROVE Count(data', k) = Count(data, k)
  <2>1. PICK b \in Nat, s \in Nat, p \in Nat :
          /\ InFile(0, b * s)
          /\ data' = data \/ (p \in 0 .. (b \div 2) - 1 /\ data' = MergedInto(data, 0, s, p))
    BY <1>4, LastMergeData
  <2>2. CASE data' = data BY <2>2
  <2>3. CASE p \in 0 .. (b \div 2) - 1 /\ data' = MergedInto(data, 0, s, p)
    <3>1. Count(MergedInto(data, 0, s, p), k) = Count(data, k)
      BY <1>1, <2>1, <2>3, MergedIntoKeepsCount
    <3>2. QED BY <2>3, <3>1
  <2>4. QED BY <2>1, <2>2, <2>3
<1>5. CASE \E t \in Threads : ThreadStep(t)
  BY <1>2, <1>3, <1>5 DEF ThreadStep, ClaimBlock, NoFreeBlock, MergeToTemp, FinishLevel
<1>6. CASE BarrierOpens BY <1>6 DEF BarrierOpens
<1>7. CASE MainStep BY <1>4, <1>7 DEF MainStep, CreateThread, MainSorts, JoinThreads
<1>8. CASE Exited \/ UNCHANGED vars BY <1>8 DEF Exited, vars
<1>9. QED BY <1>5, <1>6, <1>7, <1>8 DEF Next

(* Sorting only moves records: after every step each key is in the file as *)
(* often as before (Lab6/main.c: qsort, merge and memcpy over the          *)
(* mapping).                                                               *)
THEOREM NoRecordIsLost == Spec => RecordsKept
<1>1. Init => ShareInv /\ DataInv BY ShareInit, DataInit
<1>2. ShareInv /\ DataInv /\ [Next]_vars => (ShareInv /\ DataInv)' BY ShareStep, DataStep
<1>3. ShareInv /\ DataInv /\ [Next]_vars => [SameCounts(data', data)]_vars BY StepKeepsCounts
<1>4. SameCounts(data', data) <=> \A k \in Keys : Count(data', k) = Count(data, k) BY DEF SameCounts
<1>5. QED BY <1>1, <1>2, <1>3, <1>4, PTL DEF Spec, RecordsKept
=============================================================================
