---------------------------- MODULE ParallelSort ----------------------------
(***************************************************************************)
(* Lab6/main.c: the records of an index file, mapped into memory, are      *)
(* sorted chunk by chunk.  The threads share the blocks of a chunk through *)
(* blockMap, sort each one, and then merge neighbours level by level; a    *)
(* barrier separates the phases.  At the end main merges the chunks.  A    *)
(* record is represented by its time_mark.                                 *)
(***************************************************************************)
EXTENDS Integers, Sequences, FiniteSets

CONSTANTS
  Keys,        (* the time marks                                           *)
  ThreadNum,   (* `threads`, main being thread 0                           *)
  BlockNum,    (* `blockNum`, the blocks of a chunk                        *)
  BlockLen,    (* `blockSize`, in records                                  *)
  ChunkNum,    (* how many times `memsize` records the file holds          *)
  Files        (* the contents of the file to start from                   *)

(* main checks neither that blockMap has a place for every thread nor that *)
(* the file is a whole number of chunks.                                   *)
ASSUME SortAssumption ==
  /\ Keys \subseteq Int
  /\ ThreadNum \in Nat \ {0} /\ BlockNum \in Nat /\ ThreadNum <= BlockNum
  /\ BlockLen \in Nat \ {0} /\ ChunkNum \in Nat \ {0}

Threads == 0 .. ThreadNum - 1
Blocks  == 0 .. BlockNum - 1
memsize == BlockNum * BlockLen
Records == 0 .. ChunkNum * memsize - 1

ASSUME FilesAssumption == Files \subseteq [Records -> Keys]

VARIABLES
  data,        (* the mapped records                                       *)
  chunk,       (* which chunk tmpStart points to                           *)
  blockMap,    (* blockMap[i] = 1: some thread sorts or has sorted block i *)
  pc,          (* where each thread is                                     *)
  block,       (* the block each thread sorts                              *)
  merging,     (* merge_blocks, tmpBlockSize and tmpId of each thread      *)
  temp         (* the array `temp` of each thread's call of merge          *)

vars == <<data, chunk, blockMap, pc, block, merging, temp>>

-----------------------------------------------------------------------------
Slice(d, from, len)  == [k \in 1 .. len |-> d[from + k - 1]]
Patch(d, from, seq) ==
  [i \in DOMAIN d |-> IF i \in from .. from + Len(seq) - 1 THEN seq[i - from + 1] ELSE d[i]]

Ascending(seq) == \A i \in 1 .. Len(seq) - 1 : seq[i] <= seq[i + 1]
Count(seq, k)  == Cardinality({i \in DOMAIN seq : seq[i] = k})

(* qsort: the same keys in ascending order.                                *)
Sorted(seq) ==
  [i \in DOMAIN seq |->
     CHOOSE k \in Keys : /\ Cardinality({j \in DOMAIN seq : seq[j] < k}) < i
                         /\ Cardinality({j \in DOMAIN seq : seq[j] <= k}) >= i]

(* merge: with i and j records taken from its two halves, the next one is  *)
(* taken from the first.                                                   *)
TakesFirst(a, b, i, j) == i < Len(a) /\ (j = Len(b) \/ a[i + 1] < b[j + 1])

(* Its variable i when k places of temp are filled, and so j is k - i; and  *)
(* what is put in place k, as functions of i before that.                  *)
NextIndex(a, b, k) == [i \in 0 .. k - 1 |-> IF TakesFirst(a, b, i, k - 1 - i) THEN i + 1 ELSE i]
Placed(a, b, k) ==
  [i \in 0 .. k - 1 |-> IF TakesFirst(a, b, i, k - 1 - i) THEN a[i + 1] ELSE b[k - i]]

MergeIndex(a, b) ==
  LET index[k \in 0 .. Len(a) + Len(b)] ==
        IF k = 0 THEN 0 ELSE NextIndex(a, b, k)[index[k - 1]]
  IN  index

(* Seeded fault of Merged: what is left of the second half is forgotten.   *)
MergedShort(a, b) ==
  LET index == MergeIndex(a, b)
      last  == Cardinality({k \in 1 .. Len(a) + Len(b) : index[k - 1] < Len(a)})
  IN  [k \in 1 .. last |-> Placed(a, b, k)[index[k - 1]]]

Merged(a, b) ==
  LET index == MergeIndex(a, b)
  IN  [k \in 1 .. Len(a) + Len(b) |-> Placed(a, b, k)[index[k - 1]]]

(* The first record of the two neighbours that m describes, in the part of *)
(* the file that starts at `base`, and their merge.                        *)
FirstOf(base, m) == base + m.id * 2 * m.size
MergedPair(base, m) ==
  Merged(Slice(data, FirstOf(base, m), m.size),
         Slice(data, FirstOf(base, m) + m.size, m.size))

HalfOf(m) == m.blocks \div 2
tmpStart  == chunk * memsize

-----------------------------------------------------------------------------
(* Where a thread can be.  In "start", "sorted", "levelDone" and "end" it  *)
(* waits at the barrier.                                                   *)
AtBarrier == {"start", "sorted", "levelDone", "end"}
Pc == AtBarrier \cup {"none", "create", "own", "claim", "sort", "level", "copy",
                      "done", "lastMerge", "exit"}

Goto(t, from, to) == pc[t] = from /\ pc' = [pc EXCEPT ![t] = to]

Init ==
  /\ data \in Files
  /\ chunk = 0
  /\ blockMap = [i \in Blocks |-> 0]
  /\ pc = [t \in Threads |-> IF t = 0 THEN "create" ELSE "none"]
  /\ block = [t \in Threads |-> t]
  /\ merging = [t \in Threads |-> [blocks |-> BlockNum, size |-> BlockLen, id |-> t]]
  /\ temp = [t \in Threads |-> <<>>]

(* main creates the threads in order and gives each one a block, then      *)
(* calls sort_thread itself.                                               *)
CreateThread(t) ==
  /\ pc[0] = "create" /\ t # 0
  /\ \A u \in 1 .. t - 1 : pc[u] # "none"
  /\ Goto(t, "none", "start")
  /\ blockMap' = [blockMap EXCEPT ![t] = 1]
  /\ UNCHANGED <<data, chunk, block, merging, temp>>

MainSorts ==
  /\ \A t \in Threads : pc[t] # "none"
  /\ Goto(0, "create", "start")
  /\ blockMap' = [blockMap EXCEPT ![0] = 1]
  /\ UNCHANGED <<data, chunk, block, merging, temp>>

(* pthread_barrier_wait returns when `threads` threads wait.               *)
After == [start |-> "own", sorted |-> "level", levelDone |-> "level", end |-> "done"]
(* Seeded fault of NextLevel: tmpBlockSize is not doubled.                 *)
NextLevelSameSize(t, m) == [blocks |-> HalfOf(m), size |-> m.size, id |-> t]
NextLevel(t, m) == [blocks |-> HalfOf(m), size |-> 2 * m.size, id |-> t]

(* Seeded faults of BarrierOpens: the barrier is initialised with one      *)
(* thread too few, or one too many.                                        *)
BarrierOpensEarly ==
  \E leaving \in SUBSET {t \in Threads : pc[t] \in AtBarrier} :
    /\ Cardinality(leaving) = ThreadNum - 1 /\ leaving # {}
    /\ pc' = [t \in Threads |-> IF t \in leaving THEN After[pc[t]] ELSE pc[t]]
    /\ merging' = [t \in Threads |-> IF t \in leaving /\ pc[t] = "levelDone"
                                     THEN NextLevel(t, merging[t]) ELSE merging[t]]
    /\ UNCHANGED <<data, chunk, blockMap, block, temp>>

BarrierOpensNever ==
  Cardinality({t \in Threads : pc[t] \in AtBarrier}) > ThreadNum /\ UNCHANGED vars

BarrierOpens ==
  /\ \A t \in Threads : pc[t] \in AtBarrier
  /\ pc' = [t \in Threads |-> After[pc[t]]]
  /\ merging' = [t \in Threads |-> IF pc[t] = "levelDone"
                                   THEN NextLevel(t, merging[t]) ELSE merging[t]]
  /\ UNCHANGED <<data, chunk, blockMap, block, temp>>

SortBlock(t) ==
  /\ Goto(t, "own", "claim") \/ Goto(t, "sort", "claim")
  /\ LET from == tmpStart + block[t] * BlockLen
     IN  data' = Patch(data, from, Sorted(Slice(data, from, BlockLen)))
  /\ UNCHANGED <<chunk, blockMap, block, merging, temp>>

(* Seeded fault of ClaimBlock: the block is not marked.                    *)
ClaimBlockUnmarked(t) ==
  /\ \E i \in Blocks :
       /\ blockMap[i] = 0 /\ \A j \in 0 .. i - 1 : blockMap[j] # 0
       /\ Goto(t, "claim", "sort")
       /\ block' = [block EXCEPT ![t] = i]
  /\ UNCHANGED <<data, chunk, blockMap, merging, temp>>

(* Under map_mutex: the first block that nobody has taken.                 *)
ClaimBlock(t) ==
  /\ \E i \in Blocks :
       /\ blockMap[i] = 0 /\ \A j \in 0 .. i - 1 : blockMap[j] # 0
       /\ Goto(t, "claim", "sort")
       /\ block' = [block EXCEPT ![t] = i]
       /\ blockMap' = [blockMap EXCEPT ![i] = 1]
  /\ UNCHANGED <<data, chunk, merging, temp>>

NoFreeBlock(t) ==
  /\ \A i \in Blocks : blockMap[i] # 0
  /\ Goto(t, "claim", "sorted")
  /\ UNCHANGED <<data, chunk, blockMap, block, merging, temp>>

(* merge fills temp from the two halves and then copies it over them.      *)
MergeToTemp(t) ==
  /\ merging[t].blocks > 1 /\ merging[t].id < HalfOf(merging[t])
  /\ Goto(t, "level", "copy")
  /\ temp' = [temp EXCEPT ![t] = MergedPair(tmpStart, merging[t])]
  /\ UNCHANGED <<data, chunk, blockMap, block, merging>>

(* Seeded fault of CopyBack: only `count` records are copied.              *)
CopyBackHalf(t) ==
  /\ Goto(t, "copy", "level")
  /\ data' = Patch(data, FirstOf(tmpStart, merging[t]),
                   SubSeq(temp[t], 1, merging[t].size))
  /\ temp' = [temp EXCEPT ![t] = <<>>]
  /\ merging' = [merging EXCEPT ![t].id = @ + ThreadNum]
  /\ UNCHANGED <<chunk, blockMap, block>>

CopyBack(t) ==
  /\ Goto(t, "copy", "level")
  /\ data' = Patch(data, FirstOf(tmpStart, merging[t]), temp[t])
  /\ temp' = [temp EXCEPT ![t] = <<>>]
  /\ merging' = [merging EXCEPT ![t].id = @ + ThreadNum]
  /\ UNCHANGED <<chunk, blockMap, block>>

FinishLevel(t) ==
  /\ \/ /\ merging[t].blocks > 1 /\ merging[t].id >= HalfOf(merging[t])
        /\ Goto(t, "level", "levelDone")
     \/ merging[t].blocks <= 1 /\ Goto(t, "level", "end")
  /\ UNCHANGED <<data, chunk, blockMap, block, merging, temp>>

(* main joins the threads and goes on to the next chunk or to lastMerge.   *)
JoinThreads ==
  /\ \A t \in Threads : pc[t] = "done"
  /\ chunk' = chunk + 1
  /\ \/ /\ chunk + 1 # ChunkNum
        /\ pc' = [t \in Threads |-> IF t = 0 THEN "create" ELSE "none"]
        /\ blockMap' = [i \in Blocks |-> 0]
        /\ block' = [t \in Threads |-> t]
        /\ merging' = [t \in Threads |-> [blocks |-> BlockNum, size |-> BlockLen, id |-> t]]
     \/ /\ chunk + 1 = ChunkNum
        /\ pc' = [pc EXCEPT ![0] = IF ChunkNum > 1 THEN "lastMerge" ELSE "exit"]
        /\ merging' = [merging EXCEPT ![0] = [blocks |-> ChunkNum, size |-> memsize, id |-> 0]]
        /\ UNCHANGED <<blockMap, block>>
  /\ UNCHANGED <<data, temp>>

LastMerge ==
  /\ LET m == merging[0] IN
       \/ /\ m.blocks > 1 /\ m.id < HalfOf(m) /\ Goto(0, "lastMerge", "lastMerge")
          /\ data' = Patch(data, FirstOf(0, m), MergedPair(0, m))
          /\ merging' = [merging EXCEPT ![0].id = @ + 1]
       \/ /\ m.blocks > 1 /\ m.id >= HalfOf(m) /\ Goto(0, "lastMerge", "lastMerge")
          /\ merging' = [merging EXCEPT ![0] = NextLevel(0, m)]
          /\ UNCHANGED data
       \/ /\ m.blocks <= 1 /\ Goto(0, "lastMerge", "exit")
          /\ UNCHANGED <<data, merging>>
  /\ UNCHANGED <<chunk, blockMap, block, temp>>

-----------------------------------------------------------------------------
ThreadStep(t) ==
  \/ SortBlock(t) \/ ClaimBlock(t) \/ NoFreeBlock(t)
  \/ MergeToTemp(t) \/ CopyBack(t) \/ FinishLevel(t)

MainStep == (\E t \in Threads : CreateThread(t)) \/ MainSorts \/ JoinThreads \/ LastMerge

Exited == pc[0] = "exit" /\ UNCHANGED vars

Next == (\E t \in Threads : ThreadStep(t)) \/ BarrierOpens \/ MainStep \/ Exited

(* Every thread that can run is scheduled.                                 *)
Fairness == /\ \A t \in Threads : WF_vars(ThreadStep(t))
            /\ WF_vars(BarrierOpens) /\ WF_vars(MainStep)

Spec == Init /\ [][Next]_vars /\ Fairness

-----------------------------------------------------------------------------
(* Properties.                                                             *)

(* Every variable has its type; temp has room for exactly the two halves.  *)
TypeOK ==
  /\ data \in [Records -> Keys]
  /\ chunk \in 0 .. ChunkNum
  /\ blockMap \in [Blocks -> {0, 1}]
  /\ pc \in [Threads -> Pc]
  /\ block \in [Threads -> Blocks]
  /\ \A t \in Threads :
       /\ merging[t] \in [blocks : Nat, size : Nat, id : Nat]
       /\ temp[t] \in Seq(Keys)
       /\ Len(temp[t]) = IF pc[t] = "copy" THEN 2 * merging[t].size ELSE 0

(* The records a thread is reading or writing without a lock.              *)
InUse(t) ==
  LET m == merging[t] IN
  CASE pc[t] \in {"own", "sort"} ->
         {tmpStart + block[t] * BlockLen + k : k \in 0 .. BlockLen - 1}
    [] pc[t] = "copy" \/ (pc[t] = "level" /\ m.id < HalfOf(m)) ->
         {FirstOf(tmpStart, m) + k : k \in 0 .. 2 * m.size - 1}
    [] OTHER -> {}

(* No two threads ever work on the same records, although qsort, merge and *)
(* memcpy run outside map_mutex: the blocks are shared out by blockMap,    *)
(* the merges of a level by the threads' numbers, the phases by barriers.  *)
NoSharedRecords ==
  \A t, u \in Threads : t # u => InUse(t) \cap InUse(u) = {}

(* merge always starts from two sorted halves: every block that was taken  *)
(* is sorted, and every merge of the level below is complete.              *)
HalvesSorted ==
  \A t \in Threads :
    LET m == merging[t] IN
    pc[t] = "level" /\ m.id < HalfOf(m) =>
      /\ Ascending(Slice(data, FirstOf(tmpStart, m), m.size))
      /\ Ascending(Slice(data, FirstOf(tmpStart, m) + m.size, m.size))

(* No record is lost or doubled, at any moment: whatever the threads do to *)
(* the mapped file, every time mark occurs as often as before.             *)
RecordsKept == [][\A k \in Keys : Count(data', k) = Count(data, k)]_vars

(* When the program ends, the whole file is sorted, for a number of blocks *)
(* and of chunks that is a power of two.                                   *)
SortedAtEnd ==
  pc[0] = "exit" => \A i \in Records : i + 1 \in Records => data[i] <= data[i + 1]

(* The program ends: nobody waits at a barrier that the others pass by.    *)
Terminates == <>(pc[0] = "exit")
=============================================================================
