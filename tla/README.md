# A verification project for OsispLabs

OsispLabs is a collection of eight operating-system exercises in C. Each one is
a small program of its own: processes with signals, a message queue between
processes and then between threads, a parallel sort, record locks on a shared
file, a client and a server. This directory holds TLA+ models of them, the TLC
configurations that check the models on small instances, and theorems about the
models that TLAPS checks for every instance. Source paths below are relative to
`src/`.

## 1. Inventory

| Part | State it keeps | Operations | What makes it hard | What makes it correct |
|---|---|---|---|---|
| **Lab5, lab5_2.c** queue with condition variables | ring `buffer`, `head`, `tail`, `countMsg`, `sizeQueue`, a mutex, two condition variables, the lists of threads | produce, consume, create and cancel threads, grow and shrink the ring | interleaving, waiting and signalling, cancellation, index arithmetic while resizing | FIFO, each message to one consumer, no lost wakeup, mutex always released |
| **Lab5, lab5_1.c** queue with semaphores | the same ring, two semaphores `empty`, `full`, a mutex | the same | tokens taken and posted at different moments than the ring changes; cancellation between them; `sem_wait` under the mutex | tokens conserved, tokens agree with the ring, FIFO |
| **Lab5, functions.c** | `sizeQueue`, thread lists | generate a message, print a message | a loop that may not end | - |
| **Lab6, main.c** parallel sort | memory-mapped records, `blockMap`, barrier, per-thread merge level | claim and sort blocks, merge by levels, merge chunks | lock-free work on shared memory, phases separated by barriers only | no two threads on the same records, merges start from sorted halves, sorted permutation at the end, termination |
| **Lab6, createIndexFile.c, readBinaryFile.c** | a file | write random records, print records | - | - |
| **Lab7, main.c** shared records | a file, record locks, each process's `record`, `newRecord`, `currentRecord` | print, get, edit, save | read and save under separate locks, other processes in between, an early return | no silent lost update, locks released |
| **Lab7, createFile.c, readFile.c** | a file | write and print a fixed file | - | - |
| **Lab8, server.c, client.c** | connections, a directory per client thread, the directory of the process, bytes in flight | info, echo, cd, list, quit, command file | a thread per client in one process, reads that do not respect message boundaries, descriptor numbers that are used again, `exit` in a thread | a client reads the answers to its own commands and shows the directory the server looks in; a client that quits disturbs nobody; whatever was sent is answered or the client ends |
| **Lab4, lab4Main.c** queue between processes | shared-memory ring, three semaphores, termination flag per process, lists of process ids | produce, consume, create and destroy processes | signal against `sem_wait`, tokens of terminated processes, a failed fork in the list | one process at a time in the ring, every token accounted for, no message overwritten, the mutex is passed on |
| **Lab3, child.c** a signalling child | a pair, counters updated by a signal handler | store the pair, report, reset | a handler that interrupts any two accesses of the loop, in particular the reset | a report has enough samples, no sample in two reports |
| **Lab3, lab3.c** the parent | list of children, a timer | create, destroy, allow and forbid output, show one, quit | handlers that walk the list while it changes; signals that overtake each other or come before the child is ready | the list holds living children, each has the permission asked for, `wait` returns |
| **Lab3, functions.c** | - | reading a key | - | - |
| **Lab2** child programs | an environment file | fork and exec | sequential | - |
| **Lab1** directory walker | none | recursive listing | sequential; does not compile as committed | - |
| **Lab5, test.cpp** | - | unrelated exercise | - | - |

How they interact: within Lab5, `functions.c` is linked into both queue programs
and owns `sizeQueue` and the thread lists; the worker threads and the operator's
thread share `queue` and communicate through its mutex and its condition
variables or semaphores. Within Lab6 the threads share the mapped file and
`blockMap`. In Lab4 the processes share the ring and the semaphores in shared
memory, and main reaches them by SIGUSR1 only. In Lab8 a client and its thread
exchange two streams of bytes; the threads of different clients meet in what
their process has once. In Lab3 the parent acts on its children by SIGTERM,
SIGUSR1, SIGUSR2 and `wait`; `permissionOutput` of child.c is the only variable
that both sides of it have to do with, so ChildList keeps it for every child, as
`permitted`, and ChildStats lets it change at any time. The labs do not interact with each other.

## 2. Modules

    Ring                 pure operations on the circular buffer
    BoundedQueue         abstract: a FIFO queue with a capacity
    MessageQueue         what lab5_1.c and lab5_2.c share        (EXTENDS Ring)
      CondQueue          lab5_2.c, implements BoundedQueue       (EXTENDS MessageQueue)
      SemQueue           lab5_1.c, implements BoundedQueue       (EXTENDS MessageQueue)
    ParallelSort         Lab6/main.c
    SharedRecords        Lab7/main.c
    ProcessQueue         Lab4/lab4Main.c
    FileServer           Lab8/server.c and client.c, composed over their streams
    ChildStats           Lab3/child.c
    ChildList            Lab3/lab3.c, with the handlers of child.c
    MC*                  instances for TLC
    MessageQueueProofs   lemmas about Ring and MessageQueue
    CondQueueProofs, SemQueueProofs,
    SharedRecordsProofs, ProcessQueueProofs,
    FileServerProofs,
    ParallelSortProofs   theorems about these modules
    ChildProofs          theorems about ChildList and ChildStats

### Ring

`buffer` is a function on the allocated indices `0 .. sizeQueue-1`; an index
outside reads as `Junk` and is not written, which is what a stray C access does
to the queue itself. `Advance` is the increment with wrap-around, `Realloc`
keeps the common prefix, `ShiftUp`, `MoveToFront`, `MoveDown` are the loops of
`incremSize` and `discrSize`, each as one function instead of one assignment per
round (each loop reads a slot before it overwrites it). `RingShape` says that
`head`, `tail`, a count and the size fit together and that the counted slots
hold messages; `Contents` is the sequence of messages the ring stands for. A
message is a model value: its bytes, length and hash are not represented.

### MessageQueue, CondQueue, SemQueue

Every worker has a program counter `pc` and its local `msg`. Between
`pthread_mutex_lock` and `pthread_mutex_unlock` the code is split into the
copying of the message, the moving of the index, and the unlock, so that the
models remain faithful when two threads are inside at once. That can happen:
`cleanup_handler` unlocks a mutex that the cancelled thread does not hold. In
that case `++x` may lose an update, which `Raced` expresses.

| code | CondQueue | SemQueue |
|---|---|---|
| `generateMessage`, the endless loop in `generateRandSize` | `GenerateMessage`, `GenerateRandSizeSpins` | same |
| waiting | `TestRoom`, `TestMessage`, `CondWait`, `SpuriousWakeup`, `StepAndSignal` | `SemWaitEmpty`, `SemWaitFull`, `PrintAfterSem` |
| lock, unlock | `Lock`, `UnlockProducer`, `UnlockConsumer` | `Lock`, `Unlock` |
| memcpy in and out | `WriteMessage`, `ReadMessage` | same |
| `++tail`, `++head`, the counter, signal or post | `AdvanceTail`, `AdvanceHead` | same |
| printing and `sleep` | `PrintAndSleep` | same |
| `destroyThread`, deferred cancellation | `DestroyThread`, `Cancel`, `Relock`, `CleanupHandler`, `JoinThread` | `DestroyThread`, `Cancel`, `CleanupHandler`, `JoinThread` |
| `p-` or `c-` after a `pthread_create` that failed | `DestroyFailed` | same |
| `incremSize`, `discrSize` | `IncremSize`, `DiscrSize`, `UnlockMain` | plus `TakeEmptyToken` |
| `p+`, `c+`, `q` | `CreateProducer`, `CreateConsumer`, `Quit` | same |

A failed `pthread_create` prints a line and leaves an entry in the list without a
thread of its own, because `main` has already raised the counter. Nothing looks
at the entry before the `p-` or `c-` that meets it, so the models leave it out of
`prodIdMas` and `consIdMas`, and the failed `p+` or `c+` is no step of its own:
`DestroyFailed` is the `p-` or `c-`, possible at any time. The id it finds is what
the failed call stored or an earlier thread left: it names nobody, and then
`pthread_cancel` and `pthread_join` return an error or crash (`CancelNobody`), or
it is the id of any worker that lives, which is cancelled although its own entry
stays. That entry has no thread any more either and leaves the lists
(`Without`).

`p-` and `c-` are pressed on an entry at most `MaxCancels` times, `s+` and `s-` keep the size
within `MinSize .. MaxSize`. `BoundaryResize` tells whether the operator also
resizes in the states in which the code damages the ring: growing a full ring,
shrinking one whose content ends in the last slot, and so on (`ExactGrow`,
`ExactShrink` list them). With FALSE the runs show that everything else is
right; with TRUE `cq_resize` shows that the exception is real.

### ParallelSort

`data` is the mapped array of records (only `time_mark` is kept), `pc[t]` the
place of a thread in `sort_thread`, `merging[t]` its locals `merge_blocks`,
`tmpBlockSize` and `tmpId`, `temp[t]` the array inside `merge`. Claiming a block
(under `map_mutex`) is one step, as is a `qsort` of one block; a merge is two,
one that fills `temp` and one that copies it back, so that an overlap of two
merges would be seen. What `merge` puts in `temp` is `Merged`: `MergeIndex[k]` is
how many of the first k records came from the first half, which decides where
the next one comes from (`NextIndex`). All threads leave the barrier in one step,
`BarrierOpens`, when all wait; what they do next interleaves freely. Two
assumptions that `main` does not check are made explicit: there are no more
threads than blocks (otherwise `blockMap[i] = 1` writes past its end) and the
file is a whole number of chunks (otherwise the loop never ends).

### SharedRecords

`file` maps record numbers to contents; the number `Size`, one too many, is
`Absent` until somebody writes there. A process's `record`, `newRecord` and
`currentRecord` are the variables of its `main`, `tmpRecord` that of
`saveRecord`; what was never assigned is `Garbage`, a value of its own whose
comparison may come out either way. `lock[p][n]` is the fcntl lock of a process
on a record. `pc` follows the code from the menu through a lock, the reads and
writes under it, and the unlock.

| code | SharedRecords |
|---|---|
| `g` with its range check, `r`, `p` and `s`, `q` | `ChooseRecord`, `modifyRecord`, `StartLocking`, `Quit` |
| `fcntl(F_SETLKW)` granted, failed | `Acquire`, `LockFails` |
| `printAllFile`, one step per record | `PrintRecord`, `PrintEnds` |
| `getRecordNumb`, read and unlock | `getRecordNumb` |
| `saveRecord`: read and compare, the question, write, sleep and unlock | `CompareRecord`, `AnswerYes`, `AnswerNo`, `WriteRecord`, `SaveEnds` |

The kernel's part is external: a lock is granted when no other process has a
conflicting one and replaces the process's own; it fails with EDEADLK when a
circle of waiting processes would close (`WouldDeadlock`). The end of a process
releases its locks. Operators choose every command and answer. `MaxDeclines`
bounds the number of answers 'n', because `declines` is counted; a record with
three fields is one value; negative numbers after `g` are left out.

### ProcessQueue

Lab4 is Lab5's queue once more, between processes. `buffer` counts how often
each part of the shared ring was written: a slot has a header and its data,
which are copied by two `memcpy`s, and `tail` is their index. `pending` is a
SIGUSR1 under way; the handler only sets `sigTERMsignalFlag`, which a process
tests after its first `sem_wait` and nowhere else.

| code | ProcessQueue |
|---|---|
| `workProducer` | `GenerateMessage`, `SemWaitEmpty`, `TestFlag`, `SemWaitMutex`, `WriteHeader`, `WriteData`, `Post` |
| `workConsumer`, as its brackets stand | `SemWaitFull` |
| `handlerSIGUSR1`; a `sem_wait` that it cuts short | `SignalRestarts`, `SignalInterrupts` |
| `createProducer`, `createConsumer`, `fork` that fails | `CreateProducer`, `CreateConsumer`, `ForkFails` |
| `destroyChildProcess`, `q` | `DestroyChildProcess`, `Quit` |

The part of `workConsumer` that would take a message out of the ring comes after
an `exit(0)` and is never reached (see findings); the model has what the build
does, a consumer that takes tokens of `full`. `sa_flags` is never assigned, so
whether a signal restarts `sem_wait` is left open per process (`Restarting`).
The other value that `sa_flags` could have by accident, SA_RESETHAND, which would
let a second signal kill the process, is left out.

### FileServer

A thread of the server and its client are composed over two streams, `toServer`
and `toClient`. A message is one unit. An entry of a directory, 1024 bytes, is
two, because a read of 100 bytes takes only its beginning; once a client reads
entries where it expects answers, the exact bytes are no longer followed, only
that it is out of step. A path is the sequence of what its slashes separate, so
that "cd .." can be what the code makes of it: the text cut at the last slash.

| code | FileServer |
|---|---|
| `accept`, `handleConnection`, greeting | `Accept`, `Greet` |
| `exit(1)` after a failed `accept` or `pthread_create` | `AcceptFails` |
| `waitMessage` | `WaitMessage`, `ReadNothing`, `Takes` |
| `waitConnection`'s switch | `HandleSay`, `HandleCd`, `HandleList` with `SendEntry` and `SendDone`, `HandleQuit` |
| the second `close` | `CloseAgain` |
| client: connection, greeting and "cd ." | `Connect`, `Greeted` |
| client: a line typed, its answer | `Type`, `ReadAnswer`, `ReadCd`, `ReadList` |
| client: `@file` | `TypeFile`, `ReadInFile` |
| client: a read that returns nothing, another end | `ServerClosed`, `Leave` |

`InStep` holds for a client whose connection has its descriptor number, and whose
thread has that number alone (`Alone`). The second condition was found with three
clients: after the second `close` of a number that is in use again, `accept` may
give the number to a third client, and then two threads read the commands of one
connection. With two clients that cannot happen. A file of commands has at least
one line (`ScriptsAssumption`): an empty one sends nothing. `mishap` also notes a
file with a line that faults.

What the threads share is modelled for what it is: `cwd` is the process's, `fds`
its descriptor numbers, of which `accept` takes the lowest free one, and `server`
its life. There are as many numbers as clients; that the process runs out of them
earlier is one of the reasons for `AcceptFails`, which may happen at any time. `WaitMessage` and the read are two steps because a read that has begun
stays with its connection when the number is closed and used again. A command
that is not known has the answer and the fate of `echo`, which stands for it.
Descriptors that the server opens for a moment (info.txt, directories) are left
out of `fds`: they return to the system in the same call.

### ChildStats

Each store into `pair`, each operand of the condition, each argument of `printf`
and each assignment of the reset is a step, because `PairProcessing`, the
handler of SIGALRM, may run between any two of them. The arguments of `printf`
are read from the last to the first, as in the binary that is committed. The
chain `a = b = c = 0` may store in each variable what the compiler kept in a
register or what the next variable holds by then; `ClearFrom` allows both. A
build that drops the first of the two stores into `pair` is not modelled. `since`
and `carried` are history: the samples since `countOneAndOne` was last read, and
whether the last reset copied a sample. The names of ChildStats differ from those
of ChildList (`ChildInit`, `ChildTypeOK`, `loop` for the place in the loop), so
that ChildProofs can extend both.

### ChildList

| code | ChildList |
|---|---|
| `+`, `callChild` | `Create`, `Fork`, `Store` |
| `-`, `k`, `q` | `Destroy`, `DestroyKill`, `DestroyWait`, `DestroyNext`, `ReapAll` |
| `s`, `g`, `p` | `SetStats`, `ShowOne`, `ShowOneAllow` |
| handlers of SIGALRM and SIGINT | `AllowAllChildSendStats`, `HandlerSIGINT` |
| `execv` and the beginning of child.c; its handlers | `Start`, `Deliver` |

A slot that was never written holds 0 (`Group`), one that `wait` stored into
holds a status (`Status`, the id of a stranger), one of a failed fork holds -1
(`Everyone`); `Kill` does what kill(2) does with each. Nothing compares `childCount` with
`MAX_CHILD`: the `+` that leaves the array leads to the place "overrun", behind
which the model does not follow the parent. A loop of kills over the
list is one step; handlers that interrupt it halfway are left out. The handlers
of a child that starts are set together. SIGINT
is that of a terminal, which reaches the children too; one sent to the parent
alone is among the findings. `asked` and `raced` are history.

## 3. Runs

| run | instance | shows |
|---|---|---|
| `cq_fifo` | CondQueue, 1 producer, 2 consumers, 2 messages, sizes 0-3, no cancellation | `TypeOK`, `MutualExclusion`, `QueueShape`, `ImplementsQueue` |
| `cq_cancel` | CondQueue, 2 producers, 1 consumer, sizes 0-1, two cancellations, fairness | `NoOrphanLock`, `DestroyReturns`, `ConsumerServed`, `ProducerServed` |
| `cq_resize` | CondQueue with `BoundaryResize`, violation | `QueueShape` fails: shrinking a ring that the content then fills leaves `tail = sizeQueue` |
| `sq_queue` | SemQueue, 1 producer, 2 consumers, sizes 0-2, one cancellation | `TypeOK`, `MutualExclusion`, `TokensConserved`, `QueueShape`, `ImplementsQueue` |
| `sq_tokens` | SemQueue, 1 producer, 1 consumer, one cancellation, violation | `SemaphoresCountSlots` fails: a cancelled consumer keeps its token |
| `ps_sort` | ParallelSort, 3 threads, 4 blocks of 2, 2 chunks, 24 files, fairness | `TypeOK`, `NoSharedRecords`, `HalvesSorted`, `RecordsKept`, `SortedAtEnd`, `Terminates` |
| `sr_locks` | SharedRecords, 2 processes, 1 record and the place behind it, 2 contents, 2 declines, fairness | `TypeOK`, `NoBlindOverwrite`, `PrintsOneState`, `NothingHeldAtMenu`, `NoDeadlockError`, `LockGranted` |
| `sr_garbage` | SharedRecords, 1 process, violation | `OnlyEnteredSaved` fails: after g 0, s finds record 0 unchanged and writes a variable over it that was never assigned |
| `pq_signals` | ProcessQueue, 2 producers, 1 consumer, 2 slots, 2 entries in the lists at a time, fairness | `TypeOK`, `MutualExclusion`, `TokensAccountedFor`, `MutexIsPassedOn` |
| `fs_sessions` | FileServer, 2 clients, 3 directories, a start directory that is absolute, relative or missing, files with and without a faulting line, 2 commands in all, fairness | `TypeOK`, `InStep`, `ServerStaysUp`, `Answered` |
| `cs_reports` | ChildStats, reports of 3 samples or more, at most 5 alarms between two | `ChildTypeOK`, `ReportIsFull`, `NoSampleTwice` |
| `cl_children` | ChildList, 3 children, 2 slots, fairness | `TypeOK`, `SlotsAreChildren`, `PermissionAsAsked`, `DestroyReturns` |

Bounds. Two threads of a kind are the least that can compete for a message, a
signal or the mutex, and one of the other kind drives them through full and
empty. Two messages tell an order from its reverse. Sizes 0 to 3 contain the
empty block, the one-slot ring where head and tail always coincide, and rings
that wrap around with and without free slots; in `sq_queue`, with sizes 0 to 2, a
ring that wraps around is only shrunk, because lab5_1.c damages it when it grows
(`ExactGrow`). Three threads on four blocks make
the claims race and leave a thread without a pair to merge in both levels; two
chunks make `lastMerge` do its work. Two processes are the least that can save
behind each other's back; one record and the place behind it are two things to
lock, so that locks can be taken in both orders, and two declines are enough for
a circle of waiting processes (`LockFails` fires). The two contents are the one
that operators enter and the one that nobody entered.

In `pq_signals` two entries (`MaxEntries`, a bound of the model only: the code does
not check its counts) let a process run beside another, or beside an entry of a
failed fork, and a third beside both: `p-` removes the entry at once, while the
signal may arrive as late as it likes. Two slots fill, wrap and block the
producers. One producer's `sem_wait` restarts and the other's does not. In `fs_sessions` two
clients are the least that can take over each other's descriptor number or
directory; two commands are a cd and a list, a file and a command after it, or a
command of each; "/r/a" lies one level below the start and holds the file whose
name starts with "done". In `cs_reports` five alarms are more than a report
needs and fit into the reset as well as around it. In `cl_children` two slots
(`MaxChild`, 50 in the code) make first and last different, the third child takes a
slot that was used or is the one too many, and forks may fail at any time.

Fairness. In CondQueue each worker has strong fairness: Linux wakes a waiter of
a futex at each unlock, so a thread that again and again finds the mutex free
gets it, and the scheduler runs every runnable thread. The operator presses no
key under any obligation. `ConsumerServed` and `ProducerServed` are stated for
at most two threads of a kind: `pthread_cond_signal` may choose the same two
among three for ever. In ParallelSort every enabled step of a thread, the
barrier and main is weakly fair. In SharedRecords the steps that a process does
by itself have strong fairness: the kernel wakes the waiters of a lock when it
is released, so a process that finds it free again and again gets it. Operators
need not type, so `LockGranted` excludes a question that stays unanswered. It is
stated for two processes: two readers that relieve each other may keep a writer
waiting for ever. In ProcessQueue, FileServer and ChildList weak fairness is
enough: every process and thread that can run does, and signals arrive; nobody
presses a key, types a command or connects under any obligation. A producer that
waits for the mutex needs no more, because the others soon run out of `empty`
tokens, which nobody posts.

Deadlock is checked except where the program stops: in `sq_*`, because
`discrSize` waits for a token with the mutex held (see findings), in `pq_signals`,
because after `BufferSize` messages nobody posts `empty`, in `fs_sessions` and
`cl_children`, because the server, the clients and the parent end.

## 4. Theorems

CondQueue, for any sets of threads and messages, any sizes and any number of
cancellations:

* `TypeCorrect`: `Safety => []TypeOK`. `TypeOK` is inductive: that `buffer` has
  exactly `sizeQueue` slots follows from the type lemmas of MessageQueueProofs, for the
  resizes that damage the ring too.
* `LockHasHolder`: `Safety => []NoOrphanLock`. Inductive together with
  `TypeOK` over the kinds of step (`StepKinds`): a step that locks puts its
  thread inside, a step that leaves frees the mutex.
* `MutexExcludes`: `Safety => []MutualExclusion`. Not inductive alone: nothing
  in it says that a thread that runs its cleanup handler has been cancelled.
  `Uncancelled` adds that while `cancels = 0` there is no target and no thread
  is on its way out.
* `RingStaysInShape`: with `BoundaryResize = FALSE`, `Safety => []QueueShape`.
  `QueueShape` speaks of moments when the mutex is free and says nothing of the
  steps between lock and unlock. `RingInv` adds what holds inside: while a
  consumer is about to move `head` the ring is in shape from the next slot on
  (`ShapeInside`), and a producer that is about to write has room and a message
  (`RoomInside`). Mutual exclusion reduces each step to one lemma about `Ring`:
  `WriteShape`, `PutShape`, `TakeShape`, `GrowShape`, `ShrinkShape`.
* `ImplementsBoundedQueue`: with exact resizes and no cancellation, as in
  `cq_fifo`, `Safety => ImplementsQueue`. The mapping takes the contents from the
  next slot on while a consumer has copied its message but not moved `head`
  (`Taking`). Each action is an abstract put, get, resize or nothing: the copy
  into the slot behind the last one appends (the contents lemmas of
  MessageQueueProofs), the copy out of the first takes the head, a move of an
  index changes nothing. `Handed` adds that a consumer has nothing in `msg` before
  it takes a message. `QueueUntilCancelled` says the same of every
  program up to its first cancellation.

SemQueue, for any finite set of workers (`FiniteAssumption`: tokens are counted):

* `TypeCorrect`: `Spec => []TypeOK`, and `MutexExcludes`:
  `Spec => []MutualExclusion`, along the lines of CondQueue.
* `TokensAreConserved`: `Spec => []TokensConserved`. `TokenInv` counts the
  workers that hold a token (`Holding`) by `Cardinality`; each step changes that
  set by at most the thread that moves, and one semaphore by one. A cancelled
  thread leaves the set without a post, which is why the sum may only fall.
* `RingStaysInShape` and `ImplementsBoundedQueue`: with exact resizes,
  `Spec => []QueueShape` and `Spec => ImplementsQueue`. There is no `countMsg` to
  test here, so that a producer has room follows from the tokens: the slots that
  are stored, the producers with a token and `empty` together are `sizeQueue`.

ParallelSort, for any number of threads, blocks, chunks and records, with at
least as many blocks as threads:

* `RecordsAreNotShared`: `Spec => []NoSharedRecords`. `ShareInv` says that the
  barrier and the joins keep all threads in one phase (`PhaseInv`), that a block
  somebody sorts is marked and has one owner (`BlocksShared`), and that all
  threads merge the same level and go through its pairs by steps of `ThreadNum`
  from their own number (`LevelShared`), so two never meet in a pair
  (`TurnsApart`) and different pairs do not overlap (`PairsApart`).
* `SortTypes` and `HalvesAreSorted`: `Spec => []TypeOK`, `Spec => []HalvesSorted`.
  `DataInv` relates the file to the place of every thread: while the threads
  sort, a marked block that nobody works on is sorted (`BlocksSorted`); while
  they merge, all parts of the level that nobody has merged yet are sorted, each
  thread has merged the pairs that it has passed, and `temp` of a thread about to
  copy back is the merge of its pair as the file still has it (`LevelMerged`).
  When all wait at the barrier every pair was some thread's turn (`TurnsCover`),
  so the next level has sorted parts (`LevelDoubles`). This holds for any number
  of blocks: an odd last one is left out of the level above.
* `NoRecordIsLost`: `Spec => RecordsKept`, an action property: no step changes how
  often a key is in the file. It needs `DataInv`, because the copy back restores
  what it overwrites only as long as nobody has changed the pair since `temp`
  was filled.
* `FileIsSorted`: `PowersOfTwo /\ Spec => []SortedAtEnd`. `PowerInv` adds that
  the parts of a level fill the chunk (`LevelFull`), that chunks which are done
  are sorted, and the same for the last merges, of whole chunks. `PowersOfTwo`
  says that the numbers of blocks and of chunks can be halved down to 1 without
  a remainder, as the 4 blocks and 2 chunks of `ps_sort` can. The code does not
  check it and does not sort without it (section 5).

These rest on what `merge` and `qsort` return, proved for all inputs.
`MergedAscending` and `MergedKeepsCount`: `Merged(a, b)` is in order when both
halves are, and has each key as often as both together; `MergedType`: it has as
many records, so no index runs out of its half (`IndexInHalves`).
`SortedAscending` and `SortedKeepsCount` say the same of `Sorted`, which puts at
each place the key of that rank (`SortedRanks`). The induction theorems of the
library cannot be used here, so `AllNaturals` derives induction over a set of
numbers from the least counterexample (`LeastNatural`), and each proof states
the set. Before it was proved, TLC checked the conjunction of the three
invariants on the instance of `ps_sort`.

SharedRecords, for any set of processes, any number of records and any contents:

* `TypeCorrect`: `Safety => []TypeOK`. A process that is about to read a record
  after `g` has a number below `Size` (`GetInRange`), otherwise it could read
  what is absent.
* `NoLostUpdate`: `Safety => []NoBlindOverwrite`. The reason is the lock:
  `LockInv` says that a write lock excludes every other lock on the record
  (`Exclusive`) and that a process has the locks its place in the code needs
  (`HeldWhileSaving`, `HeldWhileReading`). Then `TmpIsFile`, that from the
  comparison on `tmpRecord` is what the file has, is inductive.
* `PrintIsConsistent`: `Safety => []PrintsOneState`, from `LockInv` and
  `PrintInv`: nobody writes while somebody prints.
* `LocksReleased`: `Safety => []NothingHeldAtMenu`. `HeldInv` says which locks
  each place in the code may hold as long as nobody declined.
* `NobodyWaitsInACircle`: `Safety => []NoDeadlockError`. As long as nobody
  declined, a process that waits for a lock holds none (`HeldInv`), so it blocks
  nobody (`WaitingBlocksNobody`) and no circle can close.

ProcessQueue, for any number of processes and slots and any signals:

* `MutexExcludes`: `Spec => []MutualExclusion`. Not inductive alone; `MutexInv`
  adds that the semaphore has its token only when nobody is inside
  (`TokenMeansFree`), as long as no signal cut `sem_wait(&mutex)` short.
* `TypeCorrect`: `Spec => []TypeOK`. That `full` stays below `BufferSize` is a
  matter of counting, and holds even when two producers write at once: `empty` is
  never posted, so all producers together post `full` at most `BufferSize` times.
* `TokensAccounted`: `Spec => []TokensAccountedFor`. `RingInv` relates the number
  of parts written (`Written`), the producers before, between and after their two
  copies, and `empty`; parts are written in order from 0 on, so none twice.

ChildStats, for any `MinTimes` and any alarms:

* `ChildTypeCorrect`, `ReportsAreFull`, `SamplesAreShownOnce`: `ChildTypeOK`,
  `ReportIsFull` and `NoSampleTwice` always hold. The test is of `countTimes`,
  the report is of the four counters, so `TimesAreCounted` is needed: outside
  the reset `countTimes` never exceeds their sum. `ReportWillBeFull` carries
  that through the reading of the arguments, during which alarms go on;
  `ResetSoFar` says what the reset has cleared.

ChildList, for any children and any length of the list:

* `TypeCorrect`: `Spec => []TypeOK`: `childCount` leaves the list in one place only, the
  `+` that is one too many, and no other index does. `SlotsHoldChildren`:
  `Spec => []SlotsAreChildren`. Both from `ListInv`. `SlotsAreChildren` speaks of
  the menu only; `ListKept` extends it to every place in the code: `Upto` is the
  last slot that is filled there, and a child that was forked but not stored yet
  is in `chpid`. `Places` says what each place knows of `childCount` and `index`,
  and that a parent that has begun to end does not return to the menu, which is
  why SIGINT may come at any moment.
* `PermissionsAnswer`: `Spec => []PermissionAsAsked`. `AnswerInv` says what a
  child that still has signals on their way will have when they have arrived:
  without a race at most one of SIGUSR1 and SIGUSR2 is pending, and it is the one
  that was asked for; without one pending the flag already is.

FileServer, for any finite set of clients, any directories, files and commands:

* `TypeCorrect`: `Spec => []TypeOK`. With it, `NumbersInv`: a number refers only to
  a connection whose thread got that number from `accept`. A client whose thread
  is in the backlog has no number, so of as many numbers as clients at least one is
  free (`FreeNumber`, by the pigeonhole principle) and an `accept` that succeeds
  takes the least of them.
* `ClientsInStep`: `Spec => []InStep`. `InStep` speaks of the prompt only.
  `Session` says for every place in which a client and its thread can be together
  (`Together`) what is on its way between them: one command and nothing back
  (`Asked`), or no command and one answer (`Answering`), or entries of a list, in
  whole pairs of units, with "done" behind them. It holds for every client that
  has its number to itself (`Exclusive`), and no step makes a number exclusive
  again once it is not (`ExclusiveThread`, `ExclusiveClose`), so that other
  threads' steps cannot disturb a session (`SessionOfOthers`).
* `QuitsDoNotEndTheServer`: `Spec => ServerStaysUp`, an action property: a step that
  ends the server is a failed `accept` or `pthread_create`, or one of the excuses has
  happened. `LifeInv`: while nothing has
  happened that the property excuses (`Sound`), every thread that serves a client
  has its number to itself, a client that is gone has a thread that took "quit",
  and every thread's directory is the absolute path of a directory
  (`TempPathDirectory`: also after "cd .."), whatever `cwd` is. Then no `send` and
  no read of such a thread can end the process.

Assumptions used: `ThreadAssumption`, `BoundAssumption`, `FiniteAssumption`,
`RecordsAssumption`, `QueueAssumption`, `ServerAssumption`, `ScriptsAssumption`,
`StatsAssumption`, `ListAssumption`, `SortAssumption`, `FilesAssumption`; and
where a theorem says so `BoundaryResize = FALSE` (the resizes that damage the
ring are left to `cq_resize`), `MaxCancels = 0` and `PowersOfTwo`.

Only model-checked: liveness (`ConsumerServed`, `ProducerServed`,
`DestroyReturns`, `Terminates`, `LockGranted`, `MutexIsPassedOn`, `Answered`),
which need fairness and ENABLED.

## 5. What the code does not do

PROJECT.json lists the findings. In short: `cleanup_handler` frees a mutex that
is not the cancelled thread's; `discrSize` and `incremSize` mishandle full and
boundary contents; in lab5_1.c a cancelled consumer loses a token and
`discrSize` can stop the program; `generateRandSize` may never return; the sort
is right only for powers of two; `saveRecord` keeps its lock when the operator
declines, saves a record that was never entered, and writes behind the end of
the file.

In Lab4 a consumer never takes a message, a producer told to end takes its token
along, and a `sem_wait` cut short by a signal breaks the mutex for good. In Lab8
a client that ends without `quit`, a command without an argument, an absolute
path, a missing info.txt or a failed `accept` ends the server for everybody; the second `close` may
cut off another client; a relative start directory stops working at the first
`cd`. In Lab3 an alarm during the reset is counted twice, the timer may find a
slot that is not filled yet, permissions may arrive in the wrong order, and a
SIGINT during `-` may wait for a child that is gone. In Lab3 and Lab4 a failed
fork is stored as the process id -1, which kill takes for everybody, and in Lab5 a
failed `pthread_create` leaves an entry that a later `p-` cancels. The lists of
Lab3, Lab4 and Lab5 are filled without a check of their length. Several
properties are stated for executions in which none of these has happened yet;
each names its exception (`interrupted`, `mishap`, `offScript`, `carried`,
`raced`, `forkFailed`).

## 6. Plan

1. (done) Lab5 with condition variables: model, runs, type, exclusion and shape
   theorems.
2. (done) Lab5 with semaphores: model and runs. (done) Lab6: model and run.
3. (done) Lab7: model, runs, type, lost-update, print and lock theorems.
4. (done) Lab8: model and run. (done) Lab4: model, run, exclusion theorem.
   (done) Lab3: both models and runs, theorems about the reports and the list.
5. (done) Theorems: tokens, shape and refinement of SemQueue, refinement of
   CondQueue, tokens of ProcessQueue, permissions of ChildList, absence of circles
   in SharedRecords, sessions and life of FileServer.
6. (done) Theorems about ParallelSort: no two threads share records, merges start
   from sorted halves, no record is lost, the file is sorted at the end.
7. Lemmas behind the liveness properties, as far as they are safety: what keeps a
   waiting process able to go on.

## 7. Not modelled

createIndexFile, readBinaryFile, createFile, readFile: they write or print a
file and keep no state. Lab3's functions.c reads a key. Lab1 and Lab2 are
sequential: what could go wrong there is string handling. test.cpp belongs to no
program. The bytes of messages, `countAdd` and `countGet`, and all output are
left out of the queue models: no other thread's behaviour depends on them. The
same goes for the texts and buffer lengths of the file server, except where they
decide what a client or a thread does next.
