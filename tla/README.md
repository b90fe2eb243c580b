# Verification of aptu-os

aptu-os is the repository of an operating systems course: one worked example by
the teacher (`samples/rr`) and the students' answers to the exercises (`labs/1142`,
`labs/504`, `labs/2014`, one directory per student, one subdirectory per exercise).
It is not one program but many small ones, which share no code and do not call each
other. What they have in common are the subjects: scheduling, memory, file systems,
threads, processes and sockets.

This directory models the programs whose behaviour is hard to test. For each subject
one program stands for its exercise; where several answers to an exercise synchronise
in different ways, each way has a model of its own.

- [Inventory](#inventory)
- [Modules](#modules)
- [Models and code](#models-and-code)
- [Runs](#runs)
- [Bounds](#bounds)
- [Fairness](#fairness)
- [Findings](#findings)
- [Proofs](#proofs)
- [What is only model-checked](#what-is-only-model-checked)
- [What is not modelled](#what-is-not-modelled)
- [Plan](#plan)

## Inventory

| Component | Code | State | Operations | What is hard about it |
|---|---|---|---|---|
| Round-robin scheduler | `samples/rr` | four task lists, clock, quantum, each task's time | tick, arrival, I/O burst, dispatch | order of list operations within a tick, the index after a removal, a task ticked twice |
| Sieve with a mutex | `labs/504/sergeev.pavel/06` | flags, next number, mutex | take a number, cross off, join, report | flags read and written outside the mutex |
| Sieve with negated numbers | `labs/504/mikushkin.marat/06` | vector of numbers, done flags | claim by negation, zero, poll, print | no synchronisation at all |
| Sieve with ranges | `labs/504/moskvitin.maxim/06` | bit array, ranges | mark, join, print | bits of one byte written by two threads |
| Compacting allocator | `labs/504/krivohatskiy.sergey/03` | buffer with headers, list ends, counters | alloc, free, defrag, info | headers are moved while they are being followed |
| Shared-memory dialogue | `labs/1142/Vinogradow.Aleksey/3` | one shared int, two processes | write, clear, end mark, remove | one cell is data, signal and end mark, without a lock |
| File system with blocks as files | `labs/2014/obedin.nikolay/3` | on disk: metadata, bitmap, one file per block; in a command: tree, bitmap, stream buffers | init, format, ls, export, import, mkdir, move, copy, rm | a command that fails or is killed half-way or between two lines of metadata, a full disk, blocks freed twice or never, a directory copied into itself |
| Chat server | `labs/1142/Vinogradow.Aleksey/9` | table of sockets, the last user's number, a thread per client | accept, relay, leave, stop | the table and the number are shared without a lock, recv returns parts or several messages |
| Other chat servers | `labs/1142/Ivanov.Igor/5` | compacted table of sockets | accept, relay, leave | arguments handed over by address |
| Other file systems | `labs/2014/turaev.marat/3`, `labs/504/aleksandrov.yuriy/05_filesystem` and others | image file: blocks, free list, directories | the same nine commands | directories in blocks |
| Other sieves, schedulers, allocators | see `PROJECT.json` | as above | as above | other answers to the exercises of the first five rows |
| Address translation | `labs/504/sergeev.pavel/04` and others | tables read from a file | logical to linear to physical address | bit fields, privilege and presence tests |
| Traceroute | `labs/504/krivohatskiy.sergey/07` and others | time to live, socket | probe, answer, timeout | late and foreign answers |
| Command interpreters | `labs/504/sergeev.pavel/01` and others | none between commands | ls, ps, kill, pwd, exec | system calls only |
| Boot sectors | `labs/2014/turaev.marat/6` and others | none | print a text | BIOS calls only |

The correctness properties of the modelled components are:

- **Scheduler.** No task is lost or doubled; the CPU is not idle while a task is
  ready; no task keeps it longer than a quantum; no ready task waits for more than a
  quantum of each other task; no task gets ahead of the clock; all tasks finish.
- **Sieves.** No prime is ever crossed off; every composite is; the output comes after
  the last crossing and is exactly the primes; the program ends.
- **Allocator.** Between any two steps the list is well formed and every block has its
  memory to itself; between requests the blocks are compact; a request is refused only
  when the memory that is left is too small.
- **Dialogue.** What B writes A sees, once and in order; the end mark is not
  overwritten; both processes end.
- **File system.** No block belongs to two files or to a file and the free blocks;
  a command changes what it names and nothing else, or nothing at all when it fails;
  what it writes before it is sure to succeed lies in free blocks; it ends. A kill
  leaves the store as before or as after, but while metadata is written it may lose all of
  it or cut off a part, and never changes what is left.
- **Chat server.** Everyone hears the others, in order, once, and never himself; a
  slot belongs to the client in it until he has gone; nobody's message is lost because
  the sender leaves at once.

The programs interact only through the operating system. Within a program, the
components interact like this: the scheduler's main loop drives the lists and
the tasks, which are passive; the sieves' threads share an array and
are started and joined by main; the allocator is called by a command loop; the two
processes of the dialogue share one int and are forked and reaped by main; the commands
of the file system are processes one after the other that meet only on the disk; the
chat server's threads share the table, and its clients are processes beyond a network.

## Modules

| Module | What it is |
|---|---|
| `RRList` | the array list of `list.cpp` as operators on sequences |
| `RRTask` | a task's descriptor, its tick, the tests for its end and its bursts |
| `RoundRobin` | the scheduler, EXTENDS the two above |
| `CpuLifecycle` | abstract: the process state diagram (input, ready, active, io, finished) |
| `MCRoundRobin` | task tables for the scheduler's runs |
| `RoundRobin_proofs` | theorems about the scheduler |
| `Primes` | divisors, primes, the integer square root |
| `PrimeSieve` | abstract: cross off composites only, report once when all are |
| `SieveMutex` | sergeev's sieve |
| `SieveMutex_proofs` | theorems about it, up to full correctness |
| `SieveNegate` | mikushkin's sieve |
| `SieveNegate_proofs` | theorems about what its race cannot do |
| `SieveRanges` | moskvitin's sieve |
| `SieveRanges_proofs` | theorems about what its race cannot do |
| `BlockStore` | abstract: numbered blocks and a sum of sizes, no addresses |
| `Allocator` | krivohatskiy's allocator |
| `Allocator_proofs` | theorems about it, up to the refinement of `BlockStore` |
| `SharedCell` | Vinogradow's two processes |
| `SharedCell_proofs` | theorems about them |
| `FilePaths` | paths, contents of files, what is met in place of them |
| `FileStore` | abstract: a tree of named contents, commands that take effect as a whole |
| `FileSystem` | obedin's file system, EXTENDS `FilePaths`, implements `FileStore` |
| `FileSystem_proofs` | the theorems about it |
| `MCFileSystem` | the sets of paths for its runs |
| `ChatServer` | Vinogradow's chat server with its clients and the network |
| `ChatServer_proofs` | theorems about it |
| `MCChatServer` | who sends how many messages in its run |

The scheduler, the file system and the chat server have an MC module: some of their
constants are functions, sequences or sets of them. The constants of the others are
numbers and sets of numbers, which their .cfg files give directly.

Definitions named `X_Suffix` are the mutants of `X`: plausible mistakes in that piece
of code. Nothing uses them in the specification; each property is known to fail when
one of them takes the place of the definition it is named after (the list is in
`PROJECT.json`).

## Models and code

**Scheduler.** The variables have the names of the globals in `main.cpp`; a list is
the sequence of the first `size` pointers of its array. An action is one turn of a
loop or one part of `schedule()` between two loops, in the order of the code: `Schedule`
(count the quantum down), `Admit`/`NotYetArrived` (`checkInputQueue`), `StartPing`,
`PingActive` and `PingIo` (the two loops of `pingTasks`), `JustWork` or
`LeaveCpu` and `OccupyCpu` (the dispatch), `EndOfTick` (the end of the loop in
main). `pc` says which comes next. `Extract` does what the `memmove` in `list.cpp`
does, which is not what its name says unless the item is the first or the last.
`currentTime` and `table` are the tasks' fields; `table` is chosen in `Init`, in place
of the constants in `input()`. `since` is a history variable: the tick at which a
task entered the list it is in. `CpuLifecycle` is the abstract view; the refinement
mapping reads a task's state off the list it is found in.

**Sieve with a mutex.** Every access to shared memory is an action: taking and
releasing the mutex, one turn of the search (`Skip`), reading the found number
(`Take`), incrementing (`Unlock`, in which the release is included because nobody else
can see `next_prime` in between), the second test of the flag (`Test`), one
crossing (`Cross`). main starts and joins one thread per action. What is
printed is collected in `reported`. `PrimeSieve` is the abstract view: the crossed-off
numbers are those whose flag is 0.

**Sieve with negated numbers.** `numbers[k]` holds k + 1, its negation or 0, as in
the vector. The Makefile builds without optimisation, so `numbers[i] = -numbers[i]` is
a load (`LoadNegated`) and a store (`StoreNegated`) and each number of the walk is read
once (`Read`). Loads and stores of an aligned `long` are indivisible on the machines
the course uses; that the race is undefined behaviour for the C++ standard is thereby
reduced to the interleavings of these accesses.

**Sieve with ranges.** `data` gives for each byte of the bit array the set of numbers
marked in it. `set()` is a `Load` and a `Store` of the whole byte. The ranges are
computed as in main, with its rounding. The thread that reads a bit in `get()` reads
it in one step.

**Allocator.** `mem` maps each address to a cell: a header or one unit of contents,
which the user of the block has filled with the block's number. `memmove` (`Moved`)
copies cells, so that a header is moved with the links it has at that time and
what is left behind stays readable, as in the code. A header takes `HeaderSize`
cells, of which the first carries its fields. `Follow` walks the links from
`first_full`. alloc and the unlinking part of free are one action each, since nothing
runs concurrently; every turn of defrag's loop is an action because the invariants
are claimed within it too. `answer` is the last request and its result. `BlockStore`
has a sequence of (number, size) and no addresses; defrag is stuttering to it.

**Dialogue.** Each read of `*adr` in A's loop is an action (`While`, `IfNumber`,
`IfNotEnd`), as are naming the number (`Wake`) and clearing it (`Clear`). B's
`Draw`, `Write`, `Sleep`, `End` are its reads and writes. Both object files are
built without optimisation (makefile), so the reads are not merged. The sleeps have no
length: any order of the two processes is allowed. `sent` and `seen` are history
variables.

**File system.** A command is a process of its own (`codegen.cpp` generates the nine
mains): `Command` is what it does up to its first write to the disk, with all tests of
the command in its guard. A command that throws before that has no step, since it
leaves nothing behind. import and copy go on block by block (`FlushBlock`) and file by
file (`NextCopy`, `FinishFile`), with the two ways to fail (`FlushFails`, `ReadFails`)
and the block that the destructor of the stream buffer writes after all checks. At the
end the destructor of `filesystem` truncates and writes metadata (`TruncateMetadata`,
`WriteMetadata`), then the bitmap; an error goes through `Throw`, which writes
neither. `metadata` and `used` are the two files, `Torn` when the file is missing or was
truncated and not written; `m_root` and `m_bitmap` are the fields of the same names.

`operator<<` of directories and files ends every line with `endl`, which flushes it, so
metadata is written line by line, as one step each: `WriteRoot`, whose line says how many
entries follow, `WriteDir` and `WriteFile`. A directory's subdirectories come before its
files and a directory that has been begun is finished first (`InTurn`). `metadata` is at
each point the tree that its lines name. `Crash` kills the process wherever it is, and what
it may leave is the following (the history variable `ahead` says which):

| Killed | On the disk | `ahead` |
|---|---|---|
| before metadata is truncated | the tree and bitmap as they were; blocks the bitmap has as free may be written | `"none"` |
| before the first line | nothing: not formatted | `"none"` |
| between two lines | a part of the new tree, entries of no name for what is missing, the old bitmap | `"part"` |
| between metadata and bitmap | the new tree, the old bitmap | `"all"` |
| before the bitmap is written | the new tree, no bitmap | `"none"` |

What a command does with a tree that is cut off is left out (`Mounts`): the reader leaves
time, start and size of an entry without a name uninitialised, and the next destructor writes
them back, as a line that begins with a space and which a third reader takes apart in
another way. From there only init and format have steps. The tree that is newer than its bitmap is
well-defined, but files are then marked as free, and the next import overwrites them.
`StaleMounts` says whether commands go on from there; if not, init or format comes first.

Sizes are counted in units of `sizeof(block_num)`, so that the link at the end of a block is
one unit and `DataSize` is `BlockSize - 1`. `Read` walks the links as
`ifilebuf::underflow` does, and meets `Unopened` where a link says that there is no
block. A block that a killed format has emptied, but that a file still uses, makes the
reader use bytes that were never read: `Undefined`. What a command does with them is left
out (`IsDefined`); that it appears in `Read` at all keeps such files from counting as
whole. A tree without a root (init, or a first command on a new disk) is written as a
line the reader takes for an empty tree with a name that is made of the next number:
`ToWrite`. `lost` and `losing` are history variables: blocks that are marked but that
no file has any more, because import or mkdir replaced what was there. `out` is the one
`ofilebuf` that is open, `queue` the files that `copy_dir` has still to copy; the order of
the files in a directory is left open, although the code has it by name. What is
removed or copied from below a directory comes after the files in it (`CopySubdirs`),
with the list of subdirectories taken then, which is what stops a directory that is
copied into itself. A path that would go beyond the bound `Paths` is not made. Moving or
copying "/" is refused ("source file or dir not found") and has no step. To move a directory,
`is_parent` walks up from the destination to the root and on to the root's `m_parent`, which
is not set when the tree was read from metadata (`directory.hpp:24`). If it is null by chance,
the directory is moved (`MoveDir`); if not, the process may end or hang there, before it has
written anything, which is the same as no step.

**Chat server.** A client stands for its connection and for the thread created for it.
`acceptor` is the accepting thread: `Search` is one turn of its search, `Accept`,
`Announce` (new_user) and `CreateThread` its next three statements. `thread[c]` is
`potok2`: `TakeNumber` reads new_user, `CallRecv` evaluates `users[my_nom]` and calls
recv, and `Receive`, `ReceiveNothing`, `ReceiveFails` are its ways to return, any time
later. send_all is one step per slot. It reads `users[i]` twice; a slot that is freed in
between makes it send to -1, which does nothing, and one that is freed and taken
in between goes to the new client; both are also outcomes of one read at the later
time, so the reads are merged. Of the network the model keeps that it delivers what
is sent in order, without its boundaries (`Receive` takes any number of messages; a
single message is not split), and that it notices sooner or later that a client has gone:
`closed` becomes `broken` after a send to it, and the next send ends the process by
SIGPIPE (`SendBreaks`), which nothing in the code ignores. A thread in which recv returns
0 calls it again for ever, as in the code. Behind the table the search reads
memory that is not its own: there the accepting thread has no step. `mixed` is a history
variable: some thread has read a number from new_user that was not its client's. Two
threads then serve one slot and nearly nothing can be said; the properties that need
right numbers say so.

## Runs

Passing runs:

| Run | Shows |
|---|---|
| `rr_tasks` | three tasks of several lengths, starts and bursts, of which at most two use the I/O device: all safety properties, the refinement of the state diagram, and that all tasks finish |
| `sieve_mutex` | three threads, numbers below 26: output, refinement of the abstract sieve, the invariants behind them, termination |
| `negate_three` | three threads, ten numbers: no prime is lost, only walked-over numbers can come back, termination |
| `ranges_three` | three threads up to 40: no prime is marked, marks are lost in shared bytes only, termination |
| `allocator` | all request series in a memory of ten units: links, contents, compactness, info, refinement of the abstract store, every free returns |
| `shared_cell` | eight rounds: no number lost, the end mark stands, both end |
| `fs_commands` | all series of commands on six paths and three blocks, killed at any point: tree and bitmap agree, nothing that is marked is overwritten, refinement of the abstract store, every command ends |
| `chat_server` | two clients who talk, leave and come at any time on two slots: no echo, order, slots, delivery |

Runs that refute a claim of the code's authors are described under
[Findings](#findings): `rr_io_order`, `negate_race`, `ranges_race`, `fs_tail`.

To run one: `tlc -workers 2 -config rr_tasks.cfg MCRoundRobin`; `PROJECT.json` names the
module of each configuration. The largest, `fs_commands`, takes about two and a half minutes.

## Bounds

- *Scheduler.* Two sets of task tables. `OrderedTables`: three tasks of length 2 or 4 that
  start at 0 or 2 in the order in which they were added, at most two of them with
  I/O. `PairTables`: a first task that has finished when two tasks of length 1, 3 or 6
  arrive at 4 or 6 in any order. Under a quantum of 2 the tasks are preempted
  zero, one or several times; the bursts are one at once, one of length 0, one that ends
  just before the task and two in a row; tasks arrive together, during a quantum, and
  while the CPU is idle. `MaxCounts` = 40 is above the longest run, so that
  `AllTasksFinish` is reached by finishing and not by the limit; `MaxListItems` = 3 is
  never exceeded, just as 10000 never is. Bursts that reach the end of their task are
  left out: the code then keeps the task in `g_io` until the clock stops, because
  `tick()` no longer advances it. Where three tasks are in I/O at the same time, or the
  second of three waiting tasks arrives first, the error of `extract` shows
  (`rr_io_order`), and these tables avoid both.
- *Sieve with a mutex.* N = 26 has the divisors 2, 3, 4, 5, of which 4 is handed out
  only if nobody has crossed it off, and 25 as the last square below the limit. Three
  threads are one more than is needed for two to race and a third to overtake.
- *Sieve with negated numbers.* N = 10 has the indices 0..3 to walk over, so 4 (index 3)
  is the composite that can be negated back.
- *Sieve with ranges.* Limit 40 with three threads gives the ranges 0..15, 8..23 and
  23..40: bytes 0, 3 and 4 belong to one thread each, bytes 1 and 2 to two (byte 5 holds 40,
  which is not printed). The second and third threads look their divisors, up to 6, up in
  byte 0 while the first may not have marked 4 and 6 yet. A limit of 16 with two threads is the
  smallest with a race.
- *Allocator.* Ten units hold at most five empty blocks or three of size 1; sizes 0, 1,
  3 leave gaps that are smaller than, equal to and larger than what is moved, so moves
  overlap and do not; 20 is always refused. `MaxBlocks` = 4 bounds the number of
  successful allocations in a run, `allocated_blocks` being a counter without limit.
- *Dialogue.* `Rounds` = 8 as in the code; two values tell a number from its successor.
- *File system.* Three blocks of four units. A file of 5 units leaves room in its second
  block, one of 6 fills its second block up to the link, so each takes two blocks, and a
  second file or a copy runs out of blocks after one: that is a file cut short, or
  an error in `FlushBlock` or `NextCopy`. Sizes whose tail runs into the link are for
  `fs_tail` (4 units in a block of 4). The paths are two directories, of which one can hold
  the other's name and a directory with a file: enough to move and copy a directory with
  what is in it, also into itself. A process may be killed at every point of a
  command. After a kill between metadata and bitmap only init and format follow
  (`StaleMounts` is FALSE; with TRUE, `WritesOnlyFree` and `TypeOK` are theorems).
  `HostSizes` leaves out the empty file, see below.
- *Chat server.* Two clients, two slots, two messages and one. Two clients are what a race
  on new_user, a slot freed during a walk, a slot taken again and an exit behind another
  message need. With three clients the race of two threads on one slot could be joined by
  an innocent one, which the properties do not speak of.

## Fairness

All programs run on an operating system that schedules every runnable thread or process
sooner or later, so each thread, each process and main has weak fairness of its own
(`WF_vars(Thread(t))`, `WF_vars(A)`, `WF_vars(Main)`). No strong fairness is assumed:
a thread that waits for the mutex of `SieveMutex` may be passed over again and again,
but the others run out of numbers. The scheduler and the allocator are sequential; weak
fairness says that a single thread does not stop between two statements. For the
allocator it covers `Defrag` only: nobody has to make requests, but a call that has
begun goes on. For the file system it covers `Progress`: a command that has been started
runs on unless it is killed, and nobody has to start one. For the chat server it covers the
accepting thread's own steps and each client's thread; nobody has to connect (`Accept`
has no fairness), send or leave. Sleeps (`SharedCell`) end.

## Findings

- `rr_io_order` (code bug, `samples/rr/list.cpp:40`). `extract` removes the item
  with index idx by `memmove(data + idx, data + 1, ...)`; the source should be
  `data + idx + 1`. For the first and the last item the two are the same. When three
  bursts overlap and the middle one ends first, the finished task stays in the I/O
  list while it is also put in the ready list, and the task behind it disappears.
  `ConservedIfExtractsAtEnds` shows that this is the only way to lose a task.
- `negate_race` (code bug, `labs/504/mikushkin.marat/06/sieve_multith.cpp:25`). With two
  threads a negation can overwrite a zero, and 4 is printed as a prime.
- `ranges_race` (code bug, `labs/504/moskvitin.maxim/06/bit_array.cpp:35`). The threads'
  ranges share a byte, into which both write without synchronisation although the report
  says that none is required; a composite can be printed.
- `fs_tail` (code bug, `labs/2014/obedin.nikolay/3/filebuf.cpp:61`). The writer puts a link
  behind every `block_size - 4` bytes, the reader expects one only if more than
  `block_size` bytes are left. A file whose last part is between `block_size - 3` and
  `block_size` bytes long comes out of export with the link in place of its last bytes,
  and the diff of `tests/test_export.sh` would fail for it.

What was met in passing, and which the properties take into account rather than claim
away:

- *File system.* The last, partial block of a file is written after all checks: on a full
  disk import says nothing and cuts the file short, while `tests/test_import.out`
  expects an error for a file that is too big. `RefinesStore` shows that
  such a file is never taken for a whole one. An empty file gets a block that is not marked,
  and shares it with the next file. Blocks of what import or mkdir replace stay marked
  until the next format (`lost`). Two kinds of kill leave a store that reads as formatted
  and that the code does not recover from. Between two lines of metadata, directories and
  files are missing, entries without a name stand for them, and the old bitmap marks blocks that no
  file has; `BlocksAgree` and `RefinesStore` say what is left. Between metadata and
  bitmap, files have blocks that count as free, and the next import overwrites them. Moving
  a directory reads a pointer that is not initialised.
- *Chat server.* The number in new_user can be overwritten before the new thread reads it
  (`mixed`). "exit" that arrives together with another message is not seen, and the
  slot of a client that just ends is never freed. A second send to such a client ends the
  server. The string `line` is appended to by all threads without a lock; its only reader
  is commented out, and the model leaves it out. A client whose number another thread has
  taken is not served at all, which no property sees: those that could are claimed up
  to the first wrong number only.

## Proofs

The theorems hold for every value of the constants that satisfies the named assumptions
of the modules.

**Scheduler.** Assumptions: the list of arrivals contains every task once and fits the
list's capacity, descriptors have natural fields, the quantum is positive.

- `TypeCorrect`: `TypeOK` is not inductive, since `g_q - 1` must stay a natural number and
  `BackInTime` must not go below zero. The strengthening `IInv` says that `g_q` is at
  least 1 whenever a tick begins, and that only tasks of a positive length are in
  `g_io`, so that the step back takes what a tick has given.
- `CpuNeverIdles` (`WorkConserving`): `IInv` adds that at most one task is active and
  none between `LeaveCpu` and `OccupyCpu`, so that the dispatched task finds its place.
- `ConservedIfExtractsAtEnds`: `NoTaskLostOrDoubled` follows from a condition on the
  calls, `ExtractsAtEnds`: whenever `Admit` or `PingIo` extracts an item, it is the
  first or the last one. One lemma per list operation says what it does to a list
  without doubles; the step lemma has a case per action.
- `TwoTasksConserved`: with at most two tasks the condition always holds, because a
  list without doubles has at most two items. This covers the program as it
  is shipped, for all lengths and bursts its two tasks could have.
- `QuantumIsAccounted`, `WaitIsBounded` and `BurstStepsCancel` (`QuantumAccounting`,
  `BoundedWait`, `NeverAheadOfClock`) are under the same condition, since after a wrong
  `extract` a task is in two lists and has no place of its own in any account. Each step is
  first reduced to what it does to a list (`Takes`, `Puts`, `KeepsOrder`); then
  `TimeInv` is shown for it, which states the three at every point within a tick and not
  only at its end. `QuantumInv`: `g_q` and the ticks of the active task make up the quantum.
  `WaitInv`: the wait so far, a quantum for each task ahead and what is left to the active
  one are together at most a quantum per other task; so a dispatch, which restarts
  `g_q`, pays with the place that it frees. `ClockInv`: a task is one tick
  further in the part of a tick in which it has been advanced (`BeforePing`, `Pinged`), and
  a task in g_io one more, which the step back takes away.
- `BurstsEndInTime` (`BurstEndsInTime`) is a bound on late bursts, from above only: a task
  leaves g_io at most n - 1 ticks after its burst is due, n being the number of tasks.
  With two tasks that is one tick, which it may need when both bursts end together
  (`main.cpp:97`). (That nobody runs ahead is `BurstStepsCancel`.) The time to the end of
  a task's burst and its place in g_io are together at most what has been advanced in this
  tick plus the number of tasks (`BurstInv`), so that a task whose burst is over stands
  where PingIo sees it. This needs tables with `BurstsApart`: a burst ends before its task
  does and a step on the CPU lies between two bursts. Without it a task would have to
  return from g_io and to be put into it again in the same tick. The tables of `main.cpp`
  and of `rr_tasks` satisfy it.
- `FollowsTheDiagram`: under the condition the lists implement `CpuLifecycle`. A
  task's state is the list it is in; each step changes the list of one task at most.
- `TwoTasksOnTime`, `TwoTasksBurstsEndInTime` and `TwoTasksFollowTheDiagram` state all of
  them without a condition on the run for at most two tasks.

The condition `ExtractsAtEnds` is about the run, not the constants. It holds in all
runs of the three-task tables of `rr_tasks` and fails in those of `rr_io_order`.

**Sieve with a mutex.** Assumptions: N >= 2, M >= 1, and the value of the free mutex is
not a thread. The inductive invariant `IInv` is the conjunction of

- `TypeOK`, with `next_prime` at most one above the root, which is where the array is
  read before the bound is tested;
- `LockInv`: a thread in the locked section holds the mutex, and in `unlock` it has the
  number that `next_prime` still shows;
- `WorkInv`: a thread at work has a number below `next_prime`, and its next multiple is
  a multiple by a cofactor not below the number itself;
- `MainInv`: which threads run, and that `next_prime` is beyond the root once a thread
  has returned; the report, once made;
- `NoSharedNumber`, `NoPrimeCrossed` and `NothingForgotten`.

`NothingForgotten` carries the argument. The simple claim "a number below
`next_prime` has been crossed off or somebody is crossing it off" is not
inductive: a thread may skip a when it has been crossed off by a divisor c of a,
and then the multiples of a are the business of the thread that has c, which may
still be on its way. Hence the claim is about all divisors at once: for every a below
`next_prime` that divides k, if k is not crossed off, a thread whose number is
not above a and divides k will still reach k. When a number is skipped, its own
divisor has the witness; when a thread finds its flag cleared in `Test`, the same holds
for a divisor of its number, which is smaller. From the invariant follow `PrintsThePrimes`
(every composite below N has a divisor up to the root, `SmallDivisor`) and
`ImplementsSieve`: the refinement of `PrimeSieve`, by one case for `Cross`, one for
`Report` and stuttering for all others. `SquareRootIsRoot` is proved from
`Primes!SquareRoot` with the least-number principle (`LeastNat`), which follows from the
library's well-foundedness of the naturals and needs no induction.

**Sieve with negated numbers.** Assumption: the vector has at least two numbers. `SafeInv`
says that `numbers[x]` is x + 1, its negation or 0, the last only if x + 1 is
composite, and the same of the copy that a thread is about to store; so whatever a
thread has read, the step with which it zeroes is a divisor of what it zeroes, and
`PrimesAreKept`. `LateNegationsStayBelowRoot` is the other direction: what
is printed and no prime lies where the threads walk. `ClaimInv` says of a prime q
below the root that who finds it negative, or has come past it, can rely on its
multiples beyond the root being zero or in the hands of the one thread that zeroes
them. For primes this works because they are never 0, and the primes suffice because every
composite has a prime divisor up to its root (`LeastDivisor`). `MainInv` says that all
threads have passed the root when main prints.

**Sieve with ranges.** Assumption: there is a thread. `SafeInv`: no byte in the array
or in a thread's hands shows a prime as marked (`PrimesStayUnmarked`), although whole
bytes are stored over others' marks. `MarksInv`: outside the bytes that are in the ranges of
two threads, the byte between a thread's load and its store is the one in the array, and
what a thread has come past with a prime divisor is marked. A thread never passes over
a prime divisor, since no prime is ever marked, in whatever byte it looks it up.
`CoverInv`: the ranges leave nothing out, in spite of the rounding. Hence
`MarksAreKept`: what is printed and no prime has its byte in two ranges.

**Allocator.** Assumptions: headers take up room, sizes are natural numbers. The invariant
`IInv` says that a sequence l of addresses exists for which `Layout` and `Progress` hold:
the links lead along l in both directions (`Listed`), each block ends before the
next begins and holds its number throughout (`Ordered`), the numbers ascend
(`Numbered`), and there are no gaps between requests, or up to `header` within defrag
(`Progress`). While defrag runs `last_full` may be stale, unless no block is left.
With l as a witness nothing has to be computed along the list: `FollowIs` shows that `Follow`
is l, by the least place where they would differ, `LinkedIs` that a list
cannot be longer than the buffer, `UsedIs` that the store's sum is where the last block ends.
`MoveKeeps` is the heart: if a block moves down to an address behind its predecessors,
and the neighbours' links are set, then Layout holds for l with one item lowered, and the
contents are the same; `RelinkMoves` shows that the three writes in defrag, of which the last
reads a link that memmove has just copied, are such a move. The step lemmas say what each
action makes of l and of the contents; the four invariants and `ImplementsStore` follow.

**Dialogue.** Assumption: numbers are positive. `TurnInv` says whose turn the cell's value
makes it: B writes only to a cell it has seen at 0, which A then leaves alone, and A
sleeps and clears only while the cell holds a number, which B then leaves alone.
`SyncInv` says that what B wrote is what A has named, followed by the number in the cell
until A is about to clear it. `NoNumberIsLost` and `EndMarkStands` follow.

**File system.** Assumptions: there is a block, blocks have room for a link and a unit,
`Torn` is no set of blocks, paths are sequences that are closed under the parent, and
the sizes of files are naturals.

`OnlyFreeIsWritten` (`WritesOnlyFree`) is about the bitmap on the disk, which a
command no longer looks at while it writes. `BitmapInv` and `NextInv` tie the two
together: while a command writes, the bitmap in memory contains the one on the disk, and
the next block, if there is one, is not in it. `NextFreeIsFree` says that the search for a
free block finds one (`LeastNat`). A command that writes has read the bitmap, since
without one there is no free block (`BitmapWithRoom`). `OnlyFreeIsWritten` and `TypeCorrect`
hold for both values of `StaleMounts`.

`TypeCorrect` (`TypeOK`) has to know that a tree stays a tree: every directory and
file has its parent among the directories (`IsTree`), through mkdir, mv, rm and each step of
a recursive copy. `JobsInv` says so of the files that are still to be copied, and that
everything which a subdirectory will be copied to is a path. `HeldInv` has what blocks
hold; a block that is full ends in a link, which is what the reader follows. `Read`
and `Chain` are defined by recursion. That their equations have a solution is shown by
building one from below (`ReadsExist`, `WalksExist`), that they keep to their types by
a file with the least length that does not.

`BitmapAgrees` (`BlocksAgree`) rests on `BInv`, which says for each stage of a command
which tree agrees with which bitmap (`AgreeOn`: no two files share a block, their blocks
are marked, and what else is marked is `lost`): on the disk until metadata is truncated,
in memory from the first block written to the last step. While a file is being written, the
marked blocks without those it has got so far agree with the other files, and *whatever
comes into the blocks not yet written*, its chain runs through those it has got and on from
the next one (`WrittenAs`); the file's last part is thereby a matter of one block. The frame
lemma is `SameChain`: a chain is the same as long as its own blocks are. `QueueIn` says that
nothing exists yet where files are copied to, because the destination did not (a path
of which no part exists has no descendants, `AncestorExists`). The theorem has two
conditions on the constants, and both leave out what the code gets wrong (see
Findings): `TailsFit`, no file is empty or ends within the link, and `~StaleMounts`, a tree that is
newer than its bitmap is formatted before commands go on. `fs_commands` satisfies both.
Commands that fail, and kills at any point, are in. Of what a kill leaves while
metadata is written, `ShownInv` says that it is a part of the new tree (`IsPart`, kept by
each line: `LineAgrees`), and the files of a part share no block if those of the whole share
none (`WrittenApart`, `FewerApart`).

`ImplementsStore` (`RefinesStore`, under the same conditions) goes from the blocks to what
is read of them. Of a file that is being written, `WrittenOf` says that, *whatever comes
into the blocks not yet marked*, a reader gets the units written so far and goes on at the
next block: opening a file establishes that (`OpenWritten`), each block keeps it
(`FlushWritten`), and with the last part the file reads as its source, or its end is visibly
missing (`FinishWritten`). The frame lemma is `SameRead`, which takes from `BInv` that a
block written belongs to no file that is there. `WorkInv` relates the tree in memory to the
one on the disk through all of a command: an import has changed nothing yet; a copy has only
added (`Grown`), what it has added reads as one of the files it is made of, and for each of
these the copy exists, is being written, is a job, or lies in a subdirectory that follows
(`CopyComes`). That covers a directory copied into itself, where the copy's own files are
among the jobs. `EffectInv` says that a command at its destructor has one of the effects the
store allows, and `EffectShown` that truncating metadata then is that step of the store; all
other steps stutter, but for a format, which damages files one by one (`TruncatedRead`), and
a kill while metadata is written. Before the first line that loses everything; between two
lines it is the store's `Cut` (`CutShown`), since what has a line is part of what the
command would have left. The invariant `WorkInv /\ EffectInv` was model-checked on the
constants of `fs_commands` before it was proved, but for the quantifier over all contents of
blocks in `WrittenOf`, which TLC cannot evaluate.

**Chat server.** Assumptions: `Free` is no client, there is a slot, and "exit" is none of
the numbered messages. `NobodyHearsHimself` needs `SourceInv`: the connection a thread has
passed to recv, perhaps long ago, is in no slot but the thread's own. This holds whatever
number the thread has, because a client is put into one slot, once (`TableInv`).
`SlotsBelongToClients` needs two more: `ServeInv`, that before the first wrong number each
thread that has its number finds its client in that slot, and `ExitInv`, that "exit" is
only received from a client that is ending, so that a thread which leaves does so for a
client that has gone. One lemma (`QuietStep`) covers the five steps that change
neither table nor outgoing messages. `MessagesStayInOrder` (`InOrder`) needs `OrderInv`, which
orders all places where a client's messages can be at one time: what others have been
told is older than what the client's thread is sending, to those whom it has not reached
yet, and that is older than what is still to be received (`ToldInv`, `BufferInv`,
`QueueInv`). A client who takes over a slot in the middle of a walk has been told
nothing before (`SilentInv`), so that he may hear the middle of a conversation but not
an older part of it after a newer one.

To check: `tlapm SieveMutex_proofs.tla`, and so on for the other `_proofs` modules; each
takes between a few seconds and five minutes.

## What is only model-checked

- All liveness properties (`AllTasksFinish`, `Finishes`, `FreeReturns`, `BothEnd`,
  `CommandEnds`, `Delivered`):
  proofs about fairness and ENABLED are out of the prover's reach.
- The scheduler's properties for three and more tasks in runs that do extract from the
  middle of a list.
- That `SieveNegate` and `SieveRanges` print the primes when the race does not happen.

## What is not modelled

Output formatting, command lines and failing system calls of the modelled programs.
Sizes at which undefined accesses happen outside the arrays (a sieve of fewer than two
numbers): the assumptions on the constants exclude them by name. Integers do not wrap
in the modelled programs before memory is exhausted. Of the file system: times of
creation, names that are too long, errors of the host, commands running at the same
time, which the code does not provide for, and commands on a tree that a kill has cut
off between two lines of metadata, up to the next init or format. Of the chat server: messages
longer than the buffer, names of clients, the host's errors, and the string `line` with whatever
its unlocked appends do to the memory of the process. The components of the inventory
without a module are listed in `PROJECT.json` with the reason: command interpreters and
boot sectors have no state of their own worth a model, the others are planned. The
measurements, plots and test scripts beside the exercises are not programs to model.

## Plan

Order of work, the first six steps being done:

1. `RoundRobin` with its lists, tasks and abstract life cycle, and its proofs: the
   teacher's example, and the one the students start from.
2. `SieveMutex` against `PrimeSieve`, and its proofs; `SieveNegate` and `SieveRanges`,
   the two that do without a lock.
3. `Allocator` against `BlockStore`.
4. `SharedCell`.
5. `ChatServer` (Vinogradow 9: a table of sockets, the number handed over in a global).
6. `FileSystem` (obedin 3) against `FileStore`, a tree of named contents.
7. `SieveAtomic` (kramar: atomic counter) and the detached threads of fettser, against
   `PrimeSieve`; the chat server of Ivanov 5 (compacted table, arguments handed over by
   address); a file system in one image with a free list (turaev.marat 3) against `FileStore`.
8. An allocator that splits and merges (sergeev 03), against a store with addresses;
   a scheduler with shortest job first; address translation as an operator against a
   reference; traceroute with lost and late answers.
9. Proofs: the primes printed by one thread of `SieveNegate` and by ranges of
   `SieveRanges` that share no byte.
