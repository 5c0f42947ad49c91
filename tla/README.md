# A TLA+ model of the OSN assignments

This directory holds TLA+ models of the programs of this repository, TLC runs
that check them on small instances, and TLAPS proofs about most parts of the
kernel and four of the five programs beside it. `PROJECT.json` lists the runs, which lines every definition
stands for, the hazards and what was found.

## Inventory

The repository holds a modified xv6 kernel with its user programs, and five
small programs: three of the concurrency assignment, a file transfer over TCP,
and the file tools of `Assign1`.

| Part | Source | State and concurrency | Module |
|---|---|---|---|
| Process table | `xv6 modified/proc.c`, `trap.c` | `ptable.proc[]`, `cpus[].proc`, `ptable.lock`; CPUs run concurrently | `Proc`, `ProcProofs` |
| MLFQ scheduler | `proc.c` (`-DMLFQ`), `main.c`, `trap.c` | `queue[5][64]`, `face`, `back`, `qn`, `waittime`, `curtime` | `MlfqQueue`, `MlfqRing`, `Mlfq`, `SchedProofs` |
| RR, FCFS, PBS schedulers | `proc.c`, `trap.c` | the pass over the table, `priority`, `ctime` | `SchedLoop`, `SchedProofs` |
| Spin locks, interrupts | `spinlock.c`, `proc.c`, `trap.c` | lock words, `ncli`, `intena`, the interrupt flag | `SpinLock`, `KernelProofs` |
| Log | `log.c` | header in memory and on disk, cache, crash at any time | `Log`, `LogProofs`; promises `AtomicDisk` |
| Buffer cache, sleep locks, disk | `bio.c`, `sleeplock.c`, `ide.c` | LRU list, `refcnt`, flags, sleepers, request queue, interrupt | `Bcache`, `BcacheProofs`; promises `BlockStore` |
| Directories and inodes | `fs.c`, `sysfile.c` | on-disk inodes, the inode cache, inode locks, link and reference counts, crashes | `Fs` |
| Contents of files | `fs.c`, `file.c` | blocks, bitmap, sizes, shared offsets | `FileData` |
| File table | `file.c`, `sysfile.c`, `pipe.c` | `ftable`, descriptors, failing allocations | `FileTable` |
| Pipes | `pipe.c` | ring, two ends, sleep/wakeup, kill | `Pipe`, `StreamProofs` |
| Memory | `kalloc.c`, `vm.c`, `exec.c`, `sysproc.c` | free pages, page tables, `sz` | `Vm`; promises `AddressSpaces` |
| Console | `console.c` | input ring with three indices, sleeping readers | `Console`, `StreamProofs`; promises `LineInput` |
| `malloc` | `umalloc.c` | the ring of free blocks | `Umalloc` |
| Vaccination drive | `Assignment concurrency /q2/Q2.c` | three kinds of threads, two kinds of mutexes, many unprotected accesses | `Vaccination`, `ProgramProofs` |
| Musical festival | `Assignment concurrency /q3/Q3.c` | mutex, condition variables with and without time limit, semaphore | `Musical`, `ProgramProofs` |
| Merge sorts | `Assignment concurrency /q1/Q1.c` | processes or threads on one array | `MergeSort` |
| File transfer | `Assignment TCP:IP /client.c`, `server.c` | untagged acknowledgements over a byte stream | `FileTransfer`, `ProgramProofs` |
| File reversal and comparison | `Assign1/Q1.c`, `Q2.c` | offsets and blocks of two files | `Reversal`, `ProgramProofs` |
| Boot, devices, assembly, system call dispatch, other user programs, `mkfs` | the rest | device registers, data layout, printing | not modelled |

## How the parts interact

`trap()` calls the schedulers' `yield()` and the process table's `exit()`.
The schedulers read and write `p->state` under `ptable.lock`. `Proc` leaves
open which RUNNABLE process a CPU takes, so what it shows holds for all four
builds; `Mlfq` and `SchedLoop` fix the choice and keep of the process table
only what the scheduler looks at. `SpinLock` goes below: it has the lock words
and the interrupt flag that the others take for granted when they make a
section under a lock one action.

The file system is a stack. `Bcache` shows that a block is one value that one
process uses at a time. `Log` takes that for granted and shows that the writes
of calls reach the disk all or not at all. `Fs` and `FileData` take that for
granted: a crash in `Fs` is one between transactions. `FileTable` stands above, with inodes and
pipes that are only counted.

The five programs stand alone. A module `MC*` that joins several modules runs
one at a time: its first state says which (`part`), and the others rest.

## Modules

**`Proc`** has one action per section under `ptable.lock`, and one for each
stretch between them that changes state. `kctx` says in which `swtch` a stopped process stands, and
thereby who releases the lock when it is switched to (`Resume`, `WaitResume`):
the lock is taken by the scheduler of a CPU and released by the process.
`pc` says how far a process is in a system call. `fork` is three actions:
`Allocproc`, then `Fork` or `ForkFail` (`kalloc` or `copyuvm` failed). `exit`
is two: `BeginExit`, during which closing files may sleep, and `Exit`.
`wait` and `waitx` differ only in the times they return. Not modelled: a kill
of init, which makes the kernel panic ("init exiting"); KillArgs leaves pid 1
out. `nextpid` is a natural number: that the `int` of the code wraps after
2^31 forks, and pids then repeat, is left out.

**`MlfqQueue`** has the ring operations cell by cell, with the read of
`queue[i][-1]` that the duplicate test makes for an empty ring. `MlfqRing` runs them against lists, and assumes no more processes than a ring
has cells (`RingAssumption`: both are `NPROC`).
**`Mlfq`** has the scheduler and every caller of `push`. A slot that is EMBRYO or ZOMBIE counts as
UNUSED. `waittime` and `curtime` saturate one past the values they are
compared with. Aging walks the cells of a ring by index, as the code does, while
its own removals shift the entries and move `face` and `back` (`AgeCell`,
`AgeToBack`, `AgeToEnd`).

**`SchedLoop`** has the three table-driven schedulers. The lock variable says
which CPU is inside a pass: the round-robin and PBS passes are interrupted by
the process they switch to and go on after it. The test of `preempt` and the
`yield` after it take the lock one after the other in the code and are one
action here. The loops that look for the process to run go slot by slot and keep
the best so far (`Search`). `haspid` are the slots with a pid, among them those
that a failed fork left UNUSED with one (`LoopForkFail`): `set_priority` finds
them, and `preempt` counts them. `preempt` counts the caller as well, so the timer
always makes a PBS process yield.

**`Log`** has one action per block written. `Modify` makes the tests of
`log_write` without `log.lock`, `LogWrite` does the rest under it. `Crash` may happen at any
moment and leaves the disk as it is. **`AtomicDisk`** is what the log
promises: writes become durable together, when no call is under way.
`CrashAtomic` is the refinement, with `durable` = the home blocks overlaid
with the committed log blocks, `current` = the cache.

**`Bcache`** has one action per section under `bcache.lock`, `idelock` or the
spin lock inside a sleep lock. `brelse` is two of them: a buffer is unlocked
before its count goes down. The caller of `bread` changes the buffer and writes it
(`Bwrite`) or leaves it dirty to the log (`LogWrite`); `MaxPinned` stands for
the log's limit. A process holds one buffer at a time. The panics of `bget` ("no
buffers") and `brelse` are in the model. The code has 30 buffers for up to 64
processes and 30 logged blocks, so the first one is possible, and
`PanicsOnlyWhenFull` says when: every buffer is held or dirty. **`BlockStore`** is one value and one user per block;
`StoreSpec` is the refinement, with the value of a block = its valid buffer,
or else the disk.

**`Fs`**: a step ends where the inode lock it needs is not free, or where a
lock is released; `puts` are the `iput`s a call has still to make, each two
steps (the removal under the lock, the decrement of `ref` after it). Inodes
that other processes hold are waited for, and nothing forbids waiting in a
circle. `lost` (not in the code) are the inodes whose last name was in a
directory that was freed. A transaction is as long as its call, so a crash
loses the calls under way: the model lets a crash happen when none is
(`Quiet`). `ialloc` does not run out of inodes.

**`FileData`**: `filewrite` in transactions, each with `writei` block by block
(`bmap`, `balloc` where needed), and `itrunc` when the file is removed.
`Stamp` gives every process a byte of its own, so that mixed data shows.

**`FileTable`**: a step ends where `ftable.lock` is released. `sys_pipe`,
`sys_open` and `fork` have one action per allocation and one for its failure.

**`Pipe`**, **`Console`**: what happens between two sleeps is one action, since
one lock is held. Counters wrap at a small `PipeUInt`, `ConsUInt`. `LineDiscipline` shows that `Console` implements `LineInput`:
lines are edited until finished, handed out once and in order, and `^D` gives
one empty read.

**`Vm`**: every `kalloc` is a step and may fail. Addresses wrap as `uint`.
`kfree` fills with the byte 1, so a page that is used without being cleared
shows. `PrivateMemory` shows that `Vm` implements `AddressSpaces`: pages are
private, zeroed, copied by `fork`, replaced by `exec`, and a call that fails
changes nothing. There is no TLB: a process sees its page table. In the code,
`growproc` returns -1 after it shrank the memory to size 0, without `switchuvm`,
and old translations stay in use until the next switch.

**`SpinLock`**: `code` is what a context has still to do, as a sequence of
`acquire`, `release`, `swtch`, ...; an interrupt puts the handler before it.
The handler of the timer takes `tickslock` and, inside it, `ptable.lock`
twice (`change_ticks`, `wakeup`). How `trap` goes on from there is a matter of the
build: not at all, with `yield`, or with `preempt` and then perhaps `yield`; the
model takes all of these (`TrapEnds`). It has ptable.lock and tickslock. Of
`sched`'s panics it covers those about locks and interrupts; "sched running"
is about `p->state`, which it does not have.

**`Umalloc`** has `malloc` with `morecore` inside and `free` with its two joins.
Bytes are rounded up to units of a header as in the code; sizes are far from the
end of `uint`, where that sum would wrap.

**`Musical`**: a section under `mut` is one action; the unlocked read of
`imp_flag` and the steps between unlock and wait are actions of their own.
Sleeps and the time limit take any time. A condition wait returns only after a
signal or the time limit (no spurious wakeups). `JoinMessage` is the unlocked
read of `performers[0]` for the message of a singer who joins: when the performer
has left meanwhile the index is -1, and the program prints anything or dies.
`ProgramsEnd` takes a program that died as ended.

**`Vaccination`**: the mutexes are taken by students (zone) and zones
(company) only, so all that zones do to their own fields and companies to
theirs are separate actions. Loads in the busy-wait loops are taken to read
memory each time, as in the unoptimised build. When `student_slotmein` finds
no cell it ends without a value: the model takes both outcomes. `owed` and
`missed` (not in the code) are the doses delivered to a zone and not yet given to
a student, and whether the zone found no cell of `zones_under`.

**`MergeSort`**: a task is a range, its places are split, wait, copy, merge
and selection sort; tasks of both versions interleave in the same way.
Creating a process or thread succeeds.

**`FileTransfer`**: the connection keeps bytes and order, and a read takes any
first part of what has arrived. Control messages and names are one element of
the stream each. `mixed` (not in the code) says that some read did not take
exactly one message. When the server reads a piece of a control message
together with another one the two are followed no further (`OutOfStep`).

**`Reversal`**: a turn of either loop is one action; offsets as in `lseek`. Every
`open` may fail: without its input Q1 does nothing, without its output it goes on,
and Q2 looks at neither descriptor.
Not modelled: the byte that ends `srev`, written behind the array when a
block is full, and the percentage of an empty file, which is 0/0.

## Runs

| Run | Instance | Checks |
|---|---|---|
| `proc` | 4 slots, 2 CPUs (symmetric), 1 channel, pids to 4 | `CpuExclusive`, `NoOrphan`, `NoLostExit`, `PidsUnique` |
| `proc_born` | 3 slots, kill(2) only | `BornAlive` is violated |
| `schedulers` | MLFQ: 3 slots, 2 CPUs, 2 queues, age 1. Others: 3 slots, 2 CPUs, priorities 1 and 3, 4 ticks | `QueuedRunnable`, `AgedOut`; `EveryoneRuns`, `LeastRuns`, `PicksFirst` |
| `mlfq_lost` | MLFQ with 1 CPU | `RunnableQueued` is violated |
| `log` | 3 processes, 3 blocks, a log of 4 | `CrashAtomic`, `CleanIsOnDisk`, `SleeperHasWaker`, `NeverPanics` |
| `bcache` | 2 processes, 3 buffers, 4 blocks, 2 of them dirty at a time | `StoreSpec`, `BufferStaysMine`, `WaitersServed`, `PanicsOnlyWhenFull` |
| `files` | tree: 2 processes, 5 inodes, up to 4 calls. Data: 2 files, 8 blocks, 3 calls. Table: 3 files, 3 descriptors | `LinksCounted`, `RefsCounted`, `InUseNotFreed`; `FilesKeepData`, `BlocksOwnedOnce`, `TransactionFits`; `ObjectsCounted` |
| `fs_deadlock` | the tree part | `NoCircularWait` is violated |
| `kernel` | rings of 4; a pipe of 2 bytes, 2 readers, 2 writers; console of 3 bytes, 2 readers; 13 pages, 2 processes; 2 CPUs, 2 processes; 10 heap units | `RingIsFifo`; `PipeIsFifo`, `PipeCallsReturn`; `SleepersWait` (pipe and console), `LineDiscipline`; `PagesUsedOnce`, `PrivateMemory`; `InterruptFlagFollows`, `LockPanicsNever`; `UnitsInOneBlock` |
| `programs` | 4 artists on 2 stages; 2 students, 2 zones, 1 company; arrays of 0 and 9 numbers; 3 files, chunks of 2; files of up to 6 bytes, blocks of 3 | `OwnStage`, `DosesAddUp`, `DoneIsSorted`, `ReceivedUnlessMixed`, `VerdictRight`, `ProgramsEnd` |
| `transfer_received` | one file of two chunks | `ReceivedIsSent` is violated |
| `vacc_stuck` | 1 zone, 1 company, as many batches as cells | `SimulationEnds` is violated |

What each property says stands above its definition. In short:

- Processes: a process runs on one CPU, its parent is alive, nobody sleeps in
  `wait` with something to reap, pids differ. The schedulers keep the queues
  right, take the process their policy names and leave nobody out.
- Disk and files: a crash undoes whole calls only; a block is one value with one user
  at a time, and nobody waits for a free lock or an idle disk; counts of links,
  references and blocks are right on every error path; data written is read.
- Rest of the kernel: bytes go through pipes and console once, in order and
  without anybody left asleep; pages are used once and private; interrupts are
  off under a lock and on again for who had them on; the heap is in blocks.
- Programs: their results are right, and they end as far as they do (below).

### Why the bounds are enough

- `proc`: four slots are init, a parent, a child and a grandchild, so init can
  inherit a process from one whose parent is not init; with three, the wakeup of init for an inherited ZOMBIE could be
  left out unnoticed. Pids to 4 fill the table and let a slot be used again.
  `MaxPid` bounds the forks, and `FewOff` keeps to one process at a time that
  sleeps for a device and one that yielded: two of them do nothing to each
  other. The proofs are without bounds.
- `schedulers`: with two queues there is one to age from, and three cells make rings
  wrap after two pops. `Age = 1` and slices 1 and 2 let all times pass their
  limits. The state chooses the build, so the builds are disjoint parts of one
  state space.
- `log`: `LOGSIZE = nlog = 4` with `MAXOPBLOCKS = 2`, so that two calls fill
  the log and a third has to wait. A call writes one block, as xv6's calls
  write fewer than the ten they reserve. With calls of exactly `MAXOPBLOCKS`
  blocks `NeverPanics` fails, because `log_write` allows `nlog - 1` blocks and
  `mkfs` sets `nlog = LOGSIZE`; no system call of this kernel writes that many.
  The other properties also passed on an instance whose calls write two blocks
  (`MAXOPBLOCKS = 3`, `LOGSIZE = nlog = 6`, 1.3 million states).
- `bcache`: fewer buffers than users and dirty blocks together, so that a miss
  recycles one or finds none, and one block more than buffers. `OneChanged` keeps to one block that
  differs from its first value at a time; which one is arbitrary. The proofs
  need neither.
- `files`, tree: three trees in which names lead to files, directories and
  nested directories; a process that stands in a directory which is then
  removed, with its parent, takes four calls, of which the first is fixed
  (`Calls`). Data: writes of 7 bytes in blocks of 2 cross from direct to
  indirect blocks, take two transactions, and fill the disk. Table: as many
  files as descriptors, so both can run out first.
- `kernel`: the rings are shorter than what goes through them and the counters
  wrap (a pipe of 2 bytes, counters modulo 4, 6 bytes). Thirteen pages are
  enough for two processes but not for all calls. Ten heap units hold two
  blocks of core with a gap between them; 0, 9 and 32 bytes are a block without
  room, one that is rounded up, and one that takes new core.
- `programs`: SLOTS stands for 8, UNDER for 5, and there are fewer batches than
  cells; batch sizes exceed SLOTS so that a batch takes several rounds. Nine
  numbers make the sorts split twice (ranges of five split again); numbers 0 and 1 suffice for a sort that
  only compares. `MaxCopy` stops a copy that grows for ever (see below).
  Files of whole blocks, of less than a block and empty ones all occur, and blocks
  of three can be in wrong order inside while their ends are right.
- Deadlock is checked in all runs but `files` and `fs_deadlock`, where calls
  are bounded and the system itself can hang, and `transfer_received`. In
  `kernel` the part `memory`, and in `programs` all parts but the vaccination,
  have a step for having stopped (`MemoryStops`, `Stops`); that they do not
  stop too early is what `ProgramsEnd` says. A pipe whose users all sleep may
  stutter, and `PipeCallsReturn` excludes it.

### Fairness

`SchedLoop`: weak fairness of the choice, the end of a pass and the timer
interrupt of every CPU: the scheduler is an endless loop and the timer is
periodic. `Pipe`: every process that can go on does, which the schedulers give
it; one outside of a call makes another call or closes in the end (programs
end, and exit closes). `programs`: weak fairness of every thread, process and
end of a connection, which is what the operating system gives runnable
threads; nothing is assumed of who gets a mutex. The time limit of a timed
wait is an action of the thread, so it is fair as well. The other runs use no
fairness.

## What was found

1. A failed `fork` leaves a pid in an UNUSED slot; `kill` of that pid marks it and
   the slot's next process is born killed (`proc_born`).
2. `push` reads `queue[i][-1]` and may drop a RUNNABLE process for good (`mlfq_lost`).
3. `create` of a name and `unlink` of the same name can wait for each other
   for ever: `create` puts the directory with the new inode locked, and `iput`
   locks the directory again (`fs_deadlock`).
4. A chunk that is read in two pieces puts client and server out of step, and
   the client's file gets the control message "end" (`transfer_received`).
5. A zone entered in `zones_under` too late can stop the simulation (`vacc_stuck`).

Seen while modelling, and not runs of their own:

- A singer who joins may wait for ever: the signal comes before the wait, or
  the stage is never cleared because nobody is marked as waiting. Then FINISH
  is not printed. `ProgramsEnd` therefore speaks of the musicians only. The two
  extra seconds of a duet are lost when the singer joins late.
- A student who is slow to fill a cell of `slot_array` fills one of the next
  round, whose last student finds none. "All the vaccines ... are over" can be
  printed while slots are still open.
- A file created in a directory that was removed meanwhile has a link count of
  1 and no name; it is lost when the directory is freed (the exception of
  `LinksCounted`). A path through the ".." of a removed directory whose parent
  was removed too panics ("ilock: no type"), which is the case that
  `InUseNotFreed` leaves.
- A file that is open and has no name when the machine stops is never freed.
- A writer that is killed while the pipe is full returns without
  `wakeup(&p->nread)`, which the loop before it has made already; one that
  wrote some bytes after it was woken and then finds itself killed leaves a
  reader asleep over these bytes (the exception of `PipeSleepersWait`).
- `sbrk` to size 0 frees the pages, but `growproc` takes the size 0 for a
  failure, leaves `sz` and does not switch the page table.
- `bget` can find every buffer held or dirty and panic; nothing bounds the
  users of the 30 buffers.
- When the disk reports an error `ideintr` marks the buffer valid with what it
  held before.
- The client of the file transfer does not create an empty file; "end" and the
  next "get" read together lose the "get"; out of step, its copy can grow for ever.
- A singer who joins may read `artists[-1]` for a message (`JoinMessage`).
- `Assign1/Q2.c` answers "YES" when it could open neither file: both sizes are -1
  then, and it compares nothing (the exception of `VerdictRight`).

## Proofs

Each theorem holds for every value of the constants that the named assumption
of its module allows. Every one is of the form `Spec => []Inv` from an inductive
invariant, which TLC checked on the instance of the run before it was proved:
one lemma per action, one step per conjunct.

| Module | Inductive invariant | Proved from it |
|---|---|---|
| `ProcProofs` | `IInv` | `TypeOK`, `CpuExclusive`, `NoOrphan`, `NoLostExit`, `PidsUnique` |
| `LogProofs` | `LInv` | `NeverPanics`, `CleanIsOnDisk`, `SleeperHasWaker`, and the refinement of `AtomicDisk` (`CrashAtomic`) |
| `BcacheProofs` (with `NatFacts`) | `BInv` | `BufferStaysMine`, `PanicsOnlyWhenFull`, `WaitersServed`, and the refinement of `BlockStore` (`StoreSpec`) |
| `SchedProofs` (with `NatFacts`) | `LoopInv`, `RingInv` | the action property `PicksFirst`; `RingIsFifo` |
| `StreamProofs` (with `NatFacts`) | `PipeInv`, `ConsInv` | `PipeIsFifo`, `PipeSleepersWait`; the refinement of `LineInput` (`LineDiscipline`), `ConsSleepersWait`, `FullIsFinished` |
| `KernelProofs` | `SlInv` | `LockPanicsNever`, `InterruptFlagFollows` |
| `ProgramProofs` (with `NatFacts`) | `VaccInv`, `FestInv`, `RevInv`, `FtrInv` | `DosesAddUp`; `OwnStage`; `VerdictRight`; `ReceivedUnlessMixed` |

**`IInv`**, from `ConstAssumption` (`NPROC` positive, channels are not process
addresses, `NoCPU` and `NoChan` are not values of the sets), adds to the properties

- `InitAlive`: init is alive and not in `exit`, so reparenting to it keeps `NoOrphan`;
- `EmbryoOwned`: the slot of a fork is EMBRYO and belongs to one fork, so
  `Fork` and `ForkFail` touch nobody else's slot;
- `FreeUnparented`: free slots are nobody's children, so a reap or an exit
  cannot give a waiting parent a ZOMBIE it was not woken for;
- `WaitChan`: a process in `wait` sleeps on its own address, which is the
  channel `exit` wakes;
- `StoppedAt`: who executes outside the lock is not stopped anywhere, so
  `WaitResume` and `Resume` concern the process that was switched to;
- `PidsBelow`: every pid is below `nextpid`, for `PidsUnique`.

**`LInv`**, from `LogAssumption`: finitely many processes, a log with room for
two calls and no larger than on disk, and calls that write fewer blocks than
`MAXOPBLOCKS` (why "fewer" is needed stands with the bounds). It adds

- `Budget`: what is logged plus a credit for every block that the calls under
  way may still log stays two below `LOGSIZE`. This is what `begin_op` reserves,
  and what keeps `log_write` from its panic;
- `CallOK`: what a call has logged, and the buffer it has locked;
- `CommitAlone`: the last call commits alone, and all that is logged is
  committed before the next call begins;
- `PinnedLogged`: only logged blocks are dirty, and each is logged once;
- `Copies`: at each place of `commit` and of the recovery, which blocks are in
  the log on disk and which are home already. With a header on disk the log has
  every block of it, so a crash at any of these places recovers the same disk.

For the refinement every step is either one of `AtomicDisk` or a stutter: the
write of the header commits; copying to the log, installing, clearing and all of
the recovery change nothing that `AtomicDisk` sees.

**`BInv`**, from `BcacheAssumption` (finitely many processes; any number of
buffers), adds that `refcnt` counts the processes between `bget` and `brelse`
(`RefsCounted`), that the list reaches every buffer (`LruComplete`: `bget` sees
them all, so when it panics none is free), what a process may expect
of its buffer at each place (`ProcOK`), that a lock has a holder who will release
it (`HolderOK`), that every request in the queue has one sleeper and the drive
works on the first (`QueueOK`), and that a valid, clean buffer has what the
disk has (`BufferOK`). The value of a block in `BlockStore` is that of its
buffer if there is a valid one and that of the disk otherwise; the lemmas show
that recycling, reading, writing and `ideintr` keep it.

**`LoopInv`**, from `LoopAssumption`: what a CPU runs is RUNNING and on no other CPU,
and the fields the loops compare are numbers. `PicksFirst` says what the choice
shall be, by quantifiers over the table; `Search` is the loop, slot by slot. That
the loop ends with that choice is shown by induction on its turns (`SearchFinds`),
and PBS, whose two loops begin in the middle of the table and at its start, uses
it twice. The induction theorems of the library take an operator, which the provers
cannot instantiate; `SetInduction` is the same for a set, from the well-foundedness
of `<`.

The three rings. `%` is not linear, so what the proofs need of it is in
`NatFacts`, proved once from its definition by the quotient: shifting by
multiples, differences of residues, and that numbers less than `n` apart have
different residues modulo `n`.

**`RingInv`** (MLFQ), from `RingAssumption`: `fifo[i]` is the cells from
`face[i]` on, as many as there are entries, in which nobody is twice. `push` and `pop` move one end; for `remove` the lemmas
follow its two loops, with the shift across the end of the array. A ring has
room because what it holds are different processes.

**`PipeInv`**, from `PipeAssumption` (`PIPESIZE` divides the range of a `uint`,
without which a wrapping counter would jump in the ring): `nwrite` and `nread`
are `Len(sent)` and `Len(got)` modulo that range, never more than `PIPESIZE`
apart, and the cell of every byte between them has it. It adds which calls are
possible at which end, that an end that is closed in the struct was closed by
all its processes, and that a read of 0 bytes saw the last one.

**`ConsInv`**, from `ConsoleAssumption`: there are numbers `x`, `y` of finished and
unfinished characters with `w = r + x` and `e = w + y` modulo the range, `x + y`
at most `INPUT_BUF`, no line end or `^D` among the unfinished ones and, in a full
ring, none unfinished. The state of `LineInput` is what the ring holds in the two
parts. `^U` and backspace shorten the second part, a line end moves it into the
first, `consoleread` takes from the first; reading to a `^D` puts it back by
`input.r--` when something was read before it.

**`SlInv`**, from `SpinLockAssumption` (CPU 0 exists; CPUs, processes and `Free`
differ). The code a context has still to do is always one of few, with the locks
its CPU holds there: `ProcTable` and `LoopTable` list them, a handler in front
of interruptible code included, with each of the ways `trap` may go on. `StepsTo` says what each operation needs and
leads to; that every entry has it is proved of the code alone, and gives the
panics. `CpuOK` says that each CPU is at an entry, that `ncli` counts its locks
and the one it spins for, and that the flag is off while there are any.
`FlagOK` and `KeptOK` say where the flag of a context is: in the CPU, in
`intena` under a lock, in `kept` on the stack over `swtch`. `WaitingOK` says
that who is on no CPU is behind `swtch` or new, with ptable.lock handed over.

**`VaccInv`**, from `VaccinationAssumption`, adds that a zone that is not open has no
slots (it opens the next ones only when all are taken), that one zone at a time
takes a delivery of a company (`OneDelivers`), and `Room`: the occupied cells of
`zones_under`, the delivery under way and the batches left are together no
more than its cells, unless a company makes as many batches as there are cells. So a
delivery is missed only there. **`FestInv`**, from `MusicalAssumption`, adds that
who is on a stage has a stage.

**`RevInv`**, from `ReversalAssumption` (blocks of more than two bytes): while both
files are open, what has been written, or compared, is the end of the old file
backwards (`Mirrors`), the next block begins at a multiple of `buf`, and it ends
where the part that is done begins. With a file that could not be opened
the sizes and offsets are those of descriptor -1, which decides the verdict.

**`FtrInv`**, from `FileTransferAssumption`: as long as every read took exactly one
message (`~mixed`), client and server are at matching places (`InStep`), with
at most the messages of that place in the streams, and the client's copy is the
first part of the file that the server has sent. Nothing is claimed afterwards:
`transfer_received` shows why.

Only model-checked, and why:

- liveness (`EveryoneRuns`, `LeastRuns`, `PipeCallsReturn`, `ProgramsEnd`): the
  prover has no rules for fairness;
- `QueuedRunnable`, `AgedOut` and `DoneIsSorted`: they rest on what folds
  over structures compute (aging, which changes the rings it walks; merging);
- the file system (`Fs`, `FileData`, `FileTable`), the memory (`Vm`, with the
  refinement of `AddressSpaces`) and malloc.

`SleepersWait` of the `kernel` run is the conjunction of `PipeSleepersWait`,
`ConsSleepersWait` and `FullIsFinished`, which are proved one by one.

## Not modelled

- Hardware set-up, assembly, interrupt controllers, keyboard scan codes, the
  screen and the serial port: their state is device registers.
- System call dispatch and the fetching of arguments, the layout of ELF files
  and of the arguments `exec` puts on the stack: data layout. `clearpteu` and
  the other page-table flags: the model has no protection. The TLB, and so
  where `switchuvm` and `lcr3` are needed.
- Device nodes (`sys_mknod`, `T_DEV`) and `fstat`: the first only adds a type
  of inode without contents, the second reads.
- The times of `waitx` (`ctime`, `etime`, `runtime`), `showps`, `procdump` and
  all printing. `runtime` counts ticks of cpu 0 only and `etime` is taken at the
  reap, so these times are not what their names say.
- `fork` or `pthread_create` failing in the merge sorts: the results are not
  looked at, and a half would stay unsorted.
- FCFS's `p->nrun++` behind the end of the table (`proc.c:452`): it damages
  memory outside any modelled variable.
- Disk errors, and the RAM disk of `memide.c`.
- The other user programs and the tests: sequential clients of the calls.
- `mkfs` and the build scripts, `normal_mergeSort` (the same sort without
  concurrency), the permissions `Assign1/Q2.c` prints.
