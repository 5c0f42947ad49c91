--------------------------------- MODULE Log --------------------------------
(***************************************************************************)
(* The file-system log of xv6 (log.c): concurrent system calls, group      *)
(* commit, and recovery.  The machine may crash between any two writes of  *)
(* a block, also during recovery.  A write of one block is atomic; the     *)
(* disk holds the home blocks, the log blocks and the log header.          *)
(*                                                                         *)
(* Of the buffer cache (bio.c) the contents and the B_DIRTY flag are kept; *)
(* a buffer that is not dirty may be recycled at any time.                 *)
(***************************************************************************)
EXTENDS Naturals, Sequences, FiniteSets

CONSTANTS
  Procs,         \* processes that make file-system calls
  Blocks,        \* home blocks
  Vals, Val0,    \* contents of a block, and those mkfs writes
  MAXOPBLOCKS,   \* param.h: the space begin_op reserves for a call
  LOGSIZE,       \* param.h: the length of logheader.block
  nlog,          \* superblock: log blocks on disk, header included
  OpBlocks       \* the different blocks one call writes at most

\* A call writes fewer blocks than begin_op reserves (FileData: TransactionFits).
\* param.h has LOGSIZE = MAXOPBLOCKS * 3 and mkfs makes nlog = LOGSIZE.
ASSUME LogAssumption ==
  /\ IsFiniteSet(Procs)
  /\ MAXOPBLOCKS \in Nat \ {0} /\ LOGSIZE \in Nat /\ nlog \in Nat
  /\ 2 * MAXOPBLOCKS <= LOGSIZE /\ LOGSIZE <= nlog
  /\ OpBlocks \in 0 .. MAXOPBLOCKS - 1
  /\ Val0 \in Vals

VARIABLES
  disk, dlog, dhead,         \* on disk: home blocks, log blocks, header
  cache, dirty,              \* the buffer cache
  lh, outstanding, committing, \* struct log
  pc,                        \* what a process does about the log
  wrote,                     \* the blocks its call has logged
  buf,                       \* the buffer it has locked, or none
  step, tail                 \* place in commit() or recover_from_log()

durables == <<disk, dlog, dhead>>
bufs == <<cache, dirty>>
log == <<lh, outstanding, committing>>
vars == <<durables, bufs, log, pc, wrote, buf, step, tail>>

\* The values of pc.  idle: outside a call.  begin: in the loop of begin_op.  sleep: asleep on
\* &log.  op: inside a call.  log: in log_write, past its tests.  commit: the
\* last end_op runs commit().
\* The values of step.  none: no commit and no recovery.  The others name the function under way;
\* boot and redo are recovery, panic is a panic of log.c.

LogBlocks == 1 .. nlog - 1
Up == step \in {"none", "write_log", "write_head", "install", "clear"}
Logged == {lh[i] : i \in 1 .. Len(lh)}
Held == UNION {buf[p] : p \in Procs}

\* wakeup(&log)
Woken == [p \in Procs |-> IF pc[p] = "sleep" THEN "begin" ELSE pc[p]]

\* The machine as mkfs and the boot loader leave it, before initlog.
Init ==
  /\ disk = [b \in Blocks |-> Val0]
  /\ dlog = [i \in LogBlocks |-> Val0]
  /\ dhead = << >>
  /\ cache = disk /\ dirty = [b \in Blocks |-> FALSE]
  /\ lh = << >> /\ outstanding = 0 /\ committing = FALSE
  /\ pc = [p \in Procs |-> "idle"]
  /\ wrote = [p \in Procs |-> {}] /\ buf = wrote
  /\ step = "boot" /\ tail = 0

-----------------------------------------------------------------------------
(* System calls. *)

\* Mutant: begin_op does not count the calls that are under way.
RoomForOne == Len(lh) + MAXOPBLOCKS <= LOGSIZE

\* begin_op's test that this call cannot exhaust the log.
Room == Len(lh) + (outstanding + 1) * MAXOPBLOCKS <= LOGSIZE

Enter(p) ==
  /\ Up /\ pc[p] = "idle"
  /\ pc' = [pc EXCEPT ![p] = "begin"]
  /\ UNCHANGED <<durables, bufs, log, wrote, buf, step, tail>>

\* One pass of the loop of begin_op: sleep, or reserve and go on.
BeginOp(p) ==
  /\ Up /\ pc[p] = "begin"
  /\ IF committing \/ ~Room
     THEN pc' = [pc EXCEPT ![p] = "sleep"] /\ UNCHANGED <<outstanding, wrote>>
     ELSE /\ pc' = [pc EXCEPT ![p] = "op"]
          /\ outstanding' = outstanding + 1
          /\ wrote' = [wrote EXCEPT ![p] = {}]
  /\ UNCHANGED <<durables, bufs, lh, committing, buf, step, tail>>

Panic ==
  /\ step' = "panic"
  /\ UNCHANGED <<durables, bufs, log, pc, wrote, buf, tail>>

\* "log absorbtion"
Absorb(b) == IF b \in Logged THEN lh ELSE Append(lh, b)

\* Mutant: the buffer is not marked.
PinNever(b) == dirty

\* "prevent eviction"
Pin(b) == [dirty EXCEPT ![b] = TRUE]

\* The limits log_write tests before it looks for the block.
TooBig == Len(lh) >= LOGSIZE \/ Len(lh) >= nlog - 1

\* bread (which waits for the buffer's lock), a change of the data, and the
\* tests of log_write, made without log.lock.
Modify(p, b, v) ==
  /\ Up /\ pc[p] = "op" /\ b \notin Held
  /\ b \in wrote[p] \/ Cardinality(wrote[p]) < OpBlocks
  /\ IF TooBig \/ outstanding < 1
     THEN Panic
     ELSE /\ cache' = [cache EXCEPT ![b] = v]
          /\ buf' = [buf EXCEPT ![p] = {b}]
          /\ pc' = [pc EXCEPT ![p] = "log"]
          /\ UNCHANGED <<durables, dirty, log, wrote, step, tail>>

\* The rest of log_write, under log.lock, and brelse.
LogWrite(p, b) ==
  /\ Up /\ pc[p] = "log" /\ b \in buf[p]
  /\ dirty' = Pin(b)
  /\ lh' = Absorb(b)
  /\ wrote' = [wrote EXCEPT ![p] = @ \cup {b}]
  /\ buf' = [buf EXCEPT ![p] = {}]
  /\ pc' = [pc EXCEPT ![p] = "op"]
  /\ UNCHANGED <<durables, cache, outstanding, committing, step, tail>>

\* end_op: whether this was the last outstanding call.
IsLast == outstanding - 1 = 0

EndOp(p) ==
  /\ Up /\ pc[p] = "op"
  /\ IF committing
     THEN Panic
     ELSE /\ outstanding' = outstanding - 1
          /\ committing' = IsLast
          /\ pc' = IF IsLast THEN [pc EXCEPT ![p] = "commit"]
                   ELSE [Woken EXCEPT ![p] = "idle"]
          /\ step' = IF IsLast /\ lh # << >> THEN "write_log" ELSE step
          /\ tail' = 0
          /\ UNCHANGED <<durables, bufs, lh, wrote, buf>>

-----------------------------------------------------------------------------
(* commit(), run by the process that ended the last call. *)

\* One block of write_log: cache to log.
WriteLog ==
  /\ step = "write_log"
  /\ dlog' = [dlog EXCEPT ![tail + 1] = cache[lh[tail + 1]]]
  /\ step' = IF tail + 1 = Len(lh) THEN "write_head" ELSE step
  /\ tail' = (tail + 1) % Len(lh)
  /\ UNCHANGED <<disk, dhead, bufs, log, pc, wrote, buf>>

\* write_head, "the real commit".
WriteHead ==
  /\ step = "write_head"
  /\ dhead' = lh
  /\ step' = "install"
  /\ UNCHANGED <<disk, dlog, bufs, log, pc, wrote, buf, tail>>

\* One block of install_trans: log to home, through the buffer cache.
Install(b, i) ==
  /\ disk' = [disk EXCEPT ![b] = dlog[i]]
  /\ cache' = [cache EXCEPT ![b] = dlog[i]]
  /\ dirty' = [dirty EXCEPT ![b] = FALSE]
  /\ tail' = (tail + 1) % Len(lh)
  /\ UNCHANGED <<dlog, dhead, log, pc, wrote, buf>>

InstallTrans ==
  /\ step = "install"
  /\ Install(lh[tail + 1], tail + 1)
  /\ step' = IF tail + 1 = Len(lh) THEN "clear" ELSE step

\* lh.n = 0; write_head()
Clear ==
  /\ step = "clear"
  /\ lh' = << >>
  /\ dhead' = << >>
  /\ step' = "none"
  /\ UNCHANGED <<disk, dlog, bufs, outstanding, committing, pc, wrote, buf, tail>>

\* Mutant: the processes that wait for the commit are not woken.
CommitDoneSilent(p) ==
  /\ pc[p] = "commit" /\ step = "none"
  /\ committing' = FALSE
  /\ pc' = [pc EXCEPT ![p] = "idle"]
  /\ UNCHANGED <<durables, bufs, lh, outstanding, wrote, buf, step, tail>>

\* The end of end_op after commit().
CommitDone(p) ==
  /\ pc[p] = "commit" /\ step = "none"
  /\ committing' = FALSE
  /\ pc' = [Woken EXCEPT ![p] = "idle"]
  /\ UNCHANGED <<durables, bufs, lh, outstanding, wrote, buf, step, tail>>

-----------------------------------------------------------------------------
(* Crash, reboot and recovery. *)

\* Power fails, or the kernel has panicked: memory is lost.
Crash ==
  /\ cache' = disk
  /\ dirty' = [b \in Blocks |-> FALSE]
  /\ lh' = << >> /\ outstanding' = 0 /\ committing' = FALSE
  /\ pc' = [p \in Procs |-> "idle"]
  /\ wrote' = [p \in Procs |-> {}] /\ buf' = wrote'
  /\ step' = "boot" /\ tail' = 0
  /\ UNCHANGED durables

\* Mutant: recovery starts with an empty transaction.
ReadHeadEmpty ==
  /\ step = "boot"
  /\ lh' = << >>
  /\ step' = "reclear"
  /\ UNCHANGED <<durables, bufs, outstanding, committing, pc, wrote, buf, tail>>

\* initlog: read_head; with an empty header install_trans does nothing.
ReadHead ==
  /\ step = "boot"
  /\ lh' = dhead
  /\ step' = IF dhead = << >> THEN "reclear" ELSE "redo"
  /\ UNCHANGED <<durables, bufs, outstanding, committing, pc, wrote, buf, tail>>

RecoverTrans ==
  /\ step = "redo"
  /\ Install(lh[tail + 1], tail + 1)
  /\ step' = IF tail + 1 = Len(lh) THEN "reclear" ELSE step

RecoverClear ==
  /\ step = "reclear"
  /\ lh' = << >>
  /\ dhead' = << >>
  /\ step' = "none"
  /\ UNCHANGED <<disk, dlog, bufs, outstanding, committing, pc, wrote, buf, tail>>

Next ==
  \/ \E p \in Procs : Enter(p) \/ BeginOp(p) \/ EndOp(p) \/ CommitDone(p)
  \/ \E p \in Procs, b \in Blocks, v \in Vals : Modify(p, b, v)
  \/ \E p \in Procs, b \in Blocks : LogWrite(p, b)
  \/ WriteLog \/ WriteHead \/ InstallTrans \/ Clear
  \/ Crash \/ ReadHead \/ RecoverTrans \/ RecoverClear

Spec == Init /\ [][Next]_vars

-----------------------------------------------------------------------------
(* Properties. *)

\* log_write and end_op never panic ("too big a transaction", "log_write
\* outside of trans", "log.committing"): what begin_op reserves is enough for
\* all the calls it lets in together.
NeverPanics == step # "panic"

\* A buffer that may be recycled (neither locked nor B_DIRTY) holds what the disk holds, so
\* reading the block again finds every write: log_write's B_DIRTY pins the
\* buffer until install_trans has written it home.
CleanIsOnDisk == \A b \in Blocks \ Held : ~dirty[b] => cache[b] = disk[b]

\* Whoever sleeps in begin_op has somebody left to wake them: a call under way
\* or a commit.
SleeperHasWaker ==
  (\E p \in Procs : pc[p] = "sleep") => outstanding > 0 \/ committing

\* What a crash now would leave: the home blocks, with the committed log
\* blocks over them.
Recovered ==
  [b \in Blocks |-> IF \E i \in 1 .. Len(dhead) : dhead[i] = b
                    THEN dlog[CHOOSE i \in 1 .. Len(dhead) : dhead[i] = b]
                    ELSE disk[b]]

Disk == INSTANCE AtomicDisk WITH
  durable <- Recovered,
  current <- IF step \in {"boot", "redo", "reclear"} THEN Recovered ELSE cache,
  active <- {p \in Procs : pc[p] \in {"op", "log"}}

\* The log implements AtomicDisk: writes of system calls reach the disk in
\* groups of whole calls, at one instant (write_head), and a crash at any
\* moment, also in recovery, shows a state between two such instants.
CrashAtomic == Disk!ASpec
=============================================================================
