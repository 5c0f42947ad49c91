------------------------------ MODULE FileData ------------------------------
(***************************************************************************)
(* The content of files: read and write through open files (file.c),       *)
(* readi, writei, bmap and itrunc over the bitmap of free blocks (fs.c).   *)
(*                                                                         *)
(* Processes share open files (after fork or dup) and inodes.  A write is  *)
(* cut into transactions; inside one the lock of the inode is held, and    *)
(* the steps are the ones at which other processes may allocate blocks.    *)
(* An inode is removed and used again by itrunc when nobody has it open.   *)
(***************************************************************************)
EXTENDS Integers, FiniteSetsExt, SequencesExt

CONSTANTS
  DataProcs, NoDataProc,
  Files,         \* inodes
  Fds,           \* struct files
  FileOf,        \* the inode of a struct file
  BSIZE, NDIRECT, NINDIRECT, MAXOPBLOCKS,
  BPB,           \* blocks per bitmap block
  DataBlocks,    \* the blocks are 1 .. DataBlocks
  WriteSizes,    \* bytes of one call
  Stamp,         \* the byte that a process writes
  MaxDataCalls   \* bound: calls of read, write and unlink

ASSUME FileDataAssumption ==
  /\ BSIZE \in Nat \ {0} /\ NDIRECT \in Nat /\ NINDIRECT \in 1 .. BSIZE
  /\ MAXOPBLOCKS \in Nat /\ MAXOPBLOCKS >= 6 /\ BPB \in Nat \ {0}
  /\ FileOf \in [Fds -> Files] /\ Stamp \in [DataProcs -> Nat \ {0}]
  /\ NoDataProc \notin DataProcs

MAXFILE == NDIRECT + NINDIRECT
Cells == 0 .. BSIZE - 1
DBlocks == 1 .. DataBlocks
EmptyInode == [size |-> 0, addrs |-> [k \in 0 .. NDIRECT |-> 0]]
NoData == [fd |-> 0, n |-> 0, i |-> 0, start |-> 0, at |-> 0, tot |-> 0, f |-> 0, k |-> 0]

VARIABLES
  inode,       \* size and addrs of an inode in the cache
  dinode,      \* what iupdate wrote last
  used,        \* the bitmap
  blk,         \* blocks of cells: bytes, or block numbers in an indirect block
  ilk,         \* the holder of the lock of an inode
  off,         \* f->off, or -1 when the struct file is closed
  dpc, dl,     \* place and local variables of a process
  txn,         \* the blocks a transaction has passed to log_write
  want, moved, \* history: the bytes of a file; the bytes moved through a struct file
  dcalls       \* the calls that may still be made

dstore == <<inode, used, blk>>
dcall == <<dpc, dl, txn>>
DataVars == <<dstore, dinode, ilk, off, dcall, want, moved, dcalls>>

DataInit ==
  /\ inode = [f \in Files |-> EmptyInode] /\ dinode = inode
  /\ used = {} /\ blk = [b \in DBlocks |-> [c \in Cells |-> 0]]
  /\ ilk = [f \in Files |-> NoDataProc]
  /\ off = [d \in Fds |-> 0]
  /\ dpc = [p \in DataProcs |-> "idle"] /\ dl = [p \in DataProcs |-> NoData]
  /\ txn = [p \in DataProcs |-> {}]
  /\ want = [f \in Files |-> <<>>] /\ moved = [d \in Fds |-> 0]
  /\ dcalls = MaxDataCalls

-----------------------------------------------------------------------------
(* Blocks *)

Indirect(f) == inode[f].addrs[NDIRECT]

\* The number of block bn of a file, or 0 if it has none.
AddrOf(f, bn) ==
  IF bn < NDIRECT THEN inode[f].addrs[bn]
  ELSE IF Indirect(f) = 0 THEN 0 ELSE blk[Indirect(f)][bn - NDIRECT]

\* Mutant: the search for a free block ignores the bitmap of the first block.
FirstFreeStale == Min(DBlocks \ (used \ {1}))

\* balloc: the first block the bitmap has as free.
FirstFree == Min(DBlocks \ used)

\* balloc for process p; the caller writes the blocks in more, where the number is put.
Balloc(p, b, more) ==
  /\ used # DBlocks
  /\ used' = used \cup {b}
  /\ txn' = [txn EXCEPT ![p] = @ \cup {<<"bitmap", b \div BPB>>, <<"block", b>>} \cup more]

Zeroed(b) == [blk EXCEPT ![b] = [c \in Cells |-> 0]]

-----------------------------------------------------------------------------
(* readi and writei *)

\* The bytes readi returns: what is left of the file, block by block.
Readi(f, o, n) ==
  LET m == IF o > inode[f].size THEN 0
           ELSE IF o + n > inode[f].size THEN inode[f].size - o ELSE n
  IN  [x \in 1 .. m |-> blk[AddrOf(f, (o + x - 1) \div BSIZE)][(o + x - 1) % BSIZE]]

\* Mutant: the slop for writes that begin inside a block is left out.
ChunkNoSlop(n) == LET max == ((MAXOPBLOCKS - 1 - 1) \div 2) * BSIZE IN IF n > max THEN max ELSE n

\* filewrite cuts a call into parts that one transaction can hold.
Chunk(n) == LET max == ((MAXOPBLOCKS - 1 - 1 - 2) \div 2) * BSIZE IN IF n > max THEN max ELSE n

\* f->off, read under the lock of the inode.
Offset(p) == off[dl[p].fd]

DFile(p) == FileOf[dl[p].fd]

DataBegin(p, d, n) ==
  /\ dpc[p] = "idle" /\ dcalls > 0 /\ off[d] >= 0
  /\ dpc' = [dpc EXCEPT ![p] = "chunk"]
  /\ dl' = [dl EXCEPT ![p] = [NoData EXCEPT !.fd = d, !.n = n, !.start = off[d]]]
  /\ dcalls' = dcalls - 1
  /\ UNCHANGED <<dstore, dinode, ilk, off, txn, want, moved>>

\* begin_op, ilock and the checks of writei; a file that would be too large ends
\* the call.
WriteChunk(p) ==
  LET f == DFile(p)
      o == Offset(p)
  IN  /\ dpc[p] = "chunk" /\ ilk[f] = NoDataProc
      /\ IF o > inode[f].size \/ o + Chunk(dl[p].n - dl[p].i) > MAXFILE * BSIZE
         THEN /\ dpc' = [dpc EXCEPT ![p] = "idle"]
              /\ dl' = [dl EXCEPT ![p] = NoData]
              /\ UNCHANGED ilk
         ELSE /\ dpc' = [dpc EXCEPT ![p] = "write"]
              /\ dl' = [dl EXCEPT ![p].at = o, ![p].tot = 0]
              /\ ilk' = [ilk EXCEPT ![f] = p]
      /\ UNCHANGED <<dstore, dinode, off, txn, want, moved, dcalls>>

\* The block writei is at, and whether bmap has to allocate.
BlockAt(p) == (dl[p].at + dl[p].tot) \div BSIZE
Todo(p) == Chunk(dl[p].n - dl[p].i) - dl[p].tot

\* bmap: the indirect block is missing.
BmapIndirect(p) ==
  LET f == DFile(p)
      b == FirstFree
  IN  /\ dpc[p] = "write" /\ Todo(p) > 0
      /\ BlockAt(p) >= NDIRECT /\ Indirect(f) = 0
      /\ Balloc(p, b, {})
      /\ blk' = Zeroed(b)
      /\ inode' = [inode EXCEPT ![f].addrs[NDIRECT] = b]
      /\ UNCHANGED <<dinode, ilk, off, dpc, dl, want, moved, dcalls>>

\* bmap: the block itself is missing.
BmapBlock(p) ==
  LET f == DFile(p)
      bn == BlockAt(p)
      b == FirstFree
  IN  /\ dpc[p] = "write" /\ Todo(p) > 0
      /\ AddrOf(f, bn) = 0
      /\ IF bn < NDIRECT
         THEN /\ Balloc(p, b, {})
              /\ inode' = [inode EXCEPT ![f].addrs[bn] = b]
              /\ blk' = Zeroed(b)
         ELSE /\ Indirect(f) # 0
              /\ Balloc(p, b, {<<"block", Indirect(f)>>})
              /\ blk' = [Zeroed(b) EXCEPT ![Indirect(f)][bn - NDIRECT] = b]
              /\ UNCHANGED inode
      /\ UNCHANGED <<dinode, ilk, off, dpc, dl, want, moved, dcalls>>

\* panic("balloc: out of blocks")
BallocPanic(p) ==
  /\ dpc[p] = "write" /\ Todo(p) > 0 /\ AddrOf(DFile(p), BlockAt(p)) = 0
  /\ used = DBlocks
  /\ dpc' = [dpc EXCEPT ![p] = "panic"]
  /\ UNCHANGED <<dstore, dinode, ilk, off, dl, txn, want, moved, dcalls>>

\* memmove into the block, and log_write.
CopyBlock(p) ==
  LET b == AddrOf(DFile(p), BlockAt(p))
      c == (dl[p].at + dl[p].tot) % BSIZE
      m == Min({Todo(p), BSIZE - c})
  IN  /\ dpc[p] = "write" /\ Todo(p) > 0 /\ b # 0
      /\ blk' = [blk EXCEPT ![b] = [x \in Cells |-> IF x \in c .. c + m - 1 THEN Stamp[p] ELSE @[x]]]
      /\ txn' = [txn EXCEPT ![p] = @ \cup {<<"block", b>>}]
      /\ dl' = [dl EXCEPT ![p].tot = @ + m]
      /\ UNCHANGED <<inode, used, dinode, ilk, off, dpc, want, moved, dcalls>>

\* Mutant: the inode stays in the cache.
IupdateNot(f, node) == dinode

\* The inode is copied to its block.
Iupdate(f, node) == [dinode EXCEPT ![f] = node]

\* s with n bytes x written from offset o on.
Written(s, o, n, x) ==
  [k \in 1 .. Max({Len(s), o + n}) |-> IF k \in o + 1 .. o + n THEN x ELSE s[k]]

\* The end of writei, where a file that grew is written to the disk with
\* iupdate, and of the transaction.
WriteEnd(p) ==
  LET f == DFile(p)
      d == dl[p].fd
      n1 == dl[p].tot
      end == dl[p].at + n1
      grows == end > inode[f].size
      node == [inode[f] EXCEPT !.size = end]
      more == dl[p].i + n1 < dl[p].n
  IN  /\ dpc[p] = "write" /\ Todo(p) = 0
      /\ inode' = IF grows THEN [inode EXCEPT ![f] = node] ELSE inode
      /\ dinode' = IF grows THEN Iupdate(f, node) ELSE dinode
      /\ txn' = [txn EXCEPT ![p] = {}]
      /\ off' = [off EXCEPT ![d] = @ + n1]
      /\ ilk' = [ilk EXCEPT ![f] = NoDataProc]
      /\ want' = [want EXCEPT ![f] = Written(@, dl[p].at, n1, Stamp[p])]
      /\ moved' = [moved EXCEPT ![d] = @ + n1]
      /\ dpc' = [dpc EXCEPT ![p] = IF more THEN "chunk" ELSE "idle"]
      /\ dl' = [dl EXCEPT ![p] = IF more THEN [@ EXCEPT !.i = @ + n1, !.at = 0, !.tot = 0] ELSE NoData]
      /\ UNCHANGED <<used, blk, dcalls>>

\* fileread, which is one step: the lock of the inode is held.
FileRead(p, d, n) ==
  LET f == FileOf[d]
      r == Readi(f, off[d], n)
  IN  /\ dpc[p] = "idle" /\ dcalls > 0 /\ off[d] >= 0
      /\ ilk[f] = NoDataProc
      /\ off' = [off EXCEPT ![d] = @ + Len(r)]
      /\ moved' = [moved EXCEPT ![d] = @ + Len(r)]
      /\ dcalls' = dcalls - 1
      /\ UNCHANGED <<dstore, dinode, ilk, dcall, want>>

-----------------------------------------------------------------------------
(* open and close, and itrunc *)

Busy(d) == \E p \in DataProcs : dl[p].fd = d

\* sys_open: f->off = 0.
DataOpen(d) ==
  /\ off[d] = -1
  /\ \A p \in DataProcs : dl[p].f # FileOf[d]
  /\ off' = [off EXCEPT ![d] = 0]
  /\ UNCHANGED <<dstore, dinode, ilk, dcall, want, moved, dcalls>>

\* The last close of a struct file.
DataClose(d) ==
  /\ off[d] >= 0 /\ ~Busy(d)
  /\ off' = [off EXCEPT ![d] = -1]
  /\ moved' = [moved EXCEPT ![d] = 0]
  /\ UNCHANGED <<dstore, dinode, ilk, dcall, want, dcalls>>

\* iput of an inode without links and other references calls itrunc.
TruncBegin(p, f) ==
  /\ dpc[p] = "idle" /\ dcalls > 0 /\ inode[f].size > 0
  /\ ilk[f] = NoDataProc /\ \A d \in Fds : FileOf[d] = f => off[d] = -1
  /\ dpc' = [dpc EXCEPT ![p] = "trunc"]
  /\ dl' = [dl EXCEPT ![p] = [NoData EXCEPT !.f = f]]
  /\ ilk' = [ilk EXCEPT ![f] = p]
  /\ dcalls' = dcalls - 1
  /\ UNCHANGED <<dstore, dinode, off, txn, want, moved>>

\* The blocks that are still to be freed.
ToFree(p) == {k \in dl[p].k .. MAXFILE - 1 : AddrOf(dl[p].f, k) # 0}

\* bfree of one block; an entry of the indirect block stays as it is.
TruncBlock(p) ==
  LET f == dl[p].f
      k == Min(ToFree(p))
  IN  /\ dpc[p] = "trunc" /\ ToFree(p) # {}
      /\ used' = used \ {AddrOf(f, k)}
      /\ inode' = IF k < NDIRECT THEN [inode EXCEPT ![f].addrs[k] = 0] ELSE inode
      /\ dl' = [dl EXCEPT ![p].k = k + 1]
      /\ UNCHANGED <<blk, dinode, ilk, off, dpc, txn, want, moved, dcalls>>

\* bfree of the indirect block, if there is one.
FreeIndirect(f) == used \ {Indirect(f)}

TruncEnd(p) ==
  LET f == dl[p].f IN
  /\ dpc[p] = "trunc" /\ ToFree(p) = {}
  /\ used' = FreeIndirect(f)
  /\ inode' = [inode EXCEPT ![f] = EmptyInode]
  /\ dinode' = Iupdate(f, EmptyInode)
  /\ want' = [want EXCEPT ![f] = <<>>]
  /\ ilk' = [ilk EXCEPT ![f] = NoDataProc]
  /\ dpc' = [dpc EXCEPT ![p] = "idle"]
  /\ dl' = [dl EXCEPT ![p] = NoData]
  /\ UNCHANGED <<blk, off, txn, moved, dcalls>>

DataStep(p) ==
  \/ WriteChunk(p) \/ BmapIndirect(p) \/ BmapBlock(p) \/ BallocPanic(p) \/ CopyBlock(p)
  \/ WriteEnd(p) \/ TruncBlock(p) \/ TruncEnd(p)

DataCall ==
  \/ \E p \in DataProcs :
       \/ \E d \in Fds, n \in WriteSizes : DataBegin(p, d, n) \/ FileRead(p, d, n)
       \/ \E f \in Files : TruncBegin(p, f)
  \/ \E d \in Fds : DataOpen(d) \/ DataClose(d)

DataNext ==
  /\ \A p \in DataProcs : dpc[p] # "panic"
  /\ DataCall \/ \E p \in DataProcs : DataStep(p)

-----------------------------------------------------------------------------
\* An unlocked file holds exactly what was written, and readi returns it from
\* every offset; that the inode on the disk says the same makes it true after
\* the inode has left the cache, too (readi, writei, bmap, iupdate).  Processes
\* that share an open file get and write consecutive parts: the offset is the
\* number of bytes they have moved together (fileread, filewrite).
FilesKeepData ==
  /\ \A f \in Files : ilk[f] = NoDataProc =>
       /\ dinode[f] = inode[f]
       /\ \A o \in 0 .. Len(want[f]), n \in {1, Len(want[f])} :
            Readi(f, o, n) = SubSeq(want[f], o + 1, Min({o + n, Len(want[f])}))
  /\ \A d \in Fds : off[d] >= 0 => off[d] = moved[d] /\ off[d] <= inode[FileOf[d]].size

\* The places of a file that may have a block: data, and the indirect block; of a
\* file that is being truncated the ones that are not yet free.
Places(f) ==
  (IF \E p \in DataProcs : dl[p].f = f
   THEN dl[CHOOSE p \in DataProcs : dl[p].f = f].k ELSE 0) .. MAXFILE

BlockIn(f, bn) == IF bn = MAXFILE THEN Indirect(f) ELSE AddrOf(f, bn)

\* A block that is in use belongs to exactly one place of one file, and a block
\* that belongs to a file is in use, whatever other processes allocate and free
\* meanwhile; so nothing leaks, and bfree never finds a free block.
BlocksOwnedOnce ==
  LET all == UNION {{<<f, bn, BlockIn(f, bn)>> : bn \in Places(f)} : f \in Files}
      owned == {x \in all : x[3] # 0}
  IN  /\ used = {x[3] : x \in owned}
      /\ Cardinality(used) = Cardinality(owned)

\* No transaction of filewrite writes more blocks than begin_op reserved for it,
\* though it may begin inside a block and every new block may have a bitmap
\* block of its own ("write a few blocks at a time to avoid exceeding the
\* maximum log transaction size"); the inode is one of them.
TransactionFits == \A p \in DataProcs : txn[p] # {} => Cardinality(txn[p]) + 1 <= MAXOPBLOCKS

=============================================================================
