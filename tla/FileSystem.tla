----------------------------- MODULE FileSystem -----------------------------
(***************************************************************************)
(* The file system fs/fs.c over the block cache fs/bc.c, and a machine     *)
(* that stops at any moment.  The file server is one environment and does  *)
(* one request after the other, so an operation is one step in memory; the *)
(* blocks it flushes reach the disk one by one, in the order in which it   *)
(* flushed them, and the machine may stop between any two of them.  The    *)
(* loops of file_flush and fs_sync are one step for each block.            *)
(*                                                                         *)
(* There is one directory of one block, sizes are counted in blocks, and a *)
(* block is read and written as a whole.  A block is a row of words: block *)
(* numbers in an indirect block, one word repeated in a block of data.     *)
(***************************************************************************)
EXTENDS Integers, Sequences

CONSTANTS
  Files,      \* the entries of the directory
  NBLOCKS,    \* blocks 1..NBLOCKS can be allocated
  NDIRECT,    \* (10)
  NINDIRECT,  \* (1024)
  MaxSize,    \* bound: blocks of a file
  Words,      \* what a data block may hold
  NoFile

ASSUME FileSystemAssumption ==
  /\ NBLOCKS \in Nat /\ NDIRECT \in Nat \ {0} /\ NINDIRECT \in Nat
  /\ MaxSize \in 0..(NDIRECT + NINDIRECT)
  /\ Words \subseteq Nat /\ NoFile \notin Files
  \* What a file holds is arbitrary.  With indirect blocks, a new one may hold
  \* old data (file_block_walk), and only data that names blocks is followed:
  \* of other words diskaddr panics, and free_block sets a bit elsewhere.
  /\ MaxSize <= NDIRECT \/ Words \subseteq 0..NBLOCKS

Blocks == 1..NBLOCKS

VARIABLES
  cache,    \* the blocks as they are in memory, and which are dirty
  disk,     \* the blocks as they are on disk
  pending,  \* writes to the disk of the operation under way
  loop,     \* blocks that file_flush or fs_sync has still to look at
  flushed,  \* the file whose file_flush was the last operation, or NoFile
  crashed   \* the machine has stopped at least once

vars == <<cache, disk, pending, loop, flushed, crashed>>

Filled(w) == [i \in 0..(NINDIRECT - 1) |-> w]

\* struct File.  An entry without a name is free.
Empty == [name |-> FALSE, f_size |-> 0, f_direct |-> [i \in 0..(NDIRECT - 1) |-> 0],
          f_indirect |-> 0]

\* bitmap is the set of free blocks.
Formatted ==
  [bitmap |-> Blocks, dir |-> [f \in Files |-> Empty],
   block |-> [b \in Blocks |-> Filled(0)]]

NoDirt(d) ==
  [bitmap |-> d.bitmap, dir |-> d.dir, block |-> d.block, dirty |-> {}, out |-> <<>>]

Init ==
  /\ disk = Formatted
  /\ cache = NoDirt(Formatted)
  /\ pending = <<>>
  /\ loop = <<>>
  /\ flushed = NoFile
  /\ crashed = FALSE
-----------------------------------------------------------------------------
(***************************************************************************)
(* The operators below take a cache and give the next.  Its field out      *)
(* collects the writes to the disk; where blocks are named by number, -1   *)
(* is the bitmap and 0 the directory, which lie in this order before the   *)
(* blocks that are free on a new disk (fs/fsformat.c).                     *)
(***************************************************************************)
Bitmap == -1
Dir == 0
NoBlock == -2

Image(c, x) == CASE x = Bitmap -> c.bitmap [] x = Dir -> c.dir [] OTHER -> c.block[x]

\* A store to a cached block makes its page dirty.
SetBitmap(c, B) == [c EXCEPT !.bitmap = B, !.dirty = @ \cup {Bitmap}]
SetFile(c, f, d) == [c EXCEPT !.dir = [@ EXCEPT ![f] = d], !.dirty = @ \cup {Dir}]
SetBlock(c, b, r) == [c EXCEPT !.block = [@ EXCEPT ![b] = r], !.dirty = @ \cup {b}]

\* flush_block: the block goes out if it is dirty.
flush_block(c, x) ==
  IF x \notin c.dirty THEN c
  ELSE [c EXCEPT !.dirty = @ \ {x}, !.out = Append(@, [to |-> x, image |-> Image(c, x)])]

\* free_block of the blocks in B, in memory only
free_blocks(c, B) == IF B = {} THEN c ELSE SetBitmap(c, c.bitmap \cup B)

CanAlloc(c) == c.bitmap # {}

\* Mutant: the search goes down, and gives the number before the last step.
FirstFree_Next(c) == 1 + CHOOSE b \in c.bitmap : \A x \in c.bitmap : x <= b

FirstFree(c) == CHOOSE b \in c.bitmap : \A x \in c.bitmap : b <= x

\* Mutant: the bitmap stays in memory.
alloc_block_Lazy(c) == SetBitmap(c, c.bitmap \ {FirstFree(c)})

\* Mutant: the bit is not cleared.
alloc_block_NotTaken(c) == c

\* alloc_block clears the bit and writes the bitmap at once: its first block,
\* which is all there is of it on disks of up to BLKBITSIZE (32768) blocks.
alloc_block(c) == flush_block(SetBitmap(c, c.bitmap \ {FirstFree(c)}), Bitmap)

\* The disk block of block n of file f, 0 if there is none
BlockOf(c, f, n) ==
  LET d == c.dir[f] IN
  IF n < NDIRECT THEN d.f_direct[n]
  ELSE IF d.f_indirect = 0 THEN 0 ELSE c.block[d.f_indirect][n - NDIRECT]

SetBlockOf(c, f, n, b) ==
  LET d == c.dir[f]
      x == d.f_indirect
  IN IF n < NDIRECT
       THEN SetFile(c, f, [d EXCEPT !.f_direct = [@ EXCEPT ![n] = b]])
       ELSE SetBlock(c, x, [c.block[x] EXCEPT ![n - NDIRECT] = b])

\* file_block_walk(..., 1): the indirect block is there, or is allocated, and
\* holds what the block held before.
file_block_walk(c, f, n) ==
  IF n < NDIRECT \/ c.dir[f].f_indirect # 0 THEN [ok |-> TRUE, c |-> c]
  ELSE IF ~CanAlloc(c) THEN [ok |-> FALSE, c |-> c]
  ELSE [ok |-> TRUE,
        c |-> SetFile(alloc_block(c), f, [c.dir[f] EXCEPT !.f_indirect = FirstFree(c)])]

\* file_get_block: block n of f is there, or is allocated, for a read as well.
file_get_block(c, f, n) ==
  LET w == file_block_walk(c, f, n) IN
  IF ~w.ok \/ BlockOf(w.c, f, n) # 0 THEN w
  ELSE IF ~CanAlloc(w.c) THEN [ok |-> FALSE, c |-> w.c]
  ELSE [ok |-> TRUE, c |-> SetBlockOf(alloc_block(w.c), f, n, FirstFree(w.c))]

\* file_truncate_blocks: the blocks from n on are free and their pointers
\* cleared, and so is the indirect block if none of its entries is needed.
file_truncate_blocks(c, f, n) ==
  LET d == c.dir[f]
      old == n..(d.f_size - 1)
      far == {i \in old : i >= NDIRECT /\ BlockOf(c, f, i) # 0}
      drop == n <= NDIRECT /\ d.f_indirect # 0
      gone == ({BlockOf(c, f, i) : i \in old} \ {0})
                \cup (IF drop THEN {d.f_indirect} ELSE {})
      freed == free_blocks(c, gone)
      cut == IF far = {} THEN freed
             ELSE SetBlock(freed, d.f_indirect,
                           [i \in 0..(NINDIRECT - 1) |->
                              IF i + NDIRECT \in far THEN 0 ELSE c.block[d.f_indirect][i]])
  IN IF gone = {} THEN c
     ELSE SetFile(cut, f,
            [d EXCEPT !.f_direct = [i \in 0..(NDIRECT - 1) |-> IF i \in old THEN 0 ELSE @[i]],
                      !.f_indirect = IF drop THEN 0 ELSE @])

file_set_size(c, f, n) ==
  LET t == IF c.dir[f].f_size > n THEN file_truncate_blocks(c, f, n) ELSE c
  IN flush_block(SetFile(t, f, [t.dir[f] EXCEPT !.f_size = n]), Dir)

\* Mutant: only the data is written.
FlushOrder_DataOnly(c, f) == [i \in 1..c.dir[f].f_size |-> BlockOf(c, f, i - 1)]

\* file_flush: the data blocks in order, where there are any, the directory
\* with the File in it, and the indirect block if there is one
FlushOrder(c, f) ==
  LET Named(b) == IF b = 0 THEN NoBlock ELSE b IN
  [i \in 1..c.dir[f].f_size |-> Named(BlockOf(c, f, i - 1))]
    \o <<Dir, Named(c.dir[f].f_indirect)>>

\* fs_sync: the whole disk from its first block on
SyncOrder == [i \in 1..(NBLOCKS + 2) |-> i - 2]
-----------------------------------------------------------------------------
(***************************************************************************)
(* The operations of the file server                                       *)
(***************************************************************************)
Idle == pending = <<>> /\ loop = <<>>

\* The operation leaves cache c, and its writes to the disk.
Does(c) ==
  /\ Idle
  /\ pending' = c.out
  /\ cache' = [c EXCEPT !.out = <<>>]
  /\ flushed' = NoFile
  /\ UNCHANGED <<disk, loop, crashed>>

Exists(f) == cache.dir[f].name

\* The entry that is found has no blocks (a directory that is full would grow).
file_create(f) ==
  /\ ~Exists(f)
  /\ Does(flush_block(SetFile(cache, f, [cache.dir[f] EXCEPT !.name = TRUE]), Dir))

\* A write of a block: the size first, then the block.  When the disk is full
\* the new size stays.
file_write(f, n, w) ==
  /\ Exists(f)
  /\ LET s == IF n + 1 > cache.dir[f].f_size THEN file_set_size(cache, f, n + 1)
                                             ELSE cache
         g == file_get_block(s, f, n)
     IN Does(IF g.ok THEN SetBlock(g.c, BlockOf(g.c, f, n), Filled(w)) ELSE g.c)

file_read(f, n) ==
  /\ Exists(f) /\ n < cache.dir[f].f_size
  /\ Does(file_get_block(cache, f, n).c)

set_size(f, n) == Exists(f) /\ Does(file_set_size(cache, f, n))

file_remove(f) ==
  /\ Exists(f)
  /\ LET t == file_truncate_blocks(cache, f, 0) IN
     Does(flush_block(SetFile(t, f, [t.dir[f] EXCEPT !.name = FALSE, !.f_size = 0]), Dir))

\* The loops of file_flush and of fs_sync are about to begin.
file_flush(f) ==
  /\ Idle /\ Exists(f)
  /\ loop' = FlushOrder(cache, f)
  /\ flushed' = f
  /\ UNCHANGED <<cache, disk, pending, crashed>>

fs_sync ==
  /\ Idle
  /\ loop' = SyncOrder
  /\ flushed' = NoFile
  /\ UNCHANGED <<cache, disk, pending, crashed>>

\* One turn of such a loop
flush_next ==
  /\ pending = <<>> /\ loop # <<>>
  /\ LET c == flush_block(cache, Head(loop)) IN
     pending' = c.out /\ cache' = [c EXCEPT !.out = <<>>]
  /\ loop' = Tail(loop)
  /\ UNCHANGED <<disk, flushed, crashed>>

\* The disk after one write
Written(d, w) ==
  CASE w.to = Bitmap -> [d EXCEPT !.bitmap = w.image]
    [] w.to = Dir -> [d EXCEPT !.dir = w.image]
    [] OTHER -> [d EXCEPT !.block = [@ EXCEPT ![w.to] = w.image]]

\* ide_write of one block, which reaches the disk as a whole (the loop over its
\* eight sectors is not taken apart)
ide_write ==
  /\ pending # <<>>
  /\ disk' = Written(disk, Head(pending))
  /\ pending' = Tail(pending)
  /\ UNCHANGED <<cache, loop, flushed, crashed>>

\* The machine stops and starts again: the cache is filled from the disk.
Crash ==
  /\ cache' = NoDirt(disk)
  /\ pending' = <<>>
  /\ loop' = <<>>
  /\ flushed' = NoFile
  /\ crashed' = TRUE
  /\ UNCHANGED disk

Next ==
  \/ \E f \in Files : file_create(f) \/ file_flush(f) \/ file_remove(f)
  \/ \E f \in Files, n \in 0..(MaxSize - 1), w \in Words : file_write(f, n, w)
  \/ \E f \in Files, n \in 0..(MaxSize - 1) : file_read(f, n)
  \/ \E f \in Files, n \in 0..MaxSize : set_size(f, n)
  \/ fs_sync \/ flush_next
  \/ ide_write
  \/ Crash

Spec == Init /\ [][Next]_vars
-----------------------------------------------------------------------------
Rows == [0..(NINDIRECT - 1) -> (0..NBLOCKS) \cup Words]
Entries == [name : BOOLEAN, f_size : 0..MaxSize,
            f_direct : [0..(NDIRECT - 1) -> 0..NBLOCKS], f_indirect : 0..NBLOCKS]
Dirs == [Files -> Entries]
Disks == [bitmap : SUBSET Blocks, dir : Dirs, block : [Blocks -> Rows]]
Names == Blocks \cup {Bitmap, Dir}
Writes == [to : {Bitmap}, image : SUBSET Blocks] \cup [to : {Dir}, image : Dirs]
            \cup [to : Blocks, image : Rows]
Caches == [bitmap : SUBSET Blocks, dir : Dirs, block : [Blocks -> Rows],
           dirty : SUBSET Names, out : Seq(Writes)]

\* Types of the variables.  The numbers that files and writes to the disk keep
\* are numbers of blocks, whatever files hold and however full the disk is: no
\* file leads diskaddr to its panic (fs/bc.c:8-9).
TypeOK ==
  /\ cache \in Caches /\ cache.out = <<>>
  /\ disk \in Disks
  /\ pending \in Seq(Writes)
  /\ loop \in Seq(Names \cup {NoBlock})
  /\ flushed \in Files \cup {NoFile} /\ crashed \in BOOLEAN

\* Where a block of d may be named: entry n of f, or its indirect block
\* (n = -1).  Pointers beyond the end of a file count: they come back to life
\* when it grows.
Places == Files \X (-1..(NDIRECT + NINDIRECT - 1))

Used(d, u) == IF u[2] = -1 THEN d.dir[u[1]].f_indirect ELSE BlockOf(d, u[1], u[2])

Uses(d) == {u \in Places : Used(d, u) # 0}

\* No block is in two places, none that is in use is free.
Sound(d) ==
  /\ \A u, w \in Uses(d) : u # w => Used(d, u) # Used(d, w)
  /\ \A u \in Uses(d) : Used(d, u) \notin d.bitmap

\* Files never share blocks and never own free ones in memory, whatever was
\* written, truncated, removed and lost in crashes (fs/fs.c:57, 214 and 493);
\* without a crash no block is lost either.
FilesAreDisjoint ==
  /\ Sound(cache)
  /\ ~crashed => Blocks = cache.bitmap \cup {Used(cache, u) : u \in Uses(cache)}

\* The same on the disk between any two writes, so that a crash at any moment
\* leaves files that share nothing: a block is marked in use before something
\* on the disk points to it, and its pointer is gone from the disk before its
\* bit is free there (fs/fs.c:49 and 517).
CrashSafe == Sound(disk)

\* When file_flush has returned, the file is on the disk as it is in memory
\* (fs/fs.c:521-524).
FlushIsDurable ==
  flushed # NoFile /\ Idle =>
    /\ disk.dir[flushed] = cache.dir[flushed]
    /\ \A u \in Uses(cache) : u[1] = flushed =>
         disk.block[Used(cache, u)] = cache.block[Used(cache, u)]

\* No two pointers lead to the same block: "Don't forget to clear any block
\* you allocate" (fs/fs.c:151).
NoBlockTwice == \A u, w \in Uses(cache) : u # w => Used(cache, u) # Used(cache, w)
=============================================================================
