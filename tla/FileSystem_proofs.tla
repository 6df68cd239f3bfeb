-------------------------- MODULE FileSystem_proofs --------------------------
(***************************************************************************)
(* Proofs about FileSystem, for any number of files, blocks and pointers:  *)
(* for files without indirect blocks, whatever they hold, that pointers    *)
(* lead to blocks, that files share nothing in memory or on the disk,      *)
(* whenever the machine stops, and that a flushed file is on the disk.     *)
(***************************************************************************)
EXTENDS FileSystem, SequenceTheorems, WellFoundedInduction, TLAPS

-----------------------------------------------------------------------------
(***************************************************************************)
(* What the operators on the cache return.                                 *)
(***************************************************************************)

\* Block numbers, and the names of the other two blocks
LEMMA NameFacts ==
  /\ 0..NBLOCKS = Blocks \cup {0} /\ 0 \notin Blocks
  /\ Bitmap \notin Blocks /\ Dir \notin Blocks /\ Bitmap # Dir
  /\ NoBlock \notin Names
  BY FileSystemAssumption DEF Blocks, Bitmap, Dir, NoBlock, Names

LEMMA CacheParts ==
  ASSUME NEW c \in Caches
  PROVE  /\ c.bitmap \in SUBSET Blocks /\ c.dir \in Dirs /\ c.block \in [Blocks -> Rows]
         /\ c.dirty \in SUBSET Names /\ c.out \in Seq(Writes)
  BY DEF Caches

LEMMA EntryParts ==
  ASSUME NEW d \in Entries
  PROVE  /\ d.name \in BOOLEAN /\ d.f_size \in 0..MaxSize
         /\ d.f_direct \in [0..(NDIRECT - 1) -> 0..NBLOCKS] /\ d.f_indirect \in 0..NBLOCKS
  BY DEF Entries

LEMMA FileEntry ==
  ASSUME NEW c \in Caches, NEW f \in Files
  PROVE  c.dir[f] \in Entries
  BY CacheParts DEF Dirs

LEMMA SetBitmapParts ==
  ASSUME NEW c \in Caches, NEW B \in SUBSET Blocks
  PROVE  /\ SetBitmap(c, B) \in Caches
         /\ SetBitmap(c, B).bitmap = B /\ SetBitmap(c, B).dir = c.dir
         /\ SetBitmap(c, B).block = c.block /\ SetBitmap(c, B).out = c.out
         /\ SetBitmap(c, B).dirty = c.dirty \cup {Bitmap}
<1>1. c.dirty \cup {Bitmap} \in SUBSET Names
  BY CacheParts DEF Names
<1> QED
  BY <1>1 DEF SetBitmap, Caches

LEMMA SetFileParts ==
  ASSUME NEW c \in Caches, NEW f \in Files, NEW d \in Entries
  PROVE  /\ SetFile(c, f, d) \in Caches
         /\ SetFile(c, f, d).bitmap = c.bitmap /\ SetFile(c, f, d).block = c.block
         /\ SetFile(c, f, d).out = c.out
         /\ SetFile(c, f, d).dirty = c.dirty \cup {Dir}
         /\ \A g \in Files : SetFile(c, f, d).dir[g] = IF g = f THEN d ELSE c.dir[g]
<1>1. c.dirty \cup {Dir} \in SUBSET Names
  BY CacheParts DEF Names
<1>2. [c.dir EXCEPT ![f] = d] \in Dirs
  BY CacheParts DEF Dirs
<1>3. \A g \in Files : [c.dir EXCEPT ![f] = d][g] = IF g = f THEN d ELSE c.dir[g]
  BY CacheParts DEF Dirs
<1>4. /\ SetFile(c, f, d) \in Caches
      /\ SetFile(c, f, d).bitmap = c.bitmap /\ SetFile(c, f, d).block = c.block
      /\ SetFile(c, f, d).out = c.out
      /\ SetFile(c, f, d).dirty = c.dirty \cup {Dir}
      /\ SetFile(c, f, d).dir = [c.dir EXCEPT ![f] = d]
  BY <1>1, <1>2 DEF SetFile, Caches
<1> QED
  BY <1>3, <1>4

LEMMA SetBlockParts ==
  ASSUME NEW c \in Caches, NEW b \in Blocks, NEW r \in Rows
  PROVE  /\ SetBlock(c, b, r) \in Caches
         /\ SetBlock(c, b, r).bitmap = c.bitmap /\ SetBlock(c, b, r).dir = c.dir
         /\ SetBlock(c, b, r).out = c.out
         /\ SetBlock(c, b, r).dirty = c.dirty \cup {b}
         /\ \A x \in Blocks : SetBlock(c, b, r).block[x] = IF x = b THEN r ELSE c.block[x]
<1>1. c.dirty \cup {b} \in SUBSET Names
  BY CacheParts DEF Names
<1>2. [c.block EXCEPT ![b] = r] \in [Blocks -> Rows]
  BY CacheParts
<1>3. \A x \in Blocks : [c.block EXCEPT ![b] = r][x] = IF x = b THEN r ELSE c.block[x]
  BY CacheParts
<1>4. /\ SetBlock(c, b, r) \in Caches
      /\ SetBlock(c, b, r).bitmap = c.bitmap /\ SetBlock(c, b, r).dir = c.dir
      /\ SetBlock(c, b, r).out = c.out
      /\ SetBlock(c, b, r).dirty = c.dirty \cup {b}
      /\ SetBlock(c, b, r).block = [c.block EXCEPT ![b] = r]
  BY <1>1, <1>2 DEF SetBlock, Caches
<1> QED
  BY <1>3, <1>4

\* The write that flush_block makes of a dirty block
Sent(c, x) == [to |-> x, image |-> Image(c, x)]

LEMMA SentType ==
  ASSUME NEW c \in Caches, NEW x \in Names
  PROVE  Sent(c, x) \in Writes /\ Sent(c, x).to = x /\ Sent(c, x).image = Image(c, x)
<1>1. CASE x = Bitmap
  BY <1>1, CacheParts DEF Sent, Image, Writes
<1>2. CASE x = Dir
  BY <1>2, CacheParts, NameFacts DEF Sent, Image, Writes
<1>3. CASE x \in Blocks
  <2>1. Image(c, x) = c.block[x] /\ c.block[x] \in Rows
    BY <1>3, CacheParts, NameFacts DEF Image
  <2> QED
    BY <1>3, <2>1 DEF Sent, Writes
<1> QED
  BY <1>1, <1>2, <1>3 DEF Names

LEMMA FlushParts ==
  ASSUME NEW c \in Caches, NEW x \in Names \cup {NoBlock}
  PROVE  /\ flush_block(c, x) \in Caches
         /\ flush_block(c, x).bitmap = c.bitmap /\ flush_block(c, x).dir = c.dir
         /\ flush_block(c, x).block = c.block
         /\ flush_block(c, x).dirty = c.dirty \ {x}
         /\ flush_block(c, x).out = IF x \in c.dirty THEN Append(c.out, Sent(c, x)) ELSE c.out
<1>1. CASE x \notin c.dirty
  BY <1>1 DEF flush_block
<1>2. CASE x \in c.dirty
  <2>1. Sent(c, x) \in Writes
    BY <1>2, CacheParts, SentType
  <2>2. Append(c.out, Sent(c, x)) \in Seq(Writes)
    BY <2>1, CacheParts
  <2>3. flush_block(c, x) =
          [c EXCEPT !.dirty = c.dirty \ {x}, !.out = Append(c.out, Sent(c, x))]
    BY <1>2 DEF flush_block, Sent
  <2>4. c.dirty \ {x} \in SUBSET Names
    BY CacheParts
  <2> QED
    BY <1>2, <2>2, <2>3, <2>4 DEF Caches
<1> QED
  BY <1>1, <1>2

\* The search of alloc_block finds a free block when there is one.
LEMMA FirstFreeIsFree ==
  ASSUME NEW c \in Caches, CanAlloc(c)
  PROVE  FirstFree(c) \in c.bitmap /\ FirstFree(c) \in Blocks
<1>0. PICK R : R = OpToRel(<, Nat)
  OBVIOUS
<1>1. c.bitmap \subseteq Nat /\ c.bitmap # {}
  BY CacheParts, FileSystemAssumption DEF CanAlloc, Blocks
<1>2. \A a, b \in Nat : a < b => <<a, b>> \in R
  BY <1>0, Zenon DEF OpToRel
<1>3. IsWellFoundedOn(R, Nat)
  BY <1>0, NatLessThanWellFounded, Zenon
<1>4. PICK x \in c.bitmap : \A y \in c.bitmap : ~(<<y, x>> \in R)
  BY <1>1, <1>3, WFMin
<1>5. \A y \in c.bitmap : x <= y
  <2> SUFFICES ASSUME NEW y \in c.bitmap PROVE x <= y
    OBVIOUS
  <2>1. x \in Nat /\ y \in Nat
    BY <1>1
  <2>2. ~(y < x)
    BY <1>2, <1>4, <2>1, Zenon
  <2> QED
    BY <2>1, <2>2
<1> QED
  BY <1>5, CacheParts DEF FirstFree

LEMMA AllocParts ==
  ASSUME NEW c \in Caches, CanAlloc(c)
  PROVE  /\ alloc_block(c) \in Caches
         /\ alloc_block(c).bitmap = c.bitmap \ {FirstFree(c)}
         /\ alloc_block(c).dir = c.dir /\ alloc_block(c).block = c.block
         /\ alloc_block(c).dirty = c.dirty \ {Bitmap}
         /\ alloc_block(c).out =
              Append(c.out, Sent(SetBitmap(c, c.bitmap \ {FirstFree(c)}), Bitmap))
<1>1. PICK a : a = SetBitmap(c, c.bitmap \ {FirstFree(c)})
  OBVIOUS
<1>2. /\ a \in Caches /\ a.bitmap = c.bitmap \ {FirstFree(c)} /\ a.dir = c.dir
      /\ a.block = c.block /\ a.out = c.out /\ a.dirty = c.dirty \cup {Bitmap}
  BY <1>1, SetBitmapParts, CacheParts
<1>3. Bitmap \in Names
  BY DEF Names
<1>4. /\ flush_block(a, Bitmap) \in Caches
      /\ flush_block(a, Bitmap).bitmap = a.bitmap /\ flush_block(a, Bitmap).dir = a.dir
      /\ flush_block(a, Bitmap).block = a.block
      /\ flush_block(a, Bitmap).dirty = a.dirty \ {Bitmap}
      /\ flush_block(a, Bitmap).out = Append(a.out, Sent(a, Bitmap))
  BY <1>2, <1>3, FlushParts
<1> QED
  BY <1>1, <1>2, <1>4 DEF alloc_block

\* A block number of a file is one of the disk's, or 0.
LEMMA BlockOfType ==
  ASSUME NEW c \in Caches, NEW f \in Files, NEW n \in 0..(MaxSize - 1)
  PROVE  BlockOf(c, f, n) \in 0..NBLOCKS
<1> USE FileSystemAssumption
<1>1. /\ c.dir[f].f_direct \in [0..(NDIRECT - 1) -> 0..NBLOCKS]
      /\ c.dir[f].f_indirect \in Blocks \cup {0}
  BY FileEntry, EntryParts, NameFacts
<1>2. CASE n < NDIRECT
  BY <1>1, <1>2 DEF BlockOf
<1>3. CASE ~(n < NDIRECT) /\ c.dir[f].f_indirect # 0
  <2>1. c.block[c.dir[f].f_indirect] \in Rows
    BY <1>1, <1>3, CacheParts
  <2>2. n - NDIRECT \in 0..(NINDIRECT - 1) /\ Words \subseteq 0..NBLOCKS
    BY <1>3
  <2>3. c.block[c.dir[f].f_indirect][n - NDIRECT] \in 0..NBLOCKS
    BY <2>1, <2>2 DEF Rows
  <2> QED
    BY <1>3, <2>3 DEF BlockOf
<1>4. CASE ~(n < NDIRECT) /\ c.dir[f].f_indirect = 0
  BY <1>4 DEF BlockOf
<1> QED
  BY <1>2, <1>3, <1>4

LEMMA SetBlockOfType ==
  ASSUME NEW c \in Caches, NEW f \in Files, NEW n \in 0..(NDIRECT + NINDIRECT - 1),
         n < NDIRECT \/ c.dir[f].f_indirect # 0, NEW b \in Blocks
  PROVE  /\ SetBlockOf(c, f, n, b) \in Caches
         /\ BlockOf(SetBlockOf(c, f, n, b), f, n) = b
<1> USE FileSystemAssumption
<1>1. /\ c.dir[f] \in Entries
      /\ c.dir[f].f_direct \in [0..(NDIRECT - 1) -> 0..NBLOCKS]
      /\ c.dir[f].f_indirect \in Blocks \cup {0} /\ b \in 0..NBLOCKS
  BY FileEntry, EntryParts, NameFacts
<1>2. CASE n < NDIRECT
  <2>1. n \in 0..(NDIRECT - 1)
    BY <1>2
  <2>2. PICK r : r = [c.dir[f] EXCEPT !.f_direct = [c.dir[f].f_direct EXCEPT ![n] = b]]
    OBVIOUS
  <2>3. r \in Entries /\ r.f_direct[n] = b
    BY <1>1, <2>1, <2>2 DEF Entries
  <2>4. SetBlockOf(c, f, n, b) = SetFile(c, f, r)
    BY <1>2, <2>2 DEF SetBlockOf
  <2>5. SetFile(c, f, r) \in Caches /\ SetFile(c, f, r).dir[f] = r
    BY <2>3, SetFileParts
  <2> QED
    BY <1>2, <2>3, <2>4, <2>5 DEF BlockOf
<1>3. CASE ~(n < NDIRECT)
  <2>1. PICK x \in Blocks : x = c.dir[f].f_indirect
    BY <1>1, <1>3
  <2>2. n - NDIRECT \in 0..(NINDIRECT - 1)
    BY <1>3
  <2>3. PICK r : r = [c.block[x] EXCEPT ![n - NDIRECT] = b]
    OBVIOUS
  <2>4. r \in Rows /\ r[n - NDIRECT] = b
    BY <1>1, <2>2, <2>3, CacheParts DEF Rows
  <2>5. SetBlockOf(c, f, n, b) = SetBlock(c, x, r)
    BY <1>3, <2>1, <2>3 DEF SetBlockOf
  <2>6. /\ SetBlock(c, x, r) \in Caches /\ SetBlock(c, x, r).dir = c.dir
        /\ SetBlock(c, x, r).block[x] = r
    BY <2>4, SetBlockParts
  <2> QED
    BY <1>3, <2>1, <2>4, <2>5, <2>6, NameFacts DEF BlockOf
<1> QED
  BY <1>2, <1>3

\* file_block_walk succeeds with a place for the pointer.
LEMMA WalkType ==
  ASSUME NEW c \in Caches, NEW f \in Files, NEW n \in 0..(NDIRECT + NINDIRECT - 1)
  PROVE  \/ /\ file_block_walk(c, f, n) = [ok |-> FALSE, c |-> c]
         \/ \E w \in Caches : /\ file_block_walk(c, f, n) = [ok |-> TRUE, c |-> w]
                              /\ n < NDIRECT \/ w.dir[f].f_indirect # 0
<1>1. CASE n < NDIRECT \/ c.dir[f].f_indirect # 0
  BY <1>1 DEF file_block_walk
<1>2. CASE ~(n < NDIRECT \/ c.dir[f].f_indirect # 0) /\ ~CanAlloc(c)
  BY <1>2 DEF file_block_walk
<1>3. CASE ~(n < NDIRECT \/ c.dir[f].f_indirect # 0) /\ CanAlloc(c)
  <2>1. PICK r : r = [c.dir[f] EXCEPT !.f_indirect = FirstFree(c)]
    OBVIOUS
  <2>2. r \in Entries /\ r.f_indirect = FirstFree(c) /\ FirstFree(c) # 0
    BY <1>3, <2>1, FileEntry, FirstFreeIsFree, NameFacts DEF Entries
  <2>3. PICK w : w = SetFile(alloc_block(c), f, r)
    OBVIOUS
  <2>a. alloc_block(c) \in Caches
    BY <1>3, AllocParts
  <2>4. w \in Caches /\ w.dir[f] = r
    BY <2>2, <2>3, <2>a, SetFileParts
  <2>5. file_block_walk(c, f, n) = [ok |-> TRUE, c |-> w]
    BY <1>3, <2>1, <2>3 DEF file_block_walk
  <2> QED
    BY <2>2, <2>4, <2>5
<1> QED
  BY <1>1, <1>2, <1>3

\* file_get_block succeeds with a block of the disk.
LEMMA GetType ==
  ASSUME NEW c \in Caches, NEW f \in Files, NEW n \in 0..(MaxSize - 1)
  PROVE  /\ file_get_block(c, f, n).c \in Caches
         /\ file_get_block(c, f, n).ok => BlockOf(file_get_block(c, f, n).c, f, n) \in Blocks
<1>0. n \in 0..(NDIRECT + NINDIRECT - 1)
  BY FileSystemAssumption
<1>1. CASE file_block_walk(c, f, n) = [ok |-> FALSE, c |-> c]
  <2>1. file_get_block(c, f, n) = [ok |-> FALSE, c |-> c]
    BY <1>1 DEF file_get_block
  <2> QED
    BY <2>1
<1>2. ASSUME NEW w \in Caches, file_block_walk(c, f, n) = [ok |-> TRUE, c |-> w],
             n < NDIRECT \/ w.dir[f].f_indirect # 0
      PROVE  /\ file_get_block(c, f, n).c \in Caches
             /\ file_get_block(c, f, n).ok =>
                  BlockOf(file_get_block(c, f, n).c, f, n) \in Blocks
  <2>1. CASE BlockOf(w, f, n) # 0
    <3>1. file_get_block(c, f, n) = [ok |-> TRUE, c |-> w]
      BY <1>2, <2>1 DEF file_get_block
    <3>2. BlockOf(w, f, n) \in Blocks
      BY <2>1, BlockOfType, NameFacts
    <3> QED
      BY <3>1, <3>2
  <2>2. CASE BlockOf(w, f, n) = 0 /\ ~CanAlloc(w)
    <3>1. file_get_block(c, f, n) = [ok |-> FALSE, c |-> w]
      BY <1>2, <2>2 DEF file_get_block
    <3> QED
      BY <3>1
  <2>3. CASE BlockOf(w, f, n) = 0 /\ CanAlloc(w)
    <3>1. PICK g : g = SetBlockOf(alloc_block(w), f, n, FirstFree(w))
      OBVIOUS
    <3>2. file_get_block(c, f, n) = [ok |-> TRUE, c |-> g]
      BY <1>2, <2>3, <3>1 DEF file_get_block
    <3>3. alloc_block(w) \in Caches /\ alloc_block(w).dir = w.dir /\ FirstFree(w) \in Blocks
      BY <2>3, AllocParts, FirstFreeIsFree
    <3>4. g \in Caches /\ BlockOf(g, f, n) = FirstFree(w)
      BY <1>0, <1>2, <3>1, <3>3, SetBlockOfType
    <3> QED
      BY <3>2, <3>3, <3>4
  <2> QED
    BY <2>1, <2>2, <2>3
<1> QED
  BY <1>0, <1>1, <1>2, WalkType

LEMMA FreeParts ==
  ASSUME NEW c \in Caches, NEW B \in SUBSET Blocks
  PROVE  /\ free_blocks(c, B) \in Caches
         /\ free_blocks(c, B).bitmap = c.bitmap \cup B
         /\ free_blocks(c, B).dir = c.dir /\ free_blocks(c, B).block = c.block
         /\ free_blocks(c, B).out = c.out
         /\ free_blocks(c, B).dirty = IF B = {} THEN c.dirty ELSE c.dirty \cup {Bitmap}
<1>1. CASE B = {}
  BY <1>1 DEF free_blocks
<1>2. CASE B # {}
  <2>1. c.bitmap \cup B \in SUBSET Blocks
    BY CacheParts
  <2> QED
    BY <1>2, <2>1, SetBitmapParts DEF free_blocks
<1> QED
  BY <1>1, <1>2

\* The parts of file_truncate_blocks: the blocks it goes over, those it frees,
\* and the File it leaves.
Old(c, f, n) == n..(c.dir[f].f_size - 1)
Drop(c, f, n) == n <= NDIRECT /\ c.dir[f].f_indirect # 0
Gone(c, f, n) ==
  ({BlockOf(c, f, i) : i \in Old(c, f, n)} \ {0})
    \cup (IF Drop(c, f, n) THEN {c.dir[f].f_indirect} ELSE {})
Far(c, f, n) == {i \in Old(c, f, n) : i >= NDIRECT /\ BlockOf(c, f, i) # 0}
CutRow(c, f, n) ==
  [i \in 0..(NINDIRECT - 1) |->
     IF i + NDIRECT \in Far(c, f, n) THEN 0 ELSE c.block[c.dir[f].f_indirect][i]]
CutEntry(c, f, n) ==
  [c.dir[f] EXCEPT
     !.f_direct = [i \in 0..(NDIRECT - 1) |->
                     IF i \in Old(c, f, n) THEN 0 ELSE c.dir[f].f_direct[i]],
     !.f_indirect = IF Drop(c, f, n) THEN 0 ELSE c.dir[f].f_indirect]

LEMMA TruncateIs ==
  ASSUME NEW c \in Caches, NEW f \in Files, NEW n \in 0..MaxSize
  PROVE  file_truncate_blocks(c, f, n) =
           IF Gone(c, f, n) = {} THEN c
           ELSE SetFile(IF Far(c, f, n) = {} THEN free_blocks(c, Gone(c, f, n))
                        ELSE SetBlock(free_blocks(c, Gone(c, f, n)), c.dir[f].f_indirect,
                                      CutRow(c, f, n)),
                        f, CutEntry(c, f, n))
  BY Zenon DEF file_truncate_blocks, Gone, Far, Drop, Old, CutRow, CutEntry

LEMMA OldRange ==
  ASSUME NEW c \in Caches, NEW f \in Files, NEW n \in 0..MaxSize, NEW i \in Old(c, f, n)
  PROVE  i \in 0..(MaxSize - 1)
  BY FileEntry, EntryParts, FileSystemAssumption DEF Old

LEMMA GoneType ==
  ASSUME NEW c \in Caches, NEW f \in Files, NEW n \in 0..MaxSize
  PROVE  Gone(c, f, n) \in SUBSET Blocks
<1>1. \A i \in Old(c, f, n) : BlockOf(c, f, i) \in Blocks \cup {0}
  BY OldRange, BlockOfType, NameFacts
<1>2. c.dir[f].f_indirect \in Blocks \cup {0}
  BY FileEntry, EntryParts, NameFacts
<1>3. \A b \in Gone(c, f, n) : b \in Blocks
  BY <1>1, <1>2 DEF Gone, Drop
<1> QED
  BY <1>3

LEMMA CutEntryType ==
  ASSUME NEW c \in Caches, NEW f \in Files, NEW n \in 0..MaxSize
  PROVE  /\ CutEntry(c, f, n) \in Entries
         /\ CutEntry(c, f, n).f_size = c.dir[f].f_size
         /\ CutEntry(c, f, n).f_indirect = IF Drop(c, f, n) THEN 0 ELSE c.dir[f].f_indirect
         /\ \A i \in 0..(NDIRECT - 1) :
              CutEntry(c, f, n).f_direct[i] =
                IF i \in Old(c, f, n) THEN 0 ELSE c.dir[f].f_direct[i]
<1>1. PICK d : d = c.dir[f]
  OBVIOUS
<1>2. /\ d \in Entries /\ d.f_direct \in [0..(NDIRECT - 1) -> 0..NBLOCKS]
      /\ d.f_indirect \in 0..NBLOCKS
  BY <1>1, FileEntry, EntryParts
<1>3. PICK p : p = [i \in 0..(NDIRECT - 1) |-> IF i \in Old(c, f, n) THEN 0 ELSE d.f_direct[i]]
  OBVIOUS
<1>4. p \in [0..(NDIRECT - 1) -> 0..NBLOCKS]
  BY <1>2, <1>3, FileSystemAssumption
<1>5. PICK x : x = IF Drop(c, f, n) THEN 0 ELSE d.f_indirect
  OBVIOUS
<1>6. x \in 0..NBLOCKS
  BY <1>2, <1>5, FileSystemAssumption
<1>7. CutEntry(c, f, n) = [d EXCEPT !.f_direct = p, !.f_indirect = x]
  BY <1>1, <1>3, <1>5, Zenon DEF CutEntry
<1>8. /\ [d EXCEPT !.f_direct = p, !.f_indirect = x] \in Entries
      /\ [d EXCEPT !.f_direct = p, !.f_indirect = x].f_size = d.f_size
      /\ [d EXCEPT !.f_direct = p, !.f_indirect = x].f_indirect = x
      /\ [d EXCEPT !.f_direct = p, !.f_indirect = x].f_direct = p
  BY <1>2, <1>4, <1>6 DEF Entries
<1>9. \A i \in 0..(NDIRECT - 1) : p[i] = IF i \in Old(c, f, n) THEN 0 ELSE d.f_direct[i]
  BY <1>3
<1> QED
  BY <1>1, <1>5, <1>7, <1>8, <1>9

LEMMA TruncateType ==
  ASSUME NEW c \in Caches, NEW f \in Files, NEW n \in 0..MaxSize
  PROVE  file_truncate_blocks(c, f, n) \in Caches
<1>1. CASE Gone(c, f, n) = {}
  BY <1>1, TruncateIs
<1>2. CASE Gone(c, f, n) # {}
  <2>1. free_blocks(c, Gone(c, f, n)) \in Caches
    BY GoneType, FreeParts
  <2>2. CASE Far(c, f, n) = {}
    <3>1. file_truncate_blocks(c, f, n) =
            SetFile(free_blocks(c, Gone(c, f, n)), f, CutEntry(c, f, n))
      BY <1>2, <2>2, TruncateIs
    <3> QED
      BY <2>1, <3>1, CutEntryType, SetFileParts
  <2>3. CASE Far(c, f, n) # {}
    <3>1. PICK i \in Old(c, f, n) : i >= NDIRECT /\ BlockOf(c, f, i) # 0
      BY <2>3 DEF Far
    <3>2. ~(i < NDIRECT)
      BY <3>1, OldRange, FileSystemAssumption
    <3>3. c.dir[f].f_indirect \in Blocks
      BY <3>1, <3>2, FileEntry, EntryParts, NameFacts DEF BlockOf
    <3>4. CutRow(c, f, n) \in Rows
      <4>1. PICK r \in Rows : r = c.block[c.dir[f].f_indirect]
        BY <3>3, CacheParts
      <4>2. CutRow(c, f, n) = [k \in 0..(NINDIRECT - 1) |->
                                 IF k + NDIRECT \in Far(c, f, n) THEN 0 ELSE r[k]]
        BY <4>1, Zenon DEF CutRow
      <4>3. 0 \in 0..NBLOCKS
        BY FileSystemAssumption
      <4> QED
        BY <4>1, <4>2, <4>3 DEF Rows
    <3>5. SetBlock(free_blocks(c, Gone(c, f, n)), c.dir[f].f_indirect, CutRow(c, f, n)) \in Caches
      BY <2>1, <3>3, <3>4, SetBlockParts
    <3>6. file_truncate_blocks(c, f, n) =
            SetFile(SetBlock(free_blocks(c, Gone(c, f, n)), c.dir[f].f_indirect,
                             CutRow(c, f, n)), f, CutEntry(c, f, n))
      BY <1>2, <2>3, TruncateIs
    <3> QED
      BY <3>5, <3>6, CutEntryType, SetFileParts
  <2> QED
    BY <2>2, <2>3
<1> QED
  BY <1>1, <1>2

\* A File with another size
LEMMA SizedEntry ==
  ASSUME NEW d \in Entries, NEW n \in 0..MaxSize
  PROVE  /\ [d EXCEPT !.f_size = n] \in Entries /\ [d EXCEPT !.f_size = n].f_size = n
         /\ [d EXCEPT !.f_size = n].f_direct = d.f_direct
         /\ [d EXCEPT !.f_size = n].f_indirect = d.f_indirect
  BY DEF Entries

LEMMA SetSizeType ==
  ASSUME NEW c \in Caches, NEW f \in Files, NEW n \in 0..MaxSize
  PROVE  file_set_size(c, f, n) \in Caches
<1>1. PICK t : t = IF c.dir[f].f_size > n THEN file_truncate_blocks(c, f, n) ELSE c
  OBVIOUS
<1>2. t \in Caches
  BY <1>1, TruncateType
<1>3. PICK r : r = [t.dir[f] EXCEPT !.f_size = n]
  OBVIOUS
<1>4. r \in Entries
  BY <1>2, <1>3, FileEntry, SizedEntry
<1>5. file_set_size(c, f, n) = flush_block(SetFile(t, f, r), Dir)
  BY <1>1, <1>3, Zenon DEF file_set_size
<1>6. Dir \in Names
  BY DEF Names
<1> QED
  BY <1>2, <1>4, <1>5, <1>6, SetFileParts, FlushParts

LEMMA NamedEntry ==
  ASSUME NEW d \in Entries
  PROVE  /\ [d EXCEPT !.name = TRUE] \in Entries
         /\ [d EXCEPT !.name = TRUE].f_size = d.f_size
         /\ [d EXCEPT !.name = TRUE].f_direct = d.f_direct
         /\ [d EXCEPT !.name = TRUE].f_indirect = d.f_indirect
  BY DEF Entries

LEMMA RemovedEntry ==
  ASSUME NEW d \in Entries
  PROVE  /\ [d EXCEPT !.name = FALSE, !.f_size = 0] \in Entries
         /\ [d EXCEPT !.name = FALSE, !.f_size = 0].f_size = 0
         /\ [d EXCEPT !.name = FALSE, !.f_size = 0].f_direct = d.f_direct
         /\ [d EXCEPT !.name = FALSE, !.f_size = 0].f_indirect = d.f_indirect
<1>1. 0 \in 0..MaxSize
  BY FileSystemAssumption
<1> QED
  BY <1>1 DEF Entries

\* A function over 1..z is a sequence; what is in the concatenation of two
LEMMA FunSeq ==
  ASSUME NEW S, NEW z \in Nat, NEW D \in [1..z -> S]
  PROVE  D \in Seq(S) /\ Len(D) = z
<1>1. D \in Seq(S)
  BY SeqDef
<1> QED
  BY <1>1, LenProperties

LEMMA ConcatFacts ==
  ASSUME NEW S, NEW D \in Seq(S), NEW T \in Seq(S), NEW z \in Nat, Len(D) = z, Len(T) = 2
  PROVE  /\ D \o T \in Seq(S) /\ Len(D \o T) = z + 2
         /\ (D \o T)[z + 1] = T[1]
         /\ \A i \in 1..z : (D \o T)[i] = D[i]
<1>1. /\ D \o T \in Seq(S) /\ Len(D \o T) = z + 2
      /\ \A i \in 1..(z + 2) : (D \o T)[i] = IF i <= z THEN D[i] ELSE T[i - z]
  <2>1. /\ D \o T \in Seq(S) /\ Len(D \o T) = Len(D) + Len(T)
        /\ \A i \in 1..(Len(D) + Len(T)) :
             (D \o T)[i] = IF i <= Len(D) THEN D[i] ELSE T[i - Len(D)]
    BY ConcatProperties, Zenon
  <2> QED
    BY <2>1, Zenon
<1>2. z + 1 \in 1..(z + 2) /\ ~(z + 1 <= z) /\ (z + 1) - z = 1
  OBVIOUS
<1>3. \A i \in 1..z : i \in 1..(z + 2) /\ i <= z
  OBVIOUS
<1> QED
  BY <1>1, <1>2, <1>3, Zenon

\* What file_flush goes over: the data of the file, the directory and the
\* indirect block
LEMMA FlushOrderParts ==
  ASSUME NEW c \in Caches, NEW f \in Files
  PROVE  /\ FlushOrder(c, f) \in Seq(Names \cup {NoBlock})
         /\ \E i \in 1..Len(FlushOrder(c, f)) : FlushOrder(c, f)[i] = Dir
         /\ \A n \in 0..(c.dir[f].f_size - 1) : BlockOf(c, f, n) # 0 =>
              \E i \in 1..Len(FlushOrder(c, f)) : FlushOrder(c, f)[i] = BlockOf(c, f, n)
<1> USE FileSystemAssumption
<1> DEFINE Named(b) == IF b = 0 THEN NoBlock ELSE b
           z == c.dir[f].f_size
           D == [i \in 1..z |-> Named(BlockOf(c, f, i - 1))]
           T == <<Dir, Named(c.dir[f].f_indirect)>>
           S == Names \cup {NoBlock}
<1>1. z \in Nat /\ z <= MaxSize
  BY FileEntry, EntryParts
<1>2. \A b \in 0..NBLOCKS : Named(b) \in S
  BY NameFacts DEF Names
<1>3. \A i \in 1..z : Named(BlockOf(c, f, i - 1)) \in S
  <2> SUFFICES ASSUME NEW i \in 1..z PROVE Named(BlockOf(c, f, i - 1)) \in S
    OBVIOUS
  <2>1. i - 1 \in 0..(MaxSize - 1)
    BY <1>1
  <2> QED
    BY <1>2, <2>1, BlockOfType
<1>4. D \in [1..z -> S]
  BY <1>3
<1>5. D \in Seq(S) /\ Len(D) = z
  <2> HIDE DEF D, S, z
  <2> QED
    BY <1>1, <1>4, FunSeq, Zenon
<1>6. Dir \in S /\ Named(c.dir[f].f_indirect) \in S
  BY <1>2, FileEntry, EntryParts DEF Names
<1>7. T \in Seq(S) /\ Len(T) = 2 /\ T[1] = Dir
  BY <1>6
<1>8. FlushOrder(c, f) = D \o T
  BY Zenon DEF FlushOrder
<1> HIDE DEF D, T
<1>9. /\ D \o T \in Seq(S) /\ Len(D \o T) = z + 2
      /\ (D \o T)[z + 1] = Dir
      /\ \A i \in 1..z : (D \o T)[i] = D[i]
  <2> HIDE DEF S, z
  <2> QED
    BY <1>1, <1>5, <1>7, ConcatFacts
<1>10. z + 1 \in 1..(z + 2) /\ (D \o T)[z + 1] = Dir
  <2> HIDE DEF S, z
  <2>1. z + 1 \in 1..(z + 2)
    BY <1>1
  <2> QED
    BY <1>9, <2>1
<1>11. ASSUME NEW n \in 0..(z - 1), BlockOf(c, f, n) # 0
       PROVE  \E i \in 1..(z + 2) : (D \o T)[i] = BlockOf(c, f, n)
  <2>1. n + 1 \in 1..z /\ n + 1 \in 1..(z + 2) /\ n + 1 <= z /\ (n + 1) - 1 = n
    BY <1>1
  <2>2. D[n + 1] = Named(BlockOf(c, f, n))
    BY <2>1 DEF D
  <2>3. D[n + 1] = BlockOf(c, f, n)
    BY <1>11, <2>2
  <2> QED
    BY <1>9, <2>1, <2>3
<1> QED
  BY <1>8, <1>9, <1>10, <1>11

LEMMA SyncOrderType == SyncOrder \in Seq(Names \cup {NoBlock})
<1> USE FileSystemAssumption
<1>1. \A i \in 1..(NBLOCKS + 2) : i - 2 \in Names
  BY DEF Names, Blocks, Bitmap, Dir
<1>2. SyncOrder \in [1..(NBLOCKS + 2) -> Names \cup {NoBlock}]
  BY <1>1 DEF SyncOrder
<1>3. NBLOCKS + 2 \in Nat
  OBVIOUS
<1> QED
  BY <1>2, <1>3, FunSeq

LEMMA WrittenParts ==
  ASSUME NEW d \in Disks, NEW w \in Writes
  PROVE  /\ Written(d, w) \in Disks
         /\ w.to \in Names
         /\ Written(d, w).bitmap = IF w.to = Bitmap THEN w.image ELSE d.bitmap
         /\ Written(d, w).dir = IF w.to = Dir THEN w.image ELSE d.dir
         /\ \A x \in Blocks :
              Written(d, w).block[x] = IF w.to = x THEN w.image ELSE d.block[x]
<1>1. CASE w.to = Bitmap
  <2>1. w.image \in SUBSET Blocks
    BY <1>1, NameFacts DEF Writes
  <2>2. Written(d, w) = [d EXCEPT !.bitmap = w.image]
    BY <1>1, NameFacts DEF Written
  <2> QED
    BY <1>1, <2>1, <2>2, NameFacts DEF Disks, Names
<1>2. CASE w.to = Dir
  <2>1. w.image \in Dirs
    BY <1>2, NameFacts DEF Writes
  <2>2. Written(d, w) = [d EXCEPT !.dir = w.image]
    BY <1>2, NameFacts DEF Written
  <2> QED
    BY <1>2, <2>1, <2>2, NameFacts DEF Disks, Names
<1>3. CASE w.to \in Blocks
  <2>1. w.image \in Rows
    BY <1>3, NameFacts DEF Writes
  <2>2. Written(d, w) = [d EXCEPT !.block = [d.block EXCEPT ![w.to] = w.image]]
    BY <1>3, NameFacts DEF Written
  <2>3. d.block \in [Blocks -> Rows]
    BY DEF Disks
  <2>4. /\ [d.block EXCEPT ![w.to] = w.image] \in [Blocks -> Rows]
        /\ \A x \in Blocks : [d.block EXCEPT ![w.to] = w.image][x]
                               = IF w.to = x THEN w.image ELSE d.block[x]
    BY <1>3, <2>1, <2>3
  <2>5. /\ Written(d, w) \in Disks /\ Written(d, w).bitmap = d.bitmap
        /\ Written(d, w).dir = d.dir
        /\ Written(d, w).block = [d.block EXCEPT ![w.to] = w.image]
    BY <2>2, <2>4 DEF Disks
  <2> QED
    BY <1>3, <2>4, <2>5, NameFacts DEF Names
<1> QED
  BY <1>1, <1>2, <1>3 DEF Writes

LEMMA EmptiedParts ==
  ASSUME NEW c \in Caches
  PROVE  /\ [c EXCEPT !.out = <<>>] \in Caches /\ [c EXCEPT !.out = <<>>].out = <<>>
         /\ [c EXCEPT !.out = <<>>].bitmap = c.bitmap /\ [c EXCEPT !.out = <<>>].dir = c.dir
         /\ [c EXCEPT !.out = <<>>].block = c.block
         /\ [c EXCEPT !.out = <<>>].dirty = c.dirty
<1>1. <<>> \in Seq(Writes)
  OBVIOUS
<1> QED
  BY <1>1 DEF Caches


LEMMA NoDirtParts ==
  ASSUME NEW d \in Disks
  PROVE  /\ NoDirt(d) \in Caches /\ NoDirt(d).out = <<>> /\ NoDirt(d).dirty = {}
         /\ NoDirt(d).bitmap = d.bitmap /\ NoDirt(d).dir = d.dir /\ NoDirt(d).block = d.block
<1>1. <<>> \in Seq(Writes) /\ {} \in SUBSET Names
  OBVIOUS
<1> QED
  BY <1>1 DEF NoDirt, Caches, Disks

\* A new disk
LEMMA FormattedType ==
  /\ Formatted \in Disks
  /\ Formatted.bitmap = Blocks /\ Formatted.dir = [f \in Files |-> Empty]
<1> USE FileSystemAssumption
<1>1. 0 \in 0..NBLOCKS /\ 0 \in 0..MaxSize
  OBVIOUS
<1>2. Filled(0) \in Rows
  BY <1>1 DEF Filled, Rows
<1>3. [i \in 0..(NDIRECT - 1) |-> 0] \in [0..(NDIRECT - 1) -> 0..NBLOCKS]
  BY <1>1
<1>4. Empty \in Entries
  <2> DEFINE P == [i \in 0..(NDIRECT - 1) |-> 0]
             Q == [0..(NDIRECT - 1) -> 0..NBLOCKS]
  <2> HIDE DEF P, Q
  <2>1. P \in Q
    BY <1>3 DEF P, Q
  <2>2. [name |-> FALSE, f_size |-> 0, f_direct |-> P, f_indirect |-> 0]
          \in [name : BOOLEAN, f_size : 0..MaxSize, f_direct : Q, f_indirect : 0..NBLOCKS]
    BY <1>1, <2>1
  <2> QED
    BY <2>2 DEF Empty, Entries, P, Q
<1>5. /\ [f \in Files |-> Empty] \in Dirs
      /\ [b \in Blocks |-> Filled(0)] \in [Blocks -> Rows]
  BY <1>2, <1>4 DEF Dirs
<1> QED
  BY <1>5 DEF Formatted, Disks

\* The cache a write leaves, and what it is made from
LEMMA FilledType ==
  ASSUME NEW w \in Words
  PROVE  Filled(w) \in Rows
  BY FileSystemAssumption DEF Filled, Rows

LEMMA CreateType ==
  ASSUME NEW c \in Caches, NEW f \in Files
  PROVE  flush_block(SetFile(c, f, [c.dir[f] EXCEPT !.name = TRUE]), Dir) \in Caches
<1>1. [c.dir[f] EXCEPT !.name = TRUE] \in Entries
  BY FileEntry, NamedEntry
<1>2. Dir \in Names \cup {NoBlock}
  BY DEF Names
<1> QED
  BY <1>1, <1>2, SetFileParts, FlushParts

LEMMA RemoveType ==
  ASSUME NEW t \in Caches, NEW f \in Files
  PROVE  flush_block(SetFile(t, f, [t.dir[f] EXCEPT !.name = FALSE, !.f_size = 0]), Dir)
           \in Caches
<1>1. [t.dir[f] EXCEPT !.name = FALSE, !.f_size = 0] \in Entries
  BY FileEntry, RemovedEntry
<1>2. Dir \in Names \cup {NoBlock}
  BY DEF Names
<1> QED
  BY <1>1, <1>2, SetFileParts, FlushParts

LEMMA WriteType ==
  ASSUME NEW s \in Caches, NEW f \in Files, NEW n \in 0..(MaxSize - 1), NEW w \in Words
  PROVE  (IF file_get_block(s, f, n).ok
          THEN SetBlock(file_get_block(s, f, n).c,
                        BlockOf(file_get_block(s, f, n).c, f, n), Filled(w))
          ELSE file_get_block(s, f, n).c) \in Caches
  BY GetType, FilledType, SetBlockParts

\* A step that leaves a cache and its writes
LEMMA DoesType ==
  ASSUME NEW c \in Caches, TypeOK, Does(c)
  PROVE  TypeOK'
<1>1. cache' \in Caches /\ cache'.out = <<>>
  BY EmptiedParts DEF Does
<1>2. pending' \in Seq(Writes)
  BY CacheParts DEF Does
<1> QED
  BY <1>1, <1>2 DEF Does, TypeOK

LEMMA NextType == TypeOK /\ [Next]_vars => TypeOK'
<1> USE FileSystemAssumption
<1> SUFFICES ASSUME TypeOK, [Next]_vars PROVE TypeOK'
  OBVIOUS
<1>0. cache \in Caches
  BY DEF TypeOK
<1>1. ASSUME NEW f \in Files, file_create(f) PROVE TypeOK'
  <2> DEFINE c == flush_block(SetFile(cache, f, [cache.dir[f] EXCEPT !.name = TRUE]), Dir)
  <2>1. c \in Caches
    BY <1>0, CreateType
  <2>2. Does(c)
    BY <1>1 DEF file_create
  <2> HIDE DEF c
  <2> QED
    BY <2>1, <2>2, DoesType
<1>2. ASSUME NEW f \in Files, file_flush(f) PROVE TypeOK'
  <2>1. loop' \in Seq(Names \cup {NoBlock})
    BY <1>0, <1>2, FlushOrderParts DEF file_flush
  <2> QED
    BY <1>2, <2>1 DEF file_flush, TypeOK
<1>3. ASSUME NEW f \in Files, file_remove(f) PROVE TypeOK'
  <2>1. PICK t : t = file_truncate_blocks(cache, f, 0)
    OBVIOUS
  <2>2. t \in Caches
    BY <1>0, <2>1, TruncateType
  <2> DEFINE c == flush_block(SetFile(t, f, [t.dir[f] EXCEPT !.name = FALSE, !.f_size = 0]), Dir)
  <2>3. c \in Caches
    BY <2>2, RemoveType
  <2>4. Does(c)
    BY <1>3, <2>1, Zenon DEF file_remove
  <2> HIDE DEF c
  <2> QED
    BY <2>3, <2>4, DoesType
<1>4. ASSUME NEW f \in Files, NEW n \in 0..(MaxSize - 1), NEW w \in Words, file_write(f, n, w)
      PROVE  TypeOK'
  <2>1. PICK s : s = IF n + 1 > cache.dir[f].f_size THEN file_set_size(cache, f, n + 1)
                     ELSE cache
    OBVIOUS
  <2>2. n + 1 \in 0..MaxSize
    OBVIOUS
  <2>3. s \in Caches
    BY <1>0, <2>1, <2>2, SetSizeType
  <2> DEFINE c == IF file_get_block(s, f, n).ok
                  THEN SetBlock(file_get_block(s, f, n).c,
                                BlockOf(file_get_block(s, f, n).c, f, n), Filled(w))
                  ELSE file_get_block(s, f, n).c
  <2>4. c \in Caches
    BY <2>3, WriteType
  <2>5. Does(c)
    BY <1>4, <2>1, Zenon DEF file_write
  <2> HIDE DEF c
  <2> QED
    BY <2>4, <2>5, DoesType
<1>5. ASSUME NEW f \in Files, NEW n \in 0..(MaxSize - 1), file_read(f, n) PROVE TypeOK'
  <2>1. PICK c : c = file_get_block(cache, f, n).c
    OBVIOUS
  <2>2. c \in Caches /\ Does(c)
    BY <1>0, <1>5, <2>1, GetType DEF file_read
  <2> QED
    BY <2>2, DoesType
<1>6. ASSUME NEW f \in Files, NEW n \in 0..MaxSize, set_size(f, n) PROVE TypeOK'
  <2>1. PICK c : c = file_set_size(cache, f, n)
    OBVIOUS
  <2>2. c \in Caches /\ Does(c)
    BY <1>0, <1>6, <2>1, SetSizeType DEF set_size
  <2> QED
    BY <2>2, DoesType
<1>7. ASSUME fs_sync PROVE TypeOK'
  BY <1>7, SyncOrderType DEF fs_sync, TypeOK
<1>8. ASSUME flush_next PROVE TypeOK'
  <2>0. loop \in Seq(Names \cup {NoBlock}) /\ loop # <<>>
    BY <1>8 DEF flush_next, TypeOK
  <2>1. Head(loop) \in Names \cup {NoBlock} /\ Tail(loop) \in Seq(Names \cup {NoBlock})
    BY <2>0
  <2>2. PICK c : c = flush_block(cache, Head(loop))
    OBVIOUS
  <2>3. c \in Caches
    BY <1>0, <2>1, <2>2, FlushParts
  <2>4. pending' = c.out /\ cache' = [c EXCEPT !.out = <<>>] /\ loop' = Tail(loop)
        /\ UNCHANGED <<disk, flushed, crashed>>
    BY <1>8, <2>2, Zenon DEF flush_next
  <2>5. pending' \in Seq(Writes) /\ cache' \in Caches /\ cache'.out = <<>>
    BY <2>3, <2>4, CacheParts, EmptiedParts
  <2> QED
    BY <2>1, <2>4, <2>5 DEF TypeOK
<1>9. ASSUME ide_write PROVE TypeOK'
  <2>1. Head(pending) \in Writes /\ Tail(pending) \in Seq(Writes)
    BY <1>9 DEF ide_write, TypeOK
  <2>2. disk' \in Disks
    BY <1>9, <2>1, WrittenParts DEF ide_write, TypeOK
  <2> QED
    BY <1>9, <2>1, <2>2 DEF ide_write, TypeOK
<1>10. ASSUME Crash PROVE TypeOK'
  <2>1. cache' \in Caches /\ cache'.out = <<>>
    BY <1>10, NoDirtParts DEF Crash, TypeOK
  <2>2. <<>> \in Seq(Writes) /\ <<>> \in Seq(Names \cup {NoBlock})
    OBVIOUS
  <2> QED
    BY <1>10, <2>1, <2>2 DEF Crash, TypeOK
<1>11. CASE UNCHANGED vars
  BY <1>11 DEF vars, TypeOK
<1> QED
  BY <1>1, <1>2, <1>3, <1>4, <1>5, <1>6, <1>7, <1>8, <1>9, <1>10, <1>11, Zenon DEF Next

LEMMA InitType == Init => TypeOK
<1> SUFFICES ASSUME Init PROVE TypeOK
  OBVIOUS
<1>1. cache \in Caches /\ cache.out = <<>> /\ disk \in Disks
  BY FormattedType, NoDirtParts DEF Init
<1>2. <<>> \in Seq(Writes) /\ <<>> \in Seq(Names \cup {NoBlock})
  OBVIOUS
<1> QED
  BY <1>1, <1>2 DEF Init, TypeOK

\* Every block number that files without indirect blocks keep, in memory, on the
\* disk and in the writes under way, is the number of a block, whatever words
\* their blocks hold (TypeOK): the search of alloc_block never leaves the disk
\* (fs/fs.c:37-58), and no crash brings back a number that is not a block's.
THEOREM TypeCorrect == MaxSize <= NDIRECT => (Spec => []TypeOK)
  BY InitType, NextType, PTL DEF Spec
-----------------------------------------------------------------------------
(***************************************************************************)
(* Files without indirect blocks: the inductive invariant.  The writes     *)
(* under way take the disk over disks that are all in order to one, the    *)
(* disk to come, that the cache extends safely: what is not dirty is the   *)
(* same there, no block the cache points to is free there, and no block    *)
(* the disk to come points to is free in the cache.                        *)
(***************************************************************************)
Direct == 0..(NDIRECT - 1)
Ptr(dir, f, n) == dir[f].f_direct[n]

DirOK(dir) ==
  /\ \A f \in Files : dir[f].f_indirect = 0
  /\ \A f \in Files, n \in Direct : Ptr(dir, f, n) # 0 => n < dir[f].f_size
  /\ \A f, g \in Files, n, m \in Direct :
       Ptr(dir, f, n) # 0 /\ Ptr(dir, f, n) = Ptr(dir, g, m) => f = g /\ n = m

\* No pointer of dir leads to a block in B.
Apart(dir, B) == \A f \in Files, n \in Direct : Ptr(dir, f, n) \notin B

DiskOK(d) == DirOK(d.dir) /\ Apart(d.dir, d.bitmap)

\* What is not dirty in cache c is the same on disk e.
Agree(c, e) ==
  /\ Bitmap \notin c.dirty => c.bitmap = e.bitmap
  /\ Dir \notin c.dirty => c.dir = e.dir
  /\ \A b \in Blocks : b \notin c.dirty => c.block[b] = e.block[b]

\* Cache c may write its directory to disk e ...
Follows(c, e) ==
  /\ DirOK(c.dir) /\ Apart(c.dir, c.bitmap) /\ Apart(c.dir, e.bitmap)
  /\ Agree(c, e)

\* ... and its bitmap as well.
Safe(c, e) == Follows(c, e) /\ Apart(e.dir, c.bitmap)

\* The writes ws take disk d to disk e, over disks that are in order.
Leads(d, ws, e) ==
  \E s \in Seq(Disks) :
    /\ Len(s) = Len(ws) + 1 /\ s[1] = d /\ s[Len(ws) + 1] = e
    /\ \A k \in 1..Len(ws) : s[k + 1] = Written(s[k], ws[k])
    /\ \A k \in 1..(Len(ws) + 1) : DiskOK(s[k])

\* A cache that was disk d, with its writes
Good(c, d) == \E e \in Disks : Leads(d, c.out, e) /\ Safe(c, e)

\* Every block is free or in use.
Full(c) == \A b \in Blocks :
  b \in c.bitmap \/ \E f \in Files, n \in Direct : Ptr(c.dir, f, n) = b

Occurs(x, s) == \E i \in 1..Len(s) : s[i] = x

FsInv ==
  /\ \E e \in Disks : Leads(disk, pending, e) /\ Safe(cache, e)
  /\ ~crashed => Full(cache)
  /\ flushed # NoFile =>
       /\ Dir \notin cache.dirty \/ Occurs(Dir, loop)
       /\ \A n \in Direct : Ptr(cache.dir, flushed, n) # 0 =>
            \/ Ptr(cache.dir, flushed, n) \notin cache.dirty
            \/ Occurs(Ptr(cache.dir, flushed, n), loop)

LEMMA LeadsNone ==
  ASSUME NEW d \in Disks, DiskOK(d)
  PROVE  Leads(d, <<>>, d)
<1>1. <<d>> \in Seq(Disks) /\ Len(<<d>>) = 1 /\ <<d>>[1] = d
  OBVIOUS
<1>2. Len(<<>>) = 0 /\ 1..0 = {} /\ 1..(0 + 1) = {1} /\ 0 + 1 = 1
  OBVIOUS
<1>3. PICK s \in Seq(Disks) : Len(s) = 1 /\ s[1] = d
  BY <1>1
<1> QED
  BY <1>2, <1>3 DEF Leads

LEMMA LeadsEnds ==
  ASSUME NEW d, NEW ws \in Seq(Writes), NEW e, Leads(d, ws, e)
  PROVE  /\ d \in Disks /\ e \in Disks /\ DiskOK(d) /\ DiskOK(e)
         /\ ws = <<>> => e = d
<1>1. PICK s \in Seq(Disks) :
        /\ Len(s) = Len(ws) + 1 /\ s[1] = d /\ s[Len(ws) + 1] = e
        /\ \A k \in 1..(Len(ws) + 1) : DiskOK(s[k])
  BY DEF Leads
<1>2. Len(ws) \in Nat
  OBVIOUS
<1>3. 1 \in 1..(Len(ws) + 1) /\ Len(ws) + 1 \in 1..(Len(ws) + 1)
  BY <1>2
<1>4. s[1] \in Disks /\ s[Len(ws) + 1] \in Disks
  BY <1>1, <1>3, ElementOfSeq
<1>5. ws = <<>> => Len(ws) + 1 = 1
  OBVIOUS
<1> QED
  BY <1>1, <1>3, <1>4, <1>5

\* One more write, to a disk that is in order
LEMMA LeadsMore ==
  ASSUME NEW d, NEW ws \in Seq(Writes), NEW e, Leads(d, ws, e),
         NEW w \in Writes, DiskOK(Written(e, w))
  PROVE  Leads(d, Append(ws, w), Written(e, w))
<1>1. PICK s \in Seq(Disks) :
        /\ Len(s) = Len(ws) + 1 /\ s[1] = d /\ s[Len(ws) + 1] = e
        /\ \A k \in 1..Len(ws) : s[k + 1] = Written(s[k], ws[k])
        /\ \A k \in 1..(Len(ws) + 1) : DiskOK(s[k])
  BY DEF Leads
<1>2. PICK z \in Nat : z = Len(ws)
  OBVIOUS
<1>3. PICK x : x = Written(e, w)
  OBVIOUS
<1>4. x \in Disks
  BY <1>3, LeadsEnds, WrittenParts
<1>5. PICK t : t = Append(s, x)
  OBVIOUS
<1>6. /\ t \in Seq(Disks) /\ Len(t) = z + 2 /\ t[z + 2] = x
      /\ \A k \in 1..(z + 1) : t[k] = s[k]
  BY <1>1, <1>2, <1>4, <1>5, AppendProperties
<1>7. PICK v : v = Append(ws, w)
  OBVIOUS
<1>8. /\ Len(v) = z + 1 /\ v[z + 1] = w
      /\ \A k \in 1..z : v[k] = ws[k]
  BY <1>2, <1>7, AppendProperties
<1>9. t[1] = d
  BY <1>1, <1>6
<1>10. ASSUME NEW k \in 1..(z + 1) PROVE t[k + 1] = Written(t[k], v[k])
  <2>1. CASE k \in 1..z
    BY <1>1, <1>2, <1>6, <1>8, <2>1
  <2>2. CASE k = z + 1
    BY <1>1, <1>2, <1>3, <1>6, <1>8, <2>2
  <2> QED
    BY <2>1, <2>2
<1>11. ASSUME NEW k \in 1..(z + 2) PROVE DiskOK(t[k])
  <2>1. CASE k \in 1..(z + 1)
    BY <1>1, <1>2, <1>6, <2>1
  <2>2. CASE k = z + 2
    BY <1>3, <1>6, <2>2
  <2> QED
    BY <2>1, <2>2
<1>12. (z + 1) + 1 = z + 2
  OBVIOUS
<1>13. Leads(d, v, x)
  BY <1>6, <1>8, <1>9, <1>10, <1>11, <1>12 DEF Leads
<1> QED
  BY <1>3, <1>7, <1>13

\* The first write is done.
LEMMA LeadsTail ==
  ASSUME NEW d, NEW ws \in Seq(Writes), ws # <<>>, NEW e, Leads(d, ws, e)
  PROVE  Leads(Written(d, Head(ws)), Tail(ws), e)
<1>1. PICK s \in Seq(Disks) :
        /\ Len(s) = Len(ws) + 1 /\ s[1] = d /\ s[Len(ws) + 1] = e
        /\ \A k \in 1..Len(ws) : s[k + 1] = Written(s[k], ws[k])
        /\ \A k \in 1..(Len(ws) + 1) : DiskOK(s[k])
  BY DEF Leads
<1>2. PICK z \in Nat : Len(ws) = z + 1
  <2>1. Len(ws) \in Nat /\ Len(ws) # 0
    OBVIOUS
  <2>2. Len(ws) - 1 \in Nat /\ Len(ws) = (Len(ws) - 1) + 1
    BY <2>1
  <2> QED
    BY <2>2
<1>3. PICK v : v = Tail(ws)
  OBVIOUS
<1>4. Len(v) = z /\ \A k \in 1..z : v[k] = ws[k + 1]
  BY <1>2, <1>3, HeadTailProperties
<1>5. s # <<>>
  BY <1>1, <1>2
<1>6. PICK t : t = Tail(s)
  OBVIOUS
<1>7. t \in Seq(Disks) /\ Len(t) = z + 1 /\ \A k \in 1..(z + 1) : t[k] = s[k + 1]
  BY <1>1, <1>2, <1>5, <1>6, HeadTailProperties
<1>8. t[1] = Written(d, Head(ws))
  <2>1. Head(ws) = ws[1] /\ 1 \in 1..Len(ws) /\ 1 \in 1..(z + 1)
    BY <1>2
  <2>2. s[1 + 1] = Written(s[1], ws[1])
    BY <1>1, <2>1
  <2>3. t[1] = s[1 + 1]
    BY <1>7, <2>1
  <2> QED
    BY <1>1, <2>1, <2>2, <2>3
<1>9. t[z + 1] = e
  <2>1. z + 1 \in 1..(z + 1)
    OBVIOUS
  <2> QED
    BY <1>1, <1>2, <1>7, <2>1
<1>10. ASSUME NEW k \in 1..z PROVE t[k + 1] = Written(t[k], v[k])
  <2>1. k + 1 \in 1..Len(ws) /\ k \in 1..(z + 1) /\ k + 1 \in 1..(z + 1)
    BY <1>2
  <2>2. s[(k + 1) + 1] = Written(s[k + 1], ws[k + 1])
    BY <1>1, <2>1
  <2>3. t[k] = s[k + 1] /\ t[k + 1] = s[(k + 1) + 1] /\ v[k] = ws[k + 1]
    BY <1>4, <1>7, <2>1
  <2> QED
    BY <2>2, <2>3
<1>11. ASSUME NEW k \in 1..(z + 1) PROVE DiskOK(t[k])
  <2>1. k + 1 \in 1..(Len(ws) + 1)
    BY <1>2
  <2> QED
    BY <1>1, <1>7, <2>1
<1>12. Leads(t[1], v, e)
  BY <1>4, <1>7, <1>9, <1>10, <1>11 DEF Leads
<1> QED
  BY <1>3, <1>8, <1>12


LEMMA ImageIs ==
  ASSUME NEW c
  PROVE  /\ Image(c, Bitmap) = c.bitmap /\ Image(c, Dir) = c.dir
         /\ \A b \in Blocks : Image(c, b) = c.block[b]
  BY NameFacts DEF Image

LEMMA DiskParts ==
  ASSUME NEW d \in Disks
  PROVE  d.bitmap \in SUBSET Blocks /\ d.dir \in Dirs /\ d.block \in [Blocks -> Rows]
  BY DEF Disks

\* The disk after block x of cache c was written to it
LEMMA SentParts ==
  ASSUME NEW c \in Caches, NEW x \in Names, NEW e \in Disks
  PROVE  /\ Written(e, Sent(c, x)) \in Disks
         /\ Written(e, Sent(c, x)).bitmap = IF x = Bitmap THEN c.bitmap ELSE e.bitmap
         /\ Written(e, Sent(c, x)).dir = IF x = Dir THEN c.dir ELSE e.dir
         /\ \A b \in Blocks : Written(e, Sent(c, x)).block[b] =
                                IF x = b THEN c.block[b] ELSE e.block[b]
<1>1. Sent(c, x) \in Writes /\ Sent(c, x).to = x /\ Sent(c, x).image = Image(c, x)
  BY SentType
<1>2. PICK w \in Writes : w = Sent(c, x)
  BY <1>1
<1>3. /\ Written(e, w) \in Disks
      /\ Written(e, w).bitmap = IF x = Bitmap THEN w.image ELSE e.bitmap
      /\ Written(e, w).dir = IF x = Dir THEN w.image ELSE e.dir
      /\ \A b \in Blocks : Written(e, w).block[b] = IF x = b THEN w.image ELSE e.block[b]
  BY <1>1, <1>2, WrittenParts
<1>4. /\ x = Bitmap => w.image = c.bitmap
      /\ x = Dir => w.image = c.dir
      /\ \A b \in Blocks : x = b => w.image = c.block[b]
  BY <1>1, <1>2, ImageIs
<1> QED
  BY <1>2, <1>3, <1>4

\* The directory is written: everything in order on the disk, and the cache
\* extends it safely.
LEMMA DirFlush ==
  ASSUME NEW c \in Caches, NEW d, NEW e \in Disks, Leads(d, c.out, e), Follows(c, e),
         Dir \in c.dirty
  PROVE  Good(flush_block(c, Dir), d)
<1>1. Dir \in Names
  BY DEF Names
<1>2. PICK g : g = flush_block(c, Dir)
  OBVIOUS
<1>3. PICK y : y = Written(e, Sent(c, Dir))
  OBVIOUS
<1>4. /\ g \in Caches /\ g.bitmap = c.bitmap /\ g.dir = c.dir /\ g.block = c.block
      /\ g.dirty = c.dirty \ {Dir} /\ g.out = Append(c.out, Sent(c, Dir))
  BY <1>1, <1>2, FlushParts
<1>5. /\ y \in Disks /\ y.bitmap = e.bitmap /\ y.dir = c.dir
      /\ \A b \in Blocks : y.block[b] = e.block[b]
  BY <1>1, <1>3, SentParts, NameFacts
<1>6. DiskOK(y)
  BY <1>5 DEF DiskOK, Follows
<1>7. Leads(d, g.out, y)
  BY <1>1, <1>3, <1>4, <1>6, LeadsMore, SentType, CacheParts
<1>8. Safe(g, y)
  BY <1>4, <1>5, NameFacts DEF Safe, Follows, Agree
<1> QED
  BY <1>2, <1>5, <1>7, <1>8 DEF Good

\* Any block may be written when the cache extends the disk safely.
LEMMA FlushGood ==
  ASSUME NEW c \in Caches, NEW d, Good(c, d), NEW x \in Names \cup {NoBlock}
  PROVE  Good(flush_block(c, x), d)
<1>1. PICK e \in Disks : Leads(d, c.out, e) /\ Safe(c, e)
  BY DEF Good
<1>2. CASE x \notin c.dirty
  BY <1>2 DEF flush_block
<1>3. CASE x \in c.dirty /\ x = Dir
  BY <1>1, <1>3, DirFlush DEF Safe
<1>4. CASE x \in c.dirty /\ x # Dir
  <2>1. x \in Names
    BY <1>4, CacheParts
  <2>2. PICK g : g = flush_block(c, x)
    OBVIOUS
  <2>3. PICK y : y = Written(e, Sent(c, x))
    OBVIOUS
  <2>4. /\ g \in Caches /\ g.bitmap = c.bitmap /\ g.dir = c.dir /\ g.block = c.block
        /\ g.dirty = c.dirty \ {x} /\ g.out = Append(c.out, Sent(c, x))
    BY <1>4, <2>2, FlushParts
  <2>5. /\ y \in Disks /\ y.bitmap = (IF x = Bitmap THEN c.bitmap ELSE e.bitmap)
        /\ y.dir = e.dir
        /\ \A b \in Blocks : y.block[b] = IF x = b THEN c.block[b] ELSE e.block[b]
    BY <1>4, <2>1, <2>3, SentParts
  <2>6. DiskOK(e)
    BY <1>1, LeadsEnds, CacheParts
  <2>7. DiskOK(y)
    BY <1>1, <2>5, <2>6 DEF DiskOK, Safe
  <2>8. Leads(d, g.out, y)
    BY <1>1, <2>1, <2>3, <2>4, <2>7, LeadsMore, SentType, CacheParts
  <2>9. Safe(g, y)
    <3>1. Apart(c.dir, y.bitmap) /\ Apart(y.dir, c.bitmap)
      BY <1>1, <2>5 DEF Safe, Follows
    <3>2. Agree(g, y)
      BY <1>1, <1>4, <2>4, <2>5 DEF Safe, Follows, Agree
    <3> QED
      BY <1>1, <2>4, <3>1, <3>2 DEF Safe, Follows
  <2> QED
    BY <2>2, <2>5, <2>8, <2>9 DEF Good
<1> QED
  BY <1>2, <1>3, <1>4

\* A store to a data block touches nothing else.
LEMMA SetBlockGood ==
  ASSUME NEW c \in Caches, NEW d, Good(c, d), NEW b \in Blocks, NEW r \in Rows
  PROVE  /\ Good(SetBlock(c, b, r), d)
         /\ Full(c) => Full(SetBlock(c, b, r))
<1>1. PICK e \in Disks : Leads(d, c.out, e) /\ Safe(c, e)
  BY DEF Good
<1>2. PICK g : g = SetBlock(c, b, r)
  OBVIOUS
<1>3. /\ g.bitmap = c.bitmap /\ g.dir = c.dir /\ g.out = c.out /\ g.dirty = c.dirty \cup {b}
      /\ \A x \in Blocks : g.block[x] = IF x = b THEN r ELSE c.block[x]
  BY <1>2, SetBlockParts
<1>4. Agree(g, e)
  BY <1>1, <1>3 DEF Safe, Follows, Agree
<1>5. Safe(g, e)
  BY <1>1, <1>3, <1>4 DEF Safe, Follows
<1>6. Full(c) => Full(g)
  BY <1>3 DEF Full
<1> QED
  BY <1>1, <1>2, <1>3, <1>5, <1>6 DEF Good


\* A bit that is cleared, in memory and on the disk
LEMMA AllocGood ==
  ASSUME NEW c \in Caches, NEW d, Good(c, d), CanAlloc(c)
  PROVE  Good(alloc_block(c), d)
<1>1. PICK e \in Disks : Leads(d, c.out, e) /\ Safe(c, e)
  BY DEF Good
<1>2. PICK g : g = SetBitmap(c, c.bitmap \ {FirstFree(c)})
  OBVIOUS
<1>3. /\ g \in Caches /\ g.bitmap = c.bitmap \ {FirstFree(c)} /\ g.dir = c.dir
      /\ g.block = c.block /\ g.out = c.out /\ g.dirty = c.dirty \cup {Bitmap}
  BY <1>2, SetBitmapParts, CacheParts
<1>4. Agree(g, e)
  BY <1>1, <1>3 DEF Safe, Follows, Agree
<1>5. Apart(c.dir, g.bitmap) /\ Apart(e.dir, g.bitmap)
  BY <1>1, <1>3 DEF Safe, Follows, Apart
<1>6. Safe(g, e)
  BY <1>1, <1>3, <1>4, <1>5 DEF Safe, Follows
<1>7. Good(g, d)
  BY <1>1, <1>3, <1>6 DEF Good
<1>8. Bitmap \in Names \cup {NoBlock}
  BY DEF Names
<1> QED
  BY <1>2, <1>3, <1>7, <1>8, FlushGood DEF alloc_block

\* A File with block b at its entry n
LEMMA PointedEntry ==
  ASSUME NEW d \in Entries, NEW n \in Direct, NEW b \in Blocks
  PROVE  /\ [d EXCEPT !.f_direct = [d.f_direct EXCEPT ![n] = b]] \in Entries
         /\ [d EXCEPT !.f_direct = [d.f_direct EXCEPT ![n] = b]].f_size = d.f_size
         /\ [d EXCEPT !.f_direct = [d.f_direct EXCEPT ![n] = b]].f_indirect = d.f_indirect
         /\ \A m \in Direct :
              [d EXCEPT !.f_direct = [d.f_direct EXCEPT ![n] = b]].f_direct[m] =
                IF m = n THEN b ELSE d.f_direct[m]
<1>1. d.f_direct \in [Direct -> 0..NBLOCKS] /\ b \in 0..NBLOCKS
  BY EntryParts, NameFacts DEF Direct
<1>2. PICK p : p = [d.f_direct EXCEPT ![n] = b]
  OBVIOUS
<1>3. /\ p \in [Direct -> 0..NBLOCKS]
      /\ \A m \in Direct : p[m] = IF m = n THEN b ELSE d.f_direct[m]
  BY <1>1, <1>2
<1>4. /\ [d EXCEPT !.f_direct = p] \in Entries
      /\ [d EXCEPT !.f_direct = p].f_size = d.f_size
      /\ [d EXCEPT !.f_direct = p].f_indirect = d.f_indirect
      /\ [d EXCEPT !.f_direct = p].f_direct = p
  BY <1>3 DEF Entries, Direct
<1> QED
  BY <1>2, <1>3, <1>4

\* A pointer to a block that is taken on the disk and in no other place
LEMMA PointerGood ==
  ASSUME NEW c \in Caches, NEW d, Good(c, d), Bitmap \notin c.dirty,
         NEW f \in Files, NEW n \in Direct, n < c.dir[f].f_size, NEW b \in Blocks,
         b \notin c.bitmap,
         \A g \in Files, m \in Direct : Ptr(c.dir, g, m) # b,
         NEW r \in Entries, r.f_size = c.dir[f].f_size, r.f_indirect = c.dir[f].f_indirect,
         \A m \in Direct : r.f_direct[m] = IF m = n THEN b ELSE c.dir[f].f_direct[m]
  PROVE  Good(SetFile(c, f, r), d)
<1>1. PICK e \in Disks : Leads(d, c.out, e) /\ Safe(c, e)
  BY DEF Good
<1>2. PICK h : h = SetFile(c, f, r)
  OBVIOUS
<1>3. /\ h \in Caches /\ h.bitmap = c.bitmap /\ h.block = c.block /\ h.out = c.out
      /\ h.dirty = c.dirty \cup {Dir}
      /\ \A g \in Files : h.dir[g] = IF g = f THEN r ELSE c.dir[g]
  BY <1>2, SetFileParts
<1>4. e.bitmap = c.bitmap
  BY <1>1 DEF Safe, Follows, Agree
<1>5. \A g \in Files, m \in Direct :
        Ptr(h.dir, g, m) = IF g = f /\ m = n THEN b ELSE Ptr(c.dir, g, m)
  BY <1>3 DEF Ptr
<1>6. \A g \in Files : /\ h.dir[g].f_size = c.dir[g].f_size
                       /\ h.dir[g].f_indirect = c.dir[g].f_indirect
  BY <1>3
<1>7. DirOK(c.dir) /\ Apart(c.dir, c.bitmap)
  BY <1>1 DEF Safe, Follows
<1>8. DirOK(h.dir)
  <2>1. \A g \in Files : h.dir[g].f_indirect = 0
    BY <1>6, <1>7 DEF DirOK
  <2>2. \A g \in Files, m \in Direct : Ptr(h.dir, g, m) # 0 => m < h.dir[g].f_size
    BY <1>5, <1>6, <1>7 DEF DirOK
  <2>3. \A g, k \in Files, m, i \in Direct :
          Ptr(h.dir, g, m) # 0 /\ Ptr(h.dir, g, m) = Ptr(h.dir, k, i) => g = k /\ m = i
    BY <1>5, <1>7 DEF DirOK
  <2> QED
    BY <2>1, <2>2, <2>3 DEF DirOK
<1>9. Apart(h.dir, c.bitmap)
  BY <1>5, <1>7 DEF Apart
<1>10. Agree(h, e)
  BY <1>1, <1>3 DEF Safe, Follows, Agree
<1>11. Safe(h, e)
  BY <1>1, <1>3, <1>4, <1>8, <1>9, <1>10 DEF Safe, Follows
<1> QED
  BY <1>1, <1>2, <1>3, <1>11 DEF Good

LEMMA GetGood ==
  ASSUME NEW c \in Caches, NEW d, Good(c, d), NEW f \in Files, NEW n \in Direct,
         n < c.dir[f].f_size
  PROVE  /\ Good(file_get_block(c, f, n).c, d)
         /\ Full(c) => Full(file_get_block(c, f, n).c)
<1> USE FileSystemAssumption
<1>1. n < NDIRECT
  BY DEF Direct
<1>2. file_block_walk(c, f, n) = [ok |-> TRUE, c |-> c]
  BY <1>1 DEF file_block_walk
<1>3. BlockOf(c, f, n) = Ptr(c.dir, f, n)
  BY <1>1 DEF BlockOf, Ptr
<1>4. CASE Ptr(c.dir, f, n) # 0
  <2>1. file_get_block(c, f, n) = [ok |-> TRUE, c |-> c]
    BY <1>2, <1>3, <1>4 DEF file_get_block
  <2> QED
    BY <2>1
<1>5. CASE Ptr(c.dir, f, n) = 0 /\ ~CanAlloc(c)
  <2>1. file_get_block(c, f, n) = [ok |-> FALSE, c |-> c]
    BY <1>2, <1>3, <1>5 DEF file_get_block
  <2> QED
    BY <2>1
<1>6. CASE Ptr(c.dir, f, n) = 0 /\ CanAlloc(c)
  <2>1. PICK a : a = alloc_block(c)
    OBVIOUS
  <2>2. PICK b : b = FirstFree(c)
    OBVIOUS
  <2>3. b \in c.bitmap /\ b \in Blocks
    BY <1>6, <2>2, FirstFreeIsFree
  <2>4. /\ a \in Caches /\ a.bitmap = c.bitmap \ {b} /\ a.dir = c.dir
        /\ a.dirty = c.dirty \ {Bitmap}
    BY <1>6, <2>1, <2>2, AllocParts
  <2>5. Good(a, d)
    BY <1>6, <2>1, AllocGood
  <2>6. PICK r : r = [a.dir[f] EXCEPT !.f_direct = [a.dir[f].f_direct EXCEPT ![n] = b]]
    OBVIOUS
  <2>7. /\ r \in Entries /\ r.f_size = a.dir[f].f_size /\ r.f_indirect = a.dir[f].f_indirect
        /\ \A m \in Direct : r.f_direct[m] = IF m = n THEN b ELSE a.dir[f].f_direct[m]
    BY <2>3, <2>4, <2>6, FileEntry, PointedEntry
  <2>8. file_get_block(c, f, n) = [ok |-> TRUE, c |-> SetFile(a, f, r)]
    <3>1. file_get_block(c, f, n) = [ok |-> TRUE, c |-> SetBlockOf(a, f, n, b)]
      BY <1>2, <1>3, <1>6, <2>1, <2>2 DEF file_get_block
    <3>2. SetBlockOf(a, f, n, b) = SetFile(a, f, r)
      BY <1>1, <2>6, Zenon DEF SetBlockOf
    <3> QED
      BY <3>1, <3>2
  <2>9. \A g \in Files, m \in Direct : Ptr(a.dir, g, m) # b
    <3>1. Apart(c.dir, c.bitmap)
      BY DEF Good, Safe, Follows
    <3> QED
      BY <2>3, <2>4, <3>1 DEF Apart
  <2>10. Good(SetFile(a, f, r), d)
    BY <2>3, <2>4, <2>5, <2>7, <2>9, PointerGood
  <2>11. ASSUME Full(c) PROVE Full(SetFile(a, f, r))
    <3>1. PICK h : h = SetFile(a, f, r)
      OBVIOUS
    <3>2. h.bitmap = a.bitmap /\ \A g \in Files : h.dir[g] = IF g = f THEN r ELSE a.dir[g]
      BY <2>4, <2>7, <3>1, SetFileParts
    <3>3. \A g \in Files, m \in Direct :
            Ptr(h.dir, g, m) = IF g = f /\ m = n THEN b ELSE Ptr(c.dir, g, m)
      BY <2>4, <2>7, <3>2 DEF Ptr
    <3>4. ASSUME NEW x \in Blocks
          PROVE  x \in h.bitmap \/ \E g \in Files, m \in Direct : Ptr(h.dir, g, m) = x
      <4>1. CASE x = b
        BY <3>3, <4>1
      <4>2. CASE x # b /\ x \in c.bitmap
        BY <2>4, <3>2, <4>2
      <4>3. ASSUME NEW g \in Files, NEW m \in Direct, Ptr(c.dir, g, m) = x
            PROVE  \E k \in Files, i \in Direct : Ptr(h.dir, k, i) = x
        <5>1. ~(g = f /\ m = n)
          BY <1>6, <4>3, NameFacts
        <5> QED
          BY <3>3, <4>3, <5>1
      <4> QED
        BY <2>11, <4>1, <4>2, <4>3 DEF Full
    <3> QED
      BY <3>1, <3>4 DEF Full
  <2> QED
    BY <2>8, <2>10, <2>11
<1> QED
  BY <1>4, <1>5, <1>6


\* A change of file f that only loses pointers, and frees only what it loses:
\* the directory may be written, and no block is lost if every pointer that is
\* gone is free.
LEMMA FileChange ==
  ASSUME NEW c \in Caches, NEW d, Good(c, d), NEW f \in Files,
         NEW h \in Caches, h.out = c.out, h.block = c.block,
         c.dirty \cup {Dir} \subseteq h.dirty,
         Bitmap \notin h.dirty => h.bitmap = c.bitmap,
         \A g \in Files \ {f} : h.dir[g] = c.dir[g],
         h.dir[f].f_indirect = 0,
         \A n \in Direct : /\ Ptr(h.dir, f, n) = 0 \/ Ptr(h.dir, f, n) = Ptr(c.dir, f, n)
                           /\ Ptr(h.dir, f, n) # 0 => n < h.dir[f].f_size,
         \A b \in h.bitmap : \/ b \in c.bitmap
                             \/ \E n \in Direct : /\ Ptr(c.dir, f, n) = b
                                                  /\ Ptr(h.dir, f, n) = 0,
         c.bitmap \subseteq h.bitmap,
         \A n \in Direct : Ptr(c.dir, f, n) # 0 /\ Ptr(h.dir, f, n) = 0 =>
                             Ptr(c.dir, f, n) \in h.bitmap
  PROVE  /\ Good(flush_block(h, Dir), d)
         /\ Full(c) => Full(flush_block(h, Dir))
<1>1. PICK e \in Disks : Leads(d, c.out, e) /\ Safe(c, e)
  BY DEF Good
<1>2. DirOK(c.dir) /\ Apart(c.dir, c.bitmap) /\ Apart(c.dir, e.bitmap) /\ Agree(c, e)
  BY <1>1 DEF Safe, Follows
<1>3. \A g \in Files, n \in Direct :
        /\ Ptr(h.dir, g, n) = 0 \/ Ptr(h.dir, g, n) = Ptr(c.dir, g, n)
        /\ g # f => Ptr(h.dir, g, n) = Ptr(c.dir, g, n)
  BY DEF Ptr
<1>4. DirOK(h.dir)
  <2>1. \A g \in Files : h.dir[g].f_indirect = 0
    BY <1>2 DEF DirOK
  <2>2. \A g \in Files, n \in Direct : Ptr(h.dir, g, n) # 0 => n < h.dir[g].f_size
    BY <1>2, <1>3 DEF DirOK
  <2>3. \A g, k \in Files, n, m \in Direct :
          Ptr(h.dir, g, n) # 0 /\ Ptr(h.dir, g, n) = Ptr(h.dir, k, m) => g = k /\ n = m
    BY <1>2, <1>3 DEF DirOK
  <2> QED
    BY <2>1, <2>2, <2>3 DEF DirOK
<1>5. h.bitmap \subseteq Blocks /\ c.bitmap \subseteq Blocks /\ e.bitmap \subseteq Blocks
  BY CacheParts, DiskParts
<1>6. Apart(h.dir, e.bitmap)
  BY <1>2, <1>3, <1>5, NameFacts DEF Apart
<1>7. Apart(h.dir, h.bitmap)
  <2> SUFFICES ASSUME NEW g \in Files, NEW n \in Direct, Ptr(h.dir, g, n) \in h.bitmap
               PROVE  FALSE
    BY DEF Apart
  <2>1. Ptr(h.dir, g, n) # 0 /\ Ptr(h.dir, g, n) = Ptr(c.dir, g, n)
    BY <1>3, <1>5, NameFacts
  <2>2. Ptr(h.dir, g, n) \notin c.bitmap
    BY <1>2, <2>1 DEF Apart
  <2>3. PICK m \in Direct : Ptr(c.dir, f, m) = Ptr(h.dir, g, n) /\ Ptr(h.dir, f, m) = 0
    BY <2>2
  <2>4. g = f /\ n = m
    BY <1>2, <2>1, <2>3 DEF DirOK
  <2> QED
    BY <2>1, <2>3, <2>4
<1>8. Agree(h, e)
  BY <1>2 DEF Agree
<1>9. Follows(h, e) /\ Leads(d, h.out, e) /\ Dir \in h.dirty
  BY <1>1, <1>4, <1>6, <1>7, <1>8 DEF Follows
<1>10. Good(flush_block(h, Dir), d)
  BY <1>9, DirFlush
<1>11. ASSUME Full(c) PROVE Full(h)
  <2> SUFFICES ASSUME NEW b \in Blocks
               PROVE  b \in h.bitmap \/ \E g \in Files, n \in Direct : Ptr(h.dir, g, n) = b
    BY DEF Full
  <2>1. CASE b \in c.bitmap
    BY <2>1
  <2>2. ASSUME NEW g \in Files, NEW n \in Direct, Ptr(c.dir, g, n) = b
        PROVE  b \in h.bitmap \/ \E k \in Files, m \in Direct : Ptr(h.dir, k, m) = b
    <3>1. b # 0
      BY NameFacts
    <3> QED
      BY <1>3, <2>2, <3>1
  <2> QED
    BY <1>11, <2>1, <2>2 DEF Full
<1>12. /\ flush_block(h, Dir).bitmap = h.bitmap
       /\ flush_block(h, Dir).dir = h.dir
  <2>1. Dir \in Names \cup {NoBlock}
    BY DEF Names
  <2> QED
    BY <2>1, FlushParts
<1>13. Full(h) => Full(flush_block(h, Dir))
  BY <1>12 DEF Full
<1> QED
  BY <1>10, <1>11, <1>13

\* In a good cache no file has an indirect block.
LEMMA GoodDir ==
  ASSUME NEW c, NEW d, Good(c, d)
  PROVE  DirOK(c.dir) /\ Apart(c.dir, c.bitmap)
  BY DEF Good, Safe, Follows

\* The File stays as it was, with the same or a larger size.
LEMMA GrowGood ==
  ASSUME NEW c \in Caches, NEW d, Good(c, d), NEW f \in Files, NEW r \in Entries,
         r.f_direct = c.dir[f].f_direct, r.f_indirect = c.dir[f].f_indirect,
         c.dir[f].f_size <= r.f_size
  PROVE  /\ Good(flush_block(SetFile(c, f, r), Dir), d)
         /\ Full(c) => Full(flush_block(SetFile(c, f, r), Dir))
<1>1. PICK h : h = SetFile(c, f, r)
  OBVIOUS
<1>2. /\ h \in Caches /\ h.bitmap = c.bitmap /\ h.block = c.block /\ h.out = c.out
      /\ h.dirty = c.dirty \cup {Dir}
      /\ \A g \in Files : h.dir[g] = IF g = f THEN r ELSE c.dir[g]
  BY <1>1, SetFileParts
<1>3. DirOK(c.dir)
  BY GoodDir
<1>4. \A n \in Direct : Ptr(h.dir, f, n) = Ptr(c.dir, f, n)
  BY <1>2 DEF Ptr
<1>5. \A n \in Direct : Ptr(h.dir, f, n) # 0 => n < h.dir[f].f_size
  <2>1. r.f_size \in Nat /\ c.dir[f].f_size \in Nat
    BY FileEntry, EntryParts, FileSystemAssumption
  <2>2. \A n \in Direct : n \in Nat
    BY DEF Direct
  <2>3. \A n \in Direct : Ptr(c.dir, f, n) # 0 => n < c.dir[f].f_size
    BY <1>3 DEF DirOK
  <2>4. h.dir[f].f_size = r.f_size
    BY <1>2
  <2> QED
    BY <1>4, <2>1, <2>2, <2>3, <2>4
<1>6. h.dir[f].f_indirect = 0
  BY <1>2, <1>3 DEF DirOK
<1> QED
  BY <1>1, <1>2, <1>4, <1>5, <1>6, FileChange

\* file_truncate_blocks of a file without indirect block
LEMMA TruncateParts ==
  ASSUME NEW c \in Caches, DirOK(c.dir), MaxSize <= NDIRECT,
         NEW f \in Files, NEW n \in 0..MaxSize
  PROVE  LET t == file_truncate_blocks(c, f, n) IN
         /\ t \in Caches /\ t.out = c.out /\ t.block = c.block
         /\ c.dirty \subseteq t.dirty
         /\ Bitmap \notin t.dirty => t.bitmap = c.bitmap
         /\ \A g \in Files \ {f} : t.dir[g] = c.dir[g]
         /\ t.dir[f].f_indirect = 0
         /\ \A m \in Direct : Ptr(t.dir, f, m) = IF m < n THEN Ptr(c.dir, f, m) ELSE 0
         /\ t.bitmap = c.bitmap \cup ({Ptr(c.dir, f, m) : m \in {i \in Direct : ~(i < n)}} \ {0})
<1> USE FileSystemAssumption
<1>1. PICK t : t = file_truncate_blocks(c, f, n)
  OBVIOUS
<1>2. t \in Caches
  BY <1>1, TruncateType
<1>3. c.dir[f].f_indirect = 0 /\ ~Drop(c, f, n)
  BY DEF DirOK, Drop
<1>4. PICK z \in 0..MaxSize : z = c.dir[f].f_size
  BY FileEntry, EntryParts
<1>5. Old(c, f, n) = n..(z - 1) /\ \A i \in Old(c, f, n) : i \in Direct /\ i < NDIRECT
  BY <1>4 DEF Old, Direct
<1>6. \A i \in Old(c, f, n) : BlockOf(c, f, i) = Ptr(c.dir, f, i)
  BY <1>5 DEF BlockOf, Ptr
<1>7. Far(c, f, n) = {}
  BY <1>5 DEF Far, Direct
<1>8. \A m \in Direct : m < z \/ Ptr(c.dir, f, m) = 0
  BY <1>4 DEF DirOK
<1>9. Gone(c, f, n) = {Ptr(c.dir, f, m) : m \in {i \in Direct : ~(i < n)}} \ {0}
  <2> DEFINE G == {Ptr(c.dir, f, m) : m \in {i \in Direct : ~(i < n)}} \ {0}
  <2>1. Gone(c, f, n) = {BlockOf(c, f, i) : i \in Old(c, f, n)} \ {0}
    BY <1>3 DEF Gone
  <2>2. ASSUME NEW x \in Gone(c, f, n) PROVE x \in G
    <3>1. PICK i \in Old(c, f, n) : x = BlockOf(c, f, i) /\ x # 0
      BY <2>1
    <3>2. i \in Direct /\ ~(i < n) /\ x = Ptr(c.dir, f, i)
      BY <1>5, <1>6, <3>1
    <3> QED
      BY <3>1, <3>2
  <2>3. ASSUME NEW x \in G PROVE x \in Gone(c, f, n)
    <3>1. PICK i \in Direct : ~(i < n) /\ x = Ptr(c.dir, f, i) /\ x # 0
      OBVIOUS
    <3>2. i < z
      BY <1>8, <3>1
    <3>3. i \in Old(c, f, n)
      BY <1>4, <1>5, <3>1, <3>2 DEF Direct
    <3> QED
      BY <1>6, <2>1, <3>1, <3>3
  <2> HIDE DEF G
  <2>4. Gone(c, f, n) = G
    BY <2>2, <2>3
  <2> QED
    BY <2>4 DEF G
<1>10. Gone(c, f, n) \in SUBSET Blocks
  BY GoneType
<1>11. CASE Gone(c, f, n) = {}
  <2>1. t = c
    BY <1>1, <1>11, TruncateIs
  <2>2. \A m \in Direct : ~(m < n) => Ptr(c.dir, f, m) = 0
    BY <1>9, <1>11
  <2>3. \A m \in Direct : Ptr(t.dir, f, m) = IF m < n THEN Ptr(c.dir, f, m) ELSE 0
    BY <2>1, <2>2
  <2>4. t.bitmap = c.bitmap \cup Gone(c, f, n)
    BY <1>11, <2>1
  <2> QED
    BY <1>1, <1>2, <1>3, <1>9, <2>1, <2>3, <2>4
<1>12. CASE Gone(c, f, n) # {}
  <2>1. PICK a : a = free_blocks(c, Gone(c, f, n))
    OBVIOUS
  <2>2. /\ a \in Caches /\ a.bitmap = c.bitmap \cup Gone(c, f, n) /\ a.dir = c.dir
        /\ a.block = c.block /\ a.out = c.out /\ a.dirty = c.dirty \cup {Bitmap}
    BY <1>10, <1>12, <2>1, FreeParts
  <2>3. PICK r : r = CutEntry(c, f, n)
    OBVIOUS
  <2>4. /\ r \in Entries /\ r.f_indirect = 0
        /\ \A i \in Direct : r.f_direct[i] =
                               IF i \in Old(c, f, n) THEN 0 ELSE c.dir[f].f_direct[i]
    BY <1>3, <2>3, CutEntryType DEF Direct
  <2>5. t = SetFile(a, f, r)
    BY <1>1, <1>7, <1>12, <2>1, <2>3, TruncateIs
  <2>6. /\ t.bitmap = a.bitmap /\ t.block = a.block /\ t.out = a.out
        /\ t.dirty = a.dirty \cup {Dir}
        /\ \A g \in Files : t.dir[g] = IF g = f THEN r ELSE a.dir[g]
    BY <2>2, <2>4, <2>5, SetFileParts
  <2>7. ASSUME NEW m \in Direct
        PROVE  Ptr(t.dir, f, m) = IF m < n THEN Ptr(c.dir, f, m) ELSE 0
    <3>1. Ptr(t.dir, f, m) = IF m \in Old(c, f, n) THEN 0 ELSE Ptr(c.dir, f, m)
      BY <2>4, <2>6 DEF Ptr
    <3>2. m \in Old(c, f, n) <=> ~(m < n) /\ m < z
      BY <1>4, <1>5 DEF Direct
    <3> QED
      BY <1>8, <3>1, <3>2
  <2> QED
    BY <1>1, <1>2, <1>9, <2>2, <2>4, <2>6, <2>7
<1> QED
  BY <1>11, <1>12


\* The blocks from n on are free and the File is as large as what is left.
LEMMA CutGood ==
  ASSUME NEW c \in Caches, NEW d, Good(c, d), MaxSize <= NDIRECT,
         NEW f \in Files, NEW n \in 0..MaxSize,
         NEW t, t = file_truncate_blocks(c, f, n),
         NEW r \in Entries, r.f_direct = t.dir[f].f_direct,
         r.f_indirect = t.dir[f].f_indirect, r.f_size = n
  PROVE  /\ Good(flush_block(SetFile(t, f, r), Dir), d)
         /\ Full(c) => Full(flush_block(SetFile(t, f, r), Dir))
<1> DEFINE P == {Ptr(c.dir, f, m) : m \in {i \in Direct : ~(i < n)}} \ {0}
<1>1. DirOK(c.dir)
  BY GoodDir
<1>2. /\ t \in Caches /\ t.out = c.out /\ t.block = c.block
      /\ c.dirty \subseteq t.dirty
      /\ Bitmap \notin t.dirty => t.bitmap = c.bitmap
      /\ \A g \in Files \ {f} : t.dir[g] = c.dir[g]
      /\ t.dir[f].f_indirect = 0
      /\ \A m \in Direct : Ptr(t.dir, f, m) = IF m < n THEN Ptr(c.dir, f, m) ELSE 0
      /\ t.bitmap = c.bitmap \cup P
  BY <1>1, TruncateParts
<1>3. PICK h : h = SetFile(t, f, r)
  OBVIOUS
<1>4. /\ h \in Caches /\ h.bitmap = t.bitmap /\ h.block = t.block /\ h.out = t.out
      /\ h.dirty = t.dirty \cup {Dir}
      /\ \A g \in Files : h.dir[g] = IF g = f THEN r ELSE t.dir[g]
  BY <1>2, <1>3, SetFileParts
<1>5. \A m \in Direct : Ptr(h.dir, f, m) = IF m < n THEN Ptr(c.dir, f, m) ELSE 0
  BY <1>2, <1>4 DEF Ptr
<1>6. /\ h.out = c.out /\ h.block = c.block /\ c.dirty \cup {Dir} \subseteq h.dirty
      /\ \A g \in Files \ {f} : h.dir[g] = c.dir[g]
      /\ h.dir[f].f_indirect = 0 /\ h.dir[f].f_size = n
  BY <1>2, <1>4
<1>7. Bitmap \notin h.dirty => h.bitmap = c.bitmap
  BY <1>2, <1>4
<1>8. \A m \in Direct : /\ Ptr(h.dir, f, m) = 0 \/ Ptr(h.dir, f, m) = Ptr(c.dir, f, m)
                        /\ Ptr(h.dir, f, m) # 0 => m < h.dir[f].f_size
  BY <1>5, <1>6
<1>9. ASSUME NEW b \in h.bitmap
      PROVE  \/ b \in c.bitmap
             \/ \E m \in Direct : Ptr(c.dir, f, m) = b /\ Ptr(h.dir, f, m) = 0
  BY <1>2, <1>4, <1>5
<1>10. c.bitmap \subseteq h.bitmap
  BY <1>2, <1>4
<1>11. ASSUME NEW m \in Direct, Ptr(c.dir, f, m) # 0, Ptr(h.dir, f, m) = 0
       PROVE  Ptr(c.dir, f, m) \in h.bitmap
  <2>1. ~(m < n)
    BY <1>5, <1>11
  <2>2. Ptr(c.dir, f, m) \in P
    BY <1>11, <2>1
  <2> QED
    BY <1>2, <1>4, <2>2
<1> HIDE DEF P
<1> QED
  BY <1>3, <1>4, <1>6, <1>7, <1>8, <1>9, <1>10, <1>11, FileChange

LEMMA SetSizeGood ==
  ASSUME NEW c \in Caches, NEW d, Good(c, d), MaxSize <= NDIRECT,
         NEW f \in Files, NEW n \in 0..MaxSize
  PROVE  /\ Good(file_set_size(c, f, n), d)
         /\ Full(c) => Full(file_set_size(c, f, n))
         /\ file_set_size(c, f, n).dir[f].f_size = n
<1>1. PICK t : t = IF c.dir[f].f_size > n THEN file_truncate_blocks(c, f, n) ELSE c
  OBVIOUS
<1>2. t \in Caches
  BY <1>1, TruncateType
<1>3. PICK r : r = [t.dir[f] EXCEPT !.f_size = n]
  OBVIOUS
<1>4. /\ r \in Entries /\ r.f_size = n /\ r.f_direct = t.dir[f].f_direct
      /\ r.f_indirect = t.dir[f].f_indirect
  BY <1>2, <1>3, FileEntry, SizedEntry
<1>5. file_set_size(c, f, n) = flush_block(SetFile(t, f, r), Dir)
  BY <1>1, <1>3, Zenon DEF file_set_size
<1>6. Dir \in Names \cup {NoBlock}
  BY DEF Names
<1>7. file_set_size(c, f, n).dir[f] = r
  BY <1>2, <1>4, <1>5, <1>6, SetFileParts, FlushParts
<1>8. CASE c.dir[f].f_size > n
  <2>1. t = file_truncate_blocks(c, f, n)
    BY <1>1, <1>8
  <2> QED
    BY <1>4, <1>5, <1>7, <2>1, CutGood
<1>9. CASE ~(c.dir[f].f_size > n)
  <2>1. t = c
    BY <1>1, <1>9
  <2>2. c.dir[f].f_size <= r.f_size
    BY <1>4, <1>9, FileEntry, EntryParts, FileSystemAssumption
  <2> QED
    BY <1>4, <1>5, <1>7, <2>1, <2>2, GrowGood
<1> QED
  BY <1>8, <1>9

\* What a step of an operation has to show
LEMMA DoesInv ==
  ASSUME NEW c \in Caches, Does(c), Good(c, disk), ~crashed => Full(c)
  PROVE  FsInv'
<1>1. PICK e \in Disks : Leads(disk, c.out, e) /\ Safe(c, e)
  BY DEF Good
<1>2. /\ cache'.bitmap = c.bitmap /\ cache'.dir = c.dir
      /\ cache'.block = c.block /\ cache'.dirty = c.dirty
  BY EmptiedParts DEF Does
<1>3. pending' = c.out /\ disk' = disk /\ crashed' = crashed /\ flushed' = NoFile
  BY DEF Does
<1>4. Safe(cache', e)
  BY <1>1, <1>2 DEF Safe, Follows, Agree
<1>5. Leads(disk', pending', e)
  BY <1>1, <1>3
<1>6. ~crashed' => Full(cache')
  BY <1>2, <1>3 DEF Full
<1>7. /\ \E x \in Disks : Leads(disk', pending', x) /\ Safe(cache', x)
      /\ ~crashed' => Full(cache')
      /\ flushed' = NoFile
  BY <1>3, <1>4, <1>5, <1>6
<1> QED
  BY <1>7, Zenon DEF FsInv

\* Between two operations the cache extends the disk.
LEMMA IdleGood ==
  ASSUME TypeOK, FsInv, pending = <<>>
  PROVE  Good(cache, disk)
  BY DEF Good, FsInv, TypeOK


\* Head and tail of the loop of file_flush
LEMMA OccursTail ==
  ASSUME NEW S, NEW s \in Seq(S), s # <<>>, NEW x, Occurs(x, s), x # Head(s)
  PROVE  Occurs(x, Tail(s))
<1>1. PICK i \in 1..Len(s) : s[i] = x
  BY DEF Occurs
<1>2. Len(s) \in Nat /\ Len(s) # 0 /\ Head(s) = s[1]
  OBVIOUS
<1>3. i # 1
  BY <1>1, <1>2
<1>4. Len(Tail(s)) = Len(s) - 1 /\ \A k \in 1..(Len(s) - 1) : Tail(s)[k] = s[k + 1]
  BY HeadTailProperties
<1>5. i - 1 \in 1..(Len(s) - 1) /\ (i - 1) + 1 = i
  BY <1>2, <1>3
<1>6. Tail(s)[i - 1] = x
  BY <1>1, <1>4, <1>5
<1> QED
  BY <1>4, <1>5, <1>6 DEF Occurs

LEMMA FlushInv ==
  ASSUME TypeOK, FsInv, NEW f \in Files, file_flush(f)
  PROVE  FsInv'
<1>1. /\ pending = <<>> /\ flushed' = f /\ loop' = FlushOrder(cache, f)
      /\ UNCHANGED <<cache, disk, pending, crashed>>
  BY DEF file_flush, Idle
<1>2. cache \in Caches /\ DirOK(cache.dir)
  BY <1>1, IdleGood, GoodDir DEF TypeOK
<1>3. Occurs(Dir, loop')
  BY <1>1, <1>2, FlushOrderParts DEF Occurs
<1>4. ASSUME NEW n \in Direct, Ptr(cache.dir, f, n) # 0
      PROVE  Occurs(Ptr(cache.dir, f, n), loop')
  <2>1. n < cache.dir[f].f_size /\ cache.dir[f].f_size \in Nat /\ n \in Nat /\ n < NDIRECT
    BY <1>2, <1>4, FileEntry, EntryParts, FileSystemAssumption DEF DirOK, Direct
  <2>2. n \in 0..(cache.dir[f].f_size - 1)
    BY <2>1
  <2>3. BlockOf(cache, f, n) = Ptr(cache.dir, f, n)
    BY <2>1 DEF BlockOf, Ptr
  <2> QED
    BY <1>1, <1>2, <1>4, <2>2, <2>3, FlushOrderParts DEF Occurs
<1> QED
  BY <1>1, <1>3, <1>4, Zenon DEF FsInv

LEMMA FlushNextInv ==
  ASSUME TypeOK, FsInv, flush_next
  PROVE  FsInv'
<1>1. pending = <<>> /\ loop # <<>> /\ loop \in Seq(Names \cup {NoBlock}) /\ cache \in Caches
  BY DEF flush_next, TypeOK
<1>2. PICK x : x = Head(loop)
  OBVIOUS
<1>3. x \in Names \cup {NoBlock}
  BY <1>1, <1>2
<1>4. PICK c : c = flush_block(cache, x)
  OBVIOUS
<1>5. /\ pending' = c.out /\ cache' = [c EXCEPT !.out = <<>>] /\ loop' = Tail(loop)
      /\ disk' = disk /\ flushed' = flushed /\ crashed' = crashed
  BY <1>2, <1>4, Zenon DEF flush_next
<1>6. /\ c \in Caches /\ c.bitmap = cache.bitmap /\ c.dir = cache.dir
      /\ c.dirty = cache.dirty \ {x}
  BY <1>1, <1>3, <1>4, FlushParts
<1>7. /\ cache'.bitmap = c.bitmap /\ cache'.dir = c.dir
      /\ cache'.block = c.block /\ cache'.dirty = c.dirty
  BY <1>5, <1>6, EmptiedParts
<1>8. PICK e \in Disks : Leads(disk, c.out, e) /\ Safe(c, e)
  BY <1>1, <1>3, <1>4, IdleGood, FlushGood DEF Good
<1>9. Safe(cache', e)
  BY <1>7, <1>8 DEF Safe, Follows, Agree
<1>10. \E y \in Disks : Leads(disk', pending', y) /\ Safe(cache', y)
  BY <1>5, <1>8, <1>9
<1>11. ~crashed' => Full(cache')
  BY <1>5, <1>6, <1>7 DEF Full, FsInv
<1>12. \A y : y \notin cache.dirty \/ Occurs(y, loop) =>
         y \notin cache'.dirty \/ Occurs(y, loop')
  BY <1>1, <1>2, <1>5, <1>6, <1>7, OccursTail
<1>13. flushed' # NoFile =>
         /\ Dir \notin cache'.dirty \/ Occurs(Dir, loop')
         /\ \A n \in Direct : Ptr(cache'.dir, flushed', n) # 0 =>
              \/ Ptr(cache'.dir, flushed', n) \notin cache'.dirty
              \/ Occurs(Ptr(cache'.dir, flushed', n), loop')
  BY <1>5, <1>6, <1>7, <1>12 DEF FsInv
<1> QED
  BY <1>10, <1>11, <1>13, Zenon DEF FsInv

LEMMA CrashInv ==
  ASSUME TypeOK, FsInv, Crash
  PROVE  FsInv'
<1>1. disk \in Disks /\ DiskOK(disk)
  BY LeadsEnds DEF FsInv, TypeOK
<1>2. /\ cache' = NoDirt(disk) /\ pending' = <<>> /\ flushed' = NoFile /\ crashed' = TRUE
      /\ disk' = disk
  BY DEF Crash
<1>3. /\ cache'.bitmap = disk.bitmap /\ cache'.dir = disk.dir /\ cache'.block = disk.block
  BY <1>1, <1>2, NoDirtParts
<1>4. Safe(cache', disk)
  BY <1>1, <1>3 DEF Safe, Follows, Agree, DiskOK
<1>5. Leads(disk', pending', disk)
  BY <1>1, <1>2, LeadsNone
<1>6. \E y \in Disks : Leads(disk', pending', y) /\ Safe(cache', y)
  BY <1>1, <1>4, <1>5
<1> QED
  BY <1>2, <1>6, Zenon DEF FsInv

LEMMA IdeWriteInv ==
  ASSUME TypeOK, FsInv, ide_write
  PROVE  FsInv'
<1>1. PICK e \in Disks : Leads(disk, pending, e) /\ Safe(cache, e)
  BY DEF FsInv
<1>2. /\ pending # <<>> /\ disk' = Written(disk, Head(pending)) /\ pending' = Tail(pending)
      /\ cache' = cache /\ loop' = loop /\ flushed' = flushed /\ crashed' = crashed
  BY DEF ide_write
<1>3. Leads(disk', pending', e)
  BY <1>1, <1>2, LeadsTail DEF TypeOK
<1>4. \E y \in Disks : Leads(disk', pending', y) /\ Safe(cache', y)
  BY <1>1, <1>2, <1>3
<1> QED
  BY <1>2, <1>4, Zenon DEF FsInv

LEMMA InitInv == Init => FsInv
<1> SUFFICES ASSUME Init PROVE FsInv
  OBVIOUS
<1> USE FileSystemAssumption
<1>1. /\ Formatted \in Disks /\ Formatted.bitmap = Blocks
      /\ Formatted.dir = [f \in Files |-> Empty]
  BY FormattedType
<1>2. /\ disk = Formatted /\ cache = NoDirt(Formatted) /\ pending = <<>> /\ flushed = NoFile
  BY DEF Init
<1>3. cache.bitmap = disk.bitmap /\ cache.dir = disk.dir /\ cache.block = disk.block
  BY <1>1, <1>2, NoDirtParts
<1>4. \A f \in Files, n \in Direct : Ptr(disk.dir, f, n) = 0 /\ disk.dir[f].f_indirect = 0
  <2>1. Empty.f_indirect = 0 /\ Empty.f_direct = [i \in Direct |-> 0]
    BY DEF Empty, Direct
  <2>2. \A f \in Files : disk.dir[f] = Empty
    BY <1>1, <1>2
  <2> QED
    BY <2>1, <2>2 DEF Ptr
<1>5. DirOK(disk.dir)
  <2>1. 0 \in Direct
    BY DEF Direct
  <2> QED
    BY <1>4, <2>1 DEF DirOK
<1>6. Apart(disk.dir, disk.bitmap)
  BY <1>1, <1>2, <1>4, NameFacts DEF Apart
<1>7. Safe(cache, disk) /\ DiskOK(disk)
  BY <1>3, <1>5, <1>6 DEF Safe, Follows, Agree, DiskOK
<1>8. Leads(disk, pending, disk)
  BY <1>1, <1>2, <1>7, LeadsNone
<1>9. Full(cache)
  BY <1>1, <1>2, <1>3 DEF Full
<1>10. disk \in Disks
  BY <1>1, <1>2
<1> QED
  BY <1>2, <1>7, <1>8, <1>9, <1>10, Zenon DEF FsInv


\* The operations of the file server
LEMMA OperationInv ==
  ASSUME TypeOK, FsInv, MaxSize <= NDIRECT, NEW f \in Files
  PROVE  /\ file_create(f) => FsInv'
         /\ file_remove(f) => FsInv'
         /\ \A n \in 0..(MaxSize - 1), w \in Words : file_write(f, n, w) => FsInv'
         /\ \A n \in 0..(MaxSize - 1) : file_read(f, n) => FsInv'
         /\ \A n \in 0..MaxSize : set_size(f, n) => FsInv'
<1> USE FileSystemAssumption
<1>0. cache \in Caches /\ (~crashed => Full(cache))
  BY DEF TypeOK, FsInv
<1>G. ASSUME NEW c, Does(c) PROVE Good(cache, disk)
  BY <1>G, IdleGood DEF Does, Idle
<1>1. ASSUME file_create(f) PROVE FsInv'
  <2>1. PICK r : r = [cache.dir[f] EXCEPT !.name = TRUE]
    OBVIOUS
  <2>2. /\ r \in Entries /\ r.f_size = cache.dir[f].f_size
        /\ r.f_direct = cache.dir[f].f_direct /\ r.f_indirect = cache.dir[f].f_indirect
    BY <1>0, <2>1, FileEntry, NamedEntry
  <2>3. PICK c : c = flush_block(SetFile(cache, f, r), Dir)
    OBVIOUS
  <2>4. c \in Caches
    BY <1>0, <2>1, <2>3, CreateType
  <2>5. Does(c)
    BY <1>1, <2>1, <2>3 DEF file_create
  <2>6. cache.dir[f].f_size <= r.f_size
    BY <1>0, <2>2, FileEntry, EntryParts
  <2>7. Good(cache, disk)
    BY <1>G, <2>5
  <2>8. Good(c, disk) /\ (Full(cache) => Full(c))
    BY <1>0, <2>2, <2>3, <2>6, <2>7, GrowGood
  <2> QED
    BY <1>0, <2>4, <2>5, <2>8, DoesInv
<1>2. ASSUME file_remove(f) PROVE FsInv'
  <2>1. PICK t : t = file_truncate_blocks(cache, f, 0)
    OBVIOUS
  <2>2. t \in Caches /\ 0 \in 0..MaxSize
    BY <1>0, <2>1, TruncateType
  <2>3. PICK r : r = [t.dir[f] EXCEPT !.name = FALSE, !.f_size = 0]
    OBVIOUS
  <2>4. /\ r \in Entries /\ r.f_size = 0
        /\ r.f_direct = t.dir[f].f_direct /\ r.f_indirect = t.dir[f].f_indirect
    BY <2>2, <2>3, FileEntry, RemovedEntry
  <2>5. PICK c : c = flush_block(SetFile(t, f, r), Dir)
    OBVIOUS
  <2>6. c \in Caches
    BY <2>2, <2>3, <2>5, RemoveType
  <2>7. Does(c)
    BY <1>2, <2>1, <2>3, <2>5, Zenon DEF file_remove
  <2>8. Good(cache, disk)
    BY <1>G, <2>7
  <2>9. Good(c, disk) /\ (Full(cache) => Full(c))
    BY <1>0, <2>1, <2>2, <2>4, <2>5, <2>8, CutGood
  <2> QED
    BY <1>0, <2>6, <2>7, <2>9, DoesInv
<1>3. ASSUME NEW n \in 0..(MaxSize - 1), NEW w \in Words, file_write(f, n, w) PROVE FsInv'
  <2>1. PICK s : s = IF n + 1 > cache.dir[f].f_size THEN file_set_size(cache, f, n + 1)
                     ELSE cache
    OBVIOUS
  <2>2. n + 1 \in 0..MaxSize /\ n \in Direct /\ n \in 0..(NDIRECT + NINDIRECT - 1)
    BY DEF Direct
  <2>3. s \in Caches
    BY <1>0, <2>1, <2>2, SetSizeType
  <2>4. PICK g : g = file_get_block(s, f, n).c
    OBVIOUS
  <2>5. PICK c : c = IF file_get_block(s, f, n).ok
                     THEN SetBlock(g, BlockOf(g, f, n), Filled(w)) ELSE g
    OBVIOUS
  <2>6. c \in Caches
    BY <2>3, <2>4, <2>5, WriteType
  <2>7. Does(c)
    BY <1>3, <2>1, <2>4, <2>5, Zenon DEF file_write
  <2>8. Good(cache, disk)
    BY <1>G, <2>7
  <2>9. cache.dir[f].f_size \in Nat
    BY <1>0, FileEntry, EntryParts
  <2>10. Good(s, disk) /\ (Full(cache) => Full(s)) /\ n < s.dir[f].f_size
    <3>1. CASE n + 1 > cache.dir[f].f_size
      <4>1. s = file_set_size(cache, f, n + 1)
        BY <2>1, <3>1
      <4>2. Good(s, disk) /\ (Full(cache) => Full(s)) /\ s.dir[f].f_size = n + 1
        BY <1>0, <2>2, <2>8, <4>1, SetSizeGood
      <4> QED
        BY <4>2
    <3>2. CASE ~(n + 1 > cache.dir[f].f_size)
      <4>1. s = cache
        BY <2>1, <3>2
      <4>2. n < cache.dir[f].f_size
        BY <2>9, <3>2
      <4> QED
        BY <2>8, <4>1, <4>2
    <3> QED
      BY <3>1, <3>2
  <2>11. Good(g, disk) /\ (Full(s) => Full(g))
    BY <2>2, <2>3, <2>4, <2>10, GetGood
  <2>12. g \in Caches /\ (file_get_block(s, f, n).ok => BlockOf(g, f, n) \in Blocks)
    BY <2>2, <2>3, <2>4, GetType
  <2>13. Good(c, disk) /\ (Full(g) => Full(c))
    BY <2>5, <2>11, <2>12, FilledType, SetBlockGood
  <2> QED
    BY <1>0, <2>6, <2>7, <2>10, <2>11, <2>13, DoesInv
<1>4. ASSUME NEW n \in 0..(MaxSize - 1), file_read(f, n) PROVE FsInv'
  <2>1. n \in Direct /\ n \in 0..(NDIRECT + NINDIRECT - 1)
    BY DEF Direct
  <2>2. PICK c : c = file_get_block(cache, f, n).c
    OBVIOUS
  <2>3. c \in Caches /\ Does(c) /\ n < cache.dir[f].f_size
    BY <1>0, <1>4, <2>1, <2>2, GetType DEF file_read
  <2>4. Good(cache, disk)
    BY <1>G, <2>3
  <2>5. Good(c, disk) /\ (Full(cache) => Full(c))
    BY <1>0, <2>1, <2>2, <2>3, <2>4, GetGood
  <2> QED
    BY <1>0, <2>3, <2>5, DoesInv
<1>5. ASSUME NEW n \in 0..MaxSize, set_size(f, n) PROVE FsInv'
  <2>1. PICK c : c = file_set_size(cache, f, n)
    OBVIOUS
  <2>2. c \in Caches /\ Does(c)
    BY <1>0, <1>5, <2>1, SetSizeType DEF set_size
  <2>3. Good(cache, disk)
    BY <1>G, <2>2
  <2>4. Good(c, disk) /\ (Full(cache) => Full(c))
    BY <1>0, <2>1, <2>3, SetSizeGood
  <2> QED
    BY <1>0, <2>2, <2>4, DoesInv
<1> QED
  BY <1>1, <1>2, <1>3, <1>4, <1>5

LEMMA NextInv ==
  ASSUME TypeOK, FsInv, MaxSize <= NDIRECT, [Next]_vars
  PROVE  FsInv'
<1>1. CASE fs_sync
  <2>1. flushed' = NoFile /\ UNCHANGED <<cache, disk, pending, crashed>>
    BY <1>1 DEF fs_sync
  <2> QED
    BY <2>1, Zenon DEF FsInv
<1>2. CASE UNCHANGED vars
  <2>1. UNCHANGED <<cache, disk, pending, loop, flushed, crashed>>
    BY <1>2 DEF vars
  <2> QED
    BY <2>1, Zenon DEF FsInv
<1> QED
  BY <1>1, <1>2, OperationInv, FlushInv, FlushNextInv, IdeWriteInv, CrashInv, Zenon DEF Next
-----------------------------------------------------------------------------
(***************************************************************************)
(* What follows from the invariant                                         *)
(***************************************************************************)

\* Where a block is named when there are no indirect blocks
LEMMA UsesAre ==
  ASSUME NEW d, d.dir \in Dirs, DirOK(d.dir), NEW u \in Uses(d)
  PROVE  /\ u = <<u[1], u[2]>> /\ u[1] \in Files /\ u[2] \in Direct
         /\ Used(d, u) = Ptr(d.dir, u[1], u[2]) /\ Used(d, u) # 0
         /\ Used(d, u) \in Blocks
<1> USE FileSystemAssumption
<1>1. /\ u = <<u[1], u[2]>> /\ u[1] \in Files /\ u[2] \in -1..(NDIRECT + NINDIRECT - 1)
      /\ Used(d, u) # 0
  BY DEF Uses, Places
<1>2. d.dir[u[1]].f_indirect = 0
  BY <1>1 DEF DirOK
<1>3. u[2] # -1
  BY <1>1, <1>2 DEF Used
<1>4. Used(d, u) = BlockOf(d, u[1], u[2])
  BY <1>3 DEF Used
<1>5. u[2] < NDIRECT
  BY <1>1, <1>2, <1>4 DEF BlockOf
<1>6. u[2] \in Direct
  BY <1>1, <1>3, <1>5 DEF Direct
<1>7. Used(d, u) = Ptr(d.dir, u[1], u[2])
  BY <1>4, <1>5 DEF BlockOf, Ptr
<1>8. d.dir[u[1]] \in Entries
  BY <1>1 DEF Dirs
<1>9. Ptr(d.dir, u[1], u[2]) \in 0..NBLOCKS
  BY <1>6, <1>8, EntryParts DEF Ptr, Direct
<1> QED
  BY <1>1, <1>6, <1>7, <1>9, NameFacts

LEMMA SoundIs ==
  ASSUME NEW d, d.dir \in Dirs, DirOK(d.dir), Apart(d.dir, d.bitmap)
  PROVE  Sound(d)
<1>1. ASSUME NEW u \in Uses(d), NEW w \in Uses(d), Used(d, u) = Used(d, w)
      PROVE  u = w
  <2>1. /\ u = <<u[1], u[2]>> /\ u[1] \in Files /\ u[2] \in Direct
        /\ Used(d, u) = Ptr(d.dir, u[1], u[2]) /\ Used(d, u) # 0
    BY UsesAre
  <2>2. /\ w = <<w[1], w[2]>> /\ w[1] \in Files /\ w[2] \in Direct
        /\ Used(d, w) = Ptr(d.dir, w[1], w[2])
    BY UsesAre
  <2>3. \A f, g \in Files, n, m \in Direct :
          Ptr(d.dir, f, n) # 0 /\ Ptr(d.dir, f, n) = Ptr(d.dir, g, m) => f = g /\ n = m
    BY DEF DirOK
  <2>a. PICK f \in Files, n \in Direct : f = u[1] /\ n = u[2]
    BY <2>1
  <2>b. PICK g \in Files, m \in Direct : g = w[1] /\ m = w[2]
    BY <2>2
  <2>c. Ptr(d.dir, f, n) # 0 /\ Ptr(d.dir, f, n) = Ptr(d.dir, g, m)
    BY <1>1, <2>1, <2>2, <2>a, <2>b
  <2>d. f = g /\ n = m
    BY <2>3, <2>c
  <2>4. u[1] = w[1] /\ u[2] = w[2]
    BY <2>a, <2>b, <2>d
  <2> QED
    BY <2>1, <2>2, <2>4, Zenon
<1>2. ASSUME NEW u \in Uses(d) PROVE Used(d, u) \notin d.bitmap
  BY UsesAre DEF Apart
<1> QED
  BY <1>1, <1>2 DEF Sound

LEMMA InvDisjoint == TypeOK /\ FsInv => FilesAreDisjoint
<1> SUFFICES ASSUME TypeOK, FsInv PROVE FilesAreDisjoint
  OBVIOUS
<1> USE FileSystemAssumption
<1>1. DirOK(cache.dir) /\ Apart(cache.dir, cache.bitmap)
  BY DEF FsInv, Safe, Follows
<1>2. cache \in Caches /\ cache.dir \in Dirs /\ cache.bitmap \in SUBSET Blocks
  BY CacheParts DEF TypeOK
<1>3. Sound(cache)
  BY <1>1, <1>2, SoundIs
<1>4. ASSUME ~crashed, NEW b \in Blocks, b \notin cache.bitmap
      PROVE  b \in {Used(cache, u) : u \in Uses(cache)}
  <2>1. PICK f \in Files, n \in Direct : Ptr(cache.dir, f, n) = b
    BY <1>4 DEF FsInv, Full
  <2>2. PICK u : u = <<f, n>>
    OBVIOUS
  <2>3. u \in Places /\ u[1] = f /\ u[2] = n /\ n # -1 /\ n < NDIRECT
    BY <2>2 DEF Places, Direct
  <2>4. Used(cache, u) = b
    BY <2>1, <2>3 DEF Used, BlockOf, Ptr
  <2>5. u \in Uses(cache)
    BY <2>3, <2>4, NameFacts DEF Uses
  <2> QED
    BY <2>4, <2>5
<1>5. \A u \in Uses(cache) : Used(cache, u) \in Blocks
  BY <1>1, <1>2, UsesAre
<1>6. ~crashed => Blocks = cache.bitmap \cup {Used(cache, u) : u \in Uses(cache)}
  BY <1>2, <1>4, <1>5
<1> QED
  BY <1>3, <1>6 DEF FilesAreDisjoint

LEMMA InvCrashSafe == TypeOK /\ FsInv => CrashSafe
<1> SUFFICES ASSUME TypeOK, FsInv PROVE CrashSafe
  OBVIOUS
<1>1. disk \in Disks /\ DiskOK(disk)
  BY LeadsEnds DEF FsInv, TypeOK
<1> QED
  BY <1>1, DiskParts, SoundIs DEF CrashSafe, DiskOK

LEMMA InvDurable == TypeOK /\ FsInv => FlushIsDurable
<1> SUFFICES ASSUME TypeOK, FsInv, flushed # NoFile, Idle
             PROVE  /\ disk.dir[flushed] = cache.dir[flushed]
                    /\ \A u \in Uses(cache) : u[1] = flushed =>
                         disk.block[Used(cache, u)] = cache.block[Used(cache, u)]
  BY DEF FlushIsDurable
<1>1. Safe(cache, disk)
  BY LeadsEnds DEF FsInv, TypeOK, Idle
<1>2. \A x : ~Occurs(x, loop)
  BY DEF Idle, Occurs
<1>3. Dir \notin cache.dirty
  BY <1>2 DEF FsInv
<1>4. \A n \in Direct : Ptr(cache.dir, flushed, n) # 0 =>
        Ptr(cache.dir, flushed, n) \notin cache.dirty
  BY <1>2 DEF FsInv
<1>5. disk.dir = cache.dir
  BY <1>1, <1>3 DEF Safe, Follows, Agree
<1>6. cache.dir \in Dirs /\ DirOK(cache.dir)
  BY <1>1, CacheParts DEF TypeOK, Safe, Follows
<1>7. ASSUME NEW u \in Uses(cache), u[1] = flushed
      PROVE  disk.block[Used(cache, u)] = cache.block[Used(cache, u)]
  <2>1. /\ u[2] \in Direct /\ Used(cache, u) = Ptr(cache.dir, flushed, u[2])
        /\ Used(cache, u) # 0 /\ Used(cache, u) \in Blocks
    BY <1>6, <1>7, UsesAre
  <2>2. Used(cache, u) \notin cache.dirty
    BY <1>4, <2>1
  <2> QED
    BY <1>1, <2>1, <2>2 DEF Safe, Follows, Agree
<1> QED
  BY <1>5, <1>7

LEMMA InvHolds == MaxSize <= NDIRECT => (Spec => [](TypeOK /\ FsInv))
<1> SUFFICES ASSUME MaxSize <= NDIRECT PROVE Spec => [](TypeOK /\ FsInv)
  OBVIOUS
<1>1. Init => TypeOK /\ FsInv
  BY InitType, InitInv
<1>2. TypeOK /\ FsInv /\ [Next]_vars => (TypeOK /\ FsInv)'
  BY NextType, NextInv
<1> QED
  BY <1>1, <1>2, PTL DEF Spec

\* Whatever is written, truncated, removed and lost when the machine stops,
\* files without indirect blocks never share a block in memory and never own a
\* free one, and while it does not stop no block is lost (fs/fs.c:57, 214, 493).
THEOREM DisjointAlways == MaxSize <= NDIRECT => (Spec => []FilesAreDisjoint)
  BY InvHolds, InvDisjoint, PTL

\* Between any two writes to the disk no two files on it share a block and none
\* owns a free one: the bit of a block is cleared on the disk before anything
\* there points to it, and is set there only when nothing does (fs/fs.c:49, 517).
THEOREM CrashSafeAlways == MaxSize <= NDIRECT => (Spec => []CrashSafe)
  BY InvHolds, InvCrashSafe, PTL

\* When the loop of file_flush is done, with its writes, the File and every
\* block of the file are on the disk as they are in memory (fs/fs.c:521-540).
THEOREM DurableAlways == MaxSize <= NDIRECT => (Spec => []FlushIsDurable)
  BY InvHolds, InvDurable, PTL
==============================================================================
