----------------------------- MODULE PageTables -----------------------------
(***************************************************************************)
(* Physical pages and page tables: page_alloc, page_free, page_decref, the *)
(* three walks, page_insert, page_lookup and page_remove of kern/pmap.c,   *)
(* the system calls on mappings in kern/syscall.c, and the building and    *)
(* taking down of an address space in kern/env.c.  All of it runs with the *)
(* kernel lock held, so a call is one step.                                *)
(*                                                                         *)
(* Memory runs out at any moment, in the middle of a walk too.             *)
(***************************************************************************)
EXTENDS Integers, Sequences, FiniteSets

CONSTANTS
  Slots,     \* indices into envs[]
  Pages,     \* the pages on the free list after page_init
  VAs,       \* user addresses <<PML4, PDPE, PDX, PTX>> in use
  NPD,       \* entries of a page directory             (512)
  NPT,       \* entries of a page table                 (512)
  LastPDPE,  \* the index that env_free treats specially  (3)
  UTOP_PDX,  \* PDX(UTOP)                                 (4)
  REFS,      \* pp_ref counts modulo this              (2^16)
  MaxRefs,   \* BOUND, not in the code: a page with this count is mapped
             \*   no more, so that no count wraps
  NoPage     \* an entry that is 0

ASSUME PageTablesAssumption ==
  /\ IsFiniteSet(Pages) /\ NoPage \notin Pages
  /\ IsFiniteSet(Slots) /\ IsFiniteSet(VAs)
  /\ NPD \in Nat \ {0} /\ NPT \in Nat \ {0} /\ LastPDPE \in Nat /\ UTOP_PDX \in Nat
  /\ VAs # {} /\ VAs \subseteq Seq(Nat)
  /\ \A va \in VAs : /\ Len(va) = 4 /\ va[1] = 0 /\ va[2] <= LastPDPE
                     /\ va[3] < NPD /\ va[4] < NPT
  /\ REFS \in Nat \ {0, 1} /\ MaxRefs \in 1..(REFS - 1)

(***************************************************************************)
(* A node of an address space is a prefix of an address: <<>> is its PML4, *)
(* <<m>> a page directory pointer table, <<m, p>> a page directory,        *)
(* <<m, p, d>> a page table and the whole address the page mapped there.   *)
(* Tables belong to one address space, so an entry is named by the         *)
(* environment and the node below it.                                      *)
(***************************************************************************)
Node(va, k) == SubSeq(va, 1, k)
Nodes == {Node(va, k) : va \in VAs, k \in 0..4}
Tables == Nodes \ VAs
Root == <<>>

VARIABLES
  page_free_list, \* the free pages.  Which one is handed out makes no
                  \*   difference: all have count 0 and are in no table
  pp_ref,         \* [Pages -> count]
  entry,          \* [Slots -> [Nodes -> page, or NoPage]]
  writable,       \* [Slots -> addresses whose entry has PTE_W]
  panicstr

vars == <<page_free_list, pp_ref, entry, writable, panicstr>>

Init ==
  /\ page_free_list = Pages
  /\ pp_ref = [p \in Pages |-> 0]
  /\ entry = [e \in Slots |-> [n \in Nodes |-> NoPage]]
  /\ writable = [e \in Slots |-> {}]
  /\ panicstr = FALSE
-----------------------------------------------------------------------------
(***************************************************************************)
(* The functions of pmap.c map one memory to the next.                     *)
(***************************************************************************)
Memory == [free |-> page_free_list, ref |-> pp_ref, entry |-> entry,
           writable |-> writable]

Becomes(m) ==
  /\ page_free_list' = m.free
  /\ pp_ref' = m.ref
  /\ entry' = m.entry
  /\ writable' = m.writable
  /\ UNCHANGED panicstr

\* The page that page_alloc takes off the free list.
page_alloc(m) == CHOOSE p \in m.free : TRUE

Take(m, p) == [m EXCEPT !.free = @ \ {p}]

\* pp_ref++
incref(m, p) == [m EXCEPT !.ref[p] = (@ + 1) % REFS]

\* The entry for node n of e
SetEntry(m, e, n, p) == [m EXCEPT !.entry[e][n] = p]

SetWritable(m, e, va, w) ==
  [m EXCEPT !.writable[e] = IF w THEN @ \cup {va} ELSE @ \ {va}]

\* page_alloc, pp_ref++ and the entry for a new table n of e
NewTable(m, e, n) ==
  LET p == page_alloc(m) IN SetEntry(incref(Take(m, p), p), e, n, p)

\* Mutant: the count is tested for its last reference, not for none.
page_decref_Early(m, p) ==
  [m EXCEPT !.ref[p] = (@ - 1) % REFS,
            !.free = IF m.ref[p] <= 2 THEN @ \cup {p} ELSE @]

\* page_decref, and the page_free when no reference is left
page_decref(m, p) ==
  LET left == (m.ref[p] - 1) % REFS IN
  [m EXCEPT !.ref = [m.ref EXCEPT ![p] = left],
            !.free = IF left = 0 THEN m.free \cup {p} ELSE m.free]

\* pgdir_walk(..., 1): the page table of va is there, or is made.
pgdir_walk(m, e, va) ==
  LET n == Node(va, 3) IN
  IF m.entry[e][n] # NoPage THEN [ok |-> TRUE, mem |-> m]
  ELSE IF m.free = {} THEN [ok |-> FALSE, mem |-> m]
  ELSE [ok |-> TRUE, mem |-> NewTable(m, e, n)]

\* pdpe_walk(..., 1).  A new page directory stays when the walk below it fails:
\* the variable that should remember it is shadowed.
pdpe_walk(m, e, va) ==
  LET n == Node(va, 2) IN
  IF m.entry[e][n] # NoPage THEN pgdir_walk(m, e, va)
  ELSE IF m.free = {} THEN [ok |-> FALSE, mem |-> m]
  ELSE pgdir_walk(NewTable(m, e, n), e, va)

Below(x, n) == Len(x) >= Len(n) /\ Node(x, Len(n)) = n

\* What is left of e's nodes when the table at n goes.
Cut(m, e, n) ==
  [m EXCEPT !.entry[e] = [x \in Nodes |-> IF Below(x, n) THEN NoPage ELSE @[x]],
            !.writable[e] = {va \in @ : ~Below(va, n)}]

\* pml4e_walk(..., 1).  A new page directory pointer table is given back when
\* the walk below it fails, with whatever entries it has.
pml4e_walk(m, e, va) ==
  LET n == Node(va, 1) IN
  IF m.entry[e][n] # NoPage THEN pdpe_walk(m, e, va)
  ELSE IF m.free = {} THEN [ok |-> FALSE, mem |-> m]
  ELSE LET new == NewTable(m, e, n)
           r == pdpe_walk(new, e, va) IN
       IF r.ok THEN r
       ELSE [ok |-> FALSE,
             mem |-> Cut(page_decref(r.mem, new.entry[e][n]), e, n)]

\* page_lookup: the page at va, or NoPage.  It makes the tables on the way.
page_lookup(m, e, va) ==
  LET r == pml4e_walk(m, e, va) IN
  [page |-> IF r.ok THEN r.mem.entry[e][va] ELSE NoPage, mem |-> r.mem]

\* Mutant: only PTE_P is cleared in the entry.
page_remove_KeepW(m, e, va) ==
  LET l == page_lookup(m, e, va) IN
  IF l.page = NoPage THEN l.mem
  ELSE SetEntry(page_decref(l.mem, l.page), e, va, NoPage)

\* page_remove
page_remove(m, e, va) ==
  LET l == page_lookup(m, e, va) IN
  IF l.page = NoPage THEN l.mem
  ELSE SetWritable(SetEntry(page_decref(l.mem, l.page), e, va, NoPage), e, va, FALSE)

\* The last part of page_insert
PutEntry(m, e, p, va, w) == SetWritable(SetEntry(incref(m, p), e, va, p), e, va, w)

\* Mutant: inserting the page that is already there counts it once more.
page_insert_Recount(m, e, p, va, w) ==
  LET r == pml4e_walk(m, e, va) IN
  IF ~r.ok THEN r
  ELSE LET old == IF r.mem.entry[e][va] \in {NoPage, p} THEN r.mem
                  ELSE page_remove(r.mem, e, va) IN
       [ok |-> TRUE, mem |-> PutEntry(old, e, p, va, w)]

\* Mutant: a page is removed also when it is the one to be inserted.
page_insert_RemoveFirst(m, e, p, va, w) ==
  LET r == pml4e_walk(m, e, va)
      old == page_remove(r.mem, e, va) IN
  IF ~r.ok THEN r
  ELSE [ok |-> TRUE, mem |-> PutEntry(old, e, p, va, w)]

\* page_insert: 0, or -E_NO_MEM
page_insert(m, e, p, va, w) ==
  LET r == pml4e_walk(m, e, va) IN
  IF ~r.ok THEN r
  ELSE IF r.mem.entry[e][va] = p
    THEN [ok |-> TRUE, mem |-> SetWritable(r.mem, e, va, w)]
  ELSE LET old == IF r.mem.entry[e][va] = NoPage THEN r.mem
                  ELSE page_remove(r.mem, e, va) IN
       [ok |-> TRUE, mem |-> PutEntry(old, e, p, va, w)]
-----------------------------------------------------------------------------
HasSpace(e) == entry[e][Root] # NoPage

\* env_setup_vm, for a slot that env_alloc hands out
env_setup_vm(e) ==
  /\ ~HasSpace(e)
  /\ page_free_list # {}
  /\ Becomes(NewTable(Memory, e, Root))

\* sys_page_alloc.  When page_insert fails the new page is in no list.
sys_page_alloc(e, va, w) ==
  /\ HasSpace(e)
  /\ page_free_list # {}
  /\ LET p == page_alloc(Memory) IN
     Becomes(page_insert(Take(Memory, p), e, p, va, w).mem)

\* Mutant: sys_page_map without its check of the source's permission.
MayMap_Any(l, s, sva, w) == l.page # NoPage

\* The page is there, and is not made writable by being mapped again.
MayMap(l, s, sva, w) ==
  /\ l.page # NoPage
  /\ w => sva \in l.mem.writable[s]

\* sys_page_map
sys_page_map(s, sva, d, dva, w) ==
  /\ HasSpace(s) /\ HasSpace(d)
  /\ LET l == page_lookup(Memory, s, sva) IN
     IF MayMap(l, s, sva, w)
       THEN /\ pp_ref[l.page] < MaxRefs
            /\ Becomes(page_insert(l.mem, d, l.page, dva, w).mem)
       ELSE Becomes(l.mem)

\* sys_page_unmap
sys_page_unmap(e, va) ==
  /\ HasSpace(e)
  /\ va # <<0, 0, 0, 0>>
  /\ Becomes(page_remove(Memory, e, va))

\* user_mem_check, of one page, and the page_lookup of sys_ipc_try_send
user_mem_check(e, va) ==
  /\ HasSpace(e)
  /\ Becomes(page_lookup(Memory, e, va).mem)

\* The entries that env_free does not visit: the last one of a page table and
\* of a page directory, and all but UTOP_PDX in the last page directory.
pdeno_limit(pdpe_index) == IF pdpe_index = LastPDPE THEN UTOP_PDX ELSE NPD - 1

Visited(n) ==
  /\ Len(n) >= 3 => n[3] < pdeno_limit(n[2])
  /\ Len(n) = 4 => n[4] < NPT - 1

\* env_free: page_remove and page_decref for every entry it visits.  It takes
\* the address in env_pml4e[0] for a table even if that is 0; what it then
\* finds in physical page 0 are the vectors of the BIOS, and KADDR panics.
env_free(e) ==
  /\ HasSpace(e)
  /\ IF entry[e][<<0>>] = NoPage
       THEN /\ panicstr' = TRUE
            /\ UNCHANGED <<page_free_list, pp_ref, entry, writable>>
       ELSE LET gone(p) == Cardinality({n \in Nodes : Visited(n) /\ entry[e][n] = p})
                left(p) == (pp_ref[p] - gone(p)) % REFS IN
            /\ pp_ref' = [p \in Pages |-> left(p)]
            /\ page_free_list' = page_free_list \cup
                 {p \in Pages : gone(p) > 0 /\ left(p) = 0}
            /\ entry' = [entry EXCEPT ![e] = [n \in Nodes |-> NoPage]]
            /\ writable' = [writable EXCEPT ![e] = {}]
            /\ UNCHANGED panicstr

Next ==
  /\ ~panicstr
  /\ \E e \in Slots :
       \/ env_setup_vm(e)
       \/ env_free(e)
       \/ \E va \in VAs :
            \/ sys_page_unmap(e, va)
            \/ user_mem_check(e, va)
            \/ \E w \in BOOLEAN :
                 \/ sys_page_alloc(e, va, w)
                 \/ \E d \in Slots, dva \in VAs : sys_page_map(e, va, d, dva, w)

Spec == Init /\ [][Next]_vars
-----------------------------------------------------------------------------
\* Types of the variables.  An entry that refers to no page grants no right: no
\* PTE_W outlives its page in page_remove, in page_insert over another page or
\* in a table that a failed walk gives back.  (That pp_ref, a uint16_t, is below
\* REFS is no property of the code; that it does not wrap is the bound MaxRefs.)
TypeOK ==
  /\ page_free_list \subseteq Pages
  /\ pp_ref \in [Pages -> 0..(REFS - 1)]
  /\ entry \in [Slots -> [Nodes -> Pages \cup {NoPage}]]
  /\ writable \in [Slots -> SUBSET VAs]
  /\ \A e \in Slots : \A va \in writable[e] : entry[e][va] # NoPage
  /\ panicstr \in BOOLEAN

\* The references to page p
Refs(p) == {r \in Slots \X Nodes : entry[r[1]][r[2]] = p}

\* No page is free, or can become free, while a table refers to it: pp_ref is
\* never below the number of references (inc/memlayout.h, "pp_ref is the count
\* of pointers (usually in page table entries) to this page"), through walks
\* that fail half way and page_inserts over other pages or over the same one.
RefsCounted ==
  \A p \in Pages : /\ pp_ref[p] >= Cardinality(Refs(p))
                   /\ p \in page_free_list => pp_ref[p] = 0

\* A page that serves as a table has that one reference: it is in no other
\* table and is mapped at no user address, so that no environment can write
\* page tables.
TablesArePrivate ==
  \A e \in Slots, n \in Tables :
    entry[e][n] # NoPage => Cardinality(Refs(entry[e][n])) = 1

Mapped(p) == \E e \in Slots, va \in VAs : entry[e][va] = p
WritableSomewhere(p) == \E e \in Slots : \E va \in writable[e] : entry[e][va] = p

\* A page that everybody has read-only does not become writable again, by no
\* sequence of mappings between environments (kern/syscall.c, sys_page_map:
\* "it also must not grant write access to a read-only page").
ReadOnlyStays ==
  [][\A p \in Pages :
       Mapped(p) /\ ~WritableSomewhere(p) => ~WritableSomewhere(p)']_vars

\* References that pp_ref counts although they do not exist, and a page that
\* is neither free nor counted.
Surplus(p) ==
  (pp_ref[p] - Cardinality(Refs(p)))
    + (IF p \notin page_free_list /\ pp_ref[p] = 0 THEN 1 ELSE 0)

\* A page is lost only in a call that runs out of memory, which leaves no more
\* than the one page that pml4e_walk gives back, or where env_free does not look.
LossesAreKnown ==
  [][\A p \in Pages : Surplus(p)' > Surplus(p) =>
       \/ Cardinality(page_free_list') <= 1
       \/ \E e \in Slots, n \in Nodes :
            HasSpace(e) /\ ~HasSpace(e)' /\ ~Visited(n) /\ entry[e][n] = p]_vars

\* env_free "Frees env e and all memory it uses" (kern/env.c:467): the pages
\* that only e refers to are free afterwards.  This does not hold for pages in
\* the entries env_free does not visit (LossesAreKnown).
FreesAllItUses ==
  [][\A e \in Slots : HasSpace(e) /\ ~HasSpace(e)' =>
       \A p \in Pages :
         Refs(p) # {} /\ (\A r \in Refs(p) : r[1] = e)
           => p \in page_free_list']_vars
=============================================================================
