-------------------------------- MODULE Fork --------------------------------
(***************************************************************************)
(* Copy-on-write fork: lib/fork.c with the handler of lib/pgfault.c, over  *)
(* the page calls of the kernel, each of which is one step.  Environments  *)
(* fork, write and are destroyed while others, with which they share pages *)
(* that wait to be copied, do the same.                                    *)
(*                                                                         *)
(* What a page holds is one value.  Memory may run out at any call that    *)
(* takes a page.  pgfault then panics, which is env_destroy.  fork does    *)
(* not notice: it tests for a positive result, or does not look at it, and *)
(* goes on, so that a child may start without pages of its parent.         *)
(***************************************************************************)
EXTENDS Integers, FiniteSets

CONSTANTS
  Envs, Boot,  \* environments, and the one that is there at the start
  Text,        \* page numbers of the program, mapped read-only
  Data,        \* of its data and its stack, mapped writable
  Shared,      \* of pages with PTE_SHARE, mapped writable
  Stack,       \* the page number below USTACKTOP
  UTEXT,       \* the lowest page number of a program
  NPT,         \* entries of a page table (512)
  Values,
  NPAGES,      \* physical pages, enough for all that is mapped
  None

Addrs == Text \cup Data \cup Shared
Pages == 1..NPAGES
Bits == {"W", "COW", "SHARE"}

\* Entries of page tables, faults that are handled, and forks under way: what
\* the next step is, the child, and the addresses still to copy.
Entries == [page : Pages, perm : SUBSET Bits]
PageFaults == [addr : Addrs, page : Pages]
Places == {"child", "own", "stack", "start", "stuck"}
Forks == [at : Places, child : Envs, todo : SUBSET Addrs]

ASSUME ForkAssumption ==
  /\ Boot \in Envs /\ Addrs \subseteq UTEXT..Stack /\ Stack \in Data
  /\ UTEXT \in Nat /\ Stack \in Nat /\ NPT \in Nat \ {0}
  /\ Text \cap Data = {} /\ Text \cap Shared = {} /\ Data \cap Shared = {}
  /\ None \notin Entries \cup PageFaults \cup Forks
  /\ None \notin Values \cup [Addrs -> Values \cup {None}]
  /\ IsFiniteSet(Addrs) /\ NPAGES \in Nat /\ Cardinality(Addrs) <= NPAGES

VARIABLES
  status,  \* [Envs -> "unused", "forking", "ready" or "gone"]
  pt,      \* [Envs -> [Addrs -> page and permissions, or None]]
  mem,     \* [Pages -> Values]
  handler, \* environments with a page fault upcall and an exception stack
  fault,   \* [Envs -> the fault it is handling, or None]
  op,      \* [Envs -> where it is in fork, or None]
  partial  \* environments that may lack pages: a page of theirs, or of one
           \* they descend from, could not be mapped by fork

vars == <<status, pt, mem, handler, fault, op, partial>>

Entry(p, perm) == [page |-> p, perm |-> perm]

Mapped(e, a) == pt[e][a] # None
Has(e, a, bit) == Mapped(e, a) /\ bit \in pt[e][a].perm

\* The page at PFTEMP while a fault is handled is in use as well.
Used == {pt[x[1]][x[2]].page : x \in {y \in Envs \X Addrs : Mapped(y[1], y[2])}}
          \cup {fault[e].page : e \in {x \in Envs : fault[x] # None}}

HasMemory == Pages \ Used # {}
page_alloc == CHOOSE p \in Pages \ Used : TRUE

Init ==
  /\ status = [e \in Envs |-> IF e = Boot THEN "ready" ELSE "unused"]
  /\ pt = [e \in Envs |-> [a \in Addrs |->
       IF e # Boot THEN None
       ELSE Entry(Cardinality({b \in Addrs : b <= a}),
                  CASE a \in Text -> {}
                    [] a \in Data -> {"W"}
                    [] a \in Shared -> {"W", "SHARE"})]]
  /\ \E v \in Values : mem = [p \in Pages |-> v]
  /\ handler = {}
  /\ fault = [e \in Envs |-> None]
  /\ op = [e \in Envs |-> None]
  /\ partial = {}

Runs(e) == status[e] = "ready" /\ fault[e] = None
-----------------------------------------------------------------------------
(***************************************************************************)
(* An environment may be destroyed at any moment: by another, for a fault  *)
(* without a handler, or for one on an address where nothing is mapped,    *)
(* whose handler only faults again.                                        *)
(***************************************************************************)
\* Mutant: the parent is destroyed, its fork goes on.
Gone_KeepOp(e) ==
  /\ status' = [status EXCEPT ![e] = "gone"]
  /\ pt' = [pt EXCEPT ![e] = [a \in Addrs |-> None]]
  /\ fault' = [fault EXCEPT ![e] = None]
  /\ handler' = handler \ {e}
  /\ UNCHANGED <<mem, op, partial>>

Gone(e) ==
  /\ status' = [status EXCEPT ![e] = "gone"]
  /\ pt' = [pt EXCEPT ![e] = [a \in Addrs |-> None]]
  /\ fault' = [fault EXCEPT ![e] = None]
  /\ op' = [op EXCEPT ![e] = None]
  /\ handler' = handler \ {e}
  /\ UNCHANGED <<mem, partial>>

env_destroy(e) == status[e] = "ready" /\ Gone(e)

\* A write to a page that is not writable, by the program or, in fork, by the
\* calls that the library makes on its stack.
Faults(e, a) ==
  /\ Runs(e) /\ ~Has(e, a, "W")
  /\ op[e] # None => a = Stack

\* memmove to the page at PFTEMP
Copy(m, p, q) == [m EXCEPT ![p] = m[q]]

\* pgfault up to the copy.  Its test stops a fault that is no write on a
\* copy-on-write page, and no other.
pgfault(e, a) ==
  /\ Faults(e, a) /\ Mapped(e, a) /\ e \in handler /\ HasMemory
  /\ LET p == page_alloc IN
     /\ fault' = [fault EXCEPT ![e] = [addr |-> a, page |-> p]]
     /\ mem' = Copy(mem, p, pt[e][a].page)
  /\ UNCHANGED <<status, pt, handler, op, partial>>

\* Its second half: the new page goes to the old page's address.
pgfault_map(e) ==
  /\ status[e] = "ready" /\ fault[e] # None
  /\ pt' = [pt EXCEPT ![e][fault[e].addr] = Entry(fault[e].page, {"W"})]
  /\ fault' = [fault EXCEPT ![e] = None]
  /\ UNCHANGED <<status, mem, handler, op, partial>>

write(e, a, v) ==
  /\ Runs(e) /\ op[e] = None /\ Has(e, a, "W")
  /\ mem' = [mem EXCEPT ![pt[e][a].page] = v]
  /\ UNCHANGED <<status, pt, handler, fault, op, partial>>
-----------------------------------------------------------------------------
(***************************************************************************)
(* fork.  Its loop over the addresses goes down from the stack.  Where a   *)
(* page table is missing it steps over NPT pages, where a page directory   *)
(* is missing over NPT * NPT, and then over one more, the step of the loop *)
(* itself.  All user addresses are below one PML4 entry, which is there,   *)
(* so the step for a missing one is not taken.                             *)
(***************************************************************************)
Table(a) == a \div NPT
Directory(a) == a \div (NPT * NPT)

\* The addresses that the loop looks at where those in M are mapped, and the
\* exception stack above the stack
Visited(M) ==
  LET present == M \cup {Stack + 1}
      at[a \in Int] ==
        IF a < UTEXT THEN {}
        ELSE IF \A b \in present : Directory(b) # Directory(a) THEN at[a - NPT * NPT - 1]
        ELSE IF \A b \in present : Table(b) # Table(a) THEN at[a - NPT - 1]
        ELSE {a} \cup at[a - 1]
  IN at[Stack]

\* A layout of which fork leaves out nothing
VisitsAll == Addrs \subseteq Visited(Addrs)

MappedIn(e) == {a \in Addrs : Mapped(e, a)}
ToCopy(e) == MappedIn(e) \cap Visited(MappedIn(e))

\* The address in S that comes next, from the stack down
IsNext(a, S) == a \in S /\ \A b \in S : b <= a

\* Each call writes to the stack, so it must be writable.
InFork(e, place) ==
  /\ Runs(e) /\ op[e] # None /\ op[e].at = place /\ Has(e, Stack, "W")

\* set_pgfault_handler sets up the first program's handler; a child has
\* inherited the pointer and with it what its parent's fork gave it.  Failed
\* maps leave tables without pages, so which pages the loop finds in a partial
\* address space is open.
fork(e, c) ==
  /\ Runs(e) /\ op[e] = None /\ Has(e, Stack, "W")
  /\ status[c] = "unused"
  /\ status' = [status EXCEPT ![c] = "forking"]
  /\ handler' = IF e = Boot THEN handler \cup {e} ELSE handler
  /\ \E S \in IF e \in partial THEN SUBSET MappedIn(e) ELSE {ToCopy(e)} :
       op' = [op EXCEPT ![e] = [at |-> "child", child |-> c, todo |-> S]]
  /\ partial' = IF e \in partial THEN partial \cup {c} ELSE partial
  /\ UNCHANGED <<pt, mem, fault>>

\* duppage makes these copy-on-write and maps others as they are.
IsPrivate(perm) == "SHARE" \notin perm /\ perm \cap {"W", "COW"} # {}

\* Mutant: the child may write.
CowPerm_KeepW(perm) == perm \cup {"COW"}

CowPerm(perm) == (perm \cup {"COW"}) \ {"W"}

\* The page into the child
duppage(e) ==
  /\ InFork(e, "child")
  /\ \E a \in Addrs :
     LET m == pt[e][a] IN
     /\ IsNext(a, op[e].todo)
     /\ pt' = [pt EXCEPT ![op[e].child][a] =
                 Entry(m.page, IF IsPrivate(m.perm) THEN CowPerm(m.perm) ELSE m.perm)]
     /\ op' = IF IsPrivate(m.perm) THEN [op EXCEPT ![e].at = "own"]
                                   ELSE [op EXCEPT ![e].todo = @ \ {a}]
  /\ UNCHANGED <<status, mem, handler, fault, partial>>

\* There is no memory for a page table of the child: its page is left out and
\* fork goes on, with the parent's own mapping too.
duppage_fails(e) ==
  /\ InFork(e, "child")
  /\ \E a \in Addrs :
     /\ IsNext(a, op[e].todo)
     /\ \A b \in Addrs : Table(b) = Table(a) => ~Mapped(op[e].child, b)
     /\ op' = IF IsPrivate(pt[e][a].perm) THEN [op EXCEPT ![e].at = "own"]
                                         ELSE [op EXCEPT ![e].todo = @ \ {a}]
  /\ partial' = partial \cup {op[e].child}
  /\ UNCHANGED <<status, pt, mem, handler, fault>>

\* Mutant: the parent's mapping is left as it was.
duppage_own_Kept(e) ==
  /\ InFork(e, "own")
  /\ \E a \in Addrs :
     /\ IsNext(a, op[e].todo)
     /\ op' = [op EXCEPT ![e] = [at |-> "child", child |-> @.child, todo |-> @.todo \ {a}]]
  /\ UNCHANGED <<status, pt, mem, handler, fault, partial>>

\* The parent's own mapping of the page
duppage_own(e) ==
  /\ InFork(e, "own")
  /\ \E a \in Addrs :
     /\ IsNext(a, op[e].todo)
     /\ pt' = [pt EXCEPT ![e][a] = Entry(@.page, CowPerm(@.perm))]
     /\ op' = [op EXCEPT ![e] = [at |-> "child", child |-> @.child, todo |-> @.todo \ {a}]]
  /\ UNCHANGED <<status, mem, handler, fault, partial>>

\* The child's exception stack.  Without it the child starts all the same, and
\* its first fault destroys it.
fork_xstack(e) ==
  /\ InFork(e, "child") /\ op[e].todo = {}
  /\ \E H \in {{}, {op[e].child}} : handler' = handler \cup H
  /\ op' = [op EXCEPT ![e].at = "stack"]
  /\ UNCHANGED <<status, pt, mem, fault, partial>>

\* A stack of its own for the child, with what the parent's holds
fork_stack(e) ==
  /\ InFork(e, "stack") /\ HasMemory
  /\ LET p == page_alloc IN
     /\ pt' = [pt EXCEPT ![op[e].child][Stack] = Entry(p, {"W"})]
     /\ mem' = Copy(mem, p, pt[e][Stack].page)
  /\ op' = [op EXCEPT ![e].at = "start"]
  /\ UNCHANGED <<status, handler, fault, partial>>

\* No page for that stack, or none for the table that would hold PFTEMP: the
\* copy to PFTEMP faults, pgfault maps a page there and unmaps it again, and
\* the copy faults for ever, or until pgfault finds no page and panics.
fork_stuck(e) ==
  /\ InFork(e, "stack")
  /\ \/ UNCHANGED pt
     \/ HasMemory /\ pt' = [pt EXCEPT ![op[e].child][Stack] = Entry(page_alloc, {"W"})]
  /\ op' = [op EXCEPT ![e].at = "stuck"]
  /\ UNCHANGED <<status, mem, handler, fault, partial>>

\* sys_env_set_pgfault_upcall and sys_env_set_status for the child
fork_start(e) ==
  /\ InFork(e, "start")
  /\ status' = [status EXCEPT ![op[e].child] = "ready"]
  /\ op' = [op EXCEPT ![e] = None]
  /\ UNCHANGED <<pt, mem, handler, fault, partial>>
-----------------------------------------------------------------------------
Next ==
  \E e \in Envs :
    \/ env_destroy(e)
    \/ \E a \in Addrs : pgfault(e, a)
    \/ pgfault_map(e)
    \/ \E a \in Addrs, v \in Values : write(e, a, v)
    \/ \E c \in Envs : fork(e, c)
    \/ duppage(e) \/ duppage_fails(e) \/ duppage_own(e)
    \/ fork_xstack(e) \/ fork_stack(e) \/ fork_stuck(e) \/ fork_start(e)

Spec == Init /\ [][Next]_vars
-----------------------------------------------------------------------------
TypeOK ==
  /\ status \in [Envs -> {"unused", "forking", "ready", "gone"}]
  /\ pt \in [Envs -> [Addrs -> Entries \cup {None}]]
  /\ mem \in [Pages -> Values]
  /\ handler \subseteq Envs /\ partial \subseteq Envs
  /\ fault \in [Envs -> PageFaults \cup {None}]
  /\ op \in [Envs -> Forks \cup {None}]
  /\ \A e \in Envs : op[e] # None =>
       status[e] = "ready" /\ status[op[e].child] = "forking"

\* e is between the two mappings that duppage makes for address a.
HalfDone(e, a) == op[e] # None /\ op[e].at = "own" /\ IsNext(a, op[e].todo)

\* A page that one environment may write and that is not meant to be shared is
\* in no other address space, whatever forks and faults are under way: between
\* the two mappings of duppage it is still writable for the parent, which is
\* in the library then (lib/fork.c:84-86).
WritableIsPrivate ==
  \A e, x \in Envs, a, b \in Addrs :
    /\ Has(e, a, "W") /\ ~Has(e, a, "SHARE") /\ <<e, a>> # <<x, b>> /\ Mapped(x, b)
    /\ pt[e][a].page = pt[x][b].page
    => HalfDone(e, a) /\ x = op[e].child /\ b = a

\* Copy-on-write memory behaves as if fork copied it all: nobody sees what
\* others write, except on the pages with PTE_SHARE, and a child starts with
\* the memory of its parent (lib/fork.c:100-105), all of it unless a map failed
\* in its fork or in one it descends from (lib/fork.c:77, 84 and 90), and then
\* with nothing else in its place.
Memory(e) ==
  IF status[e] # "ready" THEN None
  ELSE [a \in Addrs |-> IF Mapped(e, a) THEN mem[pt[e][a].page] ELSE None]

view == [e \in Envs |-> Memory(e)]

Eager == INSTANCE PrivateMemory WITH Nothing <- None, short <- partial

Implements == Eager!Spec

\* fork copies the address space to the child (lib/fork.c:104).  This does not
\* hold: the loop steps over a missing page table by the table's pages and then
\* by one more (lib/fork.c:152), so the top of lower tables is left out; nor
\* does it where a map fails.
CopiesAll ==
  \A e \in Envs, a \in Addrs :
    op[e] # None /\ op[e].at = "start" /\ Mapped(e, a) => Mapped(op[e].child, a)

\* A page that was mapped read-only keeps what is in it: "Check that the
\* faulting access was (1) a write, and (2) to a copy-on-write page.  If not,
\* panic." (lib/fork.c:26-27)  This does not hold: pgfault's test
\* (lib/fork.c:34) panics only for a read of a copy-on-write page.
ReadOnlyStays ==
  [][\A e \in Envs, a \in Text :
       Mapped(e, a) /\ Mapped(e, a)' => "W" \notin pt'[e][a].perm]_vars
=============================================================================
