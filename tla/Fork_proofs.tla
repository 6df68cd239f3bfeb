----------------------------- MODULE Fork_proofs -----------------------------
(***************************************************************************)
(* Proofs about copy-on-write fork, for any environments, any layout of    *)
(* the address space and any memory: a writable page is private, and,      *)
(* where fork's loop looks at all pages of the layout, memory behaves as   *)
(* if it were copied at once.                                              *)
(***************************************************************************)
EXTENDS Fork, FiniteSetTheorems, TLAPS

\* Who has an address space, and who is in the middle of what.
Parties ==
  /\ \A e \in Envs : status[e] \in {"unused", "gone"} => \A a \in Addrs : pt[e][a] = None
  /\ \A e \in Envs : fault[e] # None =>
       /\ status[e] = "ready" /\ Mapped(e, fault[e].addr) /\ ~Has(e, fault[e].addr, "W")
       /\ op[e] # None => fault[e].addr = Stack
  /\ \A e, f \in Envs :
       op[e] # None /\ op[f] # None /\ op[e].child = op[f].child => e = f
  /\ \A e \in Envs : op[e] # None => op[e].todo \subseteq MappedIn(e)

\* The page at PFTEMP is in nobody else's hands.
FreshPages ==
  \A e \in Envs : fault[e] # None =>
    /\ \A x \in Envs, b \in Addrs : Mapped(x, b) => pt[x][b].page # fault[e].page
    /\ \A x \in Envs : fault[x] # None /\ x # e => fault[x].page # fault[e].page

PrivateInv == TypeOK /\ Parties /\ FreshPages /\ WritableIsPrivate

\* Two addresses that have the same page are the same address of two spaces, and
\* the pages with PTE_SHARE are the same for all.
OnePlace ==
  /\ \A e, x \in Envs, a, b \in Addrs :
       Mapped(e, a) /\ Mapped(x, b) /\ pt[e][a].page = pt[x][b].page => a = b
  /\ \A e \in Envs, a \in Addrs : Mapped(e, a) =>
       /\ "SHARE" \in pt[e][a].perm <=> a \in Shared
       /\ a \in Shared => "W" \in pt[e][a].perm
  /\ \A e, x \in Envs, a \in Shared :
       Mapped(e, a) /\ Mapped(x, a) => pt[e][a].page = pt[x][a].page

\* A copy that is not yet in place holds what the original holds.
FaultCopy ==
  \A e \in Envs : fault[e] # None =>
    mem[fault[e].page] = mem[pt[e][fault[e].addr].page]

\* A child has nothing but its parent's pages and a stack of its own, and,
\* unless a map failed, all that its parent's fork is done with.
Copying ==
  /\ \A e \in Envs : status[e] = "ready" /\ e \notin partial => MappedIn(e) = Addrs
  /\ \A e \in Envs, a \in Addrs :
       op[e] # None /\ Mapped(op[e].child, a) /\ a # Stack =>
         Mapped(e, a) /\ pt[op[e].child][a].page = pt[e][a].page
  /\ \A e \in Envs, a \in Addrs :
       /\ op[e] # None /\ op[e].child \notin partial
       /\ a \notin op[e].todo \/ HalfDone(e, a)
       => Mapped(op[e].child, a)
  /\ \A e \in Envs, a \in Addrs : HalfDone(e, a) => a \notin Shared
  /\ \A e \in Envs : op[e] # None /\ op[e].at \in {"stack", "start"} => op[e].todo = {}
  /\ \A e \in Envs : op[e] # None /\ op[e].at = "start" =>
       /\ Mapped(e, Stack) /\ Mapped(op[e].child, Stack)
       /\ mem[pt[op[e].child][Stack].page] = mem[pt[e][Stack].page]

CopyInv == OnePlace /\ FaultCopy /\ Copying
-----------------------------------------------------------------------------
LEMMA EntryParts ==
  ASSUME NEW p \in Pages, NEW perm \in SUBSET Bits
  PROVE  /\ Entry(p, perm) \in Entries /\ Entry(p, perm) # None
         /\ Entry(p, perm).page = p /\ Entry(p, perm).perm = perm
  BY ForkAssumption DEF Entry, Entries

LEMMA MappedEntry ==
  ASSUME TypeOK, NEW e \in Envs, NEW a \in Addrs, Mapped(e, a)
  PROVE  pt[e][a] \in Entries /\ pt[e][a].page \in Pages /\ pt[e][a].perm \subseteq Bits
<1>1. pt[e][a] \in Entries
  BY DEF TypeOK, Mapped
<1> QED
  BY <1>1 DEF Entries

LEMMA OneEntry ==
  ASSUME TypeOK, NEW c \in Envs, NEW a \in Addrs, NEW E \in Entries,
         pt' = [pt EXCEPT ![c][a] = E]
  PROVE  /\ pt' \in [Envs -> [Addrs -> Entries \cup {None}]]
         /\ \A x \in Envs, b \in Addrs :
              pt'[x][b] = IF x = c /\ b = a THEN E ELSE pt[x][b]
<1>1. pt \in [Envs -> [Addrs -> Entries \cup {None}]]
  BY DEF TypeOK
<1>2. pt[c] \in [Addrs -> Entries \cup {None}]
  BY <1>1
<1>3. pt' = [pt EXCEPT ![c] = [pt[c] EXCEPT ![a] = E]]
  OBVIOUS
<1>4. [pt[c] EXCEPT ![a] = E] \in [Addrs -> Entries \cup {None}]
  BY <1>2
<1>5. \A b \in Addrs : [pt[c] EXCEPT ![a] = E][b] = IF b = a THEN E ELSE pt[c][b]
  BY <1>2
<1>6. \A x \in Envs : pt'[x] = IF x = c THEN [pt[c] EXCEPT ![a] = E] ELSE pt[x]
  BY <1>1, <1>3
<1> QED
  BY <1>1, <1>3, <1>4, <1>5, <1>6

LEMMA NewPage ==
  ASSUME HasMemory
  PROVE  /\ page_alloc \in Pages
         /\ \A x \in Envs, b \in Addrs : Mapped(x, b) => pt[x][b].page # page_alloc
         /\ \A x \in Envs : fault[x] # None => fault[x].page # page_alloc
<1>1. page_alloc \in Pages \ Used
  BY DEF HasMemory, page_alloc
<1>2. ASSUME NEW x \in Envs, NEW b \in Addrs, Mapped(x, b)
      PROVE  pt[x][b].page \in Used
  <2>1. <<x, b>> \in {y \in Envs \X Addrs : Mapped(y[1], y[2])}
    BY <1>2
  <2> QED
    BY <2>1 DEF Used
<1>3. ASSUME NEW x \in Envs, fault[x] # None
      PROVE  fault[x].page \in Used
  BY <1>3 DEF Used
<1> QED
  BY <1>1, <1>2, <1>3

LEMMA NextIsOne ==
  ASSUME NEW S \in SUBSET Addrs, NEW a, NEW b, IsNext(a, S), IsNext(b, S)
  PROVE  a = b
<1>1. a \in Int /\ b \in Int /\ a <= b /\ b <= a
  BY ForkAssumption DEF IsNext
<1> QED
  BY <1>1

LEMMA ForkParts ==
  ASSUME TypeOK, NEW e \in Envs, op[e] # None
  PROVE  /\ op[e] \in Forks /\ op[e].at \in Places
         /\ op[e].child \in Envs /\ op[e].todo \in SUBSET Addrs
         /\ status[e] = "ready" /\ status[op[e].child] = "forking" /\ op[e].child # e
<1>1. op[e] \in Forks /\ status[e] = "ready" /\ status[op[e].child] = "forking"
  BY DEF TypeOK
<1> QED
  BY <1>1 DEF Forks

\* The fork of e goes on: at another place, or with an address less to copy.
LEMMA OpMoves ==
  ASSUME TypeOK, NEW e \in Envs, op[e] # None, NEW r \in Forks,
         op' = [op EXCEPT ![e] = r]
  PROVE  /\ r # None /\ op' \in [Envs -> Forks \cup {None}]
         /\ \A x \in Envs : op'[x] = IF x = e THEN r ELSE op[x]
  BY ForkAssumption DEF TypeOK

LEMMA ForkAt ==
  ASSUME TypeOK, NEW e \in Envs, op[e] # None, NEW at \in Places,
         NEW r, r = [op[e] EXCEPT !.at = at]
  PROVE  r \in Forks /\ r.at = at /\ r.child = op[e].child /\ r.todo = op[e].todo
<1>1. op[e] \in Forks
  BY ForkParts
<1> QED
  BY <1>1 DEF Forks

LEMMA ForkLess ==
  ASSUME TypeOK, NEW e \in Envs, op[e] # None, NEW a,
         NEW r, r = [op[e] EXCEPT !.todo = op[e].todo \ {a}]
  PROVE  /\ r \in Forks /\ r.at = op[e].at /\ r.child = op[e].child
         /\ r.todo = op[e].todo \ {a}
<1>1. op[e] \in Forks /\ op[e].todo \ {a} \in SUBSET Addrs
  BY ForkParts
<1> QED
  BY <1>1 DEF Forks
-----------------------------------------------------------------------------
\* The entries at the start: each address has a page of its own.
LEMMA InitPage ==
  ASSUME Init
  PROVE  /\ \A a \in Addrs : \E p \in Pages, perm \in SUBSET Bits :
              /\ pt[Boot][a] = Entry(p, perm)
              /\ "SHARE" \in perm <=> a \in Shared
              /\ a \in Shared => "W" \in perm
         /\ \A a, b \in Addrs : pt[Boot][a].page = pt[Boot][b].page => a = b
         /\ pt \in [Envs -> [Addrs -> Entries \cup {None}]]
<1> USE ForkAssumption
<1> DEFINE Low(a) == {b \in Addrs : b <= a}
           perm(a) == CASE a \in Text -> {}
                        [] a \in Data -> {"W"}
                        [] a \in Shared -> {"W", "SHARE"}
<1>1. Addrs \subseteq Int
  OBVIOUS
<1>2. ASSUME NEW a \in Addrs
      PROVE  IsFiniteSet(Low(a)) /\ Cardinality(Low(a)) \in Pages
  <2>1. IsFiniteSet(Low(a)) /\ Cardinality(Low(a)) <= Cardinality(Addrs)
    BY FS_Subset
  <2>2. Cardinality(Low(a)) \in Nat /\ Cardinality(Addrs) \in Nat
    BY <2>1, FS_CardinalityType
  <2>3. a \in Low(a)
    BY <1>1
  <2>4. Cardinality(Low(a)) # 0
    BY <2>1, <2>3, FS_EmptySet
  <2> HIDE DEF Low
  <2> QED
    BY <2>1, <2>2, <2>4 DEF Pages
<1>3. ASSUME NEW a \in Addrs, NEW b \in Addrs, Cardinality(Low(a)) = Cardinality(Low(b))
      PROVE  a = b
  <2>1. ASSUME NEW x \in Addrs, NEW y \in Addrs, x <= y,
               Cardinality(Low(x)) = Cardinality(Low(y))
        PROVE  y <= x
    <3>1. Low(x) \subseteq Low(y)
      BY <1>1, <2>1
    <3>2. y \in Low(y)
      BY <1>1
    <3>3. IsFiniteSet(Low(y))
      BY <1>2
    <3>4. Low(x) = Low(y)
      <4> HIDE DEF Low
      <4> QED
        BY <2>1, <3>1, <3>3, FS_Subset
    <3> QED
      BY <3>2, <3>4
  <2>2. a <= b \/ b <= a
    BY <1>1
  <2>3. a <= b /\ b <= a
    <3> HIDE DEF Low
    <3> QED
      BY <1>3, <2>1, <2>2
  <2> QED
    BY <1>1, <2>3
<1>4. \A a \in Addrs : perm(a) \in SUBSET Bits
  BY DEF Addrs, Bits
<1>5. \A a \in Addrs : ("SHARE" \in perm(a) <=> a \in Shared) /\ (a \in Shared => "W" \in perm(a))
  BY DEF Addrs
<1>6. pt = [e \in Envs |-> [a \in Addrs |->
             IF e # Boot THEN None ELSE Entry(Cardinality(Low(a)), perm(a))]]
  BY DEF Init
<1> HIDE DEF Low, perm
<1>7. \A a \in Addrs : pt[Boot][a].page = Cardinality(Low(a))
  BY <1>2, <1>4, <1>6, EntryParts
<1>8. pt \in [Envs -> [Addrs -> Entries \cup {None}]]
  BY <1>2, <1>4, <1>6, EntryParts
<1> QED
  BY <1>2, <1>3, <1>4, <1>5, <1>6, <1>7, <1>8

LEMMA InitPrivate == Init => PrivateInv
<1> SUFFICES ASSUME Init PROVE PrivateInv
  OBVIOUS
<1> USE ForkAssumption
<1>1. /\ status = [e \in Envs |-> IF e = Boot THEN "ready" ELSE "unused"]
      /\ handler = {} /\ fault = [e \in Envs |-> None] /\ op = [e \in Envs |-> None]
      /\ partial = {}
      /\ mem \in [Pages -> Values]
      /\ \A e \in Envs, a \in Addrs : e # Boot => pt[e][a] = None
  BY DEF Init
<1>2. pt \in [Envs -> [Addrs -> Entries \cup {None}]]
  BY InitPage
<1>3. TypeOK
  BY <1>1, <1>2 DEF TypeOK
<1>4. Parties
  BY <1>1 DEF Parties
<1>5. FreshPages
  BY <1>1 DEF FreshPages
<1>6. WritableIsPrivate
  <2> SUFFICES ASSUME NEW e \in Envs, NEW x \in Envs, NEW a \in Addrs, NEW b \in Addrs,
                      Mapped(e, a), Mapped(x, b), pt[e][a].page = pt[x][b].page
               PROVE  <<e, a>> = <<x, b>>
    BY DEF WritableIsPrivate, Has
  <2>1. e = Boot /\ x = Boot
    BY <1>1 DEF Mapped
  <2> QED
    BY <2>1, InitPage
<1> QED
  BY <1>3, <1>4, <1>5, <1>6 DEF PrivateInv
-----------------------------------------------------------------------------
\* One step of any environment keeps writable pages private.

LEMMA DestroyPrivate ==
  ASSUME PrivateInv, NEW e \in Envs, env_destroy(e)
  PROVE  PrivateInv'
<1> USE DEF PrivateInv
<1>1. /\ status[e] = "ready" /\ mem' = mem /\ handler' \subseteq handler
      /\ partial' = partial
      /\ \A x \in Envs : status'[x] = IF x = e THEN "gone" ELSE status[x]
      /\ \A x \in Envs : fault'[x] = IF x = e THEN None ELSE fault[x]
      /\ \A x \in Envs : op'[x] = IF x = e THEN None ELSE op[x]
      /\ \A x \in Envs, b \in Addrs : pt'[x][b] = IF x = e THEN None ELSE pt[x][b]
  BY DEF env_destroy, Gone, TypeOK
<1>2. TypeOK'
  <2>1. /\ status' \in [Envs -> {"unused", "forking", "ready", "gone"}]
        /\ fault' \in [Envs -> PageFaults \cup {None}]
        /\ op' \in [Envs -> Forks \cup {None}]
    BY DEF env_destroy, Gone, TypeOK
  <2>2. pt' \in [Envs -> [Addrs -> Entries \cup {None}]]
    BY DEF env_destroy, Gone, TypeOK
  <2>3. mem' \in [Pages -> Values] /\ handler' \subseteq Envs /\ partial' \subseteq Envs
    BY <1>1 DEF TypeOK
  <2>4. \A x \in Envs : op'[x] # None =>
          status'[x] = "ready" /\ status'[op'[x].child] = "forking"
    BY <1>1, ForkParts
  <2> QED
    BY <2>1, <2>2, <2>3, <2>4 DEF TypeOK
<1>3. Parties'
  <2>1. \A x \in Envs : fault'[x] # None =>
       /\ status'[x] = "ready" /\ Mapped(x, fault[x].addr)' /\ ~Has(x, fault[x].addr, "W")'
       /\ op'[x] # None => fault'[x].addr = Stack
    <3> SUFFICES ASSUME NEW x \in Envs, fault'[x] # None
                 PROVE  /\ status'[x] = "ready" /\ Mapped(x, fault[x].addr)'
                        /\ ~Has(x, fault[x].addr, "W")'
                        /\ op'[x] # None => fault'[x].addr = Stack
      OBVIOUS
    <3>1. x # e /\ fault'[x] = fault[x] /\ fault[x].addr \in Addrs
      BY <1>1 DEF TypeOK, PageFaults
    <3> QED
      BY <1>1, <3>1 DEF Parties, Mapped, Has
  <2>2. \A x \in Envs : op'[x] # None => op'[x].todo \subseteq MappedIn(x)'
    BY <1>1 DEF Parties, MappedIn, Mapped
  <2> QED
    BY <1>1, <2>1, <2>2 DEF Parties
<1>4. FreshPages'
  BY <1>1 DEF FreshPages, Mapped
<1>5. WritableIsPrivate'
  BY <1>1 DEF WritableIsPrivate, Mapped, Has, HalfDone
<1> QED
  BY <1>2, <1>3, <1>4, <1>5

LEMMA FaultPrivate ==
  ASSUME PrivateInv, NEW e \in Envs, NEW a \in Addrs, pgfault(e, a)
  PROVE  PrivateInv'
<1> USE DEF PrivateInv
<1>1. /\ status[e] = "ready" /\ fault[e] = None /\ ~Has(e, a, "W") /\ Mapped(e, a)
      /\ op[e] # None => a = Stack
      /\ HasMemory /\ UNCHANGED <<status, pt, handler, op, partial>>
  BY DEF pgfault, Faults, Runs
<1>2. PICK p \in Pages : p = page_alloc
  BY <1>1, NewPage
<1>3. /\ \A x \in Envs, b \in Addrs : Mapped(x, b) => pt[x][b].page # p
      /\ \A x \in Envs : fault[x] # None => fault[x].page # p
  BY <1>1, <1>2, NewPage
<1>4. PICK r : r = [addr |-> a, page |-> p]
  OBVIOUS
<1>5. r \in PageFaults /\ r.addr = a /\ r.page = p
  BY <1>4 DEF PageFaults
<1>6. /\ fault' \in [Envs -> PageFaults \cup {None}]
      /\ \A x \in Envs : fault'[x] = IF x = e THEN r ELSE fault[x]
  BY <1>2, <1>4, <1>5 DEF pgfault, TypeOK
<1>7. mem' \in [Pages -> Values]
  <2>1. mem[pt[e][a].page] \in Values
    BY <1>1, MappedEntry DEF TypeOK
  <2> QED
    BY <1>2, <2>1 DEF pgfault, Copy, TypeOK
<1>8. TypeOK'
  BY <1>1, <1>6, <1>7 DEF TypeOK
<1>9. Parties'
  BY <1>1, <1>5, <1>6 DEF Parties, Mapped, Has, MappedIn
<1>10. FreshPages'
  BY <1>1, <1>3, <1>5, <1>6 DEF FreshPages, Mapped
<1>11. WritableIsPrivate'
  BY <1>1 DEF WritableIsPrivate, Mapped, Has, HalfDone
<1> QED
  BY <1>8, <1>9, <1>10, <1>11

LEMMA FaultMapPrivate ==
  ASSUME PrivateInv, NEW e \in Envs, pgfault_map(e)
  PROVE  PrivateInv'
<1> USE DEF PrivateInv
<1>1. /\ status[e] = "ready" /\ fault[e] # None
      /\ pt' = [pt EXCEPT ![e][fault[e].addr] = Entry(fault[e].page, {"W"})]
      /\ UNCHANGED <<status, mem, handler, op, partial>>
  BY DEF pgfault_map
<1>2. PICK a \in Addrs, p \in Pages : a = fault[e].addr /\ p = fault[e].page
  BY <1>1 DEF TypeOK, PageFaults
<1>3. PICK E : E = Entry(p, {"W"})
  OBVIOUS
<1>4. E \in Entries /\ E # None /\ E.page = p /\ E.perm = {"W"}
  BY <1>3, EntryParts DEF Bits
<1>5. /\ pt' \in [Envs -> [Addrs -> Entries \cup {None}]]
      /\ \A x \in Envs, b \in Addrs : pt'[x][b] = IF x = e /\ b = a THEN E ELSE pt[x][b]
  BY <1>1, <1>2, <1>3, <1>4, OneEntry
<1>6. /\ fault' \in [Envs -> PageFaults \cup {None}]
      /\ \A x \in Envs : fault'[x] = IF x = e THEN None ELSE fault[x]
  BY DEF pgfault_map, TypeOK
<1>7. TypeOK'
  BY <1>1, <1>5, <1>6 DEF TypeOK
<1>8. Parties'
  <2>1. \A x \in Envs : status'[x] \in {"unused", "gone"} => \A b \in Addrs : pt'[x][b] = None
    BY <1>1, <1>5 DEF Parties
  <2>2. ASSUME NEW x \in Envs, fault'[x] # None
        PROVE  /\ status'[x] = "ready" /\ Mapped(x, fault[x].addr)'
               /\ ~Has(x, fault[x].addr, "W")'
               /\ op'[x] # None => fault'[x].addr = Stack
    <3>1. x # e /\ fault'[x] = fault[x] /\ fault[x].addr \in Addrs
      BY <1>6, <2>2 DEF TypeOK, PageFaults
    <3>2. pt'[x][fault[x].addr] = pt[x][fault[x].addr]
      BY <1>5, <3>1
    <3> QED
      BY <1>1, <3>1, <3>2, <2>2 DEF Parties, Mapped, Has
  <2>3. \A x \in Envs : op'[x] # None => op'[x].todo \subseteq MappedIn(x)'
    BY <1>1, <1>4, <1>5 DEF Parties, MappedIn, Mapped
  <2> QED
    BY <1>1, <2>1, <2>2, <2>3 DEF Parties
<1>9. FreshPages'
  BY <1>1, <1>2, <1>4, <1>5, <1>6 DEF FreshPages, Mapped
<1>10. WritableIsPrivate'
  <2>1. \A x \in Envs, b \in Addrs : Mapped(x, b) => pt[x][b].page # p
    BY <1>1, <1>2 DEF FreshPages
  <2> SUFFICES ASSUME NEW f \in Envs, NEW x \in Envs, NEW c \in Addrs, NEW b \in Addrs,
                      Has(f, c, "W")', ~Has(f, c, "SHARE")', <<f, c>> # <<x, b>>,
                      Mapped(x, b)', pt'[f][c].page = pt'[x][b].page
               PROVE  (HalfDone(f, c) /\ x = op[f].child /\ b = c)'
    BY DEF WritableIsPrivate
  <2>2. <<f, c>> # <<e, a>> /\ <<x, b>> # <<e, a>>
    BY <1>4, <1>5, <2>1 DEF Mapped, Has
  <2>3. pt'[f][c] = pt[f][c] /\ pt'[x][b] = pt[x][b]
    BY <1>5, <2>2
  <2>4. HalfDone(f, c) /\ x = op[f].child /\ b = c
    BY <2>3 DEF WritableIsPrivate, Mapped, Has
  <2> QED
    BY <1>1, <2>4 DEF HalfDone
<1> QED
  BY <1>7, <1>8, <1>9, <1>10

LEMMA WritePrivate ==
  ASSUME PrivateInv, NEW e \in Envs, NEW a \in Addrs, NEW v \in Values, write(e, a, v)
  PROVE  PrivateInv'
<1> USE DEF PrivateInv
<1>1. UNCHANGED <<status, pt, handler, fault, op, partial>> /\ mem' \in [Pages -> Values]
  BY DEF write, TypeOK
<1>2. TypeOK'
  BY <1>1 DEF TypeOK
<1>3. Parties' /\ FreshPages'
  BY <1>1 DEF Parties, FreshPages, Mapped, Has, MappedIn
<1>4. WritableIsPrivate'
  BY <1>1 DEF WritableIsPrivate, Mapped, Has, HalfDone
<1> QED
  BY <1>2, <1>3, <1>4

LEMMA ForkPrivate ==
  ASSUME PrivateInv, NEW e \in Envs, NEW c \in Envs, fork(e, c)
  PROVE  PrivateInv'
<1> USE DEF PrivateInv
<1>1. /\ status[e] = "ready" /\ fault[e] = None /\ op[e] = None /\ status[c] = "unused"
      /\ handler' \subseteq handler \cup {e} /\ partial' \subseteq partial \cup {c}
      /\ UNCHANGED <<pt, mem, fault>>
  BY DEF fork, Runs
<1>2. PICK S \in SUBSET MappedIn(e) :
        op' = [op EXCEPT ![e] = [at |-> "child", child |-> c, todo |-> S]]
  <2>1. ToCopy(e) \in SUBSET MappedIn(e)
    BY DEF ToCopy
  <2> QED
    BY <2>1 DEF fork
<1>3. PICK r : r = [at |-> "child", child |-> c, todo |-> S]
  OBVIOUS
<1>4. r \in Forks /\ r # None /\ r.at = "child" /\ r.child = c /\ r.todo = S
  BY <1>2, <1>3, ForkAssumption DEF Forks, Places, MappedIn
<1>5. /\ op' \in [Envs -> Forks \cup {None}]
      /\ \A x \in Envs : op'[x] = IF x = e THEN r ELSE op[x]
  BY <1>2, <1>3, <1>4 DEF TypeOK
<1>6. /\ status' \in [Envs -> {"unused", "forking", "ready", "gone"}]
      /\ \A x \in Envs : status'[x] = IF x = c THEN "forking" ELSE status[x]
  BY DEF fork, TypeOK
<1>7. c # e /\ \A x \in Envs : op[x] # None => op[x].child # c /\ x # c
  BY <1>1, ForkParts
<1>8. TypeOK'
  <2>1. \A x \in Envs : op'[x] # None =>
          status'[x] = "ready" /\ status'[op'[x].child] = "forking"
    BY <1>1, <1>4, <1>5, <1>6, <1>7, ForkParts
  <2> QED
    BY <1>1, <1>5, <1>6, <2>1 DEF TypeOK
<1>9. Parties'
  <2>1. \A x \in Envs : status'[x] \in {"unused", "gone"} => \A b \in Addrs : pt'[x][b] = None
    BY <1>1, <1>6 DEF Parties
  <2>2. ASSUME NEW x \in Envs, fault'[x] # None
        PROVE  /\ status'[x] = "ready" /\ Mapped(x, fault[x].addr)'
               /\ ~Has(x, fault[x].addr, "W")'
               /\ op'[x] # None => fault'[x].addr = Stack
    BY <1>1, <1>5, <1>6, <2>2 DEF Parties, Mapped, Has
  <2>3. S \subseteq MappedIn(e)
    BY <1>2
  <2>4. \A x \in Envs : op'[x] # None => op'[x].todo \subseteq MappedIn(x)'
    BY <1>1, <1>4, <1>5, <2>3 DEF Parties, MappedIn, Mapped
  <2>5. \A x, f \in Envs :
          op'[x] # None /\ op'[f] # None /\ op'[x].child = op'[f].child => x = f
    BY <1>4, <1>5, <1>7 DEF Parties
  <2> QED
    BY <2>1, <2>2, <2>4, <2>5 DEF Parties
<1>10. FreshPages'
  BY <1>1 DEF FreshPages, Mapped
<1>11. WritableIsPrivate'
  BY <1>1, <1>5 DEF WritableIsPrivate, Mapped, Has, HalfDone
<1> QED
  BY <1>8, <1>9, <1>10, <1>11

LEMMA StartPrivate ==
  ASSUME PrivateInv, NEW e \in Envs, fork_start(e)
  PROVE  PrivateInv'
<1> USE DEF PrivateInv
<1>1. /\ op[e] # None /\ op[e].at = "start" /\ fault[e] = None
      /\ UNCHANGED <<pt, mem, handler, fault, partial>>
  BY DEF fork_start, InFork, Runs
<1>2. PICK c \in Envs : c = op[e].child
  BY <1>1, ForkParts
<1>3. status[c] = "forking" /\ c # e /\ status[e] = "ready"
  BY <1>1, <1>2, ForkParts
<1>4. /\ op' \in [Envs -> Forks \cup {None}]
      /\ \A x \in Envs : op'[x] = IF x = e THEN None ELSE op[x]
      /\ status' \in [Envs -> {"unused", "forking", "ready", "gone"}]
      /\ \A x \in Envs : status'[x] = IF x = c THEN "ready" ELSE status[x]
  BY <1>2 DEF fork_start, TypeOK
<1>5. \A x \in Envs : op[x] # None /\ x # e => op[x].child # c
  BY <1>1, <1>2 DEF Parties
<1>6. TypeOK'
  <2>1. \A x \in Envs : op'[x] # None =>
          status'[x] = "ready" /\ status'[op'[x].child] = "forking"
    BY <1>3, <1>4, <1>5, ForkParts
  <2> QED
    BY <1>1, <1>4, <2>1 DEF TypeOK
<1>7. Parties'
  BY <1>1, <1>3, <1>4 DEF Parties, MappedIn, Mapped, Has
<1>8. FreshPages'
  BY <1>1 DEF FreshPages, Mapped
<1>9. WritableIsPrivate'
  BY <1>1, <1>4 DEF WritableIsPrivate, Mapped, Has, HalfDone
<1> QED
  BY <1>6, <1>7, <1>8, <1>9

\* What duppage does, taken apart.
DuppageEffect(e, a, c, E, r) ==
  /\ op[e] # None /\ op[e].at = "child" /\ IsNext(a, op[e].todo)
  /\ c = op[e].child /\ c # e /\ status[c] = "forking" /\ status[e] = "ready"
  /\ fault[e] = None /\ Mapped(e, a)
  /\ E # None /\ E.page = pt[e][a].page
  /\ E.perm = IF IsPrivate(pt[e][a].perm) THEN CowPerm(pt[e][a].perm)
              ELSE pt[e][a].perm
  /\ pt' \in [Envs -> [Addrs -> Entries \cup {None}]]
  /\ \A x \in Envs, b \in Addrs :
       pt'[x][b] = IF x = c /\ b = a THEN E ELSE pt[x][b]
  /\ r # None /\ r.child = c
  /\ IF IsPrivate(pt[e][a].perm) THEN r.at = "own" /\ r.todo = op[e].todo
     ELSE r.at = "child" /\ r.todo = op[e].todo \ {a}
  /\ op' \in [Envs -> Forks \cup {None}]
  /\ \A x \in Envs : op'[x] = IF x = e THEN r ELSE op[x]
  /\ UNCHANGED <<status, mem, handler, fault, partial>>

LEMMA DuppageStep ==
  ASSUME PrivateInv, NEW e \in Envs, duppage(e)
  PROVE  \E a \in Addrs, c \in Envs, E \in Entries, r \in Forks :
           DuppageEffect(e, a, c, E, r)
<1> USE DEF PrivateInv
<1>1. /\ op[e] # None /\ op[e].at = "child" /\ fault[e] = None
      /\ UNCHANGED <<status, mem, handler, fault, partial>>
  BY DEF duppage, InFork, Runs
<1>2. PICK a \in Addrs : 
        LET m == pt[e][a] IN
        /\ IsNext(a, op[e].todo)
        /\ pt' = [pt EXCEPT ![op[e].child][a] =
                 Entry(m.page, IF IsPrivate(m.perm) THEN CowPerm(m.perm) ELSE m.perm)]
        /\ op' = IF IsPrivate(m.perm) THEN [op EXCEPT ![e].at = "own"]
                                   ELSE [op EXCEPT ![e].todo = @ \ {a}]
  BY DEF duppage
<1>3. Mapped(e, a)
  BY <1>1, <1>2 DEF IsNext, Parties, MappedIn
<1>4. PICK c \in Envs : c = op[e].child
  BY <1>1, ForkParts
<1>5. c # e /\ status[c] = "forking" /\ status[e] = "ready"
  BY <1>1, <1>4, ForkParts
<1>6. PICK perm : perm = IF IsPrivate(pt[e][a].perm) THEN CowPerm(pt[e][a].perm)
                         ELSE pt[e][a].perm
  OBVIOUS
<1>7. pt[e][a].page \in Pages /\ perm \in SUBSET Bits
  BY <1>3, <1>6, MappedEntry DEF CowPerm, Bits
<1>8. PICK E : E = Entry(pt[e][a].page, perm)
  OBVIOUS
<1>9. E \in Entries /\ E # None /\ E.page = pt[e][a].page /\ E.perm = perm
  BY <1>7, <1>8, EntryParts
<1>10. /\ pt' \in [Envs -> [Addrs -> Entries \cup {None}]]
       /\ \A x \in Envs, b \in Addrs : pt'[x][b] = IF x = c /\ b = a THEN E ELSE pt[x][b]
  <2>1. pt' = [pt EXCEPT ![c][a] = E]
    BY <1>2, <1>4, <1>6, <1>8
  <2> QED
    BY <1>9, <2>1, OneEntry, ZenonT(40)
<1>11. PICK r : r = IF IsPrivate(pt[e][a].perm) THEN [op[e] EXCEPT !.at = "own"]
                    ELSE [op[e] EXCEPT !.todo = @ \ {a}]
  OBVIOUS
<1>12. /\ r \in Forks /\ r.child = c
       /\ IF IsPrivate(pt[e][a].perm) THEN r.at = "own" /\ r.todo = op[e].todo
          ELSE r.at = "child" /\ r.todo = op[e].todo \ {a}
  <2>1. CASE IsPrivate(pt[e][a].perm)
    BY <1>1, <1>4, <1>11, <2>1, ForkAt DEF Places
  <2>2. CASE ~IsPrivate(pt[e][a].perm)
    BY <1>1, <1>4, <1>11, <2>2, ForkLess
  <2> QED
    BY <2>1, <2>2
<1>13. op' = [op EXCEPT ![e] = r]
  BY <1>2, <1>11
<1>14. /\ r # None /\ op' \in [Envs -> Forks \cup {None}]
       /\ \A x \in Envs : op'[x] = IF x = e THEN r ELSE op[x]
  BY <1>1, <1>12, <1>13, OpMoves
<1>15. DuppageEffect(e, a, c, E, r)
  BY <1>1, <1>2, <1>3, <1>4, <1>5, <1>6, <1>9, <1>10, <1>12, <1>14 DEF DuppageEffect
<1> QED
  BY <1>9, <1>12, <1>15

LEMMA DuppagePrivate ==
  ASSUME PrivateInv, NEW e \in Envs, duppage(e)
  PROVE  PrivateInv'
<1> USE DEF PrivateInv
<1>1. PICK a \in Addrs, c \in Envs, E \in Entries, r \in Forks :
         DuppageEffect(e, a, c, E, r)
  BY DuppageStep
<1>2. TypeOK'
  <2>1. \A x \in Envs : op'[x] # None =>
          status'[x] = "ready" /\ status'[op'[x].child] = "forking"
    BY <1>1, ForkParts DEF DuppageEffect
  <2> QED
    BY <1>1, <2>1 DEF TypeOK, DuppageEffect
<1>3. Parties'
  <2>1. \A x \in Envs : status'[x] \in {"unused", "gone"} => \A b \in Addrs : pt'[x][b] = None
    BY <1>1 DEF Parties, DuppageEffect
  <2>2. ASSUME NEW x \in Envs, fault'[x] # None
        PROVE  /\ status'[x] = "ready" /\ Mapped(x, fault[x].addr)'
               /\ ~Has(x, fault[x].addr, "W")'
               /\ op'[x] # None => fault'[x].addr = Stack
    <3>1. /\ fault'[x] = fault[x] /\ fault[x].addr \in Addrs /\ x # e /\ x # c
          /\ op'[x] = op[x] /\ status[x] = "ready"
      BY <1>1, <2>2 DEF TypeOK, PageFaults, Parties, DuppageEffect
    <3>2. pt'[x][fault[x].addr] = pt[x][fault[x].addr]
      BY <1>1, <3>1 DEF DuppageEffect
    <3> QED
      BY <1>1, <3>1, <3>2, <2>2 DEF Parties, Mapped, Has, DuppageEffect
  <2>3. \A x \in Envs, b \in Addrs : Mapped(x, b) => Mapped(x, b)'
    BY <1>1 DEF Mapped, DuppageEffect
  <2>4. \A x \in Envs : op'[x] # None => op'[x].todo \subseteq MappedIn(x)'
    BY <1>1, <2>3 DEF Parties, MappedIn, DuppageEffect
  <2>5. \A x, f \in Envs :
          op'[x] # None /\ op'[f] # None /\ op'[x].child = op'[f].child => x = f
    BY <1>1 DEF Parties, DuppageEffect
  <2> QED
    BY <2>1, <2>2, <2>4, <2>5 DEF Parties
<1>4. FreshPages'
  <2>1. Mapped(e, a) /\ E.page = pt[e][a].page /\ fault' = fault
    BY <1>1 DEF DuppageEffect
  <2>2. \A x \in Envs, b \in Addrs :
          pt'[x][b] = E \/ pt'[x][b] = pt[x][b]
    BY <1>1 DEF DuppageEffect
  <2> QED
    BY <2>1, <2>2 DEF FreshPages, Mapped
<1>5. WritableIsPrivate'
  <2> SUFFICES ASSUME NEW f \in Envs, NEW x \in Envs, NEW d \in Addrs, NEW b \in Addrs,
                      Has(f, d, "W")', ~Has(f, d, "SHARE")', <<f, d>> # <<x, b>>,
                      Mapped(x, b)', pt'[f][d].page = pt'[x][b].page
               PROVE  (HalfDone(f, d) /\ x = op[f].child /\ b = d)'
    BY DEF WritableIsPrivate
  <2>1. \A y \in Envs, h \in Addrs : HalfDone(y, h) => HalfDone(y, h)' /\ op'[y] = op[y] /\ y # e
    BY <1>1 DEF HalfDone, DuppageEffect
  <2>2. ASSUME <<f, d>> # <<c, a>>, <<x, b>> # <<c, a>>
        PROVE  (HalfDone(f, d) /\ x = op[f].child /\ b = d)'
    <3>1. pt'[f][d] = pt[f][d] /\ pt'[x][b] = pt[x][b]
      BY <1>1, <2>2 DEF DuppageEffect
    <3>2. HalfDone(f, d) /\ x = op[f].child /\ b = d
      BY <3>1 DEF WritableIsPrivate, Mapped, Has
    <3> QED
      BY <2>1, <3>2
  \* The child's new entry is not writable, unless it is to be shared.
  <2>3. <<f, d>> # <<c, a>>
    <3>1. ~("W" \in E.perm /\ "SHARE" \notin E.perm)
      BY <1>1 DEF IsPrivate, CowPerm, DuppageEffect
    <3> QED
      BY <1>1, <3>1 DEF Has, Mapped, DuppageEffect
  <2>4. ASSUME <<x, b>> = <<c, a>>
        PROVE  (HalfDone(f, d) /\ x = op[f].child /\ b = d)'
    <3>1. /\ Has(f, d, "W") /\ ~Has(f, d, "SHARE") /\ pt[f][d].page = pt[e][a].page
          /\ pt'[f][d] = pt[f][d]
      BY <1>1, <2>3, <2>4 DEF Has, Mapped, DuppageEffect
    <3>2. <<f, d>> = <<e, a>>
      <4>1. ASSUME <<f, d>> # <<e, a>> PROVE FALSE
        <5>1. HalfDone(f, d) /\ e = op[f].child
          BY <1>1, <3>1, <4>1 DEF WritableIsPrivate, DuppageEffect
        <5> QED
          BY <1>1, <5>1, ForkParts DEF HalfDone, DuppageEffect
      <4> QED
        BY <4>1
    <3>3. IsPrivate(pt[e][a].perm)
      BY <3>1, <3>2 DEF IsPrivate, Has
    <3>4. r.at = "own" /\ r.todo = op[e].todo /\ r.child = c
      BY <1>1, <3>3 DEF DuppageEffect
    <3> QED
      BY <1>1, <2>4, <3>2, <3>4 DEF HalfDone, DuppageEffect
  <2> QED
    BY <2>2, <2>3, <2>4
<1> QED
  BY <1>2, <1>3, <1>4, <1>5

\* What duppage_own does, taken apart.
OwnEffect(e, a, E, r) ==
  /\ op[e] # None /\ op[e].at = "own" /\ HalfDone(e, a)
  /\ status[e] = "ready" /\ fault[e] = None /\ Mapped(e, a)
  /\ E # None /\ E.page = pt[e][a].page /\ E.perm = CowPerm(pt[e][a].perm)
  /\ pt' \in [Envs -> [Addrs -> Entries \cup {None}]]
  /\ \A x \in Envs, b \in Addrs :
       pt'[x][b] = IF x = e /\ b = a THEN E ELSE pt[x][b]
  /\ r # None /\ r.child = op[e].child
  /\ r.at = "child" /\ r.todo = op[e].todo \ {a}
  /\ op' \in [Envs -> Forks \cup {None}]
  /\ \A x \in Envs : op'[x] = IF x = e THEN r ELSE op[x]
  /\ UNCHANGED <<status, mem, handler, fault, partial>>

LEMMA DuppageOwnStep ==
  ASSUME PrivateInv, NEW e \in Envs, duppage_own(e)
  PROVE  \E a \in Addrs, E \in Entries, r \in Forks :
           OwnEffect(e, a, E, r)
<1> USE DEF PrivateInv
<1>1. /\ op[e] # None /\ op[e].at = "own" /\ fault[e] = None
      /\ UNCHANGED <<status, mem, handler, fault, partial>>
  BY DEF duppage_own, InFork, Runs
<1>2. PICK a \in Addrs :
        /\ IsNext(a, op[e].todo)
        /\ pt' = [pt EXCEPT ![e][a] = Entry(@.page, CowPerm(@.perm))]
        /\ op' = [op EXCEPT ![e] = [at |-> "child", child |-> @.child, todo |-> @.todo \ {a}]]
  BY DEF duppage_own
<1>3. Mapped(e, a)
  BY <1>1, <1>2 DEF IsNext, Parties, MappedIn
<1>4. pt[e][a].page \in Pages /\ CowPerm(pt[e][a].perm) \in SUBSET Bits
  BY <1>3, MappedEntry DEF CowPerm, Bits
<1>5. PICK E : E = Entry(pt[e][a].page, CowPerm(pt[e][a].perm))
  OBVIOUS
<1>6. /\ E \in Entries /\ E # None /\ E.page = pt[e][a].page
      /\ E.perm = CowPerm(pt[e][a].perm)
  BY <1>4, <1>5, EntryParts
<1>7. /\ pt' \in [Envs -> [Addrs -> Entries \cup {None}]]
      /\ \A x \in Envs, b \in Addrs : pt'[x][b] = IF x = e /\ b = a THEN E ELSE pt[x][b]
  <2>1. pt' = [pt EXCEPT ![e][a] = E]
    BY <1>2, <1>5
  <2> QED
    BY <1>6, <2>1, OneEntry, ZenonT(40)
<1>f. op[e] \in Forks
  BY <1>1, ForkParts
<1>8. PICK r : r = [at |-> "child", child |-> op[e].child, todo |-> op[e].todo \ {a}]
  OBVIOUS
<1>9. /\ r \in Forks /\ r.child = op[e].child
      /\ r.at = "child" /\ r.todo = op[e].todo \ {a}
  BY <1>8, <1>f DEF Forks, Places
<1>10. op' = [op EXCEPT ![e] = r]
  BY <1>2, <1>8
<1>11. /\ r # None /\ op' \in [Envs -> Forks \cup {None}]
       /\ \A x \in Envs : op'[x] = IF x = e THEN r ELSE op[x]
  BY <1>1, <1>9, <1>10, OpMoves
<1>12. HalfDone(e, a) /\ status[e] = "ready"
  BY <1>1, <1>2, ForkParts DEF HalfDone
<1>13. OwnEffect(e, a, E, r)
  BY <1>1, <1>3, <1>6, <1>7, <1>9, <1>11, <1>12 DEF OwnEffect
<1> QED
  BY <1>6, <1>9, <1>13

LEMMA DuppageOwnPrivate ==
  ASSUME PrivateInv, NEW e \in Envs, duppage_own(e)
  PROVE  PrivateInv'
<1> USE DEF PrivateInv
<1>1. PICK a \in Addrs, E \in Entries, r \in Forks :
         OwnEffect(e, a, E, r)
  BY DuppageOwnStep
<1>2. TypeOK'
  <2>1. \A x \in Envs : op'[x] # None =>
          status'[x] = "ready" /\ status'[op'[x].child] = "forking"
    BY <1>1, ForkParts DEF OwnEffect
  <2> QED
    BY <1>1, <2>1 DEF TypeOK, OwnEffect
<1>3. Parties'
  <2>1. \A x \in Envs : status'[x] \in {"unused", "gone"} => \A b \in Addrs : pt'[x][b] = None
    BY <1>1 DEF Parties, OwnEffect
  <2>2. ASSUME NEW x \in Envs, fault'[x] # None
        PROVE  /\ status'[x] = "ready" /\ Mapped(x, fault[x].addr)'
               /\ ~Has(x, fault[x].addr, "W")'
               /\ op'[x] # None => fault'[x].addr = Stack
    <3>1. /\ fault'[x] = fault[x] /\ fault[x].addr \in Addrs /\ x # e
          /\ op'[x] = op[x] /\ status[x] = "ready"
      BY <1>1, <2>2 DEF TypeOK, PageFaults, Parties, OwnEffect
    <3>2. pt'[x][fault[x].addr] = pt[x][fault[x].addr]
      BY <1>1, <3>1 DEF OwnEffect
    <3> QED
      BY <1>1, <3>1, <3>2, <2>2 DEF Parties, Mapped, Has, OwnEffect
  <2>3. \A x \in Envs, b \in Addrs : Mapped(x, b) => Mapped(x, b)'
    BY <1>1 DEF Mapped, OwnEffect
  <2>4. \A x \in Envs : op'[x] # None => op'[x].todo \subseteq MappedIn(x)'
    BY <1>1, <2>3 DEF Parties, MappedIn, OwnEffect
  <2>5. \A x, f \in Envs :
          op'[x] # None /\ op'[f] # None /\ op'[x].child = op'[f].child => x = f
    BY <1>1 DEF Parties, OwnEffect
  <2> QED
    BY <2>1, <2>2, <2>4, <2>5 DEF Parties
<1>4. FreshPages'
  <2>1. Mapped(e, a) /\ E.page = pt[e][a].page /\ fault' = fault
    BY <1>1 DEF OwnEffect
  <2>2. \A x \in Envs, b \in Addrs :
          pt'[x][b] = E \/ pt'[x][b] = pt[x][b]
    BY <1>1 DEF OwnEffect
  <2> QED
    BY <2>1, <2>2 DEF FreshPages, Mapped
<1>5. WritableIsPrivate'
  <2> SUFFICES ASSUME NEW f \in Envs, NEW x \in Envs, NEW d \in Addrs, NEW b \in Addrs,
                      Has(f, d, "W")', ~Has(f, d, "SHARE")', <<f, d>> # <<x, b>>,
                      Mapped(x, b)', pt'[f][d].page = pt'[x][b].page
               PROVE  (HalfDone(f, d) /\ x = op[f].child /\ b = d)'
    BY DEF WritableIsPrivate
  <2>1. <<f, d>> # <<e, a>>
    BY <1>1 DEF Has, Mapped, CowPerm, OwnEffect
  <2>2. pt'[f][d] = pt[f][d] /\ Mapped(x, b) /\ pt'[x][b].page = pt[x][b].page
    BY <1>1, <2>1 DEF Mapped, OwnEffect
  <2>3. HalfDone(f, d) /\ x = op[f].child /\ b = d
    BY <2>2 DEF WritableIsPrivate, Has, Mapped
  <2>4. f # e
    <3>1. ASSUME f = e PROVE FALSE
      <4>1. IsNext(d, op[e].todo) /\ IsNext(a, op[e].todo) /\ op[e].todo \in SUBSET Addrs
        BY <1>1, <2>3, <3>1, ForkParts DEF HalfDone, OwnEffect
      <4>2. d = a
        BY <4>1, NextIsOne
      <4> QED
        BY <2>1, <3>1, <4>2
    <3> QED
      BY <3>1
  <2> QED
    BY <1>1, <2>3, <2>4 DEF HalfDone, OwnEffect
<1> QED
  BY <1>2, <1>3, <1>4, <1>5

\* A step of fork to another place
LEMMA PlaceStep ==
  ASSUME PrivateInv, NEW e \in Envs, op[e] # None, NEW at \in Places,
         op' = [op EXCEPT ![e].at = at]
  PROVE  \E r \in Forks :
           /\ op' = [op EXCEPT ![e] = r]
           /\ r.at = at /\ r.child = op[e].child /\ r.todo = op[e].todo
<1>1. PICK r : r = [op[e] EXCEPT !.at = at]
  OBVIOUS
<1>2. r \in Forks /\ r.at = at /\ r.child = op[e].child /\ r.todo = op[e].todo
  BY <1>1, ForkAt DEF PrivateInv
<1>3. op' = [op EXCEPT ![e] = r]
  BY <1>1
<1> QED
  BY <1>2, <1>3

\* A new page for the child's stack: by fork_stack, or by fork_stuck where there
\* was a page for it and none for the copy.
NewStack(e) ==
  /\ InFork(e, "stack") /\ HasMemory
  /\ pt' = [pt EXCEPT ![op[e].child][Stack] = Entry(page_alloc, {"W"})]
  /\ fork_stack(e) \/ fork_stuck(e)

\* What it does, taken apart.
StackEffect(e, c, p, E, r) ==
  /\ op[e] # None /\ op[e].at = "stack"
  /\ c = op[e].child /\ c # e /\ status[c] = "forking" /\ status[e] = "ready"
  /\ fault[e] = None /\ Mapped(e, Stack)
  /\ \A x \in Envs, b \in Addrs : Mapped(x, b) => pt[x][b].page # p
  /\ \A x \in Envs : fault[x] # None => fault[x].page # p
  /\ E # None /\ E.page = p /\ E.perm = {"W"}
  /\ pt' \in [Envs -> [Addrs -> Entries \cup {None}]]
  /\ \A x \in Envs, b \in Addrs :
       pt'[x][b] = IF x = c /\ b = Stack THEN E ELSE pt[x][b]
  /\ mem' \in [Pages -> Values]
  /\ \A q \in Pages : q # p => mem'[q] = mem[q]
  /\ r # None /\ r.child = c /\ r.todo = op[e].todo /\ r.at \in {"start", "stuck"}
  /\ r.at = "start" => mem'[p] = mem[pt[e][Stack].page]
  /\ op' \in [Envs -> Forks \cup {None}]
  /\ \A x \in Envs : op'[x] = IF x = e THEN r ELSE op[x]
  /\ UNCHANGED <<status, handler, fault, partial>>

LEMMA StackStep ==
  ASSUME PrivateInv, NEW e \in Envs, NewStack(e)
  PROVE  \E c \in Envs, p \in Pages, E \in Entries, r \in Forks :
           StackEffect(e, c, p, E, r)
<1> USE DEF PrivateInv
<1>0. Stack \in Addrs
  BY ForkAssumption DEF Addrs
<1>1. /\ op[e] # None /\ op[e].at = "stack" /\ fault[e] = None
      /\ Mapped(e, Stack) /\ HasMemory /\ UNCHANGED <<status, handler, fault, partial>>
  BY DEF NewStack, fork_stack, fork_stuck, InFork, Runs, Has
<1>2. PICK c \in Envs : c = op[e].child
  BY <1>1, ForkParts
<1>3. c # e /\ status[c] = "forking" /\ status[e] = "ready"
  BY <1>1, <1>2, ForkParts
<1>4. PICK p \in Pages : p = page_alloc
  BY <1>1, NewPage
<1>5. /\ \A x \in Envs, b \in Addrs : Mapped(x, b) => pt[x][b].page # p
      /\ \A x \in Envs : fault[x] # None => fault[x].page # p
  BY <1>1, <1>4, NewPage
<1>6. PICK E : E = Entry(p, {"W"})
  OBVIOUS
<1>7. E \in Entries /\ E # None /\ E.page = p /\ E.perm = {"W"}
  BY <1>6, EntryParts DEF Bits
<1>8. /\ pt' \in [Envs -> [Addrs -> Entries \cup {None}]]
      /\ \A x \in Envs, b \in Addrs :
           pt'[x][b] = IF x = c /\ b = Stack THEN E ELSE pt[x][b]
  <2>1. pt' = [pt EXCEPT ![c][Stack] = E]
    BY <1>2, <1>4, <1>6 DEF NewStack
  <2> QED
    BY <1>0, <1>7, <2>1, OneEntry, ZenonT(40)
<1>9. PICK at \in {"start", "stuck"} :
        /\ op' = [op EXCEPT ![e].at = at]
        /\ at = "start" => mem' = [mem EXCEPT ![p] = mem[pt[e][Stack].page]]
        /\ at = "stuck" => mem' = mem
  <2>1. CASE fork_stack(e)
    BY <1>4, <2>1 DEF fork_stack, Copy
  <2>2. CASE fork_stuck(e)
    BY <2>2 DEF fork_stuck
  <2> QED
    BY <2>1, <2>2 DEF NewStack
<1>10. /\ mem' \in [Pages -> Values]
       /\ \A q \in Pages : q # p => mem'[q] = mem[q]
       /\ at = "start" => mem'[p] = mem[pt[e][Stack].page]
  <2>1. mem[pt[e][Stack].page] \in Values /\ mem \in [Pages -> Values]
    BY <1>0, <1>1, MappedEntry DEF TypeOK
  <2> QED
    BY <1>9, <2>1
<1>11. PICK r \in Forks :
         /\ op' = [op EXCEPT ![e] = r]
         /\ r.at = at /\ r.child = op[e].child /\ r.todo = op[e].todo
  <2>1. at \in Places
    BY DEF Places
  <2>2. op' = [op EXCEPT ![e].at = at]
    BY <1>9
  <2> QED
    BY <1>1, <2>1, <2>2, PlaceStep, Zenon DEF PrivateInv
<1>12. /\ r # None /\ op' \in [Envs -> Forks \cup {None}]
       /\ \A x \in Envs : op'[x] = IF x = e THEN r ELSE op[x]
  BY <1>1, <1>11, OpMoves
<1>13. r.child = c /\ r.todo = op[e].todo /\ r.at = at
  BY <1>2, <1>11
<1>14. StackEffect(e, c, p, E, r)
  BY <1>1, <1>2, <1>3, <1>5, <1>7, <1>8, <1>9, <1>10, <1>12, <1>13 DEF StackEffect
<1> QED
  BY <1>7, <1>14

LEMMA StackPrivate ==
  ASSUME PrivateInv, NEW e \in Envs, NewStack(e)
  PROVE  PrivateInv'
<1> USE DEF PrivateInv
<1>0. Stack \in Addrs
  BY ForkAssumption DEF Addrs
<1>1. PICK c \in Envs, p \in Pages, E \in Entries, r \in Forks :
         StackEffect(e, c, p, E, r)
  BY StackStep
<1>2. TypeOK'
  <2>1. \A x \in Envs : op'[x] # None =>
          status'[x] = "ready" /\ status'[op'[x].child] = "forking"
    BY <1>1, ForkParts DEF StackEffect
  <2> QED
    BY <1>1, <2>1 DEF TypeOK, StackEffect
<1>3. Parties'
  <2>1. \A x \in Envs : status'[x] \in {"unused", "gone"} => \A b \in Addrs : pt'[x][b] = None
    BY <1>1 DEF Parties, StackEffect
  <2>2. ASSUME NEW x \in Envs, fault'[x] # None
        PROVE  /\ status'[x] = "ready" /\ Mapped(x, fault[x].addr)'
               /\ ~Has(x, fault[x].addr, "W")'
               /\ op'[x] # None => fault'[x].addr = Stack
    <3>1. /\ fault'[x] = fault[x] /\ fault[x].addr \in Addrs /\ x # e /\ x # c
          /\ op'[x] = op[x] /\ status[x] = "ready"
      BY <1>1, <2>2 DEF TypeOK, PageFaults, Parties, StackEffect
    <3>2. pt'[x][fault[x].addr] = pt[x][fault[x].addr]
      BY <1>1, <3>1 DEF StackEffect
    <3> QED
      BY <1>1, <3>1, <3>2, <2>2 DEF Parties, Mapped, Has, StackEffect
  <2>3. \A x \in Envs, b \in Addrs : Mapped(x, b) => Mapped(x, b)'
    BY <1>1 DEF Mapped, StackEffect
  <2>4. \A x \in Envs : op'[x] # None => op'[x].todo \subseteq MappedIn(x)'
    BY <1>1, <2>3 DEF Parties, MappedIn, StackEffect
  <2>5. \A x, f \in Envs :
          op'[x] # None /\ op'[f] # None /\ op'[x].child = op'[f].child => x = f
    BY <1>1 DEF Parties, StackEffect
  <2> QED
    BY <2>1, <2>2, <2>4, <2>5 DEF Parties
<1>4. FreshPages'
  BY <1>1 DEF FreshPages, Mapped, StackEffect
<1>5. WritableIsPrivate'
  <2> SUFFICES ASSUME NEW f \in Envs, NEW x \in Envs, NEW d \in Addrs, NEW b \in Addrs,
                      Has(f, d, "W")', ~Has(f, d, "SHARE")', <<f, d>> # <<x, b>>,
                      Mapped(x, b)', pt'[f][d].page = pt'[x][b].page
               PROVE  (HalfDone(f, d) /\ x = op[f].child /\ b = d)'
    BY DEF WritableIsPrivate
  <2>1. <<f, d>> # <<c, Stack>> /\ <<x, b>> # <<c, Stack>>
    BY <1>0, <1>1 DEF Mapped, Has, StackEffect
  <2>2. pt'[f][d] = pt[f][d] /\ pt'[x][b] = pt[x][b]
    BY <1>1, <2>1 DEF StackEffect
  <2>3. HalfDone(f, d) /\ x = op[f].child /\ b = d
    BY <2>2 DEF WritableIsPrivate, Mapped, Has
  <2> QED
    BY <1>1, <2>3 DEF HalfDone, StackEffect
<1> QED
  BY <1>2, <1>3, <1>4, <1>5

\* Steps of fork that change no mapping
LEMMA OpPrivate ==
  ASSUME PrivateInv, NEW e \in Envs, op[e] # None, op[e].at # "own", NEW r \in Forks,
         op' = [op EXCEPT ![e] = r], r.child = op[e].child, r.todo \subseteq op[e].todo,
         handler' \subseteq Envs, partial' \subseteq Envs,
         UNCHANGED <<status, pt, mem, fault>>
  PROVE  PrivateInv'
<1> USE DEF PrivateInv
<1>1. /\ r # None /\ op' \in [Envs -> Forks \cup {None}]
      /\ \A x \in Envs : op'[x] = IF x = e THEN r ELSE op[x]
  BY OpMoves
<1>2. \A x \in Envs : op'[x] # None =>
        /\ op[x] # None /\ op'[x].child = op[x].child /\ op'[x].todo \subseteq op[x].todo
  BY <1>1
<1>3. TypeOK'
  <2>1. \A x \in Envs : op'[x] # None =>
          status'[x] = "ready" /\ status'[op'[x].child] = "forking"
    BY <1>2, ForkParts
  <2> QED
    BY <1>1, <2>1 DEF TypeOK
<1>4. Parties'
  BY <1>2 DEF Parties, Mapped, Has, MappedIn
<1>5. FreshPages'
  BY DEF FreshPages, Mapped
<1>6. \A x \in Envs, a \in Addrs : HalfDone(x, a) => HalfDone(x, a)' /\ op'[x] = op[x]
  BY <1>1 DEF HalfDone
<1>7. WritableIsPrivate'
  BY <1>6 DEF WritableIsPrivate, Mapped, Has
<1> QED
  BY <1>3, <1>4, <1>5, <1>7

\* What duppage does where the child's map fails
LEMMA FailsStep ==
  ASSUME PrivateInv, NEW e \in Envs, duppage_fails(e)
  PROVE  \E a \in Addrs, r \in Forks :
           /\ op[e] # None /\ op[e].at = "child" /\ IsNext(a, op[e].todo) /\ Mapped(e, a)
           /\ op' = [op EXCEPT ![e] = r] /\ r.child = op[e].child
           /\ IF IsPrivate(pt[e][a].perm) THEN r.at = "own" /\ r.todo = op[e].todo
              ELSE r.at = "child" /\ r.todo = op[e].todo \ {a}
           /\ op[e].child \in Envs /\ status[op[e].child] = "forking"
           /\ partial' = partial \cup {op[e].child}
           /\ UNCHANGED <<status, pt, mem, handler, fault>>
<1> USE DEF PrivateInv
<1>1. /\ op[e] # None /\ op[e].at = "child" /\ partial' = partial \cup {op[e].child}
      /\ UNCHANGED <<status, pt, mem, handler, fault>>
  BY DEF duppage_fails, InFork
<1>2. PICK a \in Addrs :
        /\ IsNext(a, op[e].todo)
        /\ op' = IF IsPrivate(pt[e][a].perm) THEN [op EXCEPT ![e].at = "own"]
                                            ELSE [op EXCEPT ![e].todo = @ \ {a}]
  BY DEF duppage_fails
<1>3. Mapped(e, a)
  BY <1>1, <1>2 DEF IsNext, Parties, MappedIn
<1>4. op[e].child \in Envs /\ status[op[e].child] = "forking"
  BY <1>1, ForkParts
<1>5. PICK r : r = IF IsPrivate(pt[e][a].perm) THEN [op[e] EXCEPT !.at = "own"]
                   ELSE [op[e] EXCEPT !.todo = @ \ {a}]
  OBVIOUS
<1>6. /\ r \in Forks /\ r.child = op[e].child
      /\ IF IsPrivate(pt[e][a].perm) THEN r.at = "own" /\ r.todo = op[e].todo
         ELSE r.at = "child" /\ r.todo = op[e].todo \ {a}
  <2>1. CASE IsPrivate(pt[e][a].perm)
    BY <1>1, <1>5, <2>1, ForkAt DEF Places
  <2>2. CASE ~IsPrivate(pt[e][a].perm)
    BY <1>1, <1>5, <2>2, ForkLess
  <2> QED
    BY <2>1, <2>2
<1>7. op' = [op EXCEPT ![e] = r]
  BY <1>2, <1>5
<1> QED
  BY <1>1, <1>2, <1>3, <1>4, <1>6, <1>7

LEMMA FailsPrivate ==
  ASSUME PrivateInv, NEW e \in Envs, duppage_fails(e)
  PROVE  PrivateInv'
<1>1. PICK a \in Addrs, r \in Forks :
        /\ op[e] # None /\ op[e].at = "child"
        /\ op' = [op EXCEPT ![e] = r] /\ r.child = op[e].child
        /\ r.todo = op[e].todo \/ r.todo = op[e].todo \ {a}
        /\ op[e].child \in Envs /\ partial' = partial \cup {op[e].child}
        /\ UNCHANGED <<status, pt, mem, handler, fault>>
  BY FailsStep
<1>2. handler' \subseteq Envs /\ partial' \subseteq Envs
  BY <1>1 DEF PrivateInv, TypeOK
<1> QED
  BY <1>1, <1>2, OpPrivate

LEMMA XstackPrivate ==
  ASSUME PrivateInv, NEW e \in Envs, fork_xstack(e)
  PROVE  PrivateInv'
<1>1. /\ op[e] # None /\ op[e].at = "child" /\ op' = [op EXCEPT ![e].at = "stack"]
      /\ handler' \subseteq handler \cup {op[e].child}
      /\ UNCHANGED <<status, pt, mem, fault, partial>>
  BY DEF fork_xstack, InFork
<1>2. PICK r \in Forks :
        op' = [op EXCEPT ![e] = r] /\ r.child = op[e].child /\ r.todo = op[e].todo
  BY <1>1, PlaceStep DEF Places
<1>3. handler' \subseteq Envs /\ partial' \subseteq Envs
  BY <1>1, ForkParts DEF PrivateInv, TypeOK
<1> QED
  BY <1>1, <1>2, <1>3, OpPrivate

\* fork_stuck without a page for the child's stack
LEMMA StuckPrivate ==
  ASSUME PrivateInv, NEW e \in Envs, fork_stuck(e), UNCHANGED pt
  PROVE  PrivateInv'
<1>1. /\ op[e] # None /\ op[e].at = "stack" /\ op' = [op EXCEPT ![e].at = "stuck"]
      /\ UNCHANGED <<status, mem, handler, fault, partial>>
  BY DEF fork_stuck, InFork
<1>2. PICK r \in Forks :
        op' = [op EXCEPT ![e] = r] /\ r.child = op[e].child /\ r.todo = op[e].todo
  BY <1>1, PlaceStep DEF Places
<1>3. handler' \subseteq Envs /\ partial' \subseteq Envs
  BY <1>1 DEF PrivateInv, TypeOK
<1> QED
  BY <1>1, <1>2, <1>3, OpPrivate

LEMMA NextPrivate == PrivateInv /\ [Next]_vars => PrivateInv'
<1> SUFFICES ASSUME PrivateInv, [Next]_vars PROVE PrivateInv'
  OBVIOUS
<1>1. CASE UNCHANGED vars
  <2>1. TypeOK'
    BY <1>1 DEF vars, PrivateInv, TypeOK
  <2>2. Parties' /\ FreshPages' /\ WritableIsPrivate'
    BY <1>1 DEF vars, PrivateInv, Parties, FreshPages, WritableIsPrivate, Mapped, Has,
                MappedIn, HalfDone
  <2> QED
    BY <2>1, <2>2 DEF PrivateInv
<1>2. CASE Next
  <2>1. ASSUME NEW e \in Envs, fork_stack(e) \/ fork_stuck(e) PROVE PrivateInv'
    BY <2>1, StackPrivate, StuckPrivate DEF fork_stack, fork_stuck, NewStack
  <2> QED
    BY <1>2, <2>1, DestroyPrivate, FaultPrivate, FaultMapPrivate, WritePrivate, ForkPrivate,
       DuppagePrivate, FailsPrivate, DuppageOwnPrivate, XstackPrivate, StartPrivate DEF Next
<1> QED
  BY <1>1, <1>2

\* Forks, faults and destructions, interleaved in any way, leave the pages they
\* work on in known hands.
THEOREM PrivateInvariance == Spec => []PrivateInv
  BY InitPrivate, NextPrivate, PTL DEF Spec

\* Every variable keeps its type; a fork that goes on has a parent that is
\* there and a child that does not run.
THEOREM TypeCorrect == Spec => []TypeOK
<1>1. PrivateInv => TypeOK
  BY DEF PrivateInv
<1> QED
  BY <1>1, PrivateInvariance, PTL

\* A page that somebody may write is in nobody else's address space, unless it
\* is meant to be shared, for any layout and any number of environments.
THEOREM WritablePagesPrivate == Spec => []WritableIsPrivate
<1>1. PrivateInv => WritableIsPrivate
  BY DEF PrivateInv
<1> QED
  BY <1>1, PrivateInvariance, PTL
-----------------------------------------------------------------------------
\* Layouts in which fork's loop looks at every page: what a child gets.

LEMMA StackPlain == Stack \in Addrs /\ Stack \notin Shared
  BY ForkAssumption DEF Addrs

LEMMA InitCopy == Init => CopyInv
<1> SUFFICES ASSUME Init PROVE CopyInv
  OBVIOUS
<1> USE ForkAssumption
<1>1. /\ status = [e \in Envs |-> IF e = Boot THEN "ready" ELSE "unused"]
      /\ fault = [e \in Envs |-> None] /\ op = [e \in Envs |-> None]
      /\ \A e \in Envs, a \in Addrs : Mapped(e, a) => e = Boot
  BY DEF Init, Mapped
<1>2. PrivateInv
  BY InitPrivate
<1>3. ASSUME NEW a \in Addrs
      PROVE  /\ Mapped(Boot, a)
             /\ "SHARE" \in pt[Boot][a].perm <=> a \in Shared
             /\ a \in Shared => "W" \in pt[Boot][a].perm
  <2>1. PICK p \in Pages, perm \in SUBSET Bits :
          /\ pt[Boot][a] = Entry(p, perm)
          /\ "SHARE" \in perm <=> a \in Shared
          /\ a \in Shared => "W" \in perm
    BY InitPage
  <2> QED
    BY <2>1, EntryParts DEF Mapped
<1>4. OnePlace
  <2>1. ASSUME NEW a \in Addrs, NEW b \in Addrs, pt[Boot][a].page = pt[Boot][b].page
        PROVE  a = b
    BY <2>1, InitPage
  <2>2. Shared \subseteq Addrs
    BY DEF Addrs
  <2> QED
    BY <1>1, <1>3, <2>1, <2>2 DEF OnePlace
<1>5. FaultCopy
  BY <1>1 DEF FaultCopy
<1>6. Copying
  BY <1>1, <1>3 DEF Copying, MappedIn, HalfDone
<1> QED
  BY <1>4, <1>5, <1>6 DEF CopyInv

\* Steps that leave everybody's pages in place, with what is in them, and the
\* forks where they are.
LEMMA KeepCopying ==
  ASSUME PrivateInv, Copying, UNCHANGED partial,
         \A x \in Envs : status'[x] = "ready" => status[x] = "ready",
         \A x \in Envs : op'[x] # None => op'[x] = op[x],
         \A x \in Envs, b \in Addrs :
           (status'[x] = "ready" \/ status[x] = "forking") =>
             /\ Mapped(x, b)' <=> Mapped(x, b)
             /\ Mapped(x, b) => mem'[pt'[x][b].page] = mem[pt[x][b].page],
         \A x \in Envs, b \in Addrs :
           op'[x] # None /\ b # Stack => pt'[x][b].page = pt[x][b].page,
         \A x \in Envs, b \in Addrs :
           status[x] = "forking" => pt'[x][b].page = pt[x][b].page,
         \A x \in Envs : op'[x] # None => status'[x] = "ready"
  PROVE  Copying'
<1>1. \A x \in Envs : op'[x] # None =>
        op[x] # None /\ op[x].child \in Envs /\ status[op[x].child] = "forking"
  BY ForkParts DEF PrivateInv
<1>2. \A x \in Envs : status'[x] = "ready" /\ x \notin partial' => MappedIn(x)' = Addrs
  BY DEF Copying, MappedIn
<1>3. \A x \in Envs, b \in Addrs : HalfDone(x, b)' => HalfDone(x, b)
  BY DEF HalfDone
<1>4. ASSUME NEW x \in Envs, NEW b \in Addrs, op'[x] # None,
             Mapped(op[x].child, b)', b # Stack
      PROVE  Mapped(x, b)' /\ pt'[op[x].child][b].page = pt'[x][b].page
  <2>1. Mapped(op[x].child, b)
    BY <1>1, <1>4
  <2>2. Mapped(x, b) /\ pt[op[x].child][b].page = pt[x][b].page
    BY <1>1, <1>4, <2>1 DEF Copying
  <2> QED
    BY <1>1, <1>4, <2>2
<1>5. ASSUME NEW x \in Envs, NEW b \in Addrs, op'[x] # None,
             op[x].child \notin partial, b \notin op[x].todo \/ HalfDone(x, b)
      PROVE  Mapped(op[x].child, b)'
  BY <1>1, <1>5 DEF Copying
<1>6. ASSUME NEW x \in Envs, op'[x] # None, op[x].at = "start"
      PROVE  /\ Mapped(x, Stack)' /\ Mapped(op[x].child, Stack)'
             /\ mem'[pt'[op[x].child][Stack].page] = mem'[pt'[x][Stack].page]
  <2>1. /\ Mapped(x, Stack) /\ Mapped(op[x].child, Stack)
        /\ mem[pt[op[x].child][Stack].page] = mem[pt[x][Stack].page]
    BY <1>1, <1>6 DEF Copying
  <2> QED
    BY <1>1, <1>6, <2>1, StackPlain
<1>7. \A x \in Envs : op'[x] # None /\ op'[x].at \in {"stack", "start"} => op'[x].todo = {}
  BY <1>1 DEF Copying
<1>8. \A x \in Envs, b \in Addrs : HalfDone(x, b)' => b \notin Shared
  BY <1>3 DEF Copying
<1>9. \A x \in Envs, b \in Addrs :
        op'[x] # None /\ Mapped(op[x].child, b)' /\ b # Stack =>
          Mapped(x, b)' /\ pt'[op'[x].child][b].page = pt'[x][b].page
  BY <1>4
<1>10. \A x \in Envs, b \in Addrs :
       /\ op'[x] # None /\ op'[x].child \notin partial'
       /\ b \notin op'[x].todo \/ HalfDone(x, b)'
       => Mapped(op[x].child, b)'
  BY <1>3, <1>5
<1>11. \A x \in Envs : op'[x] # None /\ op'[x].at = "start" =>
       /\ Mapped(x, Stack)' /\ Mapped(op[x].child, Stack)'
       /\ mem'[pt'[op'[x].child][Stack].page] = mem'[pt'[x][Stack].page]
  BY <1>6
<1> QED
  BY <1>2, <1>7, <1>8, <1>9, <1>10, <1>11 DEF Copying

LEMMA DestroyCopy ==
  ASSUME PrivateInv, CopyInv, NEW e \in Envs, env_destroy(e)
  PROVE  CopyInv'
<1> USE DEF PrivateInv, CopyInv
<1>1. /\ status[e] = "ready" /\ mem' = mem /\ partial' = partial
      /\ \A x \in Envs : status'[x] = IF x = e THEN "gone" ELSE status[x]
      /\ \A x \in Envs : fault'[x] = IF x = e THEN None ELSE fault[x]
      /\ \A x \in Envs : op'[x] = IF x = e THEN None ELSE op[x]
      /\ \A x \in Envs, b \in Addrs : pt'[x][b] = IF x = e THEN None ELSE pt[x][b]
  BY DEF env_destroy, Gone, TypeOK
<1>2. OnePlace'
  BY <1>1, ForkAssumption DEF OnePlace, Mapped, Addrs
<1>3. FaultCopy'
  <2>1. \A x \in Envs : fault[x] # None => fault[x].addr \in Addrs
    BY DEF TypeOK, PageFaults
  <2> QED
    BY <1>1, <2>1 DEF FaultCopy
<1>4. Copying'
  <2>1. \A x \in Envs : op'[x] # None => op'[x] = op[x] /\ status'[x] = "ready"
    BY <1>1, ForkParts
  <2>2. \A x \in Envs : status'[x] = "ready" \/ status[x] = "forking" \/ op'[x] # None => x # e
    BY <1>1
  <2>3. \A x \in Envs, b \in Addrs : x # e =>
          pt'[x][b] = pt[x][b] /\ (Mapped(x, b)' <=> Mapped(x, b))
    BY <1>1 DEF Mapped
  <2> QED
    BY <1>1, <2>1, <2>2, <2>3, KeepCopying
<1> QED
  BY <1>2, <1>3, <1>4

LEMMA FaultCopyStep ==
  ASSUME PrivateInv, CopyInv, NEW e \in Envs, NEW a \in Addrs, pgfault(e, a)
  PROVE  CopyInv'
<1> USE DEF PrivateInv, CopyInv
<1>1. /\ Mapped(e, a) /\ HasMemory /\ UNCHANGED <<status, pt, handler, op, partial>>
  BY DEF pgfault
<1>2. PICK p \in Pages : p = page_alloc
  BY <1>1, NewPage
<1>3. /\ \A x \in Envs, b \in Addrs : Mapped(x, b) => pt[x][b].page # p
      /\ \A x \in Envs : fault[x] # None => fault[x].page # p
  BY <1>1, <1>2, NewPage
<1>4. PICK r : r = [addr |-> a, page |-> p]
  OBVIOUS
<1>5. r.addr = a /\ r.page = p
  BY <1>4
<1>6. \A x \in Envs : fault'[x] = IF x = e THEN r ELSE fault[x]
  BY <1>2, <1>4 DEF pgfault, TypeOK
<1>7. \A q \in Pages : mem'[q] = IF q = p THEN mem[pt[e][a].page] ELSE mem[q]
  BY <1>2 DEF pgfault, Copy, TypeOK
<1>8. \A x \in Envs, b \in Addrs : Mapped(x, b) => mem'[pt[x][b].page] = mem[pt[x][b].page]
  BY <1>3, <1>7, MappedEntry
<1>9. OnePlace'
  BY <1>1 DEF OnePlace, Mapped
<1>10. FaultCopy'
  <2> SUFFICES ASSUME NEW x \in Envs, fault'[x] # None
               PROVE  mem'[fault'[x].page] = mem'[pt[x][fault'[x].addr].page]
    BY <1>1 DEF FaultCopy
  <2>1. CASE x = e
    BY <1>1, <1>2, <1>5, <1>6, <1>7, <1>8, <2>1
  <2>2. CASE x # e
    <3>1. /\ fault'[x] = fault[x] /\ fault[x].page \in Pages /\ fault[x].addr \in Addrs
          /\ Mapped(x, fault[x].addr)
      BY <1>6, <2>2 DEF TypeOK, PageFaults, Parties
    <3> QED
      BY <1>3, <1>7, <1>8, <3>1 DEF FaultCopy
  <2> QED
    BY <2>1, <2>2
<1>11. Copying'
  <2>1. \A x \in Envs : op[x] # None => status[x] = "ready"
    BY ForkParts
  <2>2. \A x \in Envs, b \in Addrs : Mapped(x, b)' <=> Mapped(x, b)
    BY <1>1 DEF Mapped
  <2> QED
    BY <1>1, <1>8, <2>1, <2>2, KeepCopying
<1> QED
  BY <1>9, <1>10, <1>11

LEMMA FaultMapCopy ==
  ASSUME PrivateInv, CopyInv, NEW e \in Envs, pgfault_map(e)
  PROVE  CopyInv'
<1> USE DEF PrivateInv, CopyInv
<1>1. /\ status[e] = "ready" /\ fault[e] # None
      /\ pt' = [pt EXCEPT ![e][fault[e].addr] = Entry(fault[e].page, {"W"})]
      /\ UNCHANGED <<status, mem, handler, op, partial>>
  BY DEF pgfault_map
<1>2. PICK a \in Addrs, p \in Pages : a = fault[e].addr /\ p = fault[e].page
  BY <1>1 DEF TypeOK, PageFaults
<1>3. PICK E : E = Entry(p, {"W"})
  OBVIOUS
<1>4. E \in Entries /\ E # None /\ E.page = p /\ E.perm = {"W"}
  BY <1>3, EntryParts DEF Bits
<1>5. \A x \in Envs, b \in Addrs : pt'[x][b] = IF x = e /\ b = a THEN E ELSE pt[x][b]
  BY <1>1, <1>2, <1>3, <1>4, OneEntry
<1>6. \A x \in Envs : fault'[x] = IF x = e THEN None ELSE fault[x]
  BY DEF pgfault_map, TypeOK
<1>7. /\ Mapped(e, a) /\ a \notin Shared /\ (op[e] # None => a = Stack)
      /\ mem[p] = mem[pt[e][a].page]
  BY <1>1, <1>2 DEF Parties, OnePlace, Has, FaultCopy
<1>8. \A x \in Envs, b \in Addrs : Mapped(x, b) => pt[x][b].page # p
  BY <1>1, <1>2 DEF FreshPages
<1>9. \A x \in Envs, b \in Addrs : Mapped(x, b)' <=> Mapped(x, b)
  BY <1>4, <1>5, <1>7 DEF Mapped
<1>10. OnePlace'
  <2>1. \A f, x \in Envs, b, d \in Addrs :
          Mapped(f, b)' /\ Mapped(x, d)' /\ pt'[f][b].page = pt'[x][d].page => b = d
    BY <1>4, <1>5, <1>8, <1>9 DEF OnePlace
  <2>2. \A x \in Envs, b \in Addrs : Mapped(x, b)' =>
       /\ "SHARE" \in pt'[x][b].perm <=> b \in Shared
       /\ b \in Shared => "W" \in pt'[x][b].perm
    BY <1>4, <1>5, <1>7, <1>9 DEF OnePlace
  <2>3. \A f, x \in Envs, b \in Shared :
       Mapped(f, b)' /\ Mapped(x, b)' => pt'[f][b].page = pt'[x][b].page
    BY <1>5, <1>7, <1>9 DEF OnePlace, Addrs
  <2> QED
    BY <2>1, <2>2, <2>3 DEF OnePlace
<1>11. FaultCopy'
  <2>1. \A x \in Envs : fault[x] # None => fault[x].addr \in Addrs
    BY DEF TypeOK, PageFaults
  <2> QED
    BY <1>1, <1>5, <1>6, <2>1 DEF FaultCopy
<1>12. Copying'
  <2>1. \A x \in Envs : op[x] # None => status[x] = "ready"
    BY ForkParts
  <2>2. \A x \in Envs, b \in Addrs : mem'[pt'[x][b].page] = mem[pt[x][b].page]
    BY <1>1, <1>4, <1>5, <1>7
  <2>3. \A x \in Envs, b \in Addrs :
          (op[x] # None /\ b # Stack) \/ status[x] = "forking" => pt'[x][b] = pt[x][b]
    BY <1>1, <1>5, <1>7
  <2> QED
    BY <1>1, <1>9, <2>1, <2>2, <2>3, KeepCopying
<1> QED
  BY <1>10, <1>11, <1>12

\* A write reaches another address space only on a page that is shared.
LEMMA WriteHits ==
  ASSUME PrivateInv, CopyInv, NEW e \in Envs, NEW a \in Addrs, NEW v, write(e, a, v),
         NEW x \in Envs, NEW b \in Addrs, Mapped(x, b), <<x, b>> # <<e, a>>,
         pt[x][b].page = pt[e][a].page
  PROVE  a \in Shared /\ b = a
<1> USE DEF PrivateInv, CopyInv
<1>1. Has(e, a, "W") /\ op[e] = None /\ Mapped(e, a)
  BY DEF write, Has
<1>2. Has(e, a, "SHARE")
  BY <1>1 DEF WritableIsPrivate, HalfDone
<1> QED
  BY <1>1, <1>2 DEF OnePlace, Has

LEMMA WriteCopy ==
  ASSUME PrivateInv, CopyInv, NEW e \in Envs, NEW a \in Addrs, NEW v \in Values,
         write(e, a, v)
  PROVE  CopyInv'
<1> USE DEF PrivateInv, CopyInv
<1>1. /\ UNCHANGED <<status, pt, handler, fault, op, partial>> /\ Mapped(e, a) /\ op[e] = None
      /\ status[e] = "ready" /\ fault[e] = None
  BY DEF write, Has, Runs
<1>2. PICK p \in Pages : p = pt[e][a].page
  BY <1>1, MappedEntry
<1>3. \A q \in Pages : q # p => mem'[q] = mem[q]
  BY <1>2 DEF write, TypeOK
<1>4. OnePlace'
  BY <1>1 DEF OnePlace, Mapped
<1>5. FaultCopy'
  <2> SUFFICES ASSUME NEW x \in Envs, fault[x] # None
               PROVE  mem'[fault[x].page] = mem'[pt[x][fault[x].addr].page]
    BY <1>1 DEF FaultCopy
  <2>1. /\ fault[x].page \in Pages /\ fault[x].addr \in Addrs /\ x # e
        /\ Mapped(x, fault[x].addr) /\ ~Has(x, fault[x].addr, "W")
    BY <1>1 DEF TypeOK, PageFaults, Parties
  <2>2. fault[x].page # p
    BY <1>1, <1>2 DEF FreshPages
  <2>3. pt[x][fault[x].addr].page # p
    BY <1>2, <2>1, WriteHits DEF OnePlace, Has
  <2>4. pt[x][fault[x].addr].page \in Pages
    BY <2>1, MappedEntry
  <2> QED
    BY <1>3, <2>1, <2>2, <2>3, <2>4 DEF FaultCopy
<1>6. Copying'
  <2>1. ASSUME NEW x \in Envs, op[x] # None, op[x].at = "start"
        PROVE  mem'[pt[op[x].child][Stack].page] = mem'[pt[x][Stack].page]
    <3>1. /\ op[x].child \in Envs /\ Mapped(op[x].child, Stack)
          /\ Mapped(x, Stack) /\ x # e /\ op[x].child # e
      BY <1>1, <2>1, ForkParts DEF Copying
    <3>2. pt[x][Stack].page # p /\ pt[op[x].child][Stack].page # p
      BY <1>2, <3>1, StackPlain, WriteHits
    <3>3. pt[x][Stack].page \in Pages /\ pt[op[x].child][Stack].page \in Pages
      BY <3>1, StackPlain, MappedEntry
    <3> QED
      BY <1>3, <2>1, <3>1, <3>2, <3>3 DEF Copying
  <2> QED
    BY <1>1, <2>1 DEF Copying, Mapped, MappedIn, HalfDone
<1> QED
  BY <1>4, <1>5, <1>6

LEMMA ForkCopy ==
  ASSUME VisitsAll, PrivateInv, CopyInv, NEW e \in Envs, NEW c \in Envs, fork(e, c)
  PROVE  CopyInv'
<1> USE DEF PrivateInv, CopyInv
<1>1. /\ status[e] = "ready" /\ op[e] = None /\ status[c] = "unused"
      /\ partial' = IF e \in partial THEN partial \cup {c} ELSE partial
      /\ UNCHANGED <<pt, mem, fault>>
  BY DEF fork, Runs
<1>2. e \notin partial => ToCopy(e) = Addrs
  BY <1>1 DEF ToCopy, Copying, VisitsAll
<1>3. PICK S : /\ op' = [op EXCEPT ![e] = [at |-> "child", child |-> c, todo |-> S]]
               /\ e \notin partial => S = Addrs
  BY <1>2 DEF fork
<1>4. PICK r : r = [at |-> "child", child |-> c, todo |-> S]
  OBVIOUS
<1>5. r.at = "child" /\ r.child = c /\ r.todo = S
  BY <1>4
<1>6. \A x \in Envs : op'[x] = IF x = e THEN r ELSE op[x]
  BY <1>3, <1>4 DEF TypeOK
<1>7. \A x \in Envs : status'[x] = IF x = c THEN "forking" ELSE status[x]
  BY DEF fork, TypeOK
<1>8. OnePlace' /\ FaultCopy'
  BY <1>1 DEF OnePlace, FaultCopy, Mapped
<1>9. Copying'
  <2>1. \A x \in Envs, b \in Addrs : HalfDone(x, b)' => HalfDone(x, b) /\ x # e
    BY <1>5, <1>6 DEF HalfDone
  <2>2. \A b \in Addrs : ~Mapped(c, b)
    BY <1>1 DEF Parties, Mapped
  <2>3. \A x \in Envs, b \in Addrs : Mapped(x, b)' <=> Mapped(x, b)
    BY <1>1 DEF Mapped
  <2>4. \A x \in Envs : status'[x] = "ready" /\ x \notin partial' => MappedIn(x)' = Addrs
    BY <1>1, <1>7, <2>3 DEF Copying, MappedIn
  <2>5. \A x \in Envs, b \in Addrs :
          op'[x] # None /\ Mapped(op[x].child, b)' /\ b # Stack =>
            Mapped(x, b)' /\ pt'[op'[x].child][b].page = pt'[x][b].page
    <3>1. \A x \in Envs : op[x] # None => op[x].child \in Envs
      BY ForkParts
    <3> QED
      BY <1>1, <1>5, <1>6, <2>2, <2>3, <3>1 DEF Copying
  <2>6. ASSUME NEW x \in Envs, NEW b \in Addrs, op'[x] # None, op'[x].child \notin partial',
               b \notin op'[x].todo \/ HalfDone(x, b)'
        PROVE  Mapped(op[x].child, b)'
    <3>1. x # e
      BY <1>1, <1>3, <1>5, <1>6, <2>1, <2>6
    <3>2. op'[x] = op[x] /\ op[x].child \notin partial /\ op[x].child \in Envs
      BY <1>1, <1>6, <2>6, <3>1, ForkParts
    <3> QED
      BY <2>1, <2>3, <2>6, <3>2 DEF Copying
  <2>7. \A x \in Envs : op'[x] # None /\ op'[x].at \in {"stack", "start"} => op'[x].todo = {}
    BY <1>5, <1>6 DEF Copying
  <2>8. \A x \in Envs : op'[x] # None /\ op'[x].at = "start" =>
       /\ Mapped(x, Stack)' /\ Mapped(op[x].child, Stack)'
       /\ mem'[pt'[op'[x].child][Stack].page] = mem'[pt'[x][Stack].page]
    <3>1. \A x \in Envs : op[x] # None => op[x].child \in Envs
      BY ForkParts
    <3> QED
      BY <1>1, <1>5, <1>6, <2>3, <3>1, StackPlain DEF Copying
  <2>9. \A x \in Envs, b \in Addrs : HalfDone(x, b)' => b \notin Shared
    BY <2>1 DEF Copying
  <2> QED
    BY <2>4, <2>5, <2>6, <2>7, <2>8, <2>9 DEF Copying
<1> QED
  BY <1>8, <1>9

LEMMA DuppageCopy ==
  ASSUME PrivateInv, CopyInv, NEW e \in Envs, duppage(e)
  PROVE  CopyInv'
<1> USE DEF PrivateInv, CopyInv
<1>1. PICK a \in Addrs, c \in Envs, E \in Entries, r \in Forks :
        DuppageEffect(e, a, c, E, r)
  BY DuppageStep
<1>2. /\ op[e] # None /\ op[e].at = "child" /\ IsNext(a, op[e].todo)
      /\ c = op[e].child /\ c # e /\ status[c] = "forking" /\ status[e] = "ready"
      /\ Mapped(e, a) /\ E # None /\ E.page = pt[e][a].page
      /\ \A x \in Envs, b \in Addrs : pt'[x][b] = IF x = c /\ b = a THEN E ELSE pt[x][b]
      /\ r # None /\ r.child = c
      /\ \A x \in Envs : op'[x] = IF x = e THEN r ELSE op[x]
      /\ UNCHANGED <<status, mem, handler, fault, partial>>
  BY <1>1 DEF DuppageEffect
<1>3. \/ r.at = "own" /\ r.todo = op[e].todo /\ a \notin Shared
      \/ r.at = "child" /\ r.todo = op[e].todo \ {a}
  BY <1>1, <1>2 DEF DuppageEffect, IsPrivate, OnePlace
<1>4. \A x \in Envs, b \in Addrs : Mapped(x, b)' <=> Mapped(x, b) \/ (x = c /\ b = a)
  BY <1>2 DEF Mapped
<1>5. OnePlace'
  <2>1. "SHARE" \in E.perm <=> a \in Shared
    BY <1>1, <1>2 DEF DuppageEffect, IsPrivate, CowPerm, OnePlace
  <2>2. a \in Shared => "W" \in E.perm
    BY <1>1, <1>2 DEF DuppageEffect, IsPrivate, CowPerm, OnePlace
  <2>3. \A f, x \in Envs, b, d \in Addrs :
          Mapped(f, b)' /\ Mapped(x, d)' /\ pt'[f][b].page = pt'[x][d].page => b = d
    BY <1>2, <1>4 DEF OnePlace
  <2>4. \A x \in Envs, b \in Addrs : Mapped(x, b)' =>
       /\ "SHARE" \in pt'[x][b].perm <=> b \in Shared
       /\ b \in Shared => "W" \in pt'[x][b].perm
    BY <1>2, <1>4, <2>1, <2>2 DEF OnePlace
  <2>5. \A f, x \in Envs, b \in Shared :
       Mapped(f, b)' /\ Mapped(x, b)' => pt'[f][b].page = pt'[x][b].page
    <3>1. Shared \subseteq Addrs
      BY DEF Addrs
    <3> QED
      BY <1>2, <1>4, <3>1 DEF OnePlace
  <2> QED
    BY <2>3, <2>4, <2>5 DEF OnePlace
<1>6. FaultCopy'
  <2>1. \A x \in Envs : fault[x] # None => fault[x].addr \in Addrs /\ x # c
    BY <1>2 DEF TypeOK, PageFaults, Parties
  <2> QED
    BY <1>2, <2>1 DEF FaultCopy
<1>7. Copying'
  <2>1. \A x \in Envs : op[x] # None => op[x].child \in Envs /\ x # c
    BY <1>2, ForkParts
  <2>c. \A x \in Envs : op[x] # None /\ x # e => op[x].child # c
    BY <1>2 DEF Parties
  <2>2. \A x \in Envs : status'[x] = "ready" /\ x \notin partial' => MappedIn(x)' = Addrs
    BY <1>2, <1>4 DEF Copying, MappedIn
  <2>3. \A x \in Envs, b \in Addrs :
          HalfDone(x, b)' => IF x = e THEN b = a /\ b \notin Shared ELSE HalfDone(x, b)
    <3>1. op[e].todo \in SUBSET Addrs
      BY <1>2, ForkParts
    <3>2. ASSUME NEW b \in Addrs, HalfDone(e, b)' PROVE b = a /\ b \notin Shared
      <4>1. r.at = "own" /\ IsNext(b, r.todo)
        BY <1>2, <3>2 DEF HalfDone
      <4>2. r.todo = op[e].todo /\ a \notin Shared
        BY <1>3, <4>1
      <4> QED
        BY <1>2, <3>1, <4>1, <4>2, NextIsOne
    <3>3. \A x \in Envs, b \in Addrs : x # e /\ HalfDone(x, b)' => HalfDone(x, b)
      BY <1>2 DEF HalfDone
    <3> QED
      BY <3>2, <3>3
  <2>4. ASSUME NEW x \in Envs, NEW b \in Addrs, op'[x] # None,
               Mapped(op[x].child, b)', b # Stack
        PROVE  Mapped(x, b)' /\ pt'[op'[x].child][b].page = pt'[x][b].page
    <3>1. op[x] # None /\ op'[x].child = op[x].child /\ op[x].child \in Envs /\ x # c
      BY <1>2, <2>1, <2>4
    <3>2. CASE x = e /\ b = a
      BY <1>2, <1>4, <3>2
    <3>3. CASE ~(x = e /\ b = a)
      <4>1. ~(op[x].child = c /\ b = a)
        BY <1>2, <2>c, <3>1, <3>3
      <4>2. Mapped(op[x].child, b)
        BY <1>4, <2>4, <3>1, <4>1
      <4>3. Mapped(x, b) /\ pt[op[x].child][b].page = pt[x][b].page
        BY <2>4, <3>1, <4>2 DEF Copying
      <4> QED
        BY <1>2, <1>4, <3>1, <4>1, <4>3
    <3> QED
      BY <3>2, <3>3
  <2>5. ASSUME NEW x \in Envs, NEW b \in Addrs, op'[x] # None, op'[x].child \notin partial',
               b \notin op'[x].todo \/ HalfDone(x, b)'
        PROVE  Mapped(op[x].child, b)'
    <3>1. op[x] # None /\ op'[x].child = op[x].child /\ op[x].child \in Envs
      BY <1>2, <2>1, <2>5
    <3>2. CASE x = e /\ b = a
      BY <1>2, <1>4, <3>1, <3>2
    <3>3. CASE ~(x = e /\ b = a)
      <4>1. b \notin op[x].todo \/ HalfDone(x, b)
        BY <1>2, <1>3, <2>3, <2>5, <3>3
      <4>2. Mapped(op[x].child, b)
        BY <1>2, <2>5, <3>1, <4>1 DEF Copying
      <4> QED
        BY <1>4, <3>1, <4>2
    <3> QED
      BY <3>2, <3>3
  <2>6. ASSUME NEW x \in Envs, op'[x] # None, op'[x].at = "start"
        PROVE  /\ Mapped(x, Stack)' /\ Mapped(op[x].child, Stack)'
               /\ mem'[pt'[op'[x].child][Stack].page] = mem'[pt'[x][Stack].page]
    <3>1. x # e /\ op'[x] = op[x]
      BY <1>2, <1>3, <2>6
    <3>2. op[x].child \in Envs /\ x # c /\ op[x].child # c
      BY <2>1, <2>c, <2>6, <3>1
    <3>3. pt'[x][Stack] = pt[x][Stack] /\ pt'[op[x].child][Stack] = pt[op[x].child][Stack]
      BY <1>2, <3>2, StackPlain
    <3>4. /\ Mapped(x, Stack) /\ Mapped(op[x].child, Stack)
          /\ mem[pt[op[x].child][Stack].page] = mem[pt[x][Stack].page]
      BY <2>6, <3>1 DEF Copying
    <3> QED
      BY <1>2, <3>1, <3>3, <3>4 DEF Mapped
  <2>7. \A x \in Envs, b \in Addrs : HalfDone(x, b)' => b \notin Shared
    BY <2>3 DEF Copying
  <2>8. \A x \in Envs : op'[x] # None /\ op'[x].at \in {"stack", "start"} => op'[x].todo = {}
    BY <1>2, <1>3 DEF Copying
  <2> QED
    BY <2>2, <2>4, <2>5, <2>6, <2>7, <2>8 DEF Copying
<1> QED
  BY <1>5, <1>6, <1>7

LEMMA DuppageOwnCopy ==
  ASSUME PrivateInv, CopyInv, NEW e \in Envs, duppage_own(e)
  PROVE  CopyInv'
<1> USE DEF PrivateInv, CopyInv
<1>1. PICK a \in Addrs, E \in Entries, r \in Forks : OwnEffect(e, a, E, r)
  BY DuppageOwnStep
<1>2. /\ op[e] # None /\ HalfDone(e, a) /\ status[e] = "ready"
      /\ Mapped(e, a) /\ E # None /\ E.page = pt[e][a].page
      /\ E.perm = CowPerm(pt[e][a].perm)
      /\ \A x \in Envs, b \in Addrs : pt'[x][b] = IF x = e /\ b = a THEN E ELSE pt[x][b]
      /\ r # None /\ r.child = op[e].child /\ r.at = "child" /\ r.todo = op[e].todo \ {a}
      /\ \A x \in Envs : op'[x] = IF x = e THEN r ELSE op[x]
      /\ UNCHANGED <<status, mem, handler, fault, partial>>
  BY <1>1 DEF OwnEffect
<1>3. a \notin Shared
  BY <1>2 DEF Copying
<1>4. \A x \in Envs, b \in Addrs :
        (Mapped(x, b)' <=> Mapped(x, b)) /\ pt'[x][b].page = pt[x][b].page
  BY <1>2 DEF Mapped
<1>5. OnePlace'
  <2>1. "SHARE" \notin E.perm
    BY <1>2, <1>3 DEF CowPerm, OnePlace
  <2>2. \A x \in Envs, b \in Addrs : Mapped(x, b)' =>
       /\ "SHARE" \in pt'[x][b].perm <=> b \in Shared
       /\ b \in Shared => "W" \in pt'[x][b].perm
    BY <1>2, <1>3, <1>4, <2>1 DEF OnePlace
  <2>3. Shared \subseteq Addrs
    BY DEF Addrs
  <2> QED
    BY <1>4, <2>2, <2>3 DEF OnePlace
<1>6. FaultCopy'
  <2>1. \A x \in Envs : fault[x] # None => fault[x].addr \in Addrs
    BY DEF TypeOK, PageFaults
  <2> QED
    BY <1>2, <1>4, <2>1 DEF FaultCopy
<1>7. Copying'
  <2>1. \A x \in Envs : op[x] # None => op[x].child \in Envs
    BY ForkParts
  <2>2. \A x \in Envs : status'[x] = "ready" /\ x \notin partial' => MappedIn(x)' = Addrs
    BY <1>2, <1>4 DEF Copying, MappedIn
  <2>3. \A x \in Envs, b \in Addrs : HalfDone(x, b)' => HalfDone(x, b) /\ x # e
    BY <1>2 DEF HalfDone
  <2>4. \A x \in Envs : op'[x] # None =>
          op[x] # None /\ op'[x].child = op[x].child /\ op[x].child \in Envs
    BY <1>2, <2>1
  <2>5. ASSUME NEW x \in Envs, NEW b \in Addrs, op'[x] # None,
               Mapped(op[x].child, b)', b # Stack
        PROVE  Mapped(x, b)' /\ pt'[op'[x].child][b].page = pt'[x][b].page
    <3>1. Mapped(op[x].child, b)
      BY <1>4, <2>4, <2>5
    <3>2. Mapped(x, b) /\ pt[op[x].child][b].page = pt[x][b].page
      BY <2>4, <2>5, <3>1 DEF Copying
    <3> QED
      BY <1>4, <2>4, <2>5, <3>2
  <2>6. ASSUME NEW x \in Envs, NEW b \in Addrs, op'[x] # None, op'[x].child \notin partial',
               b \notin op'[x].todo \/ HalfDone(x, b)'
        PROVE  Mapped(op[x].child, b)'
    <3>1. b \notin op[x].todo \/ HalfDone(x, b)
      BY <1>2, <2>3, <2>6
    <3>2. Mapped(op[x].child, b)
      BY <1>2, <2>4, <2>6, <3>1 DEF Copying
    <3> QED
      BY <1>4, <2>4, <2>6, <3>2
  <2>7. ASSUME NEW x \in Envs, op'[x] # None, op'[x].at = "start"
        PROVE  /\ Mapped(x, Stack)' /\ Mapped(op[x].child, Stack)'
               /\ mem'[pt'[op'[x].child][Stack].page] = mem'[pt'[x][Stack].page]
    <3>1. x # e /\ op'[x] = op[x] /\ op[x].child \in Envs
      BY <1>2, <2>1, <2>7
    <3>2. /\ Mapped(x, Stack) /\ Mapped(op[x].child, Stack)
          /\ mem[pt[op[x].child][Stack].page] = mem[pt[x][Stack].page]
      BY <2>7, <3>1 DEF Copying
    <3> QED
      BY <1>2, <1>4, <3>1, <3>2, StackPlain, SMTT(20)
  <2>8. \A x \in Envs, b \in Addrs : HalfDone(x, b)' => b \notin Shared
    BY <2>3 DEF Copying
  <2>9. \A x \in Envs : op'[x] # None /\ op'[x].at \in {"stack", "start"} => op'[x].todo = {}
    BY <1>2 DEF Copying
  <2> QED
    BY <2>2, <2>5, <2>6, <2>7, <2>8, <2>9 DEF Copying
<1> QED
  BY <1>5, <1>6, <1>7

LEMMA StackCopy ==
  ASSUME PrivateInv, CopyInv, NEW e \in Envs, NewStack(e)
  PROVE  CopyInv'
<1> USE DEF PrivateInv, CopyInv
<1>1. PICK c \in Envs, p \in Pages, E \in Entries, r \in Forks :
        StackEffect(e, c, p, E, r)
  BY StackStep
<1>2. /\ op[e] # None /\ op[e].at = "stack"
      /\ c = op[e].child /\ c # e /\ status[c] = "forking" /\ status[e] = "ready"
      /\ Mapped(e, Stack)
      /\ \A x \in Envs, b \in Addrs : Mapped(x, b) => pt[x][b].page # p
      /\ \A x \in Envs : fault[x] # None => fault[x].page # p
      /\ E # None /\ E.page = p /\ E.perm = {"W"}
      /\ \A x \in Envs, b \in Addrs : pt'[x][b] = IF x = c /\ b = Stack THEN E ELSE pt[x][b]
      /\ \A q \in Pages : q # p => mem'[q] = mem[q]
      /\ r # None /\ r.child = c /\ r.todo = op[e].todo /\ r.at \in {"start", "stuck"}
      /\ r.at = "start" => mem'[p] = mem[pt[e][Stack].page]
      /\ \A x \in Envs : op'[x] = IF x = e THEN r ELSE op[x]
      /\ UNCHANGED <<status, handler, fault, partial>>
  BY <1>1 DEF StackEffect
<1>3. \A x \in Envs, b \in Addrs : Mapped(x, b) => mem'[pt[x][b].page] = mem[pt[x][b].page]
  BY <1>2, MappedEntry
<1>4. \A x \in Envs, b \in Addrs : Mapped(x, b)' <=> Mapped(x, b) \/ (x = c /\ b = Stack)
  BY <1>2 DEF Mapped
<1>5. OnePlace'
  <2>1. \A f, x \in Envs, b, d \in Addrs :
          Mapped(f, b)' /\ Mapped(x, d)' /\ pt'[f][b].page = pt'[x][d].page => b = d
    BY <1>2, <1>4 DEF OnePlace
  <2>2. \A x \in Envs, b \in Addrs : Mapped(x, b)' =>
       /\ "SHARE" \in pt'[x][b].perm <=> b \in Shared
       /\ b \in Shared => "W" \in pt'[x][b].perm
    BY <1>2, <1>4, StackPlain DEF OnePlace
  <2>3. \A f, x \in Envs, b \in Shared :
       Mapped(f, b)' /\ Mapped(x, b)' => pt'[f][b].page = pt'[x][b].page
    <3>1. Shared \subseteq Addrs
      BY DEF Addrs
    <3> QED
      BY <1>2, <1>4, <3>1, StackPlain DEF OnePlace
  <2> QED
    BY <2>1, <2>2, <2>3 DEF OnePlace
<1>6. FaultCopy'
  <2> SUFFICES ASSUME NEW x \in Envs, fault[x] # None
               PROVE  mem'[fault[x].page] = mem'[pt'[x][fault[x].addr].page]
    BY <1>2 DEF FaultCopy
  <2>1. /\ fault[x].addr \in Addrs /\ fault[x].page \in Pages /\ x # c
        /\ Mapped(x, fault[x].addr)
    BY <1>2 DEF TypeOK, PageFaults, Parties
  <2>2. pt'[x][fault[x].addr] = pt[x][fault[x].addr]
    BY <1>2, <2>1
  <2> QED
    BY <1>2, <1>3, <2>1, <2>2 DEF FaultCopy
<1>7. Copying'
  <2>1. \A x \in Envs : op[x] # None => op[x].child \in Envs /\ x # c
    BY <1>2, ForkParts
  <2>c. \A x \in Envs : op[x] # None /\ x # e => op[x].child # c
    BY <1>2 DEF Parties
  <2>2. \A x \in Envs : status'[x] = "ready" /\ x \notin partial' => MappedIn(x)' = Addrs
    BY <1>2, <1>4 DEF Copying, MappedIn
  <2>3. \A x \in Envs, b \in Addrs : HalfDone(x, b)' => HalfDone(x, b) /\ x # e
    BY <1>2 DEF HalfDone
  <2>4. \A x \in Envs : op'[x] # None =>
          /\ op[x] # None /\ op'[x].child = op[x].child /\ op[x].child \in Envs
          /\ op'[x].todo = op[x].todo /\ x # c
    BY <1>2, <2>1
  <2>5. ASSUME NEW x \in Envs, NEW b \in Addrs, op'[x] # None,
               Mapped(op[x].child, b)', b # Stack
        PROVE  Mapped(x, b)' /\ pt'[op'[x].child][b].page = pt'[x][b].page
    <3>1. Mapped(op[x].child, b)
      BY <1>4, <2>4, <2>5
    <3>2. Mapped(x, b) /\ pt[op[x].child][b].page = pt[x][b].page
      BY <2>4, <2>5, <3>1 DEF Copying
    <3> QED
      BY <1>2, <1>4, <2>4, <2>5, <3>2
  <2>6. ASSUME NEW x \in Envs, NEW b \in Addrs, op'[x] # None, op'[x].child \notin partial',
               b \notin op'[x].todo \/ HalfDone(x, b)'
        PROVE  Mapped(op[x].child, b)'
    <3>1. b \notin op[x].todo \/ HalfDone(x, b)
      BY <2>3, <2>4, <2>6
    <3>2. Mapped(op[x].child, b)
      BY <1>2, <2>4, <2>6, <3>1 DEF Copying
    <3> QED
      BY <1>4, <2>4, <2>6, <3>2
  <2>7. ASSUME NEW x \in Envs, op'[x] # None, op'[x].at = "start"
        PROVE  /\ Mapped(x, Stack)' /\ Mapped(op[x].child, Stack)'
               /\ mem'[pt'[op'[x].child][Stack].page] = mem'[pt'[x][Stack].page]
    <3>1. CASE x = e
      <4>1. pt'[c][Stack] = E /\ pt'[e][Stack] = pt[e][Stack] /\ op'[e] = r
        BY <1>2, StackPlain
      <4>2. mem'[p] = mem[pt[e][Stack].page] /\ mem'[pt[e][Stack].page] = mem[pt[e][Stack].page]
        BY <1>2, <1>3, <2>7, <3>1, <4>1, StackPlain
      <4> QED
        BY <1>2, <3>1, <4>1, <4>2 DEF Mapped
    <3>2. CASE x # e
      <4>1. op'[x] = op[x] /\ op[x].child \in Envs /\ x # c /\ op[x].child # c
        BY <1>2, <2>1, <2>c, <2>7, <3>2
      <4>2. pt'[x][Stack] = pt[x][Stack] /\ pt'[op[x].child][Stack] = pt[op[x].child][Stack]
        BY <1>2, <4>1, StackPlain
      <4>3. /\ Mapped(op[x].child, Stack) /\ Mapped(x, Stack)
            /\ mem[pt[op[x].child][Stack].page] = mem[pt[x][Stack].page]
        BY <2>7, <4>1 DEF Copying
      <4>4. /\ mem'[pt[op[x].child][Stack].page] = mem[pt[op[x].child][Stack].page]
            /\ mem'[pt[x][Stack].page] = mem[pt[x][Stack].page]
        BY <1>3, <4>1, <4>3, StackPlain
      <4> QED
        BY <4>1, <4>2, <4>3, <4>4 DEF Mapped
    <3> QED
      BY <3>1, <3>2
  <2>8. \A x \in Envs, b \in Addrs : HalfDone(x, b)' => b \notin Shared
    BY <2>3 DEF Copying
  <2>9. \A x \in Envs : op'[x] # None /\ op'[x].at \in {"stack", "start"} => op'[x].todo = {}
    BY <1>2 DEF Copying
  <2> QED
    BY <2>2, <2>5, <2>6, <2>7, <2>8, <2>9 DEF Copying
<1> QED
  BY <1>5, <1>6, <1>7

\* Steps of fork that change no mapping
LEMMA OpCopy ==
  ASSUME PrivateInv, CopyInv, NEW e \in Envs, op[e] # None, NEW r \in Forks,
         op' = [op EXCEPT ![e] = r], r.child = op[e].child, r.at # "start",
         \A a \in Addrs : r.at = "own" /\ IsNext(a, r.todo) => a \notin Shared,
         r.at = "stack" => r.todo = {},
         partial \subseteq partial',
         \A a \in Addrs :
           op[e].child \notin partial' /\ (a \notin r.todo \/ HalfDone(e, a)') =>
             a \notin op[e].todo \/ HalfDone(e, a),
         UNCHANGED <<status, pt, mem, fault>>
  PROVE  CopyInv'
<1> USE DEF PrivateInv, CopyInv
<1>1. /\ r # None
      /\ \A x \in Envs : op'[x] = IF x = e THEN r ELSE op[x]
  BY OpMoves
<1>2. \A x \in Envs : op'[x] # None =>
        /\ op[x] # None /\ op'[x].child = op[x].child /\ op[x].child \in Envs
  BY <1>1, ForkParts
<1>3. \A x \in Envs, b \in Addrs : Mapped(x, b)' <=> Mapped(x, b)
  BY DEF Mapped
<1>4. \A x \in Envs, b \in Addrs : HalfDone(x, b)' /\ x # e => HalfDone(x, b)
  BY <1>1 DEF HalfDone
<1>5. OnePlace' /\ FaultCopy'
  BY DEF OnePlace, FaultCopy, Mapped
<1>6. \A x \in Envs : status'[x] = "ready" /\ x \notin partial' => MappedIn(x)' = Addrs
  BY <1>3 DEF Copying, MappedIn
<1>7. \A x \in Envs, b \in Addrs :
        op'[x] # None /\ Mapped(op[x].child, b)' /\ b # Stack =>
          Mapped(x, b)' /\ pt'[op'[x].child][b].page = pt'[x][b].page
  BY <1>2, <1>3 DEF Copying
<1>8. ASSUME NEW x \in Envs, NEW b \in Addrs, op'[x] # None, op'[x].child \notin partial',
             b \notin op'[x].todo \/ HalfDone(x, b)'
      PROVE  Mapped(op[x].child, b)'
  <2>1. op[x].child \notin partial'
    BY <1>2, <1>8
  <2>2. b \notin op[x].todo \/ HalfDone(x, b)
    BY <1>1, <1>4, <1>8, <2>1
  <2>3. Mapped(op[x].child, b)
    BY <1>2, <1>8, <2>1, <2>2 DEF Copying
  <2> QED
    BY <1>2, <1>3, <1>8, <2>3
<1>9. \A x \in Envs : op'[x] # None /\ op'[x].at = "start" =>
       /\ Mapped(x, Stack)' /\ Mapped(op[x].child, Stack)'
       /\ mem'[pt'[op'[x].child][Stack].page] = mem'[pt'[x][Stack].page]
  BY <1>1, <1>2, <1>3, StackPlain DEF Copying
<1>10. \A x \in Envs, b \in Addrs : HalfDone(x, b)' => b \notin Shared
  BY <1>1, <1>4 DEF Copying, HalfDone
<1>11. \A x \in Envs : op'[x] # None /\ op'[x].at \in {"stack", "start"} => op'[x].todo = {}
  BY <1>1 DEF Copying
<1>12. Copying'
  BY <1>6, <1>7, <1>8, <1>9, <1>10, <1>11 DEF Copying
<1> QED
  BY <1>5, <1>12

LEMMA FailsCopy ==
  ASSUME PrivateInv, CopyInv, NEW e \in Envs, duppage_fails(e)
  PROVE  CopyInv'
<1>1. PICK a \in Addrs, r \in Forks :
        /\ op[e] # None /\ op[e].at = "child" /\ IsNext(a, op[e].todo) /\ Mapped(e, a)
        /\ op' = [op EXCEPT ![e] = r] /\ r.child = op[e].child
        /\ IF IsPrivate(pt[e][a].perm) THEN r.at = "own" /\ r.todo = op[e].todo
           ELSE r.at = "child" /\ r.todo = op[e].todo \ {a}
        /\ partial' = partial \cup {op[e].child}
        /\ UNCHANGED <<status, pt, mem, handler, fault>>
  BY FailsStep
<1>2. ASSUME NEW b \in Addrs, r.at = "own", IsNext(b, r.todo) PROVE b \notin Shared
  <2>1. IsPrivate(pt[e][a].perm) /\ IsNext(b, op[e].todo) /\ op[e].todo \in SUBSET Addrs
    BY <1>1, <1>2, ForkParts DEF PrivateInv
  <2>2. b = a
    BY <1>1, <2>1, NextIsOne
  <2> QED
    BY <1>1, <2>1, <2>2 DEF IsPrivate, CopyInv, OnePlace
<1>3. r.at \in {"own", "child"} /\ partial \subseteq partial' /\ op[e].child \in partial'
  BY <1>1
<1>4. r.at # "start" /\ r.at # "stack"
  BY <1>3
<1>5. \A b \in Addrs : r.at = "own" /\ IsNext(b, r.todo) => b \notin Shared
  BY <1>2
<1>6. op[e] # None /\ op' = [op EXCEPT ![e] = r] /\ r.child = op[e].child
  BY <1>1
<1>7. UNCHANGED <<status, pt, mem, fault>>
  BY <1>1
<1> QED
  BY <1>3, <1>4, <1>5, <1>6, <1>7, OpCopy, Zenon

LEMMA XstackCopy ==
  ASSUME PrivateInv, CopyInv, NEW e \in Envs, fork_xstack(e)
  PROVE  CopyInv'
<1>1. /\ op[e] # None /\ op[e].at = "child" /\ op[e].todo = {}
      /\ op' = [op EXCEPT ![e].at = "stack"]
      /\ UNCHANGED <<status, pt, mem, fault, partial>>
  BY DEF fork_xstack, InFork
<1>2. PICK r \in Forks : /\ op' = [op EXCEPT ![e] = r]
                         /\ r.at = "stack" /\ r.child = op[e].child /\ r.todo = op[e].todo
  BY <1>1, PlaceStep DEF Places
<1>3. \A a \in Addrs : a \notin op[e].todo
  BY <1>1
<1>4. r.at # "start" /\ r.at # "own" /\ r.todo = {}
  BY <1>1, <1>2
<1>5. UNCHANGED <<status, pt, mem, fault>> /\ partial \subseteq partial'
  BY <1>1
<1> QED
  BY <1>1, <1>2, <1>3, <1>4, <1>5, OpCopy, Zenon

LEMMA StuckCopy ==
  ASSUME PrivateInv, CopyInv, NEW e \in Envs, fork_stuck(e), UNCHANGED pt
  PROVE  CopyInv'
<1>1. /\ op[e] # None /\ op[e].at = "stack" /\ op' = [op EXCEPT ![e].at = "stuck"]
      /\ UNCHANGED <<status, mem, fault, partial>>
  BY DEF fork_stuck, InFork
<1>2. PICK r \in Forks : /\ op' = [op EXCEPT ![e] = r]
                         /\ r.at = "stuck" /\ r.child = op[e].child /\ r.todo = op[e].todo
  BY <1>1, PlaceStep DEF Places
<1>3. \A a \in Addrs : a \notin op[e].todo
  BY <1>1 DEF CopyInv, Copying
<1>4. r.at # "start" /\ r.at # "own" /\ r.at # "stack"
  BY <1>2
<1>5. UNCHANGED <<status, pt, mem, fault>> /\ partial \subseteq partial'
  BY <1>1
<1> QED
  BY <1>1, <1>2, <1>3, <1>4, <1>5, OpCopy, Zenon

LEMMA StartCopy ==
  ASSUME PrivateInv, CopyInv, NEW e \in Envs, fork_start(e)
  PROVE  CopyInv'
<1> USE DEF PrivateInv, CopyInv
<1>1. /\ op[e] # None /\ op[e].at = "start" /\ UNCHANGED <<pt, mem, fault, partial>>
  BY DEF fork_start, InFork
<1>2. PICK c \in Envs : c = op[e].child
  BY <1>1, ForkParts
<1>3. /\ \A x \in Envs : op'[x] = IF x = e THEN None ELSE op[x]
      /\ \A x \in Envs : status'[x] = IF x = c THEN "ready" ELSE status[x]
  BY <1>2 DEF fork_start, TypeOK
<1>4. c \notin partial => MappedIn(c) = Addrs
  BY <1>1, <1>2 DEF Copying, MappedIn
<1>5. OnePlace' /\ FaultCopy'
  BY <1>1 DEF OnePlace, FaultCopy, Mapped
<1>6. Copying'
  <2>1. \A x \in Envs, b \in Addrs : HalfDone(x, b)' => HalfDone(x, b)
    BY <1>3 DEF HalfDone
  <2> QED
    BY <1>1, <1>3, <1>4, <2>1 DEF Copying, Mapped, MappedIn
<1> QED
  BY <1>5, <1>6

LEMMA NextCopy ==
  ASSUME VisitsAll, PrivateInv, CopyInv, [Next]_vars
  PROVE  CopyInv'
<1>1. CASE UNCHANGED vars
  BY <1>1 DEF vars, CopyInv, OnePlace, FaultCopy, Copying, Mapped, MappedIn, HalfDone
<1>2. CASE Next
  <2>1. ASSUME NEW e \in Envs, fork_stack(e) \/ fork_stuck(e) PROVE CopyInv'
    BY <2>1, StackCopy, StuckCopy DEF fork_stack, fork_stuck, NewStack
  <2> QED
    BY <1>2, <2>1, DestroyCopy, FaultCopyStep, FaultMapCopy, WriteCopy, ForkCopy,
       DuppageCopy, FailsCopy, DuppageOwnCopy, XstackCopy, StartCopy DEF Next
<1> QED
  BY <1>1, <1>2
-----------------------------------------------------------------------------
\* Memory that is copied late looks like memory that was copied at once.

LEMMA ViewOf == \A x \in Envs : view[x] = Memory(x)
  BY DEF view

\* What an environment that runs sees, and where there is something
LEMMA ReadyMemory ==
  ASSUME PrivateInv, NEW x \in Envs, status[x] = "ready"
  PROVE  /\ Memory(x) = [a \in Addrs |-> IF Mapped(x, a) THEN mem[pt[x][a].page] ELSE None]
         /\ Memory(x) \in [Addrs -> Values \cup {None}] /\ Memory(x) # None
         /\ \A a \in Addrs : Memory(x)[a] # None <=> Mapped(x, a)
<1> USE DEF PrivateInv
<1>1. \A a \in Addrs : Mapped(x, a) => mem[pt[x][a].page] \in Values
  BY MappedEntry DEF TypeOK
<1>2. Memory(x) = [a \in Addrs |-> IF Mapped(x, a) THEN mem[pt[x][a].page] ELSE None]
  BY DEF Memory
<1>3. Memory(x) \in [Addrs -> Values \cup {None}]
  BY <1>1, <1>2
<1>4. \A a \in Addrs : Memory(x)[a] # None <=> Mapped(x, a)
  BY <1>1, <1>2, ForkAssumption
<1> QED
  BY <1>2, <1>3, <1>4, ForkAssumption

\* A step that leaves the pages of those who run in place, with what is in
\* them, is not seen by anybody.
LEMMA Unseen ==
  ASSUME \A x \in Envs : status[x] = "ready" <=> status'[x] = "ready",
         \A x \in Envs, b \in Addrs : status[x] = "ready" =>
           /\ Mapped(x, b)' <=> Mapped(x, b)
           /\ Mapped(x, b) => mem'[pt'[x][b].page] = mem[pt[x][b].page]
  PROVE  view' = view
<1>1. ASSUME NEW x \in Envs PROVE Memory(x)' = Memory(x)
  <2>1. CASE status[x] = "ready"
    <3>1. Memory(x) = [a \in Addrs |-> IF Mapped(x, a) THEN mem[pt[x][a].page] ELSE None]
      BY <2>1 DEF Memory
    <3>2. Memory(x)' = [a \in Addrs |-> IF Mapped(x, a)' THEN mem'[pt'[x][a].page] ELSE None]
      BY <2>1 DEF Memory
    <3> QED
      BY <2>1, <3>1, <3>2
  <2>2. CASE status[x] # "ready"
    BY <2>2 DEF Memory
  <2> QED
    BY <2>1, <2>2
<1> QED
  BY <1>1 DEF view

LEMMA FaultUnseen ==
  ASSUME PrivateInv, NEW e \in Envs, NEW a \in Addrs, pgfault(e, a)
  PROVE  view' = view /\ partial' = partial
<1> USE DEF PrivateInv
<1>1. HasMemory /\ UNCHANGED <<status, pt, partial>>
  BY DEF pgfault
<1>2. PICK p \in Pages : p = page_alloc
  BY <1>1, NewPage
<1>3. \A x \in Envs, b \in Addrs : Mapped(x, b) => pt[x][b].page # p
  BY <1>1, <1>2, NewPage
<1>4. \A q \in Pages : q # p => mem'[q] = mem[q]
  BY <1>2 DEF pgfault, Copy, TypeOK
<1>5. \A x \in Envs, b \in Addrs : Mapped(x, b) => mem'[pt[x][b].page] = mem[pt[x][b].page]
  BY <1>3, <1>4, MappedEntry
<1>6. \A x \in Envs, b \in Addrs : Mapped(x, b)' <=> Mapped(x, b)
  BY <1>1 DEF Mapped
<1> QED
  BY <1>1, <1>5, <1>6, Unseen

LEMMA FaultMapUnseen ==
  ASSUME PrivateInv, CopyInv, NEW e \in Envs, pgfault_map(e)
  PROVE  view' = view /\ partial' = partial
<1> USE DEF PrivateInv, CopyInv
<1>1. /\ fault[e] # None /\ UNCHANGED <<status, mem, partial>>
      /\ pt' = [pt EXCEPT ![e][fault[e].addr] = Entry(fault[e].page, {"W"})]
  BY DEF pgfault_map
<1>2. PICK a \in Addrs, p \in Pages : a = fault[e].addr /\ p = fault[e].page
  BY <1>1 DEF TypeOK, PageFaults
<1>3. PICK E : E = Entry(p, {"W"})
  OBVIOUS
<1>4. E \in Entries /\ E # None /\ E.page = p
  BY <1>3, EntryParts DEF Bits
<1>5. \A x \in Envs, b \in Addrs : pt'[x][b] = IF x = e /\ b = a THEN E ELSE pt[x][b]
  BY <1>1, <1>2, <1>3, <1>4, OneEntry
<1>6. Mapped(e, a) /\ mem[p] = mem[pt[e][a].page]
  BY <1>1, <1>2 DEF FaultCopy, Parties
<1>7. \A x \in Envs, b \in Addrs : Mapped(x, b)' <=> Mapped(x, b)
  BY <1>4, <1>5, <1>6 DEF Mapped
<1>8. \A x \in Envs, b \in Addrs : mem'[pt'[x][b].page] = mem[pt[x][b].page]
  BY <1>1, <1>4, <1>5, <1>6
<1> QED
  BY <1>1, <1>7, <1>8, Unseen

\* Nobody sees a child before it runs.
LEMMA ForkUnseen ==
  ASSUME PrivateInv, NEW e \in Envs, NEW c \in Envs, fork(e, c)
  PROVE  view' = view /\ (partial' = partial \/ Eager!RunOut(c))
<1>1. /\ status[c] = "unused" /\ UNCHANGED <<pt, mem>>
      /\ partial' = partial \/ partial' = partial \cup {c}
      /\ \A x \in Envs : status'[x] = IF x = c THEN "forking" ELSE status[x]
  BY DEF fork, PrivateInv, TypeOK
<1>2. \A x \in Envs, b \in Addrs : Mapped(x, b)' <=> Mapped(x, b)
  BY <1>1 DEF Mapped
<1>3. view' = view
  BY <1>1, <1>2, Unseen
<1>4. view[c] = None
  BY <1>1, ViewOf DEF Memory
<1> QED
  BY <1>1, <1>3, <1>4 DEF Eager!RunOut

LEMMA DuppageUnseen ==
  ASSUME PrivateInv, NEW e \in Envs, duppage(e)
  PROVE  view' = view /\ partial' = partial
<1>1. PICK a \in Addrs, c \in Envs, E \in Entries, r \in Forks :
        DuppageEffect(e, a, c, E, r)
  BY DuppageStep
<1>2. /\ status[c] = "forking" /\ UNCHANGED <<status, mem, partial>>
      /\ \A x \in Envs, b \in Addrs : pt'[x][b] = IF x = c /\ b = a THEN E ELSE pt[x][b]
  BY <1>1 DEF DuppageEffect
<1>3. \A x \in Envs, b \in Addrs : status[x] = "ready" =>
        pt'[x][b] = pt[x][b] /\ (Mapped(x, b)' <=> Mapped(x, b))
  BY <1>2 DEF Mapped
<1> QED
  BY <1>2, <1>3, Unseen

LEMMA FailsUnseen ==
  ASSUME PrivateInv, NEW e \in Envs, duppage_fails(e)
  PROVE  \E c \in Envs : Eager!RunOut(c)
<1>1. PICK c \in Envs :
        /\ status[c] = "forking" /\ partial' = partial \cup {c}
        /\ UNCHANGED <<status, pt, mem>>
  BY FailsStep
<1>2. \A x \in Envs, b \in Addrs : Mapped(x, b)' <=> Mapped(x, b)
  BY <1>1 DEF Mapped
<1>3. view' = view
  BY <1>1, <1>2, Unseen
<1>4. view[c] = None
  BY <1>1, ViewOf DEF Memory
<1> QED
  BY <1>1, <1>3, <1>4 DEF Eager!RunOut

LEMMA DuppageOwnUnseen ==
  ASSUME PrivateInv, NEW e \in Envs, duppage_own(e)
  PROVE  view' = view /\ partial' = partial
<1>1. PICK a \in Addrs, E \in Entries, r \in Forks : OwnEffect(e, a, E, r)
  BY DuppageOwnStep
<1>2. /\ E.page = pt[e][a].page /\ E # None /\ Mapped(e, a) /\ UNCHANGED <<status, mem, partial>>
      /\ \A x \in Envs, b \in Addrs : pt'[x][b] = IF x = e /\ b = a THEN E ELSE pt[x][b]
  BY <1>1 DEF OwnEffect
<1>3. \A x \in Envs, b \in Addrs :
        pt'[x][b].page = pt[x][b].page /\ (Mapped(x, b)' <=> Mapped(x, b))
  BY <1>2 DEF Mapped
<1> QED
  BY <1>2, <1>3, Unseen

LEMMA StackUnseen ==
  ASSUME PrivateInv, NEW e \in Envs, NewStack(e)
  PROVE  view' = view /\ partial' = partial
<1>1. PICK c \in Envs, p \in Pages, E \in Entries, r \in Forks :
        StackEffect(e, c, p, E, r)
  BY StackStep
<1>2. /\ status[c] = "forking" /\ UNCHANGED <<status, partial>>
      /\ \A x \in Envs, b \in Addrs : Mapped(x, b) => pt[x][b].page # p
      /\ \A x \in Envs, b \in Addrs : pt'[x][b] = IF x = c /\ b = Stack THEN E ELSE pt[x][b]
      /\ \A q \in Pages : q # p => mem'[q] = mem[q]
  BY <1>1 DEF StackEffect
<1>3. \A x \in Envs, b \in Addrs : status[x] = "ready" =>
        pt'[x][b] = pt[x][b] /\ (Mapped(x, b)' <=> Mapped(x, b))
  BY <1>2 DEF Mapped
<1>4. \A x \in Envs, b \in Addrs : Mapped(x, b) => mem'[pt[x][b].page] = mem[pt[x][b].page]
  BY <1>2, MappedEntry DEF PrivateInv
<1> QED
  BY <1>2, <1>3, <1>4, Unseen

\* Steps of fork that change no mapping
LEMMA PlaceUnseen ==
  ASSUME UNCHANGED <<status, pt, mem>>
  PROVE  view' = view
<1>1. \A x \in Envs, b \in Addrs : Mapped(x, b)' <=> Mapped(x, b)
  BY DEF Mapped
<1> QED
  BY <1>1, Unseen

\* A write is seen by the one who writes and, where the page is meant to be
\* shared, by all who have it.
LEMMA WriteSeen ==
  ASSUME PrivateInv, CopyInv, NEW e \in Envs, NEW a \in Addrs, NEW v \in Values,
         write(e, a, v)
  PROVE  Eager!Write(e, a, v)
<1> USE DEF PrivateInv, CopyInv
<1>1. /\ status[e] = "ready" /\ Mapped(e, a) /\ UNCHANGED <<status, pt, partial>>
  BY DEF write, Has, Runs
<1>2. PICK p \in Pages : p = pt[e][a].page
  BY <1>1, MappedEntry
<1>3. \A q \in Pages : mem'[q] = IF q = p THEN v ELSE mem[q]
  BY <1>2 DEF write, TypeOK
<1>4. ASSUME NEW x \in Envs
      PROVE  Memory(x)' = IF (x = e \/ a \in Shared) /\ Memory(x) # None /\ Memory(x)[a] # None
                            THEN [Memory(x) EXCEPT ![a] = v] ELSE Memory(x)
  <2>1. CASE status[x] # "ready"
    <3>1. Memory(x) = None /\ Memory(x)' = None
      BY <1>1, <2>1 DEF Memory
    <3> QED
      BY <3>1
  <2>2. CASE status[x] = "ready"
    <3>1. /\ Memory(x) = [b \in Addrs |-> IF Mapped(x, b) THEN mem[pt[x][b].page] ELSE None]
          /\ Memory(x) # None
          /\ Memory(x)[a] # None <=> Mapped(x, a)
      BY <2>2, ReadyMemory
    <3>2. \A b \in Addrs : Mapped(x, b) => pt[x][b].page \in Pages
      BY MappedEntry
    <3>3. Memory(x)' = [b \in Addrs |-> IF Mapped(x, b) THEN mem'[pt[x][b].page] ELSE None]
      BY <1>1, <2>2 DEF Memory, Mapped
    <3>4. CASE (x = e \/ a \in Shared) /\ Mapped(x, a)
      <4>1. pt[x][a].page = p
        BY <1>1, <1>2, <3>4 DEF OnePlace
      <4>2. \A b \in Addrs : b # a /\ Mapped(x, b) => pt[x][b].page # p
        BY <1>1, <1>2 DEF OnePlace
      <4>3. \A b \in Addrs : Mapped(x, b) =>
              mem'[pt[x][b].page] = IF b = a THEN v ELSE mem[pt[x][b].page]
        BY <1>3, <3>2, <4>1, <4>2
      <4>4. Memory(x)' = [Memory(x) EXCEPT ![a] = v]
        BY <3>1, <3>3, <3>4, <4>3
      <4> QED
        BY <3>1, <3>4, <4>4
    <3>5. CASE ~((x = e \/ a \in Shared) /\ Mapped(x, a))
      <4>1. \A b \in Addrs : Mapped(x, b) => pt[x][b].page # p
        BY <1>1, <1>2, <3>5, WriteHits
      <4>2. \A b \in Addrs : Mapped(x, b) => mem'[pt[x][b].page] = mem[pt[x][b].page]
        BY <1>3, <3>2, <4>1
      <4>3. Memory(x)' = Memory(x)
        BY <3>1, <3>3, <4>2
      <4> QED
        BY <3>1, <3>5, <4>3
    <3> QED
      BY <3>4, <3>5
  <2> QED
    BY <2>1, <2>2
<1>5. Memory(e) # None /\ Memory(e)[a] # None
  BY <1>1, ReadyMemory
<1>6. view' = [x \in Envs |->
        IF (x = e \/ a \in Shared) /\ view[x] # None /\ view[x][a] # None
          THEN [view[x] EXCEPT ![a] = v] ELSE view[x]]
  BY <1>4 DEF view
<1> QED
  BY <1>1, <1>5, <1>6, ViewOf DEF Eager!Write

\* The child's memory at its first step is its parent's, or what it has of it.
LEMMA StartSeen ==
  ASSUME PrivateInv, CopyInv, NEW e \in Envs, fork_start(e)
  PROVE  \E c \in Envs, K \in SUBSET Addrs : Eager!Fork(e, c, K)
<1> USE DEF PrivateInv, CopyInv
<1>1. /\ op[e] # None /\ op[e].at = "start" /\ status[e] = "ready"
      /\ UNCHANGED <<pt, mem, partial>>
  BY DEF fork_start, InFork, Runs
<1>2. PICK c \in Envs : c = op[e].child
  BY <1>1, ForkParts
<1>3. status[c] = "forking" /\ c # e
  BY <1>1, <1>2, ForkParts
<1>4. \A x \in Envs : status'[x] = IF x = c THEN "ready" ELSE status[x]
  BY <1>2 DEF fork_start, TypeOK
<1>5. /\ Memory(e) = [a \in Addrs |-> IF Mapped(e, a) THEN mem[pt[e][a].page] ELSE None]
      /\ Memory(e) # None
  BY <1>1, ReadyMemory
<1>6. Memory(c) = None
  BY <1>3 DEF Memory
<1>7. PICK K \in SUBSET Addrs : K = MappedIn(c)
  BY DEF MappedIn
<1>8. c \notin partial => K = Addrs
  BY <1>1, <1>2, <1>7 DEF Copying, MappedIn
<1>9. \A a \in Addrs : Mapped(c, a) => Mapped(e, a) /\ mem[pt[c][a].page] = mem[pt[e][a].page]
  BY <1>1, <1>2 DEF Copying
<1>10. Memory(c)' = [a \in Addrs |-> IF a \in K THEN Memory(e)[a] ELSE None]
  <2>1. Memory(c)' = [a \in Addrs |-> IF Mapped(c, a) THEN mem[pt[c][a].page] ELSE None]
    BY <1>1, <1>4 DEF Memory, Mapped
  <2>2. \A a \in Addrs : a \in K <=> Mapped(c, a)
    BY <1>7 DEF MappedIn
  <2>3. \A a \in Addrs : Mapped(e, a) => Memory(e)[a] = mem[pt[e][a].page]
    BY <1>5
  <2> QED
    BY <1>9, <2>1, <2>2, <2>3
<1>11. \A x \in Envs : x # c => Memory(x)' = Memory(x)
  BY <1>1, <1>4 DEF Memory, Mapped
<1>12. view' = [view EXCEPT ![c] = [a \in Addrs |-> IF a \in K THEN view[e][a] ELSE None]]
  BY <1>10, <1>11 DEF view
<1>13. Eager!Fork(e, c, K)
  BY <1>1, <1>5, <1>6, <1>8, <1>12, ViewOf DEF Eager!Fork
<1> QED
  BY <1>13

LEMMA DestroySeen ==
  ASSUME PrivateInv, NEW e \in Envs, env_destroy(e)
  PROVE  Eager!Exit(e)
<1>1. /\ mem' = mem /\ partial' = partial
      /\ \A x \in Envs : status'[x] = IF x = e THEN "gone" ELSE status[x]
      /\ \A x \in Envs, b \in Addrs : pt'[x][b] = IF x = e THEN None ELSE pt[x][b]
  BY DEF env_destroy, Gone, PrivateInv, TypeOK
<1>2. Memory(e)' = None
  BY <1>1 DEF Memory
<1>3. ASSUME NEW x \in Envs, x # e PROVE Memory(x)' = Memory(x)
  BY <1>1, <1>3 DEF Memory, Mapped
<1> QED
  BY <1>1, <1>2, <1>3 DEF Eager!Exit, view

LEMMA InitSeen == Init => Eager!Init
<1> SUFFICES ASSUME Init PROVE Eager!Init
  OBVIOUS
<1>1. PrivateInv /\ CopyInv
  BY InitPrivate, InitCopy
<1>2. /\ Boot \in Envs /\ partial = {}
      /\ status = [e \in Envs |-> IF e = Boot THEN "ready" ELSE "unused"]
  BY ForkAssumption DEF Init
<1>3. \A a \in Addrs : Mapped(Boot, a) /\ mem[pt[Boot][a].page] \in Values
  BY <1>1, <1>2, MappedEntry DEF PrivateInv, TypeOK, CopyInv, Copying, MappedIn
<1>4. Memory(Boot) \in [Addrs -> Values]
  BY <1>1, <1>2, <1>3, ReadyMemory
<1>5. view = [e \in Envs |-> IF e = Boot THEN Memory(Boot) ELSE None]
  BY <1>2 DEF view, Memory
<1> QED
  BY <1>2, <1>4, <1>5 DEF Eager!Init

LEMMA NextSeen ==
  ASSUME PrivateInv, CopyInv, [Next]_vars
  PROVE  [Eager!Next]_<<view, partial>>
<1>1. CASE UNCHANGED vars
  BY <1>1, PlaceUnseen DEF vars
<1>2. CASE Next
  <2>1. ASSUME NEW e \in Envs,
               \/ \E a \in Addrs : pgfault(e, a)
               \/ pgfault_map(e)
               \/ duppage(e) \/ duppage_own(e)
        PROVE  view' = view /\ partial' = partial
    BY <2>1, FaultUnseen, FaultMapUnseen, DuppageUnseen, DuppageOwnUnseen
  <2>2. ASSUME NEW e \in Envs, fork_xstack(e) \/ fork_stack(e) \/ fork_stuck(e)
        PROVE  view' = view /\ partial' = partial
    BY <2>2, StackUnseen, PlaceUnseen DEF fork_xstack, fork_stack, fork_stuck, NewStack
  <2>3. ASSUME NEW e \in Envs, NEW c \in Envs, fork(e, c)
        PROVE  (view' = view /\ partial' = partial) \/ Eager!Next
    BY <2>3, ForkUnseen DEF Eager!Next
  <2>4. ASSUME NEW e \in Envs,
               \/ \E a \in Addrs, v \in Values : write(e, a, v)
               \/ fork_start(e)
               \/ duppage_fails(e)
               \/ env_destroy(e)
        PROVE  Eager!Next
    BY <2>4, WriteSeen, StartSeen, FailsUnseen, DestroySeen DEF Eager!Next
  <2> QED
    BY <1>2, <2>1, <2>2, <2>3, <2>4 DEF Next
<1> QED
  BY <1>1, <1>2

\* Where fork's loop looks at every address of the layout, copy-on-write memory
\* behaves as if fork copied it all, for any number of environments and pages:
\* what a child has is its parent's memory, and it has all of it unless a map
\* failed in its fork, or in the fork of one it descends from.  Without the
\* hypothesis it does not: see CopiesAll.
THEOREM Refinement == ASSUME VisitsAll PROVE Spec => Implements
<1>1. Init => Eager!Init /\ CopyInv
  BY InitSeen, InitCopy
<1>2. PrivateInv /\ CopyInv /\ [Next]_vars => CopyInv'
  BY NextCopy
<1>3. PrivateInv /\ CopyInv /\ [Next]_vars => [Eager!Next]_<<view, partial>>
  BY NextSeen
<1> QED
  BY <1>1, <1>2, <1>3, PrivateInvariance, PTL DEF Spec, Implements, Eager!Spec
==============================================================================
