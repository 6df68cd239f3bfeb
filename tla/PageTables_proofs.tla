-------------------------- MODULE PageTables_proofs --------------------------
(***************************************************************************)
(* Proofs about physical pages and page tables, for any number of address  *)
(* spaces, pages and user addresses: no page in use is free, no table is a *)
(* user page, read-only pages stay so, and pages are lost only where the   *)
(* code is known to lose them.  The functions of pmap.c are taken one by   *)
(* one: what each may do to a memory is a lemma.                           *)
(***************************************************************************)
EXTENDS PageTables, FiniteSetTheorems, SequenceTheorems, TLAPS

EntryMaps == [Slots -> [Nodes -> Pages \cup {NoPage}]]

Mems == [free : SUBSET Pages, ref : [Pages -> 0..(REFS - 1)], entry : EntryMaps,
         writable : [Slots -> SUBSET VAs]]

\* The references to page p in a memory
Places(m, p) == {r \in Slots \X Nodes : m.entry[r[1]][r[2]] = p}
Count(m, p) == Cardinality(Places(m, p))

Counted(m) ==
  \A p \in Pages : /\ m.ref[p] >= Count(m, p)
                   /\ p \in m.free => m.ref[p] = 0

Private(m) ==
  \A e, f \in Slots, n \in Tables, x \in Nodes :
    m.entry[e][n] # NoPage /\ m.entry[f][x] = m.entry[e][n] => f = e /\ x = n

\* A right to write is a right to a page.
Present(m) == \A e \in Slots : \A va \in m.writable[e] : m.entry[e][va] # NoPage

Good(m) == m \in Mems /\ Counted(m) /\ Private(m) /\ Present(m)

\* A page in use that is no table
Plain(m, q) == q \notin m.free /\ \A e \in Slots, n \in Tables : m.entry[e][n] # q

\* How far m counts too much for q, as Surplus does
SurplusIn(m, q) ==
  (m.ref[q] - Count(m, q))
    + (IF q \notin m.free /\ m.ref[q] = 0 THEN 1 ELSE 0)

Keeps(m, k) == \A q \in Pages : SurplusIn(k, q) <= SurplusIn(m, q)
Short(m) == Cardinality(m.free) <= 1

\* What a walk may do: pages in use are left alone.  One that does not fail at
\* the top leaves the entries alone that there are.
Walked(m, k) ==
  /\ Good(k) /\ \A f \in Slots : k.writable[f] \subseteq m.writable[f]
  /\ \A q \in Pages : Plain(m, q) => Plain(k, q) /\ k.ref[q] = m.ref[q]
  /\ \A f \in Slots, x \in VAs : k.entry[f][x] \in {m.entry[f][x], NoPage}

Grown(m, k) ==
  /\ Walked(m, k)
  /\ \A f \in Slots, x \in Nodes : m.entry[f][x] # NoPage => k.entry[f][x] = m.entry[f][x]

WritableIn(m, q) == \E e \in Slots : \E va \in m.writable[e] : m.entry[e][va] = q
-----------------------------------------------------------------------------
\* Nodes of an address space

LEMMA Address ==
  ASSUME NEW va \in VAs
  PROVE  va \in Seq(Nat) /\ Len(va) = 4 /\ va[1] = 0
  BY PageTablesAssumption

LEMMA NodeLength ==
  ASSUME NEW va \in VAs, NEW k \in 0..4
  PROVE  Node(va, k) \in Seq(Nat) /\ Len(Node(va, k)) = k
<1>1. k \in Int /\ 1 \in Int /\ \A i \in 1..k : va[i] \in Nat
  BY Address
<1>2. SubSeq(va, 1, k) \in Seq(Nat) /\ Len(SubSeq(va, 1, k)) = IF 1 <= k THEN k - 1 + 1 ELSE 0
  BY <1>1, SubSeqProperties
<1>3. Node(va, k) \in Seq(Nat) /\ Len(Node(va, k)) = IF 1 <= k THEN k - 1 + 1 ELSE 0
  BY <1>2, Zenon DEF Node
<1> QED
  BY <1>3

LEMMA WholeNode ==
  ASSUME NEW s \in Seq(Nat), NEW k, k = Len(s)
  PROVE  Node(s, k) = s
  BY SubSeqFull DEF Node

LEMMA NoNode ==
  ASSUME NEW s
  PROVE  Node(s, 0) = Root
<1>1. 0 \in Int /\ 1 \in Int /\ 0 < 1
  OBVIOUS
<1> QED
  BY <1>1, SubSeqEmpty DEF Root, Node

LEMMA NodeFacts ==
  /\ IsFiniteSet(Nodes) /\ VAs \subseteq Nodes /\ Root \in Tables
  /\ \A va \in VAs, k \in 1..3 : Node(va, k) \in Tables
<1>1. \A va \in VAs, k \in 0..4 : Node(va, k) \in Nodes
  BY DEF Nodes
<1>2. IsFiniteSet(Nodes)
  <2> DEFINE f == [x \in VAs \X (0..4) |-> Node(x[1], x[2])]
  <2>1. IsFiniteSet(VAs \X (0..4))
    <3>1. IsFiniteSet(0..4)
      <4>1. 0 \in Int /\ 4 \in Int
        OBVIOUS
      <4> QED
        BY <4>1, FS_Interval
    <3>2. IsFiniteSet(VAs)
      BY PageTablesAssumption
    <3> QED
      BY <3>1, <3>2, FS_Product
  <2>2. f \in Surjection(VAs \X (0..4), Nodes)
    <3>1. f \in [VAs \X (0..4) -> Nodes]
      BY <1>1
    <3>2. ASSUME NEW n \in Nodes PROVE \E x \in VAs \X (0..4) : f[x] = n
      <4>1. PICK va \in VAs, k \in 0..4 : n = Node(va, k)
        BY DEF Nodes
      <4>2. <<va, k>> \in VAs \X (0..4) /\ f[<<va, k>>] = n
        BY <4>1
      <4> QED
        BY <4>2
    <3> QED
      BY <3>1, <3>2 DEF Surjection
  <2> QED
    BY <2>1, <2>2, FS_Surjection
<1>3. VAs \subseteq Nodes
  <2> SUFFICES ASSUME NEW va \in VAs PROVE va \in Nodes
    OBVIOUS
  <2>1. Node(va, 4) = va
    BY Address, WholeNode
  <2> QED
    BY <1>1, <2>1
<1>4. ASSUME NEW va \in VAs, NEW k \in 0..3 PROVE Node(va, k) \notin VAs
  <2>1. k \in 0..4 /\ k # 4
    OBVIOUS
  <2>2. Len(Node(va, k)) = k
    BY <2>1, NodeLength
  <2>3. ASSUME Node(va, k) \in VAs PROVE Len(Node(va, k)) = 4
    BY <2>3, Address
  <2> QED
    BY <2>1, <2>2, <2>3
<1>5. Root \in Tables
  BY <1>1, <1>4, NoNode, PageTablesAssumption DEF Tables
<1> QED
  BY <1>1, <1>2, <1>3, <1>4, <1>5 DEF Tables

LEMMA TableNodes == Tables \subseteq Nodes /\ Tables \cap VAs = {}
  BY DEF Tables

LEMMA PlacesFinite ==
  ASSUME NEW m, NEW p
  PROVE  IsFiniteSet(Places(m, p)) /\ Count(m, p) \in Nat
<1>1. IsFiniteSet(Slots \X Nodes)
  BY NodeFacts, PageTablesAssumption, FS_Product
<1>2. Places(m, p) \in SUBSET (Slots \X Nodes)
  BY DEF Places
<1> QED
  BY <1>1, <1>2, FS_Subset, FS_CardinalityType DEF Count

\* m and k differ in one entry at most.
OneChange(m, k, e, n) ==
  \A f \in Slots, x \in Nodes : k.entry[f][x] = m.entry[f][x] \/ (f = e /\ x = n)

\* Then the count of q changes with that entry.
Recounted(m, k, e, n, q) ==
  /\ (k.entry[e][n] = q <=> m.entry[e][n] = q) => Count(k, q) = Count(m, q)
  /\ k.entry[e][n] = q /\ m.entry[e][n] # q => Count(k, q) = Count(m, q) + 1
  /\ k.entry[e][n] # q /\ m.entry[e][n] = q => Count(k, q) = Count(m, q) - 1

LEMMA CountChange ==
  ASSUME NEW m, NEW k, NEW e \in Slots, NEW n \in Nodes, OneChange(m, k, e, n), NEW q
  PROVE  Recounted(m, k, e, n, q)
<1>1. PICK P : P = Places(m, q) \ {<<e, n>>}
  OBVIOUS
<1>2. P = Places(k, q) \ {<<e, n>>}
  <2>1. ASSUME NEW r \in Slots \X Nodes, r # <<e, n>>
        PROVE  m.entry[r[1]][r[2]] = q <=> k.entry[r[1]][r[2]] = q
    <3>1. PICK f \in Slots, x \in Nodes : r = <<f, x>>
      OBVIOUS
    <3>2. k.entry[f][x] = m.entry[f][x]
      BY <2>1, <3>1 DEF OneChange
    <3> QED
      BY <3>1, <3>2
  <2> QED
    BY <1>1, <2>1 DEF Places
<1>3. <<e, n>> \in Places(m, q) <=> m.entry[e][n] = q
  BY DEF Places
<1>4. <<e, n>> \in Places(k, q) <=> k.entry[e][n] = q
  BY DEF Places
<1>5. IsFiniteSet(Places(m, q)) /\ IsFiniteSet(Places(k, q))
  BY PlacesFinite
<1>6. Cardinality(P) = IF m.entry[e][n] = q THEN Count(m, q) - 1 ELSE Count(m, q)
  BY <1>1, <1>3, <1>5, FS_RemoveElement DEF Count
<1>7. Cardinality(P) = IF k.entry[e][n] = q THEN Count(k, q) - 1 ELSE Count(k, q)
  BY <1>2, <1>4, <1>5, FS_RemoveElement DEF Count
<1>8. Count(m, q) \in Nat /\ Count(k, q) \in Nat
  BY PlacesFinite
<1> QED
  BY <1>6, <1>7, <1>8 DEF Recounted

\* A page without references has no places.
LEMMA NotReferred ==
  ASSUME NEW m, Good(m), NEW p \in Pages, m.ref[p] = 0
  PROVE  \A e \in Slots, n \in Nodes : m.entry[e][n] # p
<1>1. Count(m, p) = 0
  BY PlacesFinite DEF Good, Counted
<1>2. Places(m, p) = {}
  BY <1>1, PlacesFinite, FS_EmptySet DEF Count
<1>3. ASSUME NEW e \in Slots, NEW n \in Nodes, m.entry[e][n] = p PROVE FALSE
  <2>1. <<e, n>> \in Places(m, p)
    BY <1>3 DEF Places
  <2> QED
    BY <1>2, <2>1
<1> QED
  BY <1>3
-----------------------------------------------------------------------------
\* The changes of which the functions of pmap.c are made

LEMMA SmallCount ==
  ASSUME NEW i \in 0..(REFS - 1)
  PROVE  i % REFS = i
<1>1. REFS \in Nat /\ REFS > 0
  BY PageTablesAssumption
<1> QED
  BY <1>1

LEMMA CountType ==
  ASSUME NEW i \in Int
  PROVE  i % REFS \in 0..(REFS - 1)
<1>1. REFS \in Nat /\ REFS > 0
  BY PageTablesAssumption
<1> QED
  BY <1>1

LEMMA TakeParts ==
  ASSUME NEW m \in Mems, NEW p, NEW k, k = Take(m, p)
  PROVE  /\ k \in Mems /\ k.free = m.free \ {p} /\ k.ref = m.ref
         /\ k.entry = m.entry /\ k.writable = m.writable
  BY DEF Take, Mems

LEMMA IncrefParts ==
  ASSUME NEW m \in Mems, NEW p \in Pages, NEW k, k = incref(m, p)
  PROVE  /\ k \in Mems /\ k.free = m.free
         /\ k.entry = m.entry /\ k.writable = m.writable
         /\ \A q \in Pages : k.ref[q] = IF q = p THEN (m.ref[p] + 1) % REFS ELSE m.ref[q]
<1>1. PICK c \in 0..(REFS - 1) : c = (m.ref[p] + 1) % REFS
  <2>1. m.ref[p] + 1 \in Int
    BY DEF Mems
  <2> QED
    BY <2>1, CountType
<1>2. k = [m EXCEPT !.ref[p] = c]
  BY <1>1 DEF incref
<1> QED
  BY <1>1, <1>2 DEF Mems

LEMMA SetEntryParts ==
  ASSUME NEW m \in Mems, NEW e \in Slots, NEW n \in Nodes, NEW v \in Pages \cup {NoPage},
         NEW k, k = SetEntry(m, e, n, v)
  PROVE  /\ k \in Mems /\ k.free = m.free /\ k.ref = m.ref /\ k.writable = m.writable
         /\ \A f \in Slots, x \in Nodes :
              k.entry[f][x] = IF f = e /\ x = n THEN v ELSE m.entry[f][x]
<1>1. m.entry \in EntryMaps /\ m.entry[e] \in [Nodes -> Pages \cup {NoPage}]
  BY DEF Mems, EntryMaps
<1>2. PICK r : r = [m.entry[e] EXCEPT ![n] = v]
  OBVIOUS
<1>3. /\ r \in [Nodes -> Pages \cup {NoPage}]
      /\ \A x \in Nodes : r[x] = IF x = n THEN v ELSE m.entry[e][x]
  BY <1>1, <1>2
<1>4. PICK E : E = [m.entry EXCEPT ![e] = r]
  OBVIOUS
<1>5. E \in EntryMaps /\ \A f \in Slots : E[f] = IF f = e THEN r ELSE m.entry[f]
  BY <1>1, <1>3, <1>4 DEF EntryMaps
<1>6. k = [m EXCEPT !.entry = E]
  BY <1>2, <1>4 DEF SetEntry
<1>7. /\ k \in Mems /\ k.free = m.free /\ k.ref = m.ref /\ k.writable = m.writable
      /\ k.entry = E
  BY <1>5, <1>6 DEF Mems
<1> QED
  BY <1>3, <1>5, <1>7

LEMMA SetWritableParts ==
  ASSUME NEW m \in Mems, NEW e \in Slots, NEW va \in VAs, NEW w \in BOOLEAN,
         NEW k, k = SetWritable(m, e, va, w)
  PROVE  /\ k \in Mems /\ k.free = m.free /\ k.ref = m.ref /\ k.entry = m.entry
         /\ \A f \in Slots : f # e => k.writable[f] = m.writable[f]
         /\ w => k.writable[e] = m.writable[e] \cup {va}
         /\ ~w => k.writable[e] = m.writable[e] \ {va}
<1>1. PICK W \in SUBSET VAs :
        W = IF w THEN m.writable[e] \cup {va} ELSE m.writable[e] \ {va}
  BY DEF Mems
<1>2. k = [m EXCEPT !.writable = [m.writable EXCEPT ![e] = W]]
  BY <1>1 DEF SetWritable
<1>3. PICK V : V = [m.writable EXCEPT ![e] = W]
  OBVIOUS
<1>4. V \in [Slots -> SUBSET VAs] /\ \A f \in Slots : V[f] = IF f = e THEN W ELSE m.writable[f]
  BY <1>3 DEF Mems
<1>5. /\ k \in Mems /\ k.free = m.free /\ k.ref = m.ref /\ k.entry = m.entry
      /\ k.writable = V
  BY <1>2, <1>3, <1>4 DEF Mems
<1> QED
  BY <1>1, <1>4, <1>5

\* A reference to p has gone.
Dropped(m, k, p) ==
  /\ k.free = IF m.ref[p] = 1 THEN m.free \cup {p} ELSE m.free
  /\ \A q \in Pages : k.ref[q] = IF q = p THEN m.ref[p] - 1 ELSE m.ref[q]

LEMMA DecrefParts ==
  ASSUME NEW m \in Mems, NEW p \in Pages, NEW k, k = page_decref(m, p), m.ref[p] > 0
  PROVE  k \in Mems /\ k.entry = m.entry /\ k.writable = m.writable /\ Dropped(m, k, p)
<1>1. PICK c \in 0..(REFS - 1) : c = m.ref[p] - 1 /\ c = (m.ref[p] - 1) % REFS
  <2>1. m.ref[p] \in 0..(REFS - 1) /\ REFS \in Nat
    BY PageTablesAssumption DEF Mems
  <2>2. m.ref[p] - 1 \in 0..(REFS - 1)
    BY <2>1
  <2> QED
    BY <2>2, SmallCount
<1>2. k = [m EXCEPT !.ref = [m.ref EXCEPT ![p] = c],
                    !.free = IF c = 0 THEN m.free \cup {p} ELSE m.free]
  BY <1>1 DEF page_decref
<1>3. c = 0 <=> m.ref[p] = 1
  BY <1>1 DEF Mems
<1>4. PICK F \in SUBSET Pages : F = IF c = 0 THEN m.free \cup {p} ELSE m.free
  BY DEF Mems
<1>5. PICK R : R = [m.ref EXCEPT ![p] = c]
  OBVIOUS
<1>6. /\ R \in [Pages -> 0..(REFS - 1)]
      /\ \A q \in Pages : R[q] = IF q = p THEN c ELSE m.ref[q]
  BY <1>5 DEF Mems
<1>7. k = [m EXCEPT !.ref = R, !.free = F]
  BY <1>2, <1>4, <1>5
<1>8. /\ k \in Mems /\ k.entry = m.entry /\ k.writable = m.writable
      /\ k.free = F /\ k.ref = R
  BY <1>6, <1>7 DEF Mems
<1> QED
  BY <1>1, <1>3, <1>4, <1>6, <1>8 DEF Dropped

\* Rights go, and the ones that stay are to the same pages.
RightsKept(m, k) ==
  \A f \in Slots, x \in VAs :
    x \in k.writable[f] => x \in m.writable[f] /\ k.entry[f][x] = m.entry[f][x]

LEMMA CutParts ==
  ASSUME NEW m \in Mems, NEW e \in Slots, NEW n \in Nodes, n \in Seq(Nat),
         NEW k, k = Cut(m, e, n)
  PROVE  /\ k \in Mems /\ k.free = m.free /\ k.ref = m.ref /\ RightsKept(m, k)
         /\ \A f \in Slots, x \in Nodes : k.entry[f][x] \in {m.entry[f][x], NoPage}
         /\ k.entry[e][n] = NoPage
<1>1. m.entry \in EntryMaps /\ m.entry[e] \in [Nodes -> Pages \cup {NoPage}]
  BY DEF Mems, EntryMaps
<1>2. PICK r : r = [x \in Nodes |-> IF Below(x, n) THEN NoPage ELSE m.entry[e][x]]
  OBVIOUS
<1>3. /\ r \in [Nodes -> Pages \cup {NoPage}]
      /\ \A x \in Nodes : r[x] \in {m.entry[e][x], NoPage}
      /\ \A x \in Nodes : ~Below(x, n) => r[x] = m.entry[e][x]
  BY <1>1, <1>2
<1>4. r[n] = NoPage
  <2>1. Len(n) \in Nat /\ Node(n, Len(n)) = n
    BY WholeNode
  <2> QED
    BY <1>2, <2>1 DEF Below
<1>5. PICK E : E = [m.entry EXCEPT ![e] = r]
  OBVIOUS
<1>6. E \in EntryMaps /\ \A f \in Slots : E[f] = IF f = e THEN r ELSE m.entry[f]
  BY <1>1, <1>3, <1>5 DEF EntryMaps
<1>7. PICK W : W = [m.writable EXCEPT ![e] = {va \in m.writable[e] : ~Below(va, n)}]
  OBVIOUS
<1>8. m.writable \in [Slots -> SUBSET VAs]
  BY DEF Mems
<1>9. /\ W \in [Slots -> SUBSET VAs]
      /\ \A f \in Slots : W[f] = IF f = e THEN {va \in m.writable[e] : ~Below(va, n)}
                                         ELSE m.writable[f]
  BY <1>7, <1>8
<1>10. k = [m EXCEPT !.entry = E, !.writable = W]
  BY <1>2, <1>5, <1>7 DEF Cut
<1>11. /\ k \in Mems /\ k.free = m.free /\ k.ref = m.ref /\ k.writable = W
       /\ k.entry = E
  BY <1>6, <1>9, <1>10 DEF Mems
<1>12. RightsKept(m, k)
  BY <1>3, <1>6, <1>9, <1>11, NodeFacts DEF RightsKept
<1> QED
  BY <1>3, <1>4, <1>6, <1>11, <1>12
-----------------------------------------------------------------------------
\* What the changes do to the counts

LEMMA Consts == NoPage \notin Pages /\ REFS \in Nat /\ REFS > 1
  BY PageTablesAssumption

LEMMA Referred ==
  ASSUME NEW m, Good(m), NEW e \in Slots, NEW n \in Nodes, NEW p \in Pages,
         m.entry[e][n] = p
  PROVE  m.ref[p] > 0 /\ p \notin m.free
<1>1. m.ref[p] \in Nat
  BY DEF Good, Mems
<1> QED
  BY <1>1, NotReferred DEF Good, Counted

LEMMA SurplusType ==
  ASSUME NEW m \in Mems, NEW q \in Pages
  PROVE  SurplusIn(m, q) \in Int
  BY PlacesFinite DEF SurplusIn, Mems

LEMMA KeepsTrans ==
  ASSUME NEW m \in Mems, NEW k \in Mems, NEW l \in Mems, Keeps(m, k), Keeps(k, l)
  PROVE  Keeps(m, l)
  BY SurplusType DEF Keeps

LEMMA KeepsSelf ==
  ASSUME NEW m \in Mems
  PROVE  Keeps(m, m)
  BY SurplusType DEF Keeps

LEMMA GrownSelf ==
  ASSUME NEW m, Good(m)
  PROVE  Grown(m, m)
  BY DEF Grown, Walked

LEMMA GrownTrans ==
  ASSUME NEW m, NEW k, NEW l, Grown(m, k), Grown(k, l)
  PROVE  Grown(m, l)
  BY NodeFacts DEF Grown, Walked

LEMMA WalkedTrans ==
  ASSUME NEW m, NEW k, NEW l, Walked(m, k), Walked(k, l)
  PROVE  Walked(m, l)
  BY DEF Walked

\* A new table
LEMMA NewTableGood ==
  ASSUME NEW m, Good(m), NEW e \in Slots, NEW n \in Tables, m.entry[e][n] = NoPage,
         m.free # {}, NEW k, k = NewTable(m, e, n)
  PROVE  Grown(m, k) /\ Keeps(m, k) /\ k.entry[e][n] \in Pages
<1> USE Consts
<1>1. PICK p \in m.free : p = page_alloc(m)
  BY DEF page_alloc
<1>2. m \in Mems /\ p \in Pages /\ m.ref[p] = 0 /\ n \in Nodes
  BY TableNodes DEF Good, Mems, Counted
<1>3. \A f \in Slots, x \in Nodes : m.entry[f][x] # p
  BY <1>2, NotReferred
<1>4. PICK t : t = Take(m, p)
  OBVIOUS
<1>5. PICK i : i = incref(t, p)
  OBVIOUS
<1>6. k = SetEntry(i, e, n, p)
  BY <1>1, <1>4, <1>5 DEF NewTable
<1>7. t \in Mems /\ t.free = m.free \ {p} /\ t.ref = m.ref /\ t.entry = m.entry
      /\ t.writable = m.writable
  BY <1>2, <1>4, TakeParts
<1>8. /\ i \in Mems /\ i.free = t.free /\ i.entry = t.entry /\ i.writable = t.writable
      /\ \A q \in Pages : i.ref[q] = IF q = p THEN (t.ref[p] + 1) % REFS ELSE t.ref[q]
  BY <1>2, <1>5, <1>7, IncrefParts
<1>9. /\ k \in Mems /\ k.free = i.free /\ k.ref = i.ref /\ k.writable = i.writable
      /\ \A f \in Slots, x \in Nodes :
           k.entry[f][x] = IF f = e /\ x = n THEN p ELSE i.entry[f][x]
  <2>1. p \in Pages \cup {NoPage} /\ i \in Mems /\ n \in Nodes
    BY <1>2, <1>8
  <2> QED
    BY <1>6, <2>1, SetEntryParts
<1>10. (m.ref[p] + 1) % REFS = 1
  <2>1. 1 \in 0..(REFS - 1)
    OBVIOUS
  <2> QED
    BY <1>2, <2>1, SmallCount
<1>11. /\ k.free = m.free \ {p} /\ k.writable = m.writable
       /\ \A q \in Pages : k.ref[q] = IF q = p THEN 1 ELSE m.ref[q]
       /\ \A f \in Slots, x \in Nodes :
            k.entry[f][x] = IF f = e /\ x = n THEN p ELSE m.entry[f][x]
  BY <1>7, <1>8, <1>9, <1>10
<1>12. \A q \in Pages : Count(k, q) =
                          Count(m, q) + (IF q = p THEN 1 ELSE 0)
  <2> SUFFICES ASSUME NEW q \in Pages
               PROVE  Count(k, q) =
                        Count(m, q) + (IF q = p THEN 1 ELSE 0)
    OBVIOUS
  <2>1. OneChange(m, k, e, n) /\ n \in Nodes
    BY <1>2, <1>11 DEF OneChange
  <2>0. Recounted(m, k, e, n, q)
    BY <2>1, CountChange, Zenon
  <2>2. k.entry[e][n] = p /\ m.entry[e][n] # q
    BY <1>2, <1>11
  <2>3. /\ q # p => Count(k, q) = Count(m, q)
        /\ q = p => Count(k, q) = Count(m, q) + 1
    BY <2>0, <2>2 DEF Recounted
  <2> QED
    BY <2>3, PlacesFinite
<1>13. \A q \in Pages : m.ref[q] \in Nat /\ m.ref[q] >= Count(m, q)
  BY DEF Good, Counted, Mems
<1>14. Count(m, p) = 0
  BY <1>2, <1>13, PlacesFinite
<1>15. Counted(k)
  BY <1>2, <1>11, <1>12, <1>13, PlacesFinite DEF Counted, Good
<1>16. Private(k)
  BY <1>2, <1>3, <1>11, TableNodes DEF Private, Good
<1>17. Keeps(m, k)
  <2> SUFFICES ASSUME NEW q \in Pages PROVE SurplusIn(k, q) <= SurplusIn(m, q)
    BY DEF Keeps
  <2>1. CASE q = p
    BY <1>2, <1>11, <1>12, <1>14, <2>1 DEF SurplusIn
  <2>2. CASE q # p
    <3>1. SurplusIn(k, q) = SurplusIn(m, q)
      BY <1>11, <1>12, <2>2, PlacesFinite DEF SurplusIn
    <3> QED
      BY <1>2, <3>1, SurplusType
  <2> QED
    BY <2>1, <2>2
<1>18. \A q \in Pages : Plain(m, q) => Plain(k, q) /\ k.ref[q] = m.ref[q]
  BY <1>1, <1>11, TableNodes DEF Plain
<1>19. \A f \in Slots, x \in VAs : k.entry[f][x] = m.entry[f][x]
  BY <1>11, NodeFacts, TableNodes
<1>20. Present(k)
  BY <1>2, <1>11, <1>19 DEF Present, Good, Mems
<1>21. Grown(m, k)
  BY <1>9, <1>11, <1>15, <1>16, <1>18, <1>19, <1>20 DEF Grown, Walked, Good
<1> QED
  BY <1>2, <1>11, <1>17, <1>21

\* A reference goes, and with it perhaps others.
LEMMA DropGood ==
  ASSUME NEW m, Good(m), NEW k \in Mems, NEW e \in Slots, NEW n \in Nodes,
         NEW p \in Pages, m.entry[e][n] = p, k.entry[e][n] = NoPage,
         \A f \in Slots, x \in Nodes : k.entry[f][x] \in {m.entry[f][x], NoPage},
         Dropped(m, k, p), RightsKept(m, k)
  PROVE  Good(k) /\ (OneChange(m, k, e, n) => Keeps(m, k))
<1> USE Consts
<1>1. m.ref[p] > 0 /\ p \notin m.free
  BY Referred
<1>2. \A q \in Pages : m.ref[q] \in Nat /\ m.ref[q] >= Count(m, q)
  BY DEF Good, Counted, Mems
<1>3. \A q \in Pages : Places(k, q) \subseteq Places(m, q)
  BY DEF Places
<1>4. Places(k, p) \subseteq Places(m, p) \ {<<e, n>>}
  BY <1>3 DEF Places
<1>5. \A q \in Pages : Count(k, q) <= Count(m, q)
  BY <1>3, PlacesFinite, FS_Subset DEF Count
<1>6. Count(k, p) <= Count(m, p) - 1
  <2>1. <<e, n>> \in Places(m, p)
    BY DEF Places
  <2>2. /\ IsFiniteSet(Places(m, p) \ {<<e, n>>})
        /\ Cardinality(Places(m, p) \ {<<e, n>>}) = Count(m, p) - 1
    <3>1. IsFiniteSet(Places(m, p))
      BY PlacesFinite
    <3> QED
      BY <2>1, <3>1, FS_RemoveElement DEF Count
  <2>3. Count(k, p) <= Cardinality(Places(m, p) \ {<<e, n>>})
    BY <1>4, <2>2, FS_Subset DEF Count
  <2> QED
    BY <2>2, <2>3
<1>7. Counted(k)
  <2> SUFFICES ASSUME NEW q \in Pages
               PROVE  /\ k.ref[q] >= Count(k, q)
                      /\ q \in k.free => k.ref[q] = 0
    BY DEF Counted
  <2>1. CASE q = p
    BY <1>1, <1>2, <1>6, <2>1, PlacesFinite DEF Dropped
  <2>2. CASE q # p
    BY <1>2, <1>5, <2>2, PlacesFinite DEF Good, Counted, Dropped
  <2> QED
    BY <2>1, <2>2
<1>8. Private(k)
  BY TableNodes DEF Private, Good
<1>9. ASSUME OneChange(m, k, e, n) PROVE Keeps(m, k)
  <2> SUFFICES ASSUME NEW q \in Pages PROVE SurplusIn(k, q) <= SurplusIn(m, q)
    BY DEF Keeps
  <2>0. Recounted(m, k, e, n, q)
    BY <1>9, CountChange, Zenon
  <2>1. CASE q = p
    <3>1. k.entry[e][n] # q /\ m.entry[e][n] = q
      BY <2>1
    <3>2. Count(k, q) = Count(m, q) - 1
      BY <2>0, <3>1 DEF Recounted
    <3> QED
      BY <1>1, <1>2, <2>1, <3>2, PlacesFinite DEF SurplusIn, Dropped
  <2>2. CASE q # p
    <3>1. k.entry[e][n] = q <=> m.entry[e][n] = q
      BY <2>2
    <3>2. Count(k, q) = Count(m, q)
      BY <2>0, <3>1 DEF Recounted
    <3>3. q \in k.free <=> q \in m.free
      BY <2>2 DEF Dropped
    <3> QED
      BY <1>2, <2>2, <3>2, <3>3, PlacesFinite DEF SurplusIn, Dropped
  <2> QED
    BY <2>1, <2>2
<1>10. Present(k)
  <2>1. k.writable \in [Slots -> SUBSET VAs]
    BY DEF Mems
  <2> QED
    BY <2>1 DEF Present, Good, RightsKept
<1> QED
  BY <1>7, <1>8, <1>9, <1>10 DEF Good

\* A page that is in use goes to a user address.
LEMMA PutEntryGood ==
  ASSUME NEW m, Good(m), NEW e \in Slots, NEW va \in VAs, NEW p \in Pages, Plain(m, p),
         m.ref[p] < REFS - 1, NEW w \in BOOLEAN, NEW k, k = PutEntry(m, e, p, va, w)
  PROVE  /\ Good(k) /\ k.free = m.free
         /\ \A q \in Pages : WritableIn(k, q) => WritableIn(m, q) \/ (q = p /\ w)
         /\ m.entry[e][va] = NoPage => Keeps(m, k)
         /\ m.ref[p] = 0 => SurplusIn(k, p) = 0
<1> USE Consts
<1>1. m \in Mems /\ va \in Nodes /\ m.ref[p] \in Nat /\ p \in Pages \cup {NoPage}
  BY NodeFacts DEF Good, Mems
<1>2. PICK i : i = incref(m, p)
  OBVIOUS
<1>3. PICK s : s = SetEntry(i, e, va, p)
  OBVIOUS
<1>4. k = SetWritable(s, e, va, w)
  BY <1>2, <1>3 DEF PutEntry
<1>5. (m.ref[p] + 1) % REFS = m.ref[p] + 1
  <2>1. m.ref[p] + 1 \in 0..(REFS - 1)
    BY <1>1
  <2> QED
    BY <2>1, SmallCount
<1>6. /\ i \in Mems /\ i.free = m.free /\ i.entry = m.entry /\ i.writable = m.writable
      /\ \A q \in Pages : i.ref[q] = IF q = p THEN m.ref[p] + 1 ELSE m.ref[q]
  BY <1>1, <1>2, <1>5, IncrefParts
<1>7. /\ s \in Mems /\ s.free = i.free /\ s.ref = i.ref /\ s.writable = i.writable
      /\ \A f \in Slots, x \in Nodes :
           s.entry[f][x] = IF f = e /\ x = va THEN p ELSE i.entry[f][x]
  <2>1. i \in Mems
    BY <1>6
  <2> QED
    BY <1>1, <1>3, <2>1, SetEntryParts
<1>8. /\ k \in Mems /\ k.free = s.free /\ k.ref = s.ref /\ k.entry = s.entry
      /\ \A f \in Slots : f # e => k.writable[f] = s.writable[f]
      /\ w => k.writable[e] = s.writable[e] \cup {va}
      /\ ~w => k.writable[e] = s.writable[e] \ {va}
  <2>1. s \in Mems
    BY <1>7
  <2> QED
    BY <1>4, <2>1, SetWritableParts
<1>9. /\ k.free = m.free
      /\ \A q \in Pages : k.ref[q] = IF q = p THEN m.ref[p] + 1 ELSE m.ref[q]
      /\ \A f \in Slots, x \in Nodes :
           k.entry[f][x] = IF f = e /\ x = va THEN p ELSE m.entry[f][x]
  BY <1>6, <1>7, <1>8
<1>10. /\ \A f \in Slots : f # e => k.writable[f] = m.writable[f]
       /\ w => k.writable[e] = m.writable[e] \cup {va}
       /\ ~w => k.writable[e] = m.writable[e] \ {va}
  BY <1>6, <1>7, <1>8
<1>11. ASSUME NEW q \in Pages
       PROVE  Count(k, q) =
                Count(m, q) + (IF q = p THEN 1 ELSE 0)
                                                - (IF m.entry[e][va] = q THEN 1 ELSE 0)
  <2>1. OneChange(m, k, e, va) /\ va \in Nodes
    BY <1>1, <1>9 DEF OneChange
  <2>0. Recounted(m, k, e, va, q)
    BY <2>1, CountChange, Zenon
  <2>2. k.entry[e][va] = p
    BY <1>1, <1>9
  <2>3. /\ (q = p <=> m.entry[e][va] = q) =>
             Count(k, q) = Count(m, q)
        /\ q = p /\ m.entry[e][va] # q =>
             Count(k, q) = Count(m, q) + 1
        /\ q # p /\ m.entry[e][va] = q =>
             Count(k, q) = Count(m, q) - 1
    BY <2>0, <2>2 DEF Recounted
  <2> QED
    BY <2>3, PlacesFinite
<1>12. \A q \in Pages : m.ref[q] \in Nat /\ m.ref[q] >= Count(m, q)
  BY DEF Good, Counted, Mems
<1>13. Counted(k)
  <2> SUFFICES ASSUME NEW q \in Pages
               PROVE  /\ k.ref[q] >= Count(k, q)
                      /\ q \in k.free => k.ref[q] = 0
    BY DEF Counted
  <2>1. k.ref[q] >= Count(k, q)
    BY <1>9, <1>11, <1>12, PlacesFinite
  <2>2. q \in k.free => k.ref[q] = 0
    BY <1>9 DEF Plain, Good, Counted
  <2> QED
    BY <2>1, <2>2
<1>14. Private(k)
  <2>1. va \notin Tables
    BY TableNodes
  <2> QED
    BY <1>9, <2>1, TableNodes DEF Private, Good, Plain
<1>15. ASSUME NEW q \in Pages, WritableIn(k, q)
       PROVE  WritableIn(m, q) \/ (q = p /\ w)
  <2>0. PICK f \in Slots : \E x \in k.writable[f] : k.entry[f][x] = q
    BY <1>15 DEF WritableIn
  <2>1. PICK x \in k.writable[f] : k.entry[f][x] = q
    BY <2>0
  <2>2. x \in VAs
    BY <1>8, <2>1 DEF Mems
  <2>3. x \in Nodes
    BY <2>2, NodeFacts
  <2>4. CASE f = e /\ x = va
    BY <1>9, <1>10, <2>1, <2>3, <2>4
  <2>5. CASE ~(f = e /\ x = va)
    BY <1>9, <1>10, <2>1, <2>3, <2>5 DEF WritableIn
  <2> QED
    BY <2>4, <2>5
<1>16. ASSUME m.entry[e][va] = NoPage PROVE Keeps(m, k)
  <2> SUFFICES ASSUME NEW q \in Pages PROVE SurplusIn(k, q) <= SurplusIn(m, q)
    BY DEF Keeps
  <2>1. Count(k, q) =
          Count(m, q) + (IF q = p THEN 1 ELSE 0)
    BY <1>11, <1>16, PlacesFinite
  <2> QED
    BY <1>9, <1>12, <2>1, PlacesFinite DEF SurplusIn
<1>17. ASSUME m.ref[p] = 0 PROVE SurplusIn(k, p) = 0
  <2>1. m.entry[e][va] # p
    BY <1>1, <1>17, NotReferred
  <2>2. Count(m, p) = 0
    BY <1>12, <1>17, PlacesFinite
  <2>3. Count(k, p) = 1
    BY <1>11, <2>1, <2>2
  <2> QED
    BY <1>9, <1>17, <2>3 DEF SurplusIn
<1>18. Present(k)
  <2> SUFFICES ASSUME NEW f \in Slots, NEW x \in k.writable[f] PROVE k.entry[f][x] # NoPage
    BY DEF Present
  <2>1. x \in Nodes
    BY <1>8, NodeFacts DEF Mems
  <2>2. CASE f = e /\ x = va
    BY <1>9, <2>1, <2>2
  <2>3. CASE ~(f = e /\ x = va)
    BY <1>9, <1>10, <2>1, <2>3 DEF Present, Good
  <2> QED
    BY <2>2, <2>3
<1> QED
  BY <1>8, <1>9, <1>13, <1>14, <1>15, <1>16, <1>17, <1>18 DEF Good
-----------------------------------------------------------------------------
\* The walks, page_lookup, page_remove and page_insert

LEMMA PgdirWalk ==
  ASSUME NEW m, Good(m), NEW e \in Slots, NEW va \in VAs, NEW r, r = pgdir_walk(m, e, va)
  PROVE  /\ Grown(m, r.mem) /\ r.ok \in BOOLEAN
         /\ IF r.ok THEN Keeps(m, r.mem) ELSE r.mem.free = {}
<1>1. PICK n \in Tables : n = Node(va, 3)
  BY NodeFacts
<1>2. m \in Mems
  BY DEF Good
<1>3. CASE m.entry[e][n] # NoPage
  <2>1. r = [ok |-> TRUE, mem |-> m]
    BY <1>1, <1>3 DEF pgdir_walk
  <2> QED
    BY <1>2, <2>1, GrownSelf, KeepsSelf
<1>4. CASE m.entry[e][n] = NoPage /\ m.free = {}
  <2>1. r = [ok |-> FALSE, mem |-> m]
    BY <1>1, <1>4 DEF pgdir_walk
  <2> QED
    BY <1>4, <2>1, GrownSelf
<1>5. CASE m.entry[e][n] = NoPage /\ m.free # {}
  <2>1. r = [ok |-> TRUE, mem |-> NewTable(m, e, n)]
    BY <1>1, <1>5 DEF pgdir_walk
  <2> QED
    BY <1>5, <2>1, NewTableGood
<1> QED
  BY <1>3, <1>4, <1>5

LEMMA PdpeWalk ==
  ASSUME NEW m, Good(m), NEW e \in Slots, NEW va \in VAs, NEW r, r = pdpe_walk(m, e, va)
  PROVE  /\ Grown(m, r.mem) /\ r.ok \in BOOLEAN
         /\ IF r.ok THEN Keeps(m, r.mem) ELSE r.mem.free = {}
<1>1. PICK n \in Tables : n = Node(va, 2)
  BY NodeFacts
<1>2. CASE m.entry[e][n] # NoPage
  <2>1. r = pgdir_walk(m, e, va)
    BY <1>1, <1>2 DEF pdpe_walk
  <2> QED
    BY <2>1, PgdirWalk
<1>3. CASE m.entry[e][n] = NoPage /\ m.free = {}
  <2>1. r = [ok |-> FALSE, mem |-> m]
    BY <1>1, <1>3 DEF pdpe_walk
  <2> QED
    BY <1>3, <2>1, GrownSelf
<1>4. CASE m.entry[e][n] = NoPage /\ m.free # {}
  <2>1. PICK t : t = NewTable(m, e, n)
    OBVIOUS
  <2>2. r = pgdir_walk(t, e, va)
    BY <1>1, <1>4, <2>1 DEF pdpe_walk
  <2>3. Grown(m, t) /\ Keeps(m, t)
    BY <1>4, <2>1, NewTableGood
  <2>4. Good(t)
    BY <2>3 DEF Grown, Walked
  <2>5. /\ Grown(t, r.mem) /\ r.ok \in BOOLEAN
        /\ IF r.ok THEN Keeps(t, r.mem) ELSE r.mem.free = {}
    BY <2>2, <2>4, PgdirWalk
  <2>6. m \in Mems /\ t \in Mems /\ r.mem \in Mems
    BY <2>3, <2>5 DEF Grown, Walked, Good
  <2> QED
    BY <2>3, <2>5, <2>6, GrownTrans, KeepsTrans
<1> QED
  BY <1>2, <1>3, <1>4


LEMMA WalkedWritable ==
  ASSUME NEW m, NEW k, Walked(m, k), NEW q \in Pages, WritableIn(k, q)
  PROVE  WritableIn(m, q)
<1>1. PICK f \in Slots : \E x \in k.writable[f] : k.entry[f][x] = q
  BY DEF WritableIn
<1>2. PICK x \in k.writable[f] : k.entry[f][x] = q
  BY <1>1
<1>3. x \in VAs /\ x \in m.writable[f]
  BY <1>2 DEF Walked, Good, Mems
<1>4. m.entry[f][x] = q
  BY <1>2, <1>3, Consts DEF Walked
<1> QED
  BY <1>3, <1>4 DEF WritableIn

LEMMA ShortIfNone ==
  ASSUME NEW m, NEW p, m.free \subseteq {p}
  PROVE  Short(m)
<1>1. IsFiniteSet({p}) /\ Cardinality({p}) = 1
  BY FS_Singleton
<1>2. Cardinality(m.free) <= Cardinality({p})
  BY <1>1, FS_Subset
<1> QED
  BY <1>1, <1>2 DEF Short

\* The walk that gives a table back is short of memory.
LEMMA Pml4eWalk ==
  ASSUME NEW m, Good(m), NEW e \in Slots, NEW va \in VAs, NEW r, r = pml4e_walk(m, e, va)
  PROVE  /\ Walked(m, r.mem) /\ r.ok \in BOOLEAN
         /\ IF r.ok THEN Keeps(m, r.mem) ELSE Short(r.mem)
<1>1. PICK n \in Tables : n = Node(va, 1)
  BY NodeFacts
<1>2. n \in Nodes /\ n \in Seq(Nat)
  <2>1. 1 \in 0..4
    OBVIOUS
  <2> QED
    BY <1>1, <2>1, NodeLength, TableNodes
<1>3. CASE m.entry[e][n] # NoPage
  <2>1. r = pdpe_walk(m, e, va)
    BY <1>1, <1>3 DEF pml4e_walk
  <2>2. /\ Grown(m, r.mem) /\ r.ok \in BOOLEAN
        /\ IF r.ok THEN Keeps(m, r.mem) ELSE r.mem.free = {}
    BY <2>1, PdpeWalk
  <2>3. r.mem.free = {} => Short(r.mem)
    BY ShortIfNone
  <2> QED
    BY <2>2, <2>3 DEF Grown
<1>4. CASE m.entry[e][n] = NoPage /\ m.free = {}
  <2>1. r = [ok |-> FALSE, mem |-> m]
    BY <1>1, <1>4 DEF pml4e_walk
  <2>2. Short(m)
    BY <1>4, ShortIfNone
  <2> QED
    BY <2>1, <2>2, GrownSelf DEF Grown
<1>5. CASE m.entry[e][n] = NoPage /\ m.free # {}
  <2>1. PICK t : t = NewTable(m, e, n)
    OBVIOUS
  <2>2. PICK s : s = pdpe_walk(t, e, va)
    OBVIOUS
  <2>3. PICK p : p = t.entry[e][n]
    OBVIOUS
  <2>4. r = IF s.ok THEN s
            ELSE [ok |-> FALSE, mem |-> Cut(page_decref(s.mem, p), e, n)]
    BY <1>1, <1>5, <2>1, <2>2, <2>3 DEF pml4e_walk
  <2>5. Grown(m, t) /\ Keeps(m, t) /\ p \in Pages
    BY <1>5, <2>1, <2>3, NewTableGood
  <2>6. Good(t)
    BY <2>5 DEF Grown, Walked
  <2>7. /\ Grown(t, s.mem) /\ s.ok \in BOOLEAN
        /\ IF s.ok THEN Keeps(t, s.mem) ELSE s.mem.free = {}
    BY <2>2, <2>6, PdpeWalk
  <2>8. m \in Mems /\ t \in Mems /\ s.mem \in Mems
    BY <2>5, <2>7 DEF Grown, Walked, Good
  <2>9. Grown(m, s.mem)
    BY <2>5, <2>7, GrownTrans
  <2>10. CASE s.ok
    <3>1. Keeps(m, s.mem)
      BY <2>5, <2>7, <2>8, <2>10, KeepsTrans
    <3>2. r = s
      BY <2>4, <2>10
    <3> QED
      BY <2>7, <2>9, <2>10, <3>1, <3>2 DEF Grown
  <2>11. CASE ~s.ok
    <3>1. PICK g : g = s.mem
      OBVIOUS
    <3>2. PICK d : d = page_decref(g, p)
      OBVIOUS
    <3>3. PICK k : k = Cut(d, e, n)
      OBVIOUS
    <3>4. r = [ok |-> FALSE, mem |-> k]
      BY <2>4, <2>11, <3>1, <3>2, <3>3
    <3>5. g.free = {} /\ Good(g) /\ g \in Mems
      BY <2>7, <2>11, <3>1 DEF Grown, Walked, Good
    <3>6. g.entry[e][n] = p
      BY <1>2, <2>3, <2>5, <2>7, <3>1, Consts DEF Grown
    <3>7. g.ref[p] > 0
      BY <1>2, <2>5, <3>5, <3>6, Referred
    <3>8. /\ d \in Mems /\ d.entry = g.entry /\ d.writable = g.writable
          /\ Dropped(g, d, p)
      <4>1. g \in Mems /\ p \in Pages /\ g.ref[p] > 0
        BY <2>5, <3>5, <3>7
      <4> QED
        BY <3>2, <4>1, DecrefParts
    <3>9. /\ k \in Mems /\ k.free = d.free /\ k.ref = d.ref /\ RightsKept(d, k)
          /\ \A f \in Slots, x \in Nodes : k.entry[f][x] \in {d.entry[f][x], NoPage}
          /\ k.entry[e][n] = NoPage
      <4>1. d \in Mems
        BY <3>8
      <4> QED
        BY <1>2, <3>3, <4>1, CutParts
    <3>10. /\ Dropped(g, k, p) /\ RightsKept(g, k)
           /\ \A f \in Slots, x \in Nodes : k.entry[f][x] \in {g.entry[f][x], NoPage}
      BY <3>8, <3>9 DEF Dropped, RightsKept
    <3>11. Good(k)
      <4>1. k \in Mems /\ n \in Nodes /\ p \in Pages /\ Good(g)
        BY <1>2, <2>5, <3>5, <3>9
      <4> QED
        BY <3>6, <3>9, <3>10, <4>1, DropGood
    <3>12. k.free \subseteq {p}
      BY <3>5, <3>10 DEF Dropped
    <3>13. Short(k)
      BY <3>12, ShortIfNone
    <3>14. \A q \in Pages : Plain(g, q) => Plain(k, q) /\ k.ref[q] = g.ref[q]
      <4> SUFFICES ASSUME NEW q \in Pages, Plain(g, q)
                   PROVE  Plain(k, q) /\ k.ref[q] = g.ref[q]
        OBVIOUS
      <4>1. q # p
        BY <3>6 DEF Plain
      <4>2. q \notin k.free
        BY <3>12, <4>1
      <4>3. \A f \in Slots, x \in Tables : k.entry[f][x] # q
        BY <3>10, TableNodes, Consts DEF Plain
      <4> QED
        BY <3>10, <4>1, <4>2, <4>3 DEF Plain, Dropped
    <3>15. Walked(g, k)
      <4>1. \A f \in Slots : k.writable[f] \subseteq g.writable[f]
        BY <3>9, <3>10 DEF RightsKept, Mems
      <4> QED
        BY <3>10, <3>11, <3>14, <4>1, NodeFacts DEF Walked
    <3>16. Walked(m, k)
      BY <2>9, <3>1, <3>15, WalkedTrans DEF Grown
    <3> QED
      BY <3>4, <3>13, <3>16
  <2> QED
    BY <2>7, <2>10, <2>11
<1> QED
  BY <1>3, <1>4, <1>5

LEMMA PageLookup ==
  ASSUME NEW m, Good(m), NEW e \in Slots, NEW va \in VAs, NEW l, l = page_lookup(m, e, va)
  PROVE  /\ Walked(m, l.mem) /\ l.page \in Pages \cup {NoPage}
         /\ l.page # NoPage => l.page = l.mem.entry[e][va] /\ Keeps(m, l.mem)
         /\ Short(l.mem) \/ (Keeps(m, l.mem) /\ l.page = l.mem.entry[e][va])
<1>1. PICK r : r = pml4e_walk(m, e, va)
  OBVIOUS
<1>2. l = [page |-> IF r.ok THEN r.mem.entry[e][va] ELSE NoPage, mem |-> r.mem]
  BY <1>1 DEF page_lookup
<1>3. /\ Walked(m, r.mem) /\ r.ok \in BOOLEAN
      /\ IF r.ok THEN Keeps(m, r.mem) ELSE Short(r.mem)
  BY <1>1, Pml4eWalk
<1>4. r.mem.entry[e][va] \in Pages \cup {NoPage}
  BY <1>3, NodeFacts DEF Walked, Good, Mems, EntryMaps
<1>5. l.mem = r.mem /\ l.page = IF r.ok THEN r.mem.entry[e][va] ELSE NoPage
  BY <1>2
<1> QED
  BY <1>3, <1>4, <1>5


\* What page_remove may do
Removed(m, k, e, va) ==
  /\ Good(k)
  /\ \A q \in Pages : Plain(m, q) /\ q # m.entry[e][va] => Plain(k, q) /\ k.ref[q] = m.ref[q]
  /\ \A q \in Pages : WritableIn(k, q) => WritableIn(m, q)
  /\ Short(k) \/ (Keeps(m, k) /\ k.entry[e][va] = NoPage)

LEMMA PageRemove ==
  ASSUME NEW m, Good(m), NEW e \in Slots, NEW va \in VAs, NEW k, k = page_remove(m, e, va)
  PROVE  Removed(m, k, e, va)
<1> USE Consts
<1>1. PICK l : l = page_lookup(m, e, va)
  OBVIOUS
<1>2. PICK g : g = l.mem
  OBVIOUS
<1>3. PICK p : p = l.page
  OBVIOUS
<1>4. /\ Walked(m, g) /\ p \in Pages \cup {NoPage}
      /\ p # NoPage => p = g.entry[e][va] /\ Keeps(m, g)
      /\ Short(g) \/ (Keeps(m, g) /\ p = g.entry[e][va])
  BY <1>1, <1>2, <1>3, PageLookup
<1>5. m \in Mems /\ g \in Mems /\ Good(g) /\ va \in Nodes
  BY <1>4, NodeFacts DEF Walked, Good
<1>6. CASE p = NoPage
  <2>1. k = g
    BY <1>1, <1>2, <1>3, <1>6 DEF page_remove
  <2>2. \A q \in Pages : WritableIn(g, q) => WritableIn(m, q)
    BY <1>4, WalkedWritable
  <2> QED
    BY <1>4, <1>6, <2>1, <2>2 DEF Removed, Walked
<1>7. CASE p # NoPage
  <2>1. PICK d : d = page_decref(g, p)
    OBVIOUS
  <2>2. PICK s : s = SetEntry(d, e, va, NoPage)
    OBVIOUS
  <2>3. k = SetWritable(s, e, va, FALSE)
    BY <1>1, <1>2, <1>3, <1>7, <2>1, <2>2 DEF page_remove
  <2>4. p \in Pages /\ g.entry[e][va] = p /\ Keeps(m, g)
    BY <1>4, <1>7
  <2>5. g.ref[p] > 0
    BY <1>5, <2>4, Referred
  <2>6. d \in Mems /\ d.entry = g.entry /\ d.writable = g.writable /\ Dropped(g, d, p)
    BY <1>5, <2>1, <2>4, <2>5, DecrefParts
  <2>7. /\ s \in Mems /\ s.free = d.free /\ s.ref = d.ref /\ s.writable = d.writable
        /\ \A f \in Slots, x \in Nodes :
             s.entry[f][x] = IF f = e /\ x = va THEN NoPage ELSE d.entry[f][x]
    <3>1. d \in Mems /\ NoPage \in Pages \cup {NoPage}
      BY <2>6
    <3> QED
      BY <1>5, <2>2, <3>1, SetEntryParts
  <2>8. /\ k \in Mems /\ k.free = s.free /\ k.ref = s.ref /\ k.entry = s.entry
        /\ \A f \in Slots : f # e => k.writable[f] = s.writable[f]
        /\ k.writable[e] = s.writable[e] \ {va}
    <3>1. s \in Mems /\ FALSE \in BOOLEAN
      BY <2>7
    <3>2. PICK no \in BOOLEAN : no = FALSE
      OBVIOUS
    <3>3. k = SetWritable(s, e, va, no)
      BY <2>3, <3>2
    <3> QED
      BY <3>1, <3>2, <3>3, SetWritableParts
  <2>9. /\ Dropped(g, k, p)
        /\ \A f \in Slots, x \in Nodes :
             k.entry[f][x] = IF f = e /\ x = va THEN NoPage ELSE g.entry[f][x]
        /\ \A f \in Slots : k.writable[f] \subseteq g.writable[f]
    BY <2>6, <2>7, <2>8 DEF Dropped
  <2>9a. RightsKept(g, k)
    <3> SUFFICES ASSUME NEW f \in Slots, NEW x \in VAs, x \in k.writable[f]
                 PROVE  x \in g.writable[f] /\ k.entry[f][x] = g.entry[f][x]
      BY DEF RightsKept
    <3>1. ~(f = e /\ x = va)
      BY <2>8
    <3> QED
      BY <2>9, <3>1, NodeFacts
  <2>10. /\ OneChange(g, k, e, va) /\ k.entry[e][va] = NoPage
         /\ \A f \in Slots, x \in Nodes : k.entry[f][x] \in {g.entry[f][x], NoPage}
    BY <1>5, <2>9 DEF OneChange
  <2>11. Good(k) /\ Keeps(g, k)
    <3>1. k \in Mems /\ va \in Nodes /\ p \in Pages /\ Good(g)
      BY <1>5, <2>4, <2>8
    <3> QED
      BY <2>4, <2>9, <2>10, <2>9a, <3>1, DropGood
  <2>12. Keeps(m, k)
    BY <1>5, <2>4, <2>8, <2>11, KeepsTrans
  <2>13. ASSUME NEW q \in Pages, Plain(m, q), q # m.entry[e][va]
         PROVE  Plain(k, q) /\ k.ref[q] = m.ref[q]
    <3>1. Plain(g, q) /\ g.ref[q] = m.ref[q]
      BY <1>4, <2>13 DEF Walked
    <3>2. q # p
      BY <1>4, <2>4, <2>13 DEF Walked
    <3>3. k.ref[q] = g.ref[q] /\ q \notin k.free
      BY <2>9, <3>1, <3>2 DEF Dropped, Plain
    <3>4. \A f \in Slots, x \in Tables : k.entry[f][x] # q
      BY <2>10, <3>1, TableNodes DEF Plain
    <3> QED
      BY <3>1, <3>3, <3>4 DEF Plain
  <2>14. ASSUME NEW q \in Pages, WritableIn(k, q) PROVE WritableIn(m, q)
    <3>1. PICK f \in Slots : \E x \in k.writable[f] : k.entry[f][x] = q
      BY <2>14 DEF WritableIn
    <3>2. PICK x \in k.writable[f] : k.entry[f][x] = q
      BY <3>1
    <3>3. x \in Nodes /\ x \in g.writable[f]
      BY <2>8, <2>9, <3>2, NodeFacts DEF Mems
    <3>4. WritableIn(g, q)
      BY <2>10, <3>2, <3>3 DEF WritableIn
    <3> QED
      BY <1>4, <3>4, WalkedWritable
  <2> QED
    BY <2>10, <2>11, <2>12, <2>13, <2>14 DEF Removed
<1> QED
  BY <1>6, <1>7

\* What page_insert may do
Inserted(m, k, p, w) ==
  /\ Good(k)
  /\ \A q \in Pages : WritableIn(k, q) => WritableIn(m, q) \/ (q = p /\ w)
  /\ Short(k) \/ (Keeps(m, k) /\ (m.ref[p] = 0 => SurplusIn(k, p) = 0))

\* The same page with other permissions
LEMMA ResetWritable ==
  ASSUME NEW m, Good(m), NEW e \in Slots, NEW va \in VAs, NEW p \in Pages,
         m.entry[e][va] = p, NEW w \in BOOLEAN, NEW k, k = SetWritable(m, e, va, w)
  PROVE  Inserted(m, k, p, w)
<1>1. m \in Mems /\ va \in Nodes
  BY NodeFacts DEF Good
<1>2. /\ k \in Mems /\ k.free = m.free /\ k.ref = m.ref /\ k.entry = m.entry
      /\ \A f \in Slots : f # e => k.writable[f] = m.writable[f]
      /\ w => k.writable[e] = m.writable[e] \cup {va}
      /\ ~w => k.writable[e] = m.writable[e] \ {va}
  BY <1>1, SetWritableParts
<1>3. \A q \in Pages : Count(k, q) = Count(m, q)
  BY <1>2 DEF Count, Places
<1>3a. Present(k)
  <2> SUFFICES ASSUME NEW f \in Slots, NEW x \in k.writable[f] PROVE m.entry[f][x] # NoPage
    BY <1>2 DEF Present
  <2>1. CASE f = e /\ x = va
    BY <2>1, Consts
  <2>2. CASE ~(f = e /\ x = va)
    BY <1>2, <2>2 DEF Present, Good
  <2> QED
    BY <2>1, <2>2
<1>4. Good(k)
  BY <1>2, <1>3, <1>3a DEF Good, Counted, Private
<1>5. Keeps(m, k)
  <2> SUFFICES ASSUME NEW q \in Pages PROVE SurplusIn(k, q) <= SurplusIn(m, q)
    BY DEF Keeps
  <2>1. SurplusIn(k, q) = SurplusIn(m, q)
    BY <1>2, <1>3 DEF SurplusIn
  <2> QED
    BY <1>1, <2>1, SurplusType
<1>6. m.ref[p] > 0 /\ m.ref[p] \in Nat
  BY <1>1, Referred DEF Mems
<1>7. ASSUME NEW q \in Pages, WritableIn(k, q) PROVE WritableIn(m, q) \/ (q = p /\ w)
  <2>1. PICK f \in Slots : \E x \in k.writable[f] : k.entry[f][x] = q
    BY <1>7 DEF WritableIn
  <2>2. PICK x \in k.writable[f] : k.entry[f][x] = q
    BY <2>1
  <2>3. CASE f = e /\ x = va
    BY <1>2, <2>2, <2>3
  <2>4. CASE ~(f = e /\ x = va)
    BY <1>2, <2>2, <2>4 DEF WritableIn
  <2> QED
    BY <2>3, <2>4
<1> QED
  BY <1>4, <1>5, <1>6, <1>7 DEF Inserted

LEMMA PageInsert ==
  ASSUME NEW m, Good(m), NEW e \in Slots, NEW va \in VAs, NEW p \in Pages, Plain(m, p),
         m.ref[p] < REFS - 1, NEW w \in BOOLEAN, NEW k,
         k = page_insert(m, e, p, va, w).mem
  PROVE  Inserted(m, k, p, w)
<1> USE Consts
<1>1. PICK r : r = pml4e_walk(m, e, va)
  OBVIOUS
<1>2. PICK g : g = r.mem
  OBVIOUS
<1>3. /\ Walked(m, g) /\ r.ok \in BOOLEAN
      /\ IF r.ok THEN Keeps(m, g) ELSE Short(g)
  BY <1>1, <1>2, Pml4eWalk
<1>4. m \in Mems /\ g \in Mems /\ Good(g) /\ va \in Nodes
  BY <1>3, NodeFacts DEF Walked, Good
<1>5. Plain(g, p) /\ g.ref[p] = m.ref[p]
  BY <1>3 DEF Walked
<1>6. \A q \in Pages : WritableIn(g, q) => WritableIn(m, q)
  BY <1>3, WalkedWritable
<1>7. CASE ~r.ok
  <2>1. k = g
    BY <1>1, <1>2, <1>7 DEF page_insert
  <2> QED
    BY <1>3, <1>4, <1>6, <1>7, <2>1 DEF Inserted
<1>8. CASE r.ok /\ g.entry[e][va] = p
  <2>1. k = SetWritable(g, e, va, w)
    BY <1>1, <1>2, <1>8 DEF page_insert
  <2>2. Inserted(g, k, p, w)
    BY <1>4, <1>8, <2>1, ResetWritable
  <2>3. k \in Mems
    BY <2>2 DEF Inserted, Good
  <2>4. Keeps(m, g)
    BY <1>3, <1>8
  <2>5. Keeps(g, k) => Keeps(m, k)
    BY <1>4, <2>3, <2>4, KeepsTrans
  <2> QED
    BY <1>5, <1>6, <2>2, <2>5 DEF Inserted
<1>9. CASE r.ok /\ g.entry[e][va] # p
  <2>1. PICK o : o = IF g.entry[e][va] = NoPage THEN g ELSE page_remove(g, e, va)
    OBVIOUS
  <2>2. k = PutEntry(o, e, p, va, w)
    BY <1>1, <1>2, <1>9, <2>1 DEF page_insert
  <2>3. Keeps(m, g)
    BY <1>3, <1>9
  <2>4. Removed(g, o, e, va)
    <3>1. CASE g.entry[e][va] = NoPage
      <4>1. o = g /\ Keeps(g, g)
        BY <1>4, <2>1, <3>1, KeepsSelf
      <4> QED
        BY <1>4, <3>1, <4>1 DEF Removed
    <3>2. CASE g.entry[e][va] # NoPage
      <4>1. o = page_remove(g, e, va)
        BY <2>1, <3>2
      <4> QED
        BY <1>4, <4>1, PageRemove
    <3> QED
      BY <3>1, <3>2
  <2>5. Good(o) /\ Plain(o, p) /\ o.ref[p] = m.ref[p] /\ o \in Mems
    BY <1>5, <1>9, <2>4 DEF Removed, Good
  <2>6. /\ Good(k) /\ k.free = o.free
        /\ \A q \in Pages : WritableIn(k, q) => WritableIn(o, q) \/ (q = p /\ w)
        /\ o.entry[e][va] = NoPage => Keeps(o, k)
        /\ o.ref[p] = 0 => SurplusIn(k, p) = 0
    <3>1. o.ref[p] < REFS - 1
      BY <2>5
    <3> QED
      BY <2>2, <2>5, <3>1, PutEntryGood
  <2>7. \A q \in Pages : WritableIn(k, q) => WritableIn(m, q) \/ (q = p /\ w)
    BY <1>6, <2>4, <2>6 DEF Removed
  <2>8. CASE Short(o)
    BY <2>6, <2>7, <2>8 DEF Inserted, Short
  <2>9. CASE Keeps(g, o) /\ o.entry[e][va] = NoPage
    <3>1. Keeps(o, k) /\ k \in Mems
      BY <2>6, <2>9 DEF Good
    <3>2. Keeps(g, k)
      BY <1>4, <2>5, <2>9, <3>1, KeepsTrans
    <3>3. Keeps(m, k)
      BY <1>4, <2>3, <3>1, <3>2, KeepsTrans
    <3> QED
      BY <2>5, <2>6, <2>7, <3>3 DEF Inserted
  <2> QED
    BY <2>4, <2>8, <2>9 DEF Removed
<1> QED
  BY <1>3, <1>7, <1>8, <1>9
-----------------------------------------------------------------------------
(***************************************************************************)
(* The inductive invariant.  That a table has one reference, as            *)
(* TablesArePrivate says, is used in the form that whoever refers to the   *)
(* page of a table is that table's own entry.                              *)
(***************************************************************************)
OwnPage ==
  \A e, f \in Slots, n \in Tables, x \in Nodes :
    entry[e][n] # NoPage /\ entry[f][x] = entry[e][n] => f = e /\ x = n

PageInv == TypeOK /\ RefsCounted /\ OwnPage

\* q is in an entry of an address space that goes, and env_free did not look there.
Overlooked(k, q) ==
  \E e \in Slots, n \in Nodes :
    HasSpace(e) /\ k.entry[e][Root] = NoPage /\ ~Visited(n) /\ entry[e][n] = q

\* What a step may make of the memory
Effect(k) ==
  /\ Good(k)
  /\ \A q \in Pages : Mapped(q) /\ WritableIn(k, q) => WritableIn(Memory, q)
  /\ \A q \in Pages : SurplusIn(k, q) <= SurplusIn(Memory, q) \/ Short(k) \/ Overlooked(k, q)

LEMMA MemoryParts ==
  /\ Memory.free = page_free_list /\ Memory.ref = pp_ref
  /\ Memory.entry = entry /\ Memory.writable = writable
  BY DEF Memory

LEMMA MemoryGood ==
  ASSUME PageInv
  PROVE  /\ Good(Memory)
         /\ \A q \in Pages : /\ Surplus(q) = SurplusIn(Memory, q)
                             /\ WritableSomewhere(q) <=> WritableIn(Memory, q)
<1>1. Memory \in Mems
  BY DEF Memory, Mems, EntryMaps, PageInv, TypeOK
<1>2. \A q \in Pages : Refs(q) = Places(Memory, q)
  BY MemoryParts DEF Refs, Places
<1>3. Counted(Memory)
  BY <1>2, MemoryParts DEF Counted, Count, PageInv, RefsCounted
<1>4. Private(Memory)
  BY MemoryParts DEF Private, PageInv, OwnPage
<1>5. \A q \in Pages : Surplus(q) = SurplusIn(Memory, q)
  BY <1>2, MemoryParts DEF Surplus, SurplusIn, Count
<1>6. \A q \in Pages : WritableSomewhere(q) <=> WritableIn(Memory, q)
  BY MemoryParts DEF WritableSomewhere, WritableIn
<1>7. Present(Memory)
  BY MemoryParts DEF Present, PageInv, TypeOK
<1> QED
  BY <1>1, <1>3, <1>4, <1>5, <1>6, <1>7 DEF Good

LEMMA NextMemory ==
  ASSUME PageInv, NEW k, Becomes(k), Good(k)
  PROVE  /\ PageInv'
         /\ \A q \in Pages : /\ Surplus(q)' = SurplusIn(k, q)
                             /\ WritableSomewhere(q)' <=> WritableIn(k, q)
<1>1. /\ page_free_list' = k.free /\ pp_ref' = k.ref /\ entry' = k.entry
      /\ writable' = k.writable /\ panicstr' = panicstr
  BY DEF Becomes
<1>2. TypeOK'
  BY <1>1 DEF TypeOK, PageInv, Good, Mems, EntryMaps, Present
<1>3. \A q \in Pages : Refs(q)' = Places(k, q)
  BY <1>1 DEF Refs, Places
<1>4. RefsCounted'
  BY <1>1, <1>3 DEF RefsCounted, Good, Counted, Count
<1>5. OwnPage'
  BY <1>1 DEF OwnPage, Good, Private
<1>6. \A q \in Pages : Surplus(q)' = SurplusIn(k, q)
  BY <1>1, <1>3 DEF Surplus, SurplusIn, Count
<1>7. \A q \in Pages : WritableSomewhere(q)' <=> WritableIn(k, q)
  BY <1>1 DEF WritableSomewhere, WritableIn
<1> QED
  BY <1>2, <1>4, <1>5, <1>6, <1>7 DEF PageInv

\* The page at a user address is no table.
LEMMA UserPage ==
  ASSUME NEW m, Good(m), NEW e \in Slots, NEW va \in VAs, NEW p \in Pages,
         m.entry[e][va] = p
  PROVE  Plain(m, p)
<1>1. va \in Nodes /\ va \notin Tables
  BY NodeFacts, TableNodes
<1>2. p \notin m.free
  BY <1>1, Referred
<1> QED
  BY <1>1, <1>2, Consts DEF Plain, Good, Private
-----------------------------------------------------------------------------
\* The steps

LEMMA SetupEffect ==
  ASSUME PageInv, NEW e \in Slots, env_setup_vm(e)
  PROVE  \E k : Becomes(k) /\ Effect(k)
<1>1. PICK k : k = NewTable(Memory, e, Root)
  OBVIOUS
<1>2. Becomes(k) /\ Memory.free # {} /\ Memory.entry[e][Root] = NoPage
  BY <1>1, MemoryParts DEF env_setup_vm, HasSpace
<1>3. Grown(Memory, k) /\ Keeps(Memory, k)
  BY <1>1, <1>2, NodeFacts, MemoryGood, NewTableGood
<1>4. \A q \in Pages : WritableIn(k, q) => WritableIn(Memory, q)
  BY <1>3, WalkedWritable DEF Grown
<1>5. Effect(k)
  BY <1>3, <1>4 DEF Effect, Keeps, Grown, Walked
<1> QED
  BY <1>2, <1>5

LEMMA UnmapEffect ==
  ASSUME PageInv, NEW e \in Slots, NEW va \in VAs, sys_page_unmap(e, va)
  PROVE  \E k : Becomes(k) /\ Effect(k)
<1>1. PICK k : k = page_remove(Memory, e, va)
  OBVIOUS
<1>2. Becomes(k)
  BY <1>1 DEF sys_page_unmap
<1>3. Removed(Memory, k, e, va)
  BY <1>1, MemoryGood, PageRemove
<1>4. Effect(k)
  BY <1>3 DEF Effect, Keeps, Removed
<1> QED
  BY <1>2, <1>4

LEMMA CheckEffect ==
  ASSUME PageInv, NEW e \in Slots, NEW va \in VAs, user_mem_check(e, va)
  PROVE  \E k : Becomes(k) /\ Effect(k)
<1>1. PICK l : l = page_lookup(Memory, e, va)
  OBVIOUS
<1>2. Becomes(l.mem)
  BY <1>1 DEF user_mem_check
<1>3. Walked(Memory, l.mem) /\ (Short(l.mem) \/ Keeps(Memory, l.mem))
  BY <1>1, MemoryGood, PageLookup
<1>4. \A q \in Pages : WritableIn(l.mem, q) => WritableIn(Memory, q)
  BY <1>3, WalkedWritable
<1>5. Effect(l.mem)
  BY <1>3, <1>4 DEF Effect, Keeps, Walked
<1> QED
  BY <1>2, <1>5

LEMMA AllocEffect ==
  ASSUME PageInv, NEW e \in Slots, NEW va \in VAs, NEW w \in BOOLEAN,
         sys_page_alloc(e, va, w)
  PROVE  \E k : Becomes(k) /\ Effect(k)
<1> USE Consts
<1>1. PICK m : m = Memory
  OBVIOUS
<1>2. Good(m) /\ m \in Mems
  BY <1>1, MemoryGood DEF Good
<1>3. m.free # {}
  BY <1>1, MemoryParts DEF sys_page_alloc
<1>4. PICK p \in m.free : p = page_alloc(m)
  BY <1>3 DEF page_alloc
<1>5. PICK t : t = Take(m, p)
  OBVIOUS
<1>6. PICK k : k = page_insert(t, e, p, va, w).mem
  OBVIOUS
<1>7. Becomes(k)
  BY <1>1, <1>4, <1>5, <1>6 DEF sys_page_alloc
<1>8. p \in Pages /\ m.ref[p] = 0
  BY <1>2, <1>4 DEF Mems, Good, Counted
<1>9. \A f \in Slots, x \in Nodes : m.entry[f][x] # p
  BY <1>2, <1>8, NotReferred
<1>10. /\ t \in Mems /\ t.free = m.free \ {p} /\ t.ref = m.ref /\ t.entry = m.entry
       /\ t.writable = m.writable
  BY <1>2, <1>5, TakeParts
<1>11. \A q \in Pages : Count(t, q) = Count(m, q)
  BY <1>10 DEF Count, Places
<1>12. Good(t)
  BY <1>2, <1>10, <1>11 DEF Good, Counted, Private, Present
<1>13. Plain(t, p)
  BY <1>9, <1>10, TableNodes DEF Plain
<1>14. t.ref[p] = 0 /\ t.ref[p] < REFS - 1
  BY <1>8, <1>10
<1>15. Inserted(t, k, p, w)
  BY <1>6, <1>8, <1>12, <1>13, <1>14, PageInsert
<1>16. ASSUME NEW q \in Pages, Mapped(q), WritableIn(k, q) PROVE WritableIn(m, q)
  <2>1. q # p
    BY <1>1, <1>9, <1>16, NodeFacts, MemoryParts DEF Mapped
  <2>2. WritableIn(t, q)
    BY <1>15, <1>16, <2>1 DEF Inserted
  <2> QED
    BY <1>10, <2>2 DEF WritableIn
<1>17. ASSUME NEW q \in Pages, Keeps(t, k), SurplusIn(k, p) = 0
       PROVE  SurplusIn(k, q) <= SurplusIn(m, q)
  <2>1. CASE q = p
    <3>1. SurplusIn(m, p) = 0
      BY <1>2, <1>4, <1>8, PlacesFinite DEF SurplusIn, Good, Counted
    <3> QED
      BY <1>17, <2>1, <3>1
  <2>2. CASE q # p
    <3>1. SurplusIn(t, q) = SurplusIn(m, q)
      BY <1>10, <1>11, <2>2 DEF SurplusIn
    <3> QED
      BY <1>17, <3>1 DEF Keeps
  <2> QED
    BY <2>1, <2>2
<1>18. Effect(k)
  BY <1>1, <1>14, <1>15, <1>16, <1>17 DEF Effect, Inserted
<1> QED
  BY <1>7, <1>18

LEMMA MapEffect ==
  ASSUME PageInv, NEW s \in Slots, NEW sva \in VAs, NEW d \in Slots, NEW dva \in VAs,
         NEW w \in BOOLEAN, sys_page_map(s, sva, d, dva, w)
  PROVE  \E k : Becomes(k) /\ Effect(k)
<1> USE Consts
<1>1. PICK m : m = Memory
  OBVIOUS
<1>2. Good(m) /\ m \in Mems
  BY <1>1, MemoryGood DEF Good
<1>3. PICK l : l = page_lookup(m, s, sva)
  OBVIOUS
<1>4. PICK g : g = l.mem
  OBVIOUS
<1>5. PICK p : p = l.page
  OBVIOUS
<1>6. /\ Walked(m, g) /\ p \in Pages \cup {NoPage}
      /\ p # NoPage => p = g.entry[s][sva] /\ Keeps(m, g)
      /\ Short(g) \/ Keeps(m, g)
  BY <1>2, <1>3, <1>4, <1>5, PageLookup
<1>7. \A q \in Pages : WritableIn(g, q) => WritableIn(m, q)
  BY <1>6, WalkedWritable
<1>8. CASE ~MayMap(l, s, sva, w)
  <2>1. Becomes(g)
    BY <1>1, <1>3, <1>4, <1>8 DEF sys_page_map
  <2>2. Effect(g)
    BY <1>1, <1>6, <1>7 DEF Effect, Keeps, Walked
  <2> QED
    BY <2>1, <2>2
<1>9. CASE MayMap(l, s, sva, w)
  <2>1. PICK k : k = page_insert(g, d, p, dva, w).mem
    OBVIOUS
  <2>2. Becomes(k) /\ m.ref[p] < MaxRefs
    BY <1>1, <1>3, <1>4, <1>5, <1>9, <2>1, MemoryParts DEF sys_page_map
  <2>3. p \in Pages /\ g.entry[s][sva] = p /\ Keeps(m, g) /\ (w => sva \in g.writable[s])
    BY <1>4, <1>5, <1>6, <1>9 DEF MayMap
  <2>4. Good(g) /\ g \in Mems
    BY <1>6 DEF Walked, Good
  <2>5. m.entry[s][sva] = p
    BY <1>6, <2>3 DEF Walked
  <2>6. Plain(m, p)
    BY <1>2, <2>3, <2>5, UserPage
  <2>7. Plain(g, p) /\ g.ref[p] = m.ref[p]
    BY <1>6, <2>3, <2>6 DEF Walked
  <2>8. g.ref[p] < REFS - 1
    <3>1. MaxRefs \in 1..(REFS - 1)
      BY PageTablesAssumption
    <3>2. m.ref[p] \in Nat
      BY <1>2, <2>3 DEF Mems
    <3> QED
      BY <2>2, <2>7, <3>1, <3>2
  <2>9. Inserted(g, k, p, w)
    BY <2>1, <2>3, <2>4, <2>7, <2>8, PageInsert
  <2>10. \A q \in Pages : WritableIn(k, q) => WritableIn(m, q)
    <3>1. w => WritableIn(g, p)
      BY <2>3 DEF WritableIn
    <3> QED
      BY <1>7, <2>9, <3>1 DEF Inserted
  <2>11. Short(k) \/ Keeps(m, k)
    <3>1. k \in Mems
      BY <2>9 DEF Inserted, Good
    <3> QED
      BY <1>2, <2>3, <2>4, <2>9, <3>1, KeepsTrans DEF Inserted
  <2>12. Effect(k)
    BY <1>1, <2>9, <2>10, <2>11 DEF Effect, Keeps, Inserted
  <2> QED
    BY <2>2, <2>12
<1> QED
  BY <1>8, <1>9


\* e is emptied.
Emptied(m, k, e) ==
  \A f \in Slots, x \in Nodes : k.entry[f][x] = IF f = e THEN NoPage ELSE m.entry[f][x]

\* The entries of e with page q
Column(m, e, q) == {n \in Nodes : m.entry[e][n] = q}

LEMMA CountEmptied ==
  ASSUME NEW m, NEW k, NEW e \in Slots, Emptied(m, k, e), NEW q \in Pages
  PROVE  /\ IsFiniteSet(Column(m, e, q)) /\ Cardinality(Column(m, e, q)) \in Nat
         /\ Count(k, q) = Count(m, q) - Cardinality(Column(m, e, q))
<1>1. PICK A : A = Column(m, e, q)
  OBVIOUS
<1>2. IsFiniteSet(A) /\ Cardinality(A) \in Nat
  <2>1. A \in SUBSET Nodes
    BY <1>1 DEF Column
  <2>2. IsFiniteSet(A)
    BY <2>1, NodeFacts, FS_Subset
  <2> QED
    BY <2>2, FS_CardinalityType
<1>3. Cardinality({e} \X A) = Cardinality(A)
  <2>1. IsFiniteSet({e}) /\ Cardinality({e}) = 1
    BY FS_Singleton
  <2>2. Cardinality({e} \X A) = Cardinality({e}) * Cardinality(A)
    BY <1>2, <2>1, FS_Product
  <2> QED
    BY <1>2, <2>1, <2>2
<1>4. Places(m, q) \cap ({e} \X A) = {e} \X A
  <2>1. ASSUME NEW r \in {e} \X A PROVE r \in Places(m, q)
    <3>1. PICK n \in A : r = <<e, n>>
      OBVIOUS
    <3> QED
      BY <1>1, <3>1 DEF Places, Column
  <2> QED
    BY <2>1
<1>5. Places(k, q) = Places(m, q) \ ({e} \X A)
  <2>1. ASSUME NEW r \in Slots \X Nodes
        PROVE  r \in Places(k, q) <=> r \in Places(m, q) \ ({e} \X A)
    <3>1. PICK f \in Slots, x \in Nodes : r = <<f, x>>
      OBVIOUS
    <3>2. r \in Places(k, q) <=> k.entry[f][x] = q
      BY <3>1 DEF Places
    <3>3. r \in Places(m, q) <=> m.entry[f][x] = q
      BY <3>1 DEF Places
    <3>4. r \in {e} \X A <=> f = e /\ m.entry[e][x] = q
      BY <1>1, <3>1 DEF Column
    <3>5. k.entry[f][x] = q <=> f # e /\ m.entry[f][x] = q
      BY Consts DEF Emptied
    <3> QED
      BY <3>2, <3>3, <3>4, <3>5
  <2>2. Places(k, q) \subseteq Slots \X Nodes /\ Places(m, q) \subseteq Slots \X Nodes
    BY DEF Places
  <2> QED
    BY <2>1, <2>2
<1>6. IsFiniteSet(Places(m, q))
  BY PlacesFinite
<1>7. Cardinality(Places(k, q)) = Cardinality(Places(m, q)) - Cardinality({e} \X A)
  BY <1>4, <1>5, <1>6, FS_Difference
<1> QED
  BY <1>1, <1>2, <1>3, <1>7 DEF Count

\* What env_free takes for granted
HasTable(e) == entry[e][<<0>>] # NoPage

\* env_free takes back as many references as it visits.
LEMMA FreeEffect ==
  ASSUME PageInv, NEW e \in Slots, env_free(e), HasTable(e)
  PROVE  \E k : Becomes(k) /\ Effect(k)
<1> USE Consts
<1>1. PICK m : m = Memory
  OBVIOUS
<1>2. Good(m) /\ m \in Mems
  BY <1>1, MemoryGood DEF Good
<1>3. PICK G : G = [p \in Pages |-> Cardinality({n \in Nodes : Visited(n) /\ m.entry[e][n] = p})]
  OBVIOUS
<1>4. PICK k : k = [free |-> page_free_list', ref |-> pp_ref', entry |-> entry',
                    writable |-> writable']
  OBVIOUS
<1>5. Becomes(k)
  BY <1>4 DEF Becomes, env_free, HasTable
<1>6. /\ HasSpace(e)
      /\ k.ref = [p \in Pages |-> (m.ref[p] - G[p]) % REFS]
      /\ k.free = m.free \cup {p \in Pages : G[p] > 0 /\ (m.ref[p] - G[p]) % REFS = 0}
      /\ k.entry = [m.entry EXCEPT ![e] = [n \in Nodes |-> NoPage]]
      /\ k.writable = [m.writable EXCEPT ![e] = {}]
  BY <1>1, <1>3, <1>4, MemoryParts DEF env_free, HasTable
<1>7. /\ k.entry \in EntryMaps /\ Emptied(m, k, e)
      /\ k.writable \in [Slots -> SUBSET VAs]
      /\ \A f \in Slots : f # e => k.writable[f] = m.writable[f]
      /\ k.writable[e] = {}
  <2>1. m.entry \in EntryMaps
    BY <1>2 DEF Mems
  <2>2. m.writable \in [Slots -> SUBSET VAs]
    BY <1>2 DEF Mems
  <2>3. k.entry \in EntryMaps /\ Emptied(m, k, e)
    BY <1>6, <2>1 DEF EntryMaps, Emptied
  <2> QED
    BY <1>6, <2>2, <2>3
<1>8. ASSUME NEW q \in Pages
      PROVE  /\ G[q] \in Nat /\ G[q] <= Cardinality(Column(m, e, q))
             /\ (\A n \in Nodes : m.entry[e][n] = q => Visited(n))
                  => G[q] = Cardinality(Column(m, e, q))
  <2>1. PICK V : V = {n \in Nodes : Visited(n) /\ m.entry[e][n] = q}
    OBVIOUS
  <2>2. V \in SUBSET Column(m, e, q) /\ G[q] = Cardinality(V)
    BY <1>3, <2>1 DEF Column
  <2>3. (\A n \in Nodes : m.entry[e][n] = q => Visited(n)) => V = Column(m, e, q)
    BY <2>1 DEF Column
  <2>4. IsFiniteSet(Column(m, e, q))
    BY <1>7, CountEmptied
  <2>5. IsFiniteSet(V) /\ Cardinality(V) <= Cardinality(Column(m, e, q))
    BY <2>2, <2>4, FS_Subset
  <2>6. Cardinality(V) \in Nat
    BY <2>5, FS_CardinalityType
  <2> QED
    BY <2>2, <2>3, <2>5, <2>6
<1>9. ASSUME NEW q \in Pages
      PROVE  /\ m.ref[q] \in Nat /\ Count(m, q) \in Nat /\ Count(k, q) \in Nat
             /\ Cardinality(Column(m, e, q)) \in Nat
             /\ Count(k, q) = Count(m, q) - Cardinality(Column(m, e, q))
             /\ m.ref[q] >= Count(m, q)
  <2>1. m.ref[q] \in Nat /\ m.ref[q] >= Count(m, q)
    BY <1>2 DEF Good, Counted, Mems
  <2>2. /\ Cardinality(Column(m, e, q)) \in Nat
        /\ Count(k, q) = Count(m, q) - Cardinality(Column(m, e, q))
    BY <1>7, CountEmptied
  <2> QED
    BY <2>1, <2>2, PlacesFinite
<1>10. ASSUME NEW q \in Pages
       PROVE  /\ k.ref[q] = m.ref[q] - G[q] /\ k.ref[q] \in 0..(REFS - 1)
              /\ k.ref[q] >= Count(k, q)
  <2>1. m.ref[q] - G[q] >= Count(k, q) /\ m.ref[q] - G[q] \in Int
    BY <1>8, <1>9
  <2>2. m.ref[q] - G[q] \in 0..(REFS - 1)
    <3>1. m.ref[q] <= REFS - 1
      BY <1>2 DEF Mems
    <3> QED
      BY <1>8, <1>9, <2>1, <3>1
  <2>3. k.ref[q] = (m.ref[q] - G[q]) % REFS
    BY <1>6
  <2>4. (m.ref[q] - G[q]) % REFS = m.ref[q] - G[q]
    BY <2>2, SmallCount
  <2> QED
    BY <2>1, <2>2, <2>3, <2>4
<1>11. \A q \in Pages : q \in k.free <=> q \in m.free \/ (G[q] > 0 /\ k.ref[q] = 0)
  BY <1>6
<1>12. k \in Mems
  <2>1. k.ref \in [Pages -> 0..(REFS - 1)]
    BY <1>6, <1>10
  <2>2. k.free \in SUBSET Pages
    BY <1>2, <1>6 DEF Mems
  <2>3. k = [free |-> k.free, ref |-> k.ref, entry |-> k.entry, writable |-> k.writable]
    BY <1>4
  <2> QED
    BY <1>7, <2>1, <2>2, <2>3 DEF Mems
<1>13. Counted(k)
  <2> SUFFICES ASSUME NEW q \in Pages, q \in k.free PROVE k.ref[q] = 0
    BY <1>10 DEF Counted
  <2>1. CASE q \in m.free
    <3>1. m.ref[q] = 0
      BY <1>2, <2>1 DEF Good, Counted
    <3> QED
      BY <1>8, <1>10, <3>1
  <2> QED
    BY <1>11, <2>1
<1>14. Private(k)
  BY <1>2, <1>7, TableNodes DEF Private, Good, Emptied
<1>15. ASSUME NEW q \in Pages, WritableIn(k, q) PROVE WritableIn(m, q)
  <2>1. PICK f \in Slots : \E x \in k.writable[f] : k.entry[f][x] = q
    BY <1>15 DEF WritableIn
  <2>2. PICK x \in k.writable[f] : k.entry[f][x] = q
    BY <2>1
  <2>3. f # e /\ x \in m.writable[f] /\ x \in Nodes
    BY <1>7, <2>2, NodeFacts
  <2>4. m.entry[f][x] = q
    BY <1>7, <2>2, <2>3 DEF Emptied
  <2> QED
    BY <2>3, <2>4 DEF WritableIn
<1>16. ASSUME NEW q \in Pages
       PROVE  SurplusIn(k, q) <= SurplusIn(m, q) \/ Overlooked(k, q)
  <2>1. CASE \A n \in Nodes : m.entry[e][n] = q => Visited(n)
    <3>1. G[q] = Cardinality(Column(m, e, q))
      BY <1>8, <2>1
    <3>2. k.ref[q] - Count(k, q) = m.ref[q] - Count(m, q)
      BY <1>9, <1>10, <3>1
    <3>3. q \notin k.free /\ k.ref[q] = 0 => q \notin m.free /\ m.ref[q] = 0
      BY <1>8, <1>9, <1>10, <1>11
    <3> QED
      BY <1>9, <3>2, <3>3 DEF SurplusIn
  <2>2. CASE ~(\A n \in Nodes : m.entry[e][n] = q => Visited(n))
    <3>1. PICK n \in Nodes : m.entry[e][n] = q /\ ~Visited(n)
      BY <2>2
    <3>2. k.entry[e][Root] = NoPage
      BY <1>7, NodeFacts, TableNodes DEF Emptied
    <3> QED
      BY <1>1, <1>6, <3>1, <3>2, MemoryParts DEF Overlooked
  <2> QED
    BY <2>1, <2>2
<1>17. Present(k)
  <2> SUFFICES ASSUME NEW f \in Slots, NEW x \in k.writable[f] PROVE k.entry[f][x] # NoPage
    BY DEF Present
  <2>1. f # e /\ x \in m.writable[f] /\ x \in Nodes
    BY <1>7, NodeFacts
  <2> QED
    BY <1>2, <1>7, <2>1 DEF Present, Good, Emptied
<1>18. Effect(k)
  BY <1>1, <1>12, <1>13, <1>14, <1>15, <1>16, <1>17 DEF Effect, Good
<1> QED
  BY <1>5, <1>18

\* A step has such an effect, or it is the panic of env_free.
LEMMA NextEffect ==
  ASSUME PageInv, Next
  PROVE  \/ \E k : Becomes(k) /\ Effect(k)
         \/ panicstr' = TRUE /\ UNCHANGED <<page_free_list, pp_ref, entry, writable>>
<1>1. PICK e \in Slots :
       \/ env_setup_vm(e)
       \/ env_free(e)
       \/ \E va \in VAs :
            \/ sys_page_unmap(e, va)
            \/ user_mem_check(e, va)
            \/ \E w \in BOOLEAN :
                 \/ sys_page_alloc(e, va, w)
                 \/ \E d \in Slots, dva \in VAs : sys_page_map(e, va, d, dva, w)
  BY DEF Next
<1>2. CASE env_setup_vm(e)
  BY <1>2, SetupEffect
<1>3. CASE env_free(e)
  <2>1. CASE ~HasTable(e)
    BY <1>3, <2>1 DEF env_free, HasTable
  <2>2. CASE HasTable(e)
    BY <1>3, <2>2, FreeEffect
  <2> QED
    BY <2>1, <2>2
<1>4. ASSUME NEW va \in VAs, sys_page_unmap(e, va) PROVE \E k : Becomes(k) /\ Effect(k)
  BY <1>4, UnmapEffect
<1>5. ASSUME NEW va \in VAs, user_mem_check(e, va) PROVE \E k : Becomes(k) /\ Effect(k)
  BY <1>5, CheckEffect
<1>6. ASSUME NEW va \in VAs, NEW w \in BOOLEAN, sys_page_alloc(e, va, w)
      PROVE  \E k : Becomes(k) /\ Effect(k)
  BY <1>6, AllocEffect
<1>7. ASSUME NEW va \in VAs, NEW w \in BOOLEAN, NEW d \in Slots, NEW dva \in VAs,
             sys_page_map(e, va, d, dva, w)
      PROVE  \E k : Becomes(k) /\ Effect(k)
  BY <1>7, MapEffect
<1> QED
  BY <1>1, <1>2, <1>3, <1>4, <1>5, <1>6, <1>7
-----------------------------------------------------------------------------
\* The theorems

LEMMA InitPageInv ==
  ASSUME Init
  PROVE  PageInv
<1>1. TypeOK
  <2>1. pp_ref \in [Pages -> 0..(REFS - 1)] /\ page_free_list \subseteq Pages
    BY Consts DEF Init
  <2>2. /\ entry \in [Slots -> [Nodes -> Pages \cup {NoPage}]]
        /\ writable \in [Slots -> SUBSET VAs]
        /\ \A e \in Slots : \A va \in writable[e] : entry[e][va] # NoPage
    BY DEF Init
  <2>3. panicstr \in BOOLEAN
    BY Zenon DEF Init
  <2> QED
    BY <2>1, <2>2, <2>3 DEF TypeOK
<1>2. RefsCounted
  <2> SUFFICES ASSUME NEW p \in Pages PROVE pp_ref[p] >= Cardinality(Refs(p)) /\ pp_ref[p] = 0
    BY DEF RefsCounted
  <2>1. Refs(p) = {}
    BY Consts DEF Refs, Init
  <2>2. Cardinality(Refs(p)) = 0
    BY <2>1, FS_EmptySet
  <2> QED
    BY <2>2 DEF Init
<1>3. OwnPage
  BY TableNodes DEF OwnPage, Init
<1> QED
  BY <1>1, <1>2, <1>3 DEF PageInv

LEMMA SameMemory ==
  ASSUME PageInv, UNCHANGED <<page_free_list, pp_ref, entry, writable>>, panicstr' \in BOOLEAN
  PROVE  /\ PageInv'
         /\ \A q \in Pages : /\ Surplus(q)' = Surplus(q)
                             /\ WritableSomewhere(q)' <=> WritableSomewhere(q)
<1>1. TypeOK'
  BY DEF PageInv, TypeOK
<1>2. \A q \in Pages : Refs(q)' = Refs(q)
  BY DEF Refs
<1>3. RefsCounted'
  BY <1>2 DEF PageInv, RefsCounted
<1>4. OwnPage'
  BY DEF PageInv, OwnPage
<1>5. \A q \in Pages : Surplus(q)' = Surplus(q)
  BY <1>2 DEF Surplus
<1>6. \A q \in Pages : WritableSomewhere(q)' <=> WritableSomewhere(q)
  BY DEF WritableSomewhere
<1> QED
  BY <1>1, <1>3, <1>4, <1>5, <1>6 DEF PageInv

LEMMA NextPageInv ==
  ASSUME PageInv, [Next]_vars
  PROVE  PageInv'
<1>1. CASE Next
  <2>1. CASE \E k : Becomes(k) /\ Effect(k)
    BY <2>1, NextMemory DEF Effect
  <2>2. CASE panicstr' = TRUE /\ UNCHANGED <<page_free_list, pp_ref, entry, writable>>
    BY <2>2, SameMemory
  <2> QED
    BY <1>1, <2>1, <2>2, NextEffect
<1>2. CASE UNCHANGED vars
  <2>1. UNCHANGED <<page_free_list, pp_ref, entry, writable>> /\ panicstr' \in BOOLEAN
    BY <1>2 DEF vars, PageInv, TypeOK
  <2> QED
    BY <2>1, SameMemory
<1> QED
  BY <1>1, <1>2

\* The inductive invariant holds in every state: pages are counted and tables
\* are the only ones to refer to their pages.
THEOREM PageInvariance == Spec => []PageInv
<1>1. Init => PageInv
  BY InitPageInv
<1>2. PageInv /\ [Next]_vars => PageInv'
  BY NextPageInv
<1> QED
  BY <1>1, <1>2, PTL DEF Spec

\* The variables keep their types, and the rights to write are rights to pages
\* (TypeOK): page_remove, page_insert and the walks that give a table back leave
\* no PTE_W behind.
THEOREM TypeCorrect == Spec => []TypeOK
<1>1. PageInv => TypeOK
  BY DEF PageInv
<1> QED
  BY <1>1, PageInvariance, PTL

\* page_decref and page_free never free a page that some table refers to.
THEOREM CountsCoverReferences == Spec => []RefsCounted
<1>1. PageInv => RefsCounted
  BY DEF PageInv
<1> QED
  BY <1>1, PageInvariance, PTL

\* No page of a page table is mapped anywhere else: the walks, page_insert and
\* env_free never hand out or keep a table as a user page.
THEOREM TablesStayPrivate == Spec => []TablesArePrivate
<1>1. PageInv => TablesArePrivate
  <2> SUFFICES ASSUME PageInv, NEW e \in Slots, NEW n \in Tables, entry[e][n] # NoPage
               PROVE  Cardinality(Refs(entry[e][n])) = 1
    BY DEF TablesArePrivate
  <2>1. n \in Nodes
    BY TableNodes
  <2>2. ASSUME NEW r \in Slots \X Nodes
        PROVE  entry[r[1]][r[2]] = entry[e][n] <=> r = <<e, n>>
    <3>1. PICK f \in Slots, x \in Nodes : r = <<f, x>>
      OBVIOUS
    <3>2. entry[f][x] = entry[e][n] <=> f = e /\ x = n
      BY DEF PageInv, OwnPage
    <3> QED
      BY <3>1, <3>2
  <2>3. Refs(entry[e][n]) = {<<e, n>>}
    BY <2>1, <2>2 DEF Refs
  <2> QED
    BY <2>3, FS_Singleton
<1> QED
  BY <1>1, PageInvariance, PTL

\* A page that is mapped and writable nowhere becomes writable nowhere, whatever
\* sys_page_map, sys_page_alloc and the others do.
THEOREM ReadOnlyKept == Spec => ReadOnlyStays
<1>1. ASSUME PageInv, [Next]_vars, NEW p \in Pages, Mapped(p), ~WritableSomewhere(p)
      PROVE  ~WritableSomewhere(p)'
  <2>1. CASE \E k : Becomes(k) /\ Effect(k)
    <3>1. PICK k : Becomes(k) /\ Effect(k)
      BY <2>1
    <3>2. ~WritableIn(Memory, p)
      BY <1>1, MemoryGood
    <3>3. ~WritableIn(k, p)
      BY <1>1, <3>1, <3>2 DEF Effect
    <3>4. WritableSomewhere(p)' <=> WritableIn(k, p)
      BY <1>1, <3>1, NextMemory DEF Effect
    <3> QED
      BY <3>3, <3>4
  <2>2. CASE UNCHANGED <<page_free_list, pp_ref, entry, writable>>
    BY <1>1, <2>2 DEF WritableSomewhere
  <2>3. UNCHANGED vars => UNCHANGED <<page_free_list, pp_ref, entry, writable>>
    BY DEF vars
  <2> QED
    BY <1>1, <2>1, <2>2, <2>3, NextEffect
<1>2. PageInv /\ [Next]_vars =>
        [\A p \in Pages :
           Mapped(p) /\ ~WritableSomewhere(p) => ~WritableSomewhere(p)']_vars
  BY <1>1
<1> QED
  BY <1>2, PageInvariance, PTL DEF ReadOnlyStays, Spec

\* Pages are lost only in calls that run out of memory, and by env_free in the
\* entries it does not visit.
THEOREM LossesKnown == Spec => LossesAreKnown
<1>1. ASSUME PageInv, [Next]_vars, NEW p \in Pages, Surplus(p)' > Surplus(p)
      PROVE  \/ Cardinality(page_free_list') <= 1
             \/ \E e \in Slots, n \in Nodes :
                  HasSpace(e) /\ ~HasSpace(e)' /\ ~Visited(n) /\ entry[e][n] = p
  <2>1. Surplus(p) = SurplusIn(Memory, p) /\ Surplus(p) \in Int
    BY <1>1, MemoryGood, SurplusType DEF Good
  <2>2. CASE \E k : Becomes(k) /\ Effect(k)
    <3>1. PICK k : Becomes(k) /\ Effect(k)
      BY <2>2
    <3>2. Good(k) /\ k \in Mems
      BY <3>1 DEF Effect, Good
    <3>3. Surplus(p)' = SurplusIn(k, p)
      BY <1>1, <3>1, <3>2, NextMemory
    <3>4. SurplusIn(k, p) \in Int
      BY <3>2, SurplusType
    <3>5. ~(SurplusIn(k, p) <= SurplusIn(Memory, p))
      BY <1>1, <2>1, <3>3, <3>4
    <3>6. Short(k) \/ Overlooked(k, p)
      BY <3>1, <3>5 DEF Effect
    <3>7. page_free_list' = k.free /\ entry' = k.entry
      BY <3>1 DEF Becomes
    <3>8. Short(k) => Cardinality(page_free_list') <= 1
      BY <3>7 DEF Short
    <3>9. Overlooked(k, p) =>
            \E e \in Slots, n \in Nodes :
              HasSpace(e) /\ ~HasSpace(e)' /\ ~Visited(n) /\ entry[e][n] = p
      BY <3>7 DEF Overlooked, HasSpace
    <3> QED
      BY <3>6, <3>8, <3>9
  <2>3. CASE UNCHANGED <<page_free_list, pp_ref, entry, writable>>
    <3>1. Surplus(p)' = Surplus(p)
      <4>1. Refs(p)' = Refs(p)
        BY <2>3 DEF Refs
      <4> QED
        BY <2>3, <4>1 DEF Surplus
    <3> QED
      BY <1>1, <2>1, <3>1
  <2>4. UNCHANGED vars => UNCHANGED <<page_free_list, pp_ref, entry, writable>>
    BY DEF vars
  <2> QED
    BY <1>1, <2>2, <2>3, <2>4, NextEffect
<1>2. PageInv /\ [Next]_vars =>
        [\A p \in Pages : Surplus(p)' > Surplus(p) =>
           \/ Cardinality(page_free_list') <= 1
           \/ \E e \in Slots, n \in Nodes :
                HasSpace(e) /\ ~HasSpace(e)' /\ ~Visited(n) /\ entry[e][n] = p]_vars
  BY <1>1
<1> QED
  BY <1>2, PageInvariance, PTL DEF LossesAreKnown, Spec
==============================================================================
