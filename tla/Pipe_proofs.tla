----------------------------- MODULE Pipe_proofs -----------------------------
(***************************************************************************)
(* Proofs about the pipe, for any environments, descriptors and ring size: *)
(* bytes arrive in order whatever the scheduling; and, with children made  *)
(* by fork and one CPU, nobody is told that an end is closed that is open. *)
(***************************************************************************)
EXTENDS Pipe, FiniteSetTheorems, SequenceTheorems, TLAPS

Maps == {"map_fd", "map_data"}

\* The environment that calls of e work on, at place i of its list
Targets(e, i, c) == todo[e][i].do \in Maps \cup {"start"} /\ todo[e][i].env = c

\* The page operations under way: only environments that can run have any; those
\* on another environment are a fork's, on a child that nobody else works on
\* and that cannot run before the list is done.
Lists ==
  /\ \A e \in Envs : todo[e] # <<>> => status[e] = "ready"
  /\ \A e \in Envs : \A i \in 1..Len(todo[e]) :
       /\ todo[e][i].do \in {"start", "destroy"} => i = Len(todo[e])
       /\ todo[e][i].do = "start" => todo[e][i].env # e
  /\ \A e, c \in Envs : \A i \in 1..Len(todo[e]) :
       Targets(e, i, c) /\ c # e => status[c] = "forking"
  /\ \A e, f, c \in Envs : \A i \in 1..Len(todo[e]), j \in 1..Len(todo[f]) :
       Targets(e, i, c) /\ Targets(f, j, c) /\ c # e /\ c # f => e = f

\* Who reads and writes, and through which end.
Owners ==
  \A e \in Envs : io[e] # None =>
    /\ status[e] = "ready" /\ todo[e] = <<>>
    /\ \/ e = Reader /\ End(e) = "r"
       \/ e = Writer /\ End(e) = "w"
    /\ io[e].at # "loop" => io[e].i < io[e].n

Copied(e) == io[e] # None /\ io[e].at = "copied"

\* The ring: taken and stored run at most one ahead of the two positions, while
\* the byte is copied and the position not yet moved (or never, the copier
\* having died there), and the bytes between them are in their places.
Ring ==
  /\ p_rpos <= Len(taken) /\ Len(taken) <= p_rpos + 1 /\ Len(taken) <= p_wpos
  /\ p_wpos <= stored /\ stored <= p_wpos + 1 /\ stored <= p_rpos + PIPEBUFSIZ
  /\ status[Reader] # "gone" => (Len(taken) = p_rpos + 1 <=> Copied(Reader))
  /\ status[Writer] # "gone" => (stored = p_wpos + 1 <=> Copied(Writer))
  /\ \A k \in p_rpos..(stored - 1) : p_buf[k % PIPEBUFSIZ] = k + 1
  /\ io[Writer] # None => p_wpos + io[Writer].n - io[Writer].i <= MaxBytes

PipeInv == TypeOK /\ Lists /\ Owners /\ Ring /\ InOrder

\* A data page is mapped wherever a descriptor is.
DataBesideFd == \A e \in Envs : \A n \in Numbers : fds[e][n] # "" => n \in data[e]

\* And stays so: a list q of e unmaps a descriptor right before its data page,
\* and maps the data page before the descriptor.
SafeAt(e, q, i) ==
  /\ q[i].do = "unmap_data" =>
       IF i = 1 THEN fds[e][q[i].num] = "" ELSE q[i - 1] = UnmapFd(q[i].num)
  /\ q[i].do = "map_fd" /\ q[i].env = e =>
       IF i = 1 THEN q[i].to \in data[e]
       ELSE q[i - 1].do = "map_data" /\ q[i - 1].env = e /\ q[i - 1].to = q[i].to
  /\ q[i].do = "map_fd" /\ q[i].env # e =>
       \/ q[i].to \in data[q[i].env]
       \/ \E j \in 1..(i - 1) :
            q[j].do = "map_data" /\ q[j].env = q[i].env /\ q[j].to = q[i].to

SafeList(e, q) == \A i \in 1..Len(q) : SafeAt(e, q, i)

ListsSafe == \A e \in Envs : SafeList(e, todo[e])

\* The count that a running environment has read in _pipeisclosed, and has not
\* been interrupted since, is still right: nobody else has run.
Fresh ==
  \A e \in running :
    io[e] # None /\ io[e].at = "ref2" /\ ~io[e].moved => io[e].ref = FdRefs(End(e))

Closed(end) == \A e \in Envs : \A n \in Numbers : fds[e][n] # end

EofTrue ==
  /\ eof \subseteq {Reader, Writer}
  /\ Reader \in eof => Closed("w")
  /\ Writer \in eof => Closed("r")

ForkInv == DataBesideFd /\ ListsSafe /\ Fresh /\ EofTrue
-----------------------------------------------------------------------------
\* Two positions less than a ring apart have different places in it.
LEMMA DifferentPlaces ==
  ASSUME NEW a \in Nat, NEW b \in Nat, NEW size \in Nat \ {0}, a < b, b < a + size
  PROVE  a % size # b % size
<1> DEFINE qa == a \div size
           qb == b \div size
<1>1. /\ qa \in Int /\ qb \in Int
      /\ a = size * qa + (a % size) /\ b = size * qb + (b % size)
  OBVIOUS
<1>2. ASSUME a % size = b % size PROVE FALSE
  <2>1. b - a = size * qb - size * qa
    BY <1>1, <1>2
  <2> HIDE DEF qa, qb
  <2>2. b - a = size * (qb - qa)
    BY <1>1, <2>1
  <2>3. qb - qa >= 1 \/ qb - qa <= 0
    BY <1>1
  <2>4. CASE qb - qa >= 1
    <3>1. size * (qb - qa) >= size
      BY <1>1, <2>4
    <3> QED
      BY <2>2, <3>1
  <2>5. CASE qb - qa <= 0
    <3>1. size * (qb - qa) <= 0
      BY <1>1, <2>5
    <3> QED
      BY <2>2, <3>1
  <2> QED
    BY <2>3, <2>4, <2>5
<1> QED
  BY <1>2

LEMMA PlaceInRing ==
  ASSUME NEW a \in Nat, NEW size \in Nat \ {0}
  PROVE  a % size \in 0..(size - 1)
  OBVIOUS

\* The list of e, taken apart.
LEMMA FirstOp ==
  ASSUME TypeOK, NEW e \in Envs, todo[e] # <<>>
  PROVE  /\ Len(todo[e]) \in Nat \ {0}
         /\ Head(todo[e]) = todo[e][1] /\ todo[e][1] \in Ops
         /\ Tail(todo[e]) \in Seq(Ops) /\ Len(Tail(todo[e])) = Len(todo[e]) - 1
         /\ \A i \in 1..Len(Tail(todo[e])) : Tail(todo[e])[i] = todo[e][i + 1]
<1>1. todo[e] \in Seq(Ops)
  BY DEF TypeOK
<1> QED
  BY <1>1, HeadTailProperties, EmptySeq

LEMMA ListType ==
  ASSUME TypeOK, NEW e \in Envs
  PROVE  /\ todo[e] \in Seq(Ops) /\ Len(todo[e]) \in Nat
         /\ \A i \in 1..Len(todo[e]) : todo[e][i] \in Ops
  BY LenProperties, ElementOfSeq DEF TypeOK

LEMMA InitPipeInv == Init => PipeInv
<1> SUFFICES ASSUME Init PROVE PipeInv
  OBVIOUS
<1> USE PipeAssumption
<1>0. \A e \in Envs : todo[e] = <<>> /\ Len(todo[e]) = 0 /\ io[e] = None
  BY DEF Init
<1>1. TypeOK
  <2>1. Cardinality(running) <= NCPU
    <3>1. running = {Parent}
      BY DEF Init
    <3> QED
      BY <3>1, FS_Singleton
  <2>2. running \subseteq {e \in Envs : status[e] = "ready"}
    BY DEF Init
  <2>3. <<>> \in Seq(Ops) /\ taken \in Seq(0..MaxBytes)
    BY EmptySeq DEF Init
  <2>4. todo \in [Envs -> Seq(Ops)] /\ io \in [Envs -> Calls \cup {None}]
    BY <2>3 DEF Init
  <2>0. /\ p_buf = [i \in 0..(PIPEBUFSIZ - 1) |-> 0]
        /\ p_rpos = 0 /\ p_wpos = 0 /\ stored = 0 /\ 0 \in 0..MaxBytes
    <3>1. 0 \in 0..MaxBytes
      OBVIOUS
    <3> QED
      BY <3>1, Zenon DEF Init
  <2>5. p_buf \in [0..(PIPEBUFSIZ - 1) -> 0..MaxBytes]
    BY <2>0, Zenon
  <2>8. p_rpos \in Nat /\ p_wpos \in Nat /\ stored \in 0..MaxBytes
    BY <2>0
  <2>9. eof \subseteq Envs /\ short \in BOOLEAN
    BY DEF Init
  <2>6. fds \in [Envs -> [Numbers -> {"r", "w", ""}]] /\ data \in [Envs -> SUBSET Numbers]
    BY DEF Init
  <2>7. status \in [Envs -> {"unused", "forking", "ready", "gone"}]
    BY DEF Init
  <2> QED
    BY <1>0, <2>1, <2>2, <2>3, <2>4, <2>5, <2>6, <2>7, <2>8, <2>9, Zenon DEF TypeOK
<1>2. Lists
  BY <1>0 DEF Lists
<1>3. Owners
  BY <1>0 DEF Owners
<1>4. Ring
  <2>1. Len(taken) = 0 /\ stored = 0 /\ p_rpos = 0 /\ p_wpos = 0
    BY EmptySeq DEF Init
  <2> QED
    BY <1>0, <2>1 DEF Ring, Copied
<1>5. InOrder
  <2>1. Len(taken) = 0
    BY EmptySeq DEF Init
  <2> QED
    BY <2>1 DEF InOrder
<1> QED
  BY <1>1, <1>2, <1>3, <1>4, <1>5 DEF PipeInv
-----------------------------------------------------------------------------
LEMMA ListsSame ==
  ASSUME Lists, UNCHANGED <<status, todo>>
  PROVE  Lists'
<1>1. \A e, c \in Envs : \A i \in 1..Len(todo[e]) : Targets(e, i, c)' <=> Targets(e, i, c)
  BY DEF Targets
<1>2. status' = status /\ todo' = todo
  OBVIOUS
<1>3. /\ \A e \in Envs : todo'[e] # <<>> => status'[e] = "ready"
      /\ \A e \in Envs : \A i \in 1..Len(todo'[e]) :
           /\ todo'[e][i].do \in {"start", "destroy"} => i = Len(todo'[e])
           /\ todo'[e][i].do = "start" => todo'[e][i].env # e
  BY <1>2 DEF Lists
<1>4. \A e, c \in Envs : \A i \in 1..Len(todo'[e]) :
        Targets(e, i, c)' /\ c # e => status'[c] = "forking"
  BY <1>1, <1>2 DEF Lists
<1>5. \A e, f, c \in Envs : \A i \in 1..Len(todo'[e]), j \in 1..Len(todo'[f]) :
        Targets(e, i, c)' /\ Targets(f, j, c)' /\ c # e /\ c # f => e = f
  BY <1>1, <1>2 DEF Lists
<1> QED
  BY <1>3, <1>4, <1>5 DEF Lists

LEMMA CallRange ==
  ASSUME TypeOK
  PROVE  \A f \in Envs : io[f] # None => io[f].num \in Open(f) /\ io[f].i <= io[f].n
  BY DEF TypeOK

\* A step outside read() and write(): the environments that are in one keep
\* their place in it, their end and their empty list, or are destroyed.
LEMMA CallsKept ==
  ASSUME PipeInv, UNCHANGED ring,
         \A f \in Envs : io'[f] # None =>
           /\ io[f] # None /\ io'[f].at = io[f].at /\ io'[f].num = io[f].num
           /\ io'[f].n = io[f].n /\ io'[f].i = io[f].i
           /\ status'[f] = status[f] /\ todo'[f] = todo[f] /\ fds'[f] = fds[f],
         \A f \in Envs : status'[f] # "gone" =>
           status[f] # "gone" /\ (io[f] # None => io'[f] # None)
  PROVE  /\ Owners' /\ Ring' /\ InOrder'
         /\ \A f \in Envs : io'[f] # None =>
              io'[f].num \in Open(f)' /\ io'[f].i <= io'[f].n
<1>1. Owners'
  BY DEF PipeInv, Owners, End
<1>2. Copied(Reader)' = Copied(Reader) \/ status'[Reader] = "gone"
  BY PipeAssumption DEF Copied
<1>3. Copied(Writer)' = Copied(Writer) \/ status'[Writer] = "gone"
  BY PipeAssumption DEF Copied
<1>4. Ring'
  BY <1>2, <1>3, PipeAssumption DEF PipeInv, Ring, ring
<1>5. InOrder'
  BY DEF PipeInv, InOrder, ring
<1>6. \A f \in Envs : io'[f] # None =>
        io'[f].num \in Open(f)' /\ io'[f].i <= io'[f].n
  <2>1. \A f \in Envs : io'[f] # None => Open(f)' = Open(f)
    BY ZenonT(40) DEF Open
  <2>2. \A f \in Envs : io[f] # None => io[f].num \in Open(f) /\ io[f].i <= io[f].n
    BY CallRange DEF PipeInv
  <2> QED
    BY <2>1, <2>2
<1> QED
  BY <1>1, <1>4, <1>5, <1>6

LEMMA RunningFinite ==
  ASSUME TypeOK PROVE IsFiniteSet(running)
  BY PipeAssumption, FS_Subset DEF TypeOK

LEMMA EnvRunInv ==
  ASSUME PipeInv, NEW e \in Envs, env_run(e)
  PROVE  PipeInv'
<1> USE PipeAssumption
<1>1. /\ io' \in [Envs -> Calls \cup {None}]
      /\ \A f \in Envs :
           /\ io'[f] = None <=> io[f] = None
           /\ io[f] # None =>
                /\ io'[f].at = io[f].at /\ io'[f].num = io[f].num
                /\ io'[f].n = io[f].n /\ io'[f].i = io[f].i
  <2>1. CASE io' = io
    BY <2>1 DEF PipeInv, TypeOK
  <2>2. CASE io[e] # None /\ io' = [io EXCEPT ![e].moved = TRUE]
    <3>1. io[e] \in Calls
      BY <2>2 DEF PipeInv, TypeOK
    <3>2. [io[e] EXCEPT !.moved = TRUE] \in Calls
      BY <3>1 DEF Calls
    <3>3. io' = [io EXCEPT ![e] = [io[e] EXCEPT !.moved = TRUE]]
      BY <2>2
    <3>4. /\ [io[e] EXCEPT !.moved = TRUE].at = io[e].at
          /\ [io[e] EXCEPT !.moved = TRUE].num = io[e].num
          /\ [io[e] EXCEPT !.moved = TRUE].n = io[e].n
          /\ [io[e] EXCEPT !.moved = TRUE].i = io[e].i
      BY <3>1 DEF Calls
    <3>5. io \in [Envs -> Calls \cup {None}] /\ None \notin Calls
      BY DEF PipeInv, TypeOK
    <3> QED
      BY <2>2, <3>2, <3>3, <3>4, <3>5
  <2> QED
    BY <2>1, <2>2 DEF env_run
<1>2. /\ running' \subseteq {f \in Envs : status'[f] = "ready"}
      /\ Cardinality(running') <= NCPU
  <2>1. running \subseteq {f \in Envs : status[f] = "ready"} /\ Cardinality(running) <= NCPU
    BY DEF PipeInv, TypeOK
  <2> QED
    BY <2>1 DEF env_run
<1>3. /\ Owners' /\ Ring' /\ InOrder'
      /\ \A f \in Envs : io'[f] # None =>
           io'[f].num \in Open(f)' /\ io'[f].i <= io'[f].n
  BY <1>1, CallsKept DEF env_run, mapping
<1>4. TypeOK'
  BY <1>1, <1>2, <1>3, Zenon DEF env_run, mapping, ring, PipeInv, TypeOK
<1>5. Lists'
  BY ListsSame DEF env_run, PipeInv
<1> QED
  BY <1>3, <1>4, <1>5 DEF PipeInv

LEMMA EnvDestroyInv ==
  ASSUME PipeInv, NEW e \in Envs, env_destroy(e)
  PROVE  PipeInv'
<1> USE PipeAssumption
<1>1. /\ status' = [status EXCEPT ![e] = "gone"]
      /\ todo' = [todo EXCEPT ![e] = <<>>]
      /\ io' = [io EXCEPT ![e] = None]
      /\ status[e] = "ready"
      /\ UNCHANGED <<mapping, ring, eof, short>>
  BY DEF env_destroy
<1>2. /\ io' \in [Envs -> Calls \cup {None}]
      /\ status' \in [Envs -> {"unused", "forking", "ready", "gone"}]
      /\ todo' \in [Envs -> Seq(Ops)]
  <2>1. <<>> \in Seq(Ops)
    BY EmptySeq
  <2> QED
    BY <1>1, <2>1 DEF PipeInv, TypeOK
<1>3. /\ running' \subseteq {f \in Envs : status'[f] = "ready"}
      /\ Cardinality(running') <= NCPU
  <2>1. running' = running \ {e}
    BY DEF env_destroy
  <2>2. Cardinality(running') <= Cardinality(running)
        /\ Cardinality(running') \in Nat /\ Cardinality(running) \in Nat
    BY <2>1, RunningFinite, FS_Subset, FS_CardinalityType DEF PipeInv
  <2>3. running' \subseteq {f \in Envs : status'[f] = "ready"}
    BY <1>1, <2>1 DEF PipeInv, TypeOK
  <2>4. Cardinality(running) <= NCPU
    BY DEF PipeInv, TypeOK
  <2> QED
    BY <2>2, <2>3, <2>4
<1>4. /\ Owners' /\ Ring' /\ InOrder'
      /\ \A f \in Envs : io'[f] # None =>
           io'[f].num \in Open(f)' /\ io'[f].i <= io'[f].n
  <2>1. \A f \in Envs : io'[f] # None =>
           /\ io[f] # None /\ io'[f].at = io[f].at /\ io'[f].num = io[f].num
           /\ io'[f].n = io[f].n /\ io'[f].i = io[f].i
           /\ status'[f] = status[f] /\ todo'[f] = todo[f] /\ fds'[f] = fds[f]
    BY <1>1 DEF PipeInv, TypeOK, mapping
  <2>2. \A f \in Envs : status'[f] # "gone" =>
           status[f] # "gone" /\ (io[f] # None => io'[f] # None)
    BY <1>1 DEF PipeInv, TypeOK
  <2> QED
    BY <1>1, <2>1, <2>2, CallsKept
<1>5. TypeOK'
  BY <1>1, <1>2, <1>3, <1>4, Zenon DEF mapping, ring, PipeInv, TypeOK
<1>6. Lists'
  <2>1. \A f \in Envs : todo'[f] = IF f = e THEN <<>> ELSE todo[f]
    BY <1>1 DEF PipeInv, TypeOK
  <2>2. Len(<<>>) = 0
    BY EmptySeq
  <2>3. \A f \in Envs : status'[f] = IF f = e THEN "gone" ELSE status[f]
    BY <1>1 DEF PipeInv, TypeOK
  <2>4. \A f \in Envs : \A i \in 1..Len(todo'[f]) :
          f # e /\ todo'[f] = todo[f] /\ i \in 1..Len(todo[f])
    BY <2>1, <2>2
  <2>5. \A f, c \in Envs : \A i \in 1..Len(todo'[f]) : Targets(f, i, c)' => Targets(f, i, c)
    BY <2>4 DEF Targets
  <2>6. Lists
    BY DEF PipeInv
  <2>7. \A f \in Envs : \A i \in 1..Len(todo'[f]) :
          /\ todo'[f][i].do \in {"start", "destroy"} => i = Len(todo'[f])
          /\ todo'[f][i].do = "start" => todo'[f][i].env # f
    <3> SUFFICES ASSUME NEW f \in Envs, NEW i \in 1..Len(todo'[f])
                 PROVE  /\ todo'[f][i].do \in {"start", "destroy"} => i = Len(todo'[f])
                        /\ todo'[f][i].do = "start" => todo'[f][i].env # f
      OBVIOUS
    <3>1. todo'[f] = todo[f] /\ i \in 1..Len(todo[f])
      BY <2>4
    <3> QED
      BY <2>6, <3>1 DEF Lists
  <2>8. \A f, c \in Envs : \A i \in 1..Len(todo'[f]) :
          Targets(f, i, c)' /\ c # f => status'[c] = "forking"
    BY <1>1, <2>3, <2>4, <2>5, <2>6 DEF Lists
  <2>9. \A f, g, c \in Envs : \A i \in 1..Len(todo'[f]), j \in 1..Len(todo'[g]) :
          Targets(f, i, c)' /\ Targets(g, j, c)' /\ c # f /\ c # g => f = g
    BY <2>4, <2>5, <2>6 DEF Lists
  <2>10. \A f \in Envs : todo'[f] # <<>> => status'[f] = "ready"
    BY <2>1, <2>3, <2>6 DEF Lists
  <2> QED
    BY <2>7, <2>8, <2>9, <2>10 DEF Lists
<1> QED
  BY <1>4, <1>5, <1>6 DEF PipeInv

LEMMA PipeCallInv ==
  ASSUME PipeInv, NEW e \in Envs, pipe(e)
  PROVE  PipeInv'
<1> USE PipeAssumption
<1>1. /\ fds' = [fds EXCEPT ![e] = [@ EXCEPT ![0] = "r", ![1] = "w"]]
      /\ data' = [data EXCEPT ![e] = {0, 1}]
      /\ UNCHANGED <<status, running, todo, io, ring, eof, short>>
      /\ io[e] = None
  BY DEF pipe, Free
<1>2. /\ fds' \in [Envs -> [Numbers -> {"r", "w", ""}]]
      /\ data' \in [Envs -> SUBSET Numbers]
  <2>1. 0 \in Numbers /\ 1 \in Numbers
    BY DEF Numbers
  <2>2. [fds[e] EXCEPT ![0] = "r", ![1] = "w"] \in [Numbers -> {"r", "w", ""}]
    BY <2>1 DEF PipeInv, TypeOK
  <2>3. fds \in [Envs -> [Numbers -> {"r", "w", ""}]] /\ data \in [Envs -> SUBSET Numbers]
    BY DEF PipeInv, TypeOK
  <2>4. {0, 1} \in SUBSET Numbers
    BY <2>1
  <2> QED
    BY <1>1, <2>2, <2>3, <2>4
<1>3. /\ Owners' /\ Ring' /\ InOrder'
      /\ \A f \in Envs : io'[f] # None =>
           io'[f].num \in Open(f)' /\ io'[f].i <= io'[f].n
  <2>1. \A f \in Envs : io[f] # None => fds'[f] = fds[f]
    BY <1>1 DEF PipeInv, TypeOK
  <2> QED
    BY <1>1, <2>1, CallsKept
<1>4. TypeOK'
  BY <1>1, <1>2, <1>3, Zenon DEF ring, PipeInv, TypeOK
<1>5. Lists'
  BY <1>1 DEF PipeInv, Lists, Targets
<1> QED
  BY <1>3, <1>4, <1>5 DEF PipeInv

\* A list that e may start on, which works on c only.
GoodList(e, q, c) ==
  /\ q \in Seq(Ops)
  /\ \A i \in 1..Len(q) :
       /\ q[i].do \in {"start", "destroy"} => i = Len(q)
       /\ q[i].do = "start" => q[i].env # e
       /\ q[i].do \in Maps \cup {"start"} => q[i].env = c

\* An environment enters a call of the library on descriptors, on its own or
\* on those of a child it has just made.
LEMMA CallInv ==
  ASSUME PipeInv, NEW e \in Envs, NEW q, Call(e, q), NEW c \in Envs, GoodList(e, q, c),
         \/ c = e /\ UNCHANGED status
         \/ status[c] = "unused" /\ status' = [status EXCEPT ![c] = "forking"]
  PROVE  PipeInv'
<1> USE PipeAssumption
<1>1. /\ todo' = [todo EXCEPT ![e] = q] /\ q \in Seq(Ops)
      /\ UNCHANGED <<running, mapping, io, ring, eof, short>>
      /\ io[e] = None /\ todo[e] = <<>> /\ e \in running /\ status[e] = "ready"
  BY DEF Call, Free, GoodList, PipeInv, TypeOK
<1>2. /\ status' \in [Envs -> {"unused", "forking", "ready", "gone"}]
      /\ \A f \in Envs : status'[f] = IF f = c /\ c # e THEN "forking" ELSE status[f]
      /\ c # e => status[c] = "unused"
  BY <1>1 DEF PipeInv, TypeOK
<1>3. running' \subseteq {f \in Envs : status'[f] = "ready"}
  BY <1>1, <1>2 DEF PipeInv, TypeOK
<1>4. todo' \in [Envs -> Seq(Ops)]
  BY <1>1 DEF PipeInv, TypeOK
<1>5. /\ Owners' /\ Ring' /\ InOrder'
      /\ \A f \in Envs : io'[f] # None =>
           io'[f].num \in Open(f)' /\ io'[f].i <= io'[f].n
  <2>1. \A f \in Envs : io[f] # None =>
          status[f] = "ready" /\ todo'[f] = todo[f] /\ status'[f] = status[f]
    BY <1>1, <1>2 DEF PipeInv, TypeOK, Owners
  <2>2. \A f \in Envs : status'[f] # "gone" => status[f] # "gone"
    BY <1>2
  <2> QED
    BY <1>1, <2>1, <2>2, CallsKept DEF mapping
<1>6. TypeOK'
  BY <1>1, <1>2, <1>3, <1>4, <1>5, Zenon DEF mapping, ring, PipeInv, TypeOK
<1>7. Lists'
  <2>1. \A f \in Envs : todo'[f] = IF f = e THEN q ELSE todo[f]
    BY <1>1 DEF PipeInv, TypeOK
  <2>2. \A f \in Envs : todo'[f] # <<>> => status'[f] = "ready"
    BY <1>1, <1>2, <2>1 DEF PipeInv, Lists
  <2>3. \A f \in Envs : \A i \in 1..Len(todo'[f]) :
          /\ todo'[f][i].do \in {"start", "destroy"} => i = Len(todo'[f])
          /\ todo'[f][i].do = "start" => todo'[f][i].env # f
    BY <2>1 DEF PipeInv, Lists, GoodList
  <2>4. \A f, d \in Envs : \A i \in 1..Len(todo'[f]) :
          Targets(f, i, d)' /\ d # f =>
            IF f = e THEN d = c ELSE Targets(f, i, d) /\ status[d] = "forking"
    BY <2>1 DEF PipeInv, Lists, GoodList, Targets
  <2>5. \A f, d \in Envs : \A i \in 1..Len(todo'[f]) :
          Targets(f, i, d)' /\ d # f => status'[d] = "forking"
    BY <1>2, <2>4
  <2>6. \A f, g, d \in Envs : \A i \in 1..Len(todo'[f]), j \in 1..Len(todo'[g]) :
          Targets(f, i, d)' /\ Targets(g, j, d)' /\ d # f /\ d # g => f = g
    <3> SUFFICES ASSUME NEW f \in Envs, NEW g \in Envs, NEW d \in Envs,
                        NEW i \in 1..Len(todo'[f]), NEW j \in 1..Len(todo'[g]),
                        Targets(f, i, d)', Targets(g, j, d)', d # f, d # g
                 PROVE  f = g
      OBVIOUS
    <3>1. CASE f # e /\ g # e
      BY <2>1, <2>4, <3>1 DEF PipeInv, Lists
    <3>2. CASE f = e /\ g # e
      BY <1>2, <2>4, <3>2
    <3>3. CASE f # e /\ g = e
      BY <1>2, <2>4, <3>3
    <3> QED
      BY <3>1, <3>2, <3>3
  <2> QED
    BY <2>2, <2>3, <2>5, <2>6 DEF Lists
<1> QED
  BY <1>5, <1>6, <1>7 DEF PipeInv

LEMMA OpKinds ==
  ASSUME NEW s \in Ops
  PROVE  \/ s.do \in {"unmap_fd", "unmap_data"} /\ s.num \in Numbers
         \/ s.do \in Maps /\ s.env \in Envs /\ s.num \in Numbers /\ s.to \in Numbers
         \/ s.do = "start" /\ s.env \in Envs
         \/ s.do = "destroy"
         \/ s.do = "skip"
  BY DEF Ops, Maps, Destroy, Skip

LEMMA PageStepInv ==
  ASSUME PipeInv, NEW e \in Envs, PageStep(e)
  PROVE  PipeInv'
<1> USE PipeAssumption
<1>0. /\ e \in running /\ todo[e] # <<>> /\ status[e] = "ready"
      /\ UNCHANGED <<io, ring, eof, short>> /\ todo' = [todo EXCEPT ![e] = Tail(@)]
  BY DEF PageStep, PipeInv, TypeOK
<1>1. PICK s \in Ops : s = todo[e][1] /\ s = Head(todo[e])
  BY <1>0, FirstOp DEF PipeInv
<1>2. /\ Len(todo[e]) \in Nat \ {0}
      /\ Tail(todo[e]) \in Seq(Ops) /\ Len(Tail(todo[e])) = Len(todo[e]) - 1
      /\ \A i \in 1..Len(Tail(todo[e])) : Tail(todo[e])[i] = todo[e][i + 1]
  BY <1>0, FirstOp DEF PipeInv
<1>3. \A f \in Envs : todo'[f] = IF f = e THEN Tail(todo[e]) ELSE todo[f]
  BY <1>0 DEF PipeInv, TypeOK
<1>t. s.do \in Maps \cup {"start"} => s.env = e \/ status[s.env] = "forking"
  <2>1. 1 \in 1..Len(todo[e])
    BY <1>2
  <2>2. s.do \in Maps \cup {"start"} => Targets(e, 1, s.env) /\ s.env \in Envs
    BY <1>1, OpKinds DEF Targets, Maps
  <2> QED
    BY <2>1, <2>2 DEF PipeInv, Lists
<1>u. s.do = "start" => s.env \in Envs \ {e} /\ status[s.env] = "forking"
  <2>1. 1 \in 1..Len(todo[e])
    BY <1>2
  <2>2. s.do = "start" => s.env # e
    BY <1>1, <2>1 DEF PipeInv, Lists
  <2> QED
    BY <1>t, <2>2, OpKinds DEF Maps
<1>4. /\ fds' \in [Envs -> [Numbers -> {"r", "w", ""}]]
      /\ \A f \in Envs : fds'[f] # fds[f] => f = e \/ status[f] = "forking"
  <2>1. CASE s.do = "unmap_fd"
    <3>1. fds' = [fds EXCEPT ![e][s.num] = ""]
      BY <1>1, <2>1 DEF PageStep
    <3> QED
      BY <3>1, <2>1, OpKinds DEF PipeInv, TypeOK
  <2>2. CASE s.do = "map_fd"
    <3>1. fds' = [fds EXCEPT ![s.env][s.to] = fds[e][s.num]]
      BY <1>1, <2>2 DEF PageStep
    <3>2. s.env \in Envs /\ s.to \in Numbers /\ s.num \in Numbers
      BY <2>2, OpKinds
    <3>3. s.env = e \/ status[s.env] = "forking"
      BY <2>2, <1>t DEF Maps
    <3>4. fds[e][s.num] \in {"r", "w", ""} /\ fds[s.env] \in [Numbers -> {"r", "w", ""}]
      <4>1. fds \in [Envs -> [Numbers -> {"r", "w", ""}]]
        BY DEF PipeInv, TypeOK
      <4> QED
        BY <3>2, <4>1
    <3>5. [fds[s.env] EXCEPT ![s.to] = fds[e][s.num]] \in [Numbers -> {"r", "w", ""}]
      BY <3>2, <3>4
    <3>6. fds' = [fds EXCEPT ![s.env] = [fds[s.env] EXCEPT ![s.to] = fds[e][s.num]]]
      BY <3>1
    <3> QED
      BY <3>2, <3>3, <3>5, <3>6 DEF PipeInv, TypeOK
  <2>3. CASE s.do \notin {"unmap_fd", "map_fd"}
    <3>1. fds' = fds
      BY <1>1, <2>3 DEF PageStep
    <3> QED
      BY <3>1 DEF PipeInv, TypeOK
  <2> QED
    BY <2>1, <2>2, <2>3
<1>5. data' \in [Envs -> SUBSET Numbers]
  <2>1. CASE s.do = "unmap_data"
    <3>1. data' = [data EXCEPT ![e] = @ \ {s.num}]
      BY <1>1, <2>1 DEF PageStep
    <3> QED
      BY <3>1 DEF PipeInv, TypeOK
  <2>2. CASE s.do = "map_data"
    <3>1. data' = [data EXCEPT ![s.env] = @ \cup {s.to}]
      BY <1>1, <2>2 DEF PageStep
    <3>2. s.env \in Envs /\ s.to \in Numbers
      BY <2>2, OpKinds
    <3> QED
      BY <3>1, <3>2 DEF PipeInv, TypeOK
  <2>3. CASE s.do \notin {"unmap_data", "map_data"}
    <3>1. data' = data
      BY <1>1, <2>3 DEF PageStep
    <3> QED
      BY <3>1 DEF PipeInv, TypeOK
  <2> QED
    BY <2>1, <2>2, <2>3
<1>6. /\ status' \in [Envs -> {"unused", "forking", "ready", "gone"}]
      /\ \A f \in Envs : status'[f] =
           IF s.do = "start" /\ f = s.env THEN "ready"
           ELSE IF s.do = "destroy" /\ f = e THEN "gone" ELSE status[f]
  <2>1. CASE s.do = "start"
    BY <1>1, <1>u, <2>1 DEF PageStep, PipeInv, TypeOK
  <2>2. CASE s.do = "destroy"
    BY <1>1, <2>2 DEF PageStep, PipeInv, TypeOK
  <2>3. CASE s.do \notin {"start", "destroy"}
    BY <1>1, <2>3 DEF PageStep, PipeInv, TypeOK
  <2> QED
    BY <2>1, <2>2, <2>3
<1>7. running' = IF s.do = "destroy" THEN running \ {e} ELSE running
  BY <1>1 DEF PageStep
<1>8. Cardinality(running') <= NCPU
  <2>1. /\ Cardinality(running \ {e}) <= Cardinality(running)
        /\ Cardinality(running \ {e}) \in Nat /\ Cardinality(running) \in Nat
    BY RunningFinite, FS_Subset, FS_CardinalityType DEF PipeInv
  <2>2. Cardinality(running) <= NCPU
    BY DEF PipeInv, TypeOK
  <2> QED
    BY <1>7, <2>1, <2>2
<1>9. running' \subseteq {f \in Envs : status'[f] = "ready"}
  BY <1>6, <1>7, <1>u DEF PipeInv, TypeOK
<1>10. /\ Owners' /\ Ring' /\ InOrder'
       /\ \A f \in Envs : io'[f] # None =>
            io'[f].num \in Open(f)' /\ io'[f].i <= io'[f].n
  <2>1. \A f \in Envs : io[f] # None =>
          status'[f] = status[f] /\ todo'[f] = todo[f] /\ fds'[f] = fds[f]
    <3> SUFFICES ASSUME NEW f \in Envs, io[f] # None
                 PROVE  status'[f] = status[f] /\ todo'[f] = todo[f] /\ fds'[f] = fds[f]
      OBVIOUS
    <3>1. f # e /\ status[f] = "ready"
      BY <1>0 DEF PipeInv, Owners
    <3> QED
      BY <3>1, <1>3, <1>4, <1>6, <1>u
  <2>2. \A f \in Envs : status'[f] # "gone" => status[f] # "gone"
    BY <1>6, <1>u
  <2> QED
    BY <1>0, <2>1, <2>2, CallsKept
<1>11. TypeOK'
  <2>1. todo' \in [Envs -> Seq(Ops)]
    BY <1>0, <1>2 DEF PipeInv, TypeOK
  <2> QED
    BY <1>0, <1>4, <1>5, <1>6, <1>8, <1>9, <1>10, <2>1, Zenon
       DEF ring, PipeInv, TypeOK
<1>12. Lists'
  <2>1. \A f \in Envs : \A i \in 1..Len(todo'[f]) :
          IF f = e THEN /\ i + 1 \in 1..Len(todo[e])
                        /\ todo'[f][i] = todo[e][i + 1]
                   ELSE todo'[f] = todo[f]
    <3>1. \A i \in 1..Len(todo'[e]) :
            i + 1 \in 1..Len(todo[e]) /\ todo'[e][i] = todo[e][i + 1]
      <4>1. todo'[e] = Tail(todo[e])
        BY <1>3
      <4> QED
        BY <4>1, <1>2
    <3>2. \A f \in Envs \ {e} : todo'[f] = todo[f]
      BY <1>3
    <3> QED
      BY <3>1, <3>2
  <2>2. Len(todo'[e]) = Len(todo[e]) - 1
    BY <1>2, <1>3
  <2>3. s.do \in {"start", "destroy"} => Len(todo[e]) = 1 /\ todo'[e] = <<>>
    <3> SUFFICES ASSUME s.do \in {"start", "destroy"}
                 PROVE  Len(todo[e]) = 1 /\ todo'[e] = <<>>
      OBVIOUS
    <3>0. 1 \in 1..Len(todo[e])
      BY <1>2
    <3>1. Len(todo[e]) = 1
      BY <1>1, <3>0 DEF PipeInv, Lists
    <3>2. todo'[e] = Tail(todo[e]) /\ Len(Tail(todo[e])) = 0
      BY <1>2, <1>3, <3>1
    <3> QED
      BY <3>1, <3>2, <1>2, EmptySeq
  <2>4. \A f \in Envs : todo'[f] # <<>> => status'[f] = "ready"
    BY <1>0, <1>3, <1>6, <2>3 DEF PipeInv, Lists
  <2>5. \A f \in Envs : \A i \in 1..Len(todo'[f]) :
          /\ todo'[f][i].do \in {"start", "destroy"} => i = Len(todo'[f])
          /\ todo'[f][i].do = "start" => todo'[f][i].env # f
    <3>1. ASSUME NEW i \in 1..Len(todo'[e])
          PROVE  /\ todo'[e][i].do \in {"start", "destroy"} => i = Len(todo'[e])
                 /\ todo'[e][i].do = "start" => todo'[e][i].env # e
      <4>1. i + 1 \in 1..Len(todo[e]) /\ todo'[e][i] = todo[e][i + 1]
        BY <2>1
      <4>2. todo[e][i + 1].do \in {"start", "destroy"} => i + 1 = Len(todo[e])
        BY <4>1 DEF PipeInv, Lists
      <4>3. todo[e][i + 1].do = "start" => todo[e][i + 1].env # e
        BY <4>1 DEF PipeInv, Lists
      <4> QED
        BY <4>1, <4>2, <4>3, <1>2, <2>2
    <3>2. ASSUME NEW f \in Envs \ {e}, NEW i \in 1..Len(todo'[f])
          PROVE  /\ todo'[f][i].do \in {"start", "destroy"} => i = Len(todo'[f])
                 /\ todo'[f][i].do = "start" => todo'[f][i].env # f
      <4>1. todo'[f] = todo[f]
        BY <2>1
      <4> QED
        BY <4>1 DEF PipeInv, Lists
    <3> QED
      BY <3>1, <3>2
  <2>6. \A f, c \in Envs : \A i \in 1..Len(todo'[f]) : Targets(f, i, c)' =>
          IF f = e THEN i + 1 \in 1..Len(todo[f]) /\ Targets(f, i + 1, c)
          ELSE i \in 1..Len(todo[f]) /\ Targets(f, i, c)
    BY <2>1 DEF Targets
  <2>7. ASSUME NEW f \in Envs, NEW c \in Envs, NEW i \in 1..Len(todo'[f]),
               Targets(f, i, c)', c # f
        PROVE  status'[c] = "forking"
    <3>1. status[c] = "forking"
      BY <2>6, <2>7 DEF PipeInv, Lists
    <3>2. ~(s.do = "start" /\ c = s.env)
      <4>1. SUFFICES ASSUME s.do = "start", c = s.env PROVE FALSE
        OBVIOUS
      <4>2. 1 \in 1..Len(todo[e]) /\ Targets(e, 1, c) /\ c # e
        BY <4>1, <1>1, <1>2, <1>u DEF Targets, Maps
      <4>3. \E j \in 1..Len(todo[f]) : Targets(f, j, c)
        BY <2>6, <2>7
      <4>4. f = e
        BY <2>7, <4>2, <4>3 DEF PipeInv, Lists
      <4> QED
        BY <4>4, <4>1, <2>2, <2>3, <2>7
    <3> QED
      BY <3>1, <3>2, <1>0, <1>6
  <2>8. ASSUME NEW f \in Envs, NEW g \in Envs, NEW c \in Envs,
               NEW i \in 1..Len(todo'[f]), NEW j \in 1..Len(todo'[g]),
               Targets(f, i, c)', Targets(g, j, c)', c # f, c # g
        PROVE  f = g
    <3>1. PICK k \in 1..Len(todo[f]) : Targets(f, k, c)
      BY <2>6, <2>8
    <3>2. PICK l \in 1..Len(todo[g]) : Targets(g, l, c)
      BY <2>6, <2>8
    <3> QED
      BY <2>8, <3>1, <3>2 DEF PipeInv, Lists
  <2> QED
    BY <2>4, <2>5, <2>7, <2>8 DEF Lists
<1> QED
  BY <1>10, <1>11, <1>12 DEF PipeInv

LEMMA DupErrInv ==
  ASSUME PipeInv, NEW e \in Envs, dup_err(e)
  PROVE  PipeInv'
<1> USE PipeAssumption
<1>0. e \in running /\ todo[e] # <<>> /\ status[e] = "ready"
  BY DEF dup_err, PipeInv, TypeOK
<1>1. PICK s \in Ops : s = todo[e][1] /\ s = Head(todo[e])
  BY <1>0, FirstOp DEF PipeInv
<1> DEFINE q == <<UnmapFd(s.to), UnmapData(s.to)>>
<1>2. /\ todo' = [todo EXCEPT ![e] = q]
      /\ UNCHANGED <<status, running, mapping, io, ring, eof, short>>
      /\ s.to \in Numbers
  <2>1. s.do \in Maps
    BY <1>1 DEF dup_err, Maps
  <2> QED
    BY <1>1, <2>1, OpKinds DEF dup_err, Maps
<1>3. /\ q \in Seq(Ops) /\ Len(q) = 2
      /\ \A i \in 1..2 : q[i].do \in {"unmap_fd", "unmap_data"}
  <2>1. UnmapFd(s.to) \in Ops /\ UnmapData(s.to) \in Ops
    BY <1>2 DEF UnmapFd, UnmapData, Ops
  <2> QED
    BY <2>1 DEF UnmapFd, UnmapData
<1> HIDE DEF q
<1>4. \A f \in Envs : todo'[f] = IF f = e THEN q ELSE todo[f]
  BY <1>2 DEF PipeInv, TypeOK
<1>5. /\ Owners' /\ Ring' /\ InOrder'
      /\ \A f \in Envs : io'[f] # None =>
           io'[f].num \in Open(f)' /\ io'[f].i <= io'[f].n
  <2>1. \A f \in Envs : io[f] # None => todo'[f] = todo[f]
    BY <1>0, <1>4 DEF PipeInv, Owners
  <2> QED
    BY <1>2, <2>1, CallsKept DEF mapping
<1>6. todo' \in [Envs -> Seq(Ops)]
  BY <1>2, <1>3 DEF PipeInv, TypeOK
<1>7. TypeOK'
  BY <1>2, <1>5, <1>6, Zenon DEF ring, mapping, PipeInv, TypeOK
<1>8. Lists'
  <2>1. \A f, c \in Envs : \A i \in 1..Len(todo'[f]) : Targets(f, i, c)' =>
          f # e /\ i \in 1..Len(todo[f]) /\ Targets(f, i, c)
    BY <1>3, <1>4 DEF Targets, Maps
  <2>2. \A f \in Envs : \A i \in 1..Len(todo'[f]) :
          /\ todo'[f][i].do \in {"start", "destroy"} => i = Len(todo'[f])
          /\ todo'[f][i].do = "start" => todo'[f][i].env # f
    <3>1. \A i \in 1..Len(todo'[e]) : todo'[e][i].do \notin {"start", "destroy"}
      BY <1>3, <1>4
    <3>2. \A f \in Envs \ {e} : todo'[f] = todo[f]
      BY <1>4
    <3> QED
      BY <3>1, <3>2 DEF PipeInv, Lists
  <2>3. \A f \in Envs : todo'[f] # <<>> => status'[f] = "ready"
    BY <1>0, <1>2, <1>4 DEF PipeInv, Lists
  <2> QED
    BY <1>2, <2>1, <2>2, <2>3 DEF PipeInv, Lists
<1> QED
  BY <1>5, <1>7, <1>8 DEF PipeInv
LEMMA ForkErrInv ==
  ASSUME PipeInv, NEW e \in Envs, fork_err(e)
  PROVE  PipeInv'
<1> USE PipeAssumption
<1>0. /\ e \in running /\ todo[e] # <<>> /\ status[e] = "ready"
      /\ todo' = [todo EXCEPT ![e] = Tail(@)] /\ short' \in BOOLEAN
      /\ UNCHANGED <<status, running, mapping, io, ring, eof>>
  BY DEF fork_err, PipeInv, TypeOK
<1>1. /\ Len(todo[e]) \in Nat \ {0}
      /\ Tail(todo[e]) \in Seq(Ops) /\ Len(Tail(todo[e])) = Len(todo[e]) - 1
      /\ \A i \in 1..Len(Tail(todo[e])) : Tail(todo[e])[i] = todo[e][i + 1]
  BY <1>0, FirstOp DEF PipeInv
<1>2. \A f \in Envs : todo'[f] = IF f = e THEN Tail(todo[e]) ELSE todo[f]
  BY <1>0 DEF PipeInv, TypeOK
<1>3. /\ Owners' /\ Ring' /\ InOrder'
      /\ \A f \in Envs : io'[f] # None =>
           io'[f].num \in Open(f)' /\ io'[f].i <= io'[f].n
  <2>1. \A f \in Envs : io[f] # None => todo'[f] = todo[f]
    BY <1>0, <1>2 DEF PipeInv, Owners
  <2> QED
    BY <1>0, <2>1, CallsKept DEF mapping
<1>4. todo' \in [Envs -> Seq(Ops)]
  BY <1>0, <1>1 DEF PipeInv, TypeOK
<1>5. TypeOK'
  BY <1>0, <1>3, <1>4, Zenon DEF ring, mapping, PipeInv, TypeOK
<1>6. Lists'
  <2>1. \A i \in 1..Len(todo'[e]) :
          i + 1 \in 1..Len(todo[e]) /\ todo'[e][i] = todo[e][i + 1]
    <3>1. todo'[e] = Tail(todo[e])
      BY <1>2
    <3> QED
      BY <3>1, <1>1
  <2>2. Len(todo'[e]) = Len(todo[e]) - 1 /\ \A f \in Envs \ {e} : todo'[f] = todo[f]
    BY <1>1, <1>2
  <2>3. \A f \in Envs : todo'[f] # <<>> => status'[f] = "ready"
    BY <1>0, <1>2 DEF PipeInv, Lists
  <2>4. \A f \in Envs : \A i \in 1..Len(todo'[f]) :
          /\ todo'[f][i].do \in {"start", "destroy"} => i = Len(todo'[f])
          /\ todo'[f][i].do = "start" => todo'[f][i].env # f
    <3>1. ASSUME NEW i \in 1..Len(todo'[e])
          PROVE  /\ todo'[e][i].do \in {"start", "destroy"} => i = Len(todo'[e])
                 /\ todo'[e][i].do = "start" => todo'[e][i].env # e
      <4>1. i + 1 \in 1..Len(todo[e]) /\ todo'[e][i] = todo[e][i + 1]
        BY <2>1
      <4>2. todo[e][i + 1].do \in {"start", "destroy"} => i + 1 = Len(todo[e])
        BY <4>1 DEF PipeInv, Lists
      <4>3. todo[e][i + 1].do = "start" => todo[e][i + 1].env # e
        BY <4>1 DEF PipeInv, Lists
      <4> QED
        BY <4>1, <4>2, <4>3, <1>1, <2>2
    <3>2. ASSUME NEW f \in Envs \ {e}, NEW i \in 1..Len(todo'[f])
          PROVE  /\ todo'[f][i].do \in {"start", "destroy"} => i = Len(todo'[f])
                 /\ todo'[f][i].do = "start" => todo'[f][i].env # f
      <4>1. todo'[f] = todo[f]
        BY <2>2
      <4> QED
        BY <4>1 DEF PipeInv, Lists
    <3> QED
      BY <3>1, <3>2
  <2>5. \A f, c \in Envs : \A i \in 1..Len(todo'[f]) : Targets(f, i, c)' =>
          \E j \in 1..Len(todo[f]) : Targets(f, j, c)
    BY <2>1, <2>2 DEF Targets
  <2>6. \A f, c \in Envs : \A i \in 1..Len(todo'[f]) :
          Targets(f, i, c)' /\ c # f => status'[c] = "forking"
    BY <1>0, <2>5 DEF PipeInv, Lists
  <2>7. \A f, g, c \in Envs : \A i \in 1..Len(todo'[f]), j \in 1..Len(todo'[g]) :
          Targets(f, i, c)' /\ Targets(g, j, c)' /\ c # f /\ c # g => f = g
    BY <2>5 DEF PipeInv, Lists
  <2> QED
    BY <2>3, <2>4, <2>6, <2>7 DEF Lists
<1> QED
  BY <1>3, <1>5, <1>6 DEF PipeInv
-----------------------------------------------------------------------------
\* The lists of page operations that the calls make.

LEMMA CloseList ==
  ASSUME NEW e \in Envs, NEW n \in Numbers
  PROVE  GoodList(e, close(e, n), e)
<1>1. UnmapFd(n) \in Ops /\ UnmapData(n) \in Ops
  BY DEF UnmapFd, UnmapData, Ops
<1>2. CASE n \in Open(e)
  <2> DEFINE q == <<UnmapFd(n), UnmapData(n)>>
  <2>1. close(e, n) = q
    BY <1>2 DEF close, devpipe_close
  <2>2. /\ q \in Seq(Ops) /\ Len(q) = 2
        /\ \A i \in 1..2 : q[i].do \in {"unmap_fd", "unmap_data"}
    BY <1>1 DEF UnmapFd, UnmapData
  <2> HIDE DEF q
  <2> QED
    BY <2>1, <2>2 DEF GoodList, Maps
<1>3. CASE n \notin Open(e)
  <2>1. close(e, n) = <<>>
    BY <1>3 DEF close
  <2> QED
    BY <2>1, EmptySeq DEF GoodList
<1> QED
  BY <1>2, <1>3

LEMMA DupList ==
  ASSUME NEW e \in Envs, NEW n \in Numbers, NEW m \in Numbers
  PROVE  GoodList(e, close(e, m) \o DupMaps(e, n, m), e)
<1> DEFINE p == close(e, m)
           q == DupMaps(e, n, m)
<1>1. /\ q \in Seq(Ops) /\ Len(q) = 2
      /\ \A i \in 1..2 : q[i].do = "skip" \/ (q[i].do \in Maps /\ q[i].env = e)
  <2>1. PICK d : d = IF n \in data[e] THEN MapData(e, n, m) ELSE Skip
    OBVIOUS
  <2>2. d \in Ops /\ (d.do = "skip" \/ (d.do \in Maps /\ d.env = e))
    BY <2>1 DEF MapData, Skip, Ops, Maps
  <2>3. MapFd(e, n, m) \in Ops /\ MapFd(e, n, m).do \in Maps /\ MapFd(e, n, m).env = e
    BY DEF MapFd, Ops, Maps
  <2>4. q = <<d, MapFd(e, n, m)>>
    BY <2>1 DEF DupMaps
  <2> HIDE DEF q
  <2> QED
    BY <2>2, <2>3, <2>4
<1>2. p \in Seq(Ops) /\ Len(p) \in Nat
  BY CloseList, LenProperties DEF GoodList
<1>3. \A i \in 1..Len(p) : p[i].do \notin {"start", "destroy"} \cup Maps
  <2>1. CASE m \in Open(e)
    BY <2>1 DEF close, devpipe_close, UnmapFd, UnmapData, Maps
  <2>2. CASE m \notin Open(e)
    <3>1. p = <<>> /\ Len(p) = 0
      BY <2>2, EmptySeq DEF close
    <3> QED
      BY <3>1
  <2> QED
    BY <2>1, <2>2
<1> HIDE DEF p, q
<1>4. /\ p \o q \in Seq(Ops) /\ Len(p \o q) = Len(p) + 2
      /\ \A i \in 1..(Len(p) + 2) :
           (p \o q)[i] = IF i <= Len(p) THEN p[i] ELSE q[i - Len(p)]
  <2>1. /\ p \o q \in Seq(Ops) /\ Len(p \o q) = Len(p) + Len(q)
        /\ \A i \in 1..(Len(p) + Len(q)) :
             (p \o q)[i] = IF i <= Len(p) THEN p[i] ELSE q[i - Len(p)]
    BY <1>1, <1>2, ConcatProperties
  <2> QED
    BY <1>1, <2>1
<1>5. GoodList(e, p \o q, e)
  <2> SUFFICES ASSUME NEW i \in 1..(Len(p) + 2)
               PROVE  /\ (p \o q)[i].do \notin {"start", "destroy"}
                      /\ (p \o q)[i].do \in Maps => (p \o q)[i].env = e
    BY <1>4 DEF GoodList
  <2>1. CASE i <= Len(p)
    <3>1. i \in 1..Len(p) /\ (p \o q)[i] = p[i]
      BY <1>2, <1>4, <2>1
    <3> QED
      BY <1>3, <3>1
  <2>2. CASE i > Len(p)
    <3>1. i - Len(p) \in 1..2 /\ (p \o q)[i] = q[i - Len(p)]
      BY <1>2, <1>4, <2>2
    <3> QED
      BY <1>1, <3>1 DEF Maps
  <2>3. i <= Len(p) \/ i > Len(p)
    BY <1>2
  <2> QED
    BY <2>1, <2>2, <2>3, Zenon
<1> QED
  BY <1>5 DEF p, q

LEMMA ExitList ==
  ASSUME NEW e \in Envs
  PROVE  GoodList(e, Append(CloseAll(e), Destroy), e)
<1> USE PipeAssumption
<1> DEFINE q == CloseAll(e)
<1>1. ASSUME NEW i \in 1..(2 * MAXFD)
      PROVE  q[i] \in Ops /\ q[i].do \in {"unmap_fd", "unmap_data", "skip"}
  <2> DEFINE n == (i - 1) \div 2
  <2>1. n \in Numbers /\ (i - 1) % 2 \in {0, 1}
    BY DEF Numbers
  <2>2. q[i] = IF n \in Open(e) THEN devpipe_close(n)[1 + ((i - 1) % 2)] ELSE Skip
    BY DEF CloseAll
  <2>3. q[i] \in {UnmapFd(n), UnmapData(n), Skip}
    BY <2>1, <2>2 DEF devpipe_close
  <2>4. UnmapFd(n) \in Ops /\ UnmapData(n) \in Ops /\ Skip \in Ops
    BY <2>1 DEF UnmapFd, UnmapData, Ops
  <2> QED
    BY <2>3, <2>4 DEF UnmapFd, UnmapData, Skip
<1>2. q \in Seq(Ops) /\ Len(q) = 2 * MAXFD
  <2>1. q \in [1..(2 * MAXFD) -> Ops] /\ 2 * MAXFD \in Nat
    BY <1>1 DEF CloseAll
  <2> HIDE DEF q
  <2> QED
    BY <2>1
<1> HIDE DEF q
<1>3. Destroy \in Ops /\ Destroy.do = "destroy"
  BY DEF Destroy, Ops
<1>4. /\ Append(q, Destroy) \in Seq(Ops) /\ Len(Append(q, Destroy)) = 2 * MAXFD + 1
      /\ \A i \in 1..(2 * MAXFD) : Append(q, Destroy)[i] = q[i]
      /\ Append(q, Destroy)[2 * MAXFD + 1] = Destroy
  BY <1>2, <1>3, AppendProperties
<1>5. \A i \in 1..(2 * MAXFD + 1) : i \in 1..(2 * MAXFD) \/ i = 2 * MAXFD + 1
  OBVIOUS
<1>6. GoodList(e, Append(q, Destroy), e)
  BY <1>1, <1>3, <1>4, <1>5 DEF GoodList, Maps
<1> QED
  BY <1>6 DEF q

LEMMA DownPagesType ==
  ASSUME NEW e \in Envs, NEW c \in Envs
  PROVE  /\ DownPages(e, c) \in Seq(Ops) /\ Len(DownPages(e, c)) = 2 * MAXFD
         /\ \A i \in 1..(2 * MAXFD) :
              \/ DownPages(e, c)[i].do = "skip"
              \/ DownPages(e, c)[i].do \in Maps /\ DownPages(e, c)[i].env = c
<1> USE PipeAssumption
<1> DEFINE q == DownPages(e, c)
<1>1. ASSUME NEW i \in 1..(2 * MAXFD)
      PROVE  q[i] \in Ops /\ (q[i].do = "skip" \/ (q[i].do \in Maps /\ q[i].env = c))
  <2>1. CASE i <= MAXFD
    <3>1. MAXFD - i \in Numbers
      BY <2>1 DEF Numbers
    <3>2. q[i] \in {MapData(c, MAXFD - i, MAXFD - i), Skip}
      BY <2>1 DEF DownPages
    <3> QED
      BY <3>1, <3>2 DEF MapData, Skip, Ops, Maps
  <2>2. CASE i > MAXFD
    <3>1. 2 * MAXFD - i \in Numbers
      BY <2>2 DEF Numbers
    <3>2. q[i] \in {MapFd(c, 2 * MAXFD - i, 2 * MAXFD - i), Skip}
      BY <2>2 DEF DownPages
    <3> QED
      BY <3>1, <3>2 DEF MapFd, Skip, Ops, Maps
  <2> QED
    BY <2>1, <2>2
<1>2. q \in Seq(Ops) /\ Len(q) = 2 * MAXFD
  <2>1. q \in [1..(2 * MAXFD) -> Ops] /\ 2 * MAXFD \in Nat
    BY <1>1 DEF DownPages
  <2> HIDE DEF q
  <2> QED
    BY <2>1
<1> QED
  BY <1>1, <1>2

LEMMA ForkList ==
  ASSUME NEW e \in Envs, NEW c \in Envs, c # e
  PROVE  GoodList(e, Append(CopyPages(e, c), Start(c)), c)
<1> USE PipeAssumption
<1> DEFINE q == CopyPages(e, c)
           d == DownPages(e, c)
<1>0. /\ d \in Seq(Ops) /\ Len(d) = 2 * MAXFD
      /\ \A i \in 1..(2 * MAXFD) :
           d[i] \in Ops /\ (d[i].do = "skip" \/ (d[i].do \in Maps /\ d[i].env = c))
  BY DownPagesType, ElementOfSeq
<1>1. /\ q \in Seq(Ops) /\ Len(q) = 2 * MAXFD
      /\ \A i \in 1..(2 * MAXFD) : 
           q[i].do = "skip" \/ (q[i].do \in Maps /\ q[i].env = c)
  <2>1. CASE Children = "fork"
    BY <1>0, <2>1 DEF CopyPages
  <2>2. CASE Children = "spawn"
    <3>1. q = [i \in 1..(2 * MAXFD) |-> d[(2 * MAXFD - i) + 1]]
      BY <1>0, <2>2 DEF CopyPages, Reverse
    <3>2. \A i \in 1..(2 * MAXFD) : q[i] = d[(2 * MAXFD - i) + 1]
                                     /\ (2 * MAXFD - i) + 1 \in 1..(2 * MAXFD)
      BY <3>1
    <3>3. q \in [1..(2 * MAXFD) -> Ops] /\ 2 * MAXFD \in Nat
      BY <1>0, <3>1, <3>2
    <3> HIDE DEF q, d
    <3>4. q \in Seq(Ops) /\ Len(q) = 2 * MAXFD
      BY <3>3
    <3> QED
      BY <1>0, <3>2, <3>4
  <2> QED
    BY <2>1, <2>2
<1> HIDE DEF q
<1>3. Start(c) \in Ops /\ Start(c).do = "start" /\ Start(c).env = c
  BY DEF Start, Ops
<1>4. /\ Append(q, Start(c)) \in Seq(Ops) /\ Len(Append(q, Start(c))) = 2 * MAXFD + 1
      /\ \A i \in 1..(2 * MAXFD) : Append(q, Start(c))[i] = q[i]
      /\ Append(q, Start(c))[2 * MAXFD + 1] = Start(c)
  BY <1>1, <1>3, AppendProperties
<1>5. \A i \in 1..(2 * MAXFD + 1) : i \in 1..(2 * MAXFD) \/ i = 2 * MAXFD + 1
  OBVIOUS
<1>6. GoodList(e, Append(q, Start(c)), c)
  BY <1>1, <1>3, <1>4, <1>5 DEF GoodList, Maps
<1> QED
  BY <1>6 DEF q
-----------------------------------------------------------------------------
\* The steps of read() and write().

\* Goes(e, place) as a new record for e.
LEMMA GoesTo ==
  ASSUME TypeOK, NEW e \in Envs, io[e] # None, NEW place, Goes(e, place),
         place \in {"loop", "ref", "ref2", "copied"}
  PROVE  \E r \in Calls :
           /\ io' = [io EXCEPT ![e] = r]
           /\ r.at = place /\ r.num = io[e].num /\ r.n = io[e].n /\ r.i = io[e].i
<1>1. io[e] \in Calls
  BY DEF TypeOK
<1> DEFINE r == [io[e] EXCEPT !.at = place, !.ref = 0, !.moved = FALSE]
<1>2. r \in Calls
  BY <1>1 DEF Calls
<1>3. r.at = place /\ r.num = io[e].num /\ r.n = io[e].n /\ r.i = io[e].i
  BY <1>1 DEF Calls
<1>4. io' = [io EXCEPT ![e] = r]
  BY DEF Goes, TypeOK
<1> QED
  BY <1>2, <1>3, <1>4

LEMMA RingNumbers ==
  ASSUME TypeOK, Ring
  PROVE  /\ p_rpos \in Nat /\ p_wpos \in Nat /\ stored \in Nat /\ stored <= MaxBytes
         /\ p_wpos <= stored /\ stored <= p_wpos + 1 /\ stored <= p_rpos + PIPEBUFSIZ
         /\ Len(taken) \in Nat /\ p_rpos <= Len(taken) /\ Len(taken) <= p_rpos + 1
         /\ Len(taken) <= p_wpos
<1>1. stored \in 0..MaxBytes /\ p_rpos \in Nat /\ p_wpos \in Nat
  BY DEF TypeOK
<1>2. Len(taken) \in Nat
  BY LenProperties DEF TypeOK
<1>3. /\ p_rpos <= Len(taken) /\ Len(taken) <= p_rpos + 1 /\ Len(taken) <= p_wpos
      /\ p_wpos <= stored /\ stored <= p_wpos + 1 /\ stored <= p_rpos + PIPEBUFSIZ
  BY DEF Ring
<1> QED
  BY <1>1, <1>2, <1>3, PipeAssumption

\* A step of read() or write() that leaves the ring alone: the call returns, or
\* goes to another place with the same bytes left to do.
LEMMA IoMoves ==
  ASSUME PipeInv, NEW e \in Envs, io[e] # None, io[e].at # "copied",
         NEW r, io' = [io EXCEPT ![e] = r],
         r = None \/
           (/\ r \in Calls /\ r.num = io[e].num /\ r.n = io[e].n /\ r.i = io[e].i
            /\ r.at # "copied" /\ (r.at # "loop" => r.i < r.n)),
         UNCHANGED <<status, mapping, todo, ring, short>>,
         running' \subseteq running, eof' \subseteq Envs
  PROVE  PipeInv'
<1> USE PipeAssumption
<1>1. /\ io' \in [Envs -> Calls \cup {None}]
      /\ \A f \in Envs : io'[f] = IF f = e THEN r ELSE io[f]
  BY DEF PipeInv, TypeOK
<1>2. \A f \in Envs : io'[f] # None =>
        io'[f].num \in Open(f)' /\ io'[f].i <= io'[f].n
  <2>1. \A f \in Envs : Open(f)' = Open(f)
    BY DEF Open, mapping
  <2> QED
    BY <1>1, <2>1, CallRange DEF PipeInv
<1>3. /\ running' \subseteq {f \in Envs : status'[f] = "ready"}
      /\ Cardinality(running') <= NCPU
  <2>1. /\ Cardinality(running') <= Cardinality(running)
        /\ Cardinality(running') \in Nat /\ Cardinality(running) \in Nat
    BY RunningFinite, FS_Subset, FS_CardinalityType DEF PipeInv
  <2>2. Cardinality(running) <= NCPU /\ running \subseteq {f \in Envs : status[f] = "ready"}
    BY DEF PipeInv, TypeOK
  <2>3. Cardinality(running') <= NCPU
    BY <2>1, <2>2
  <2> QED
    BY <2>2, <2>3
<1>4. TypeOK'
  BY <1>1, <1>2, <1>3, Zenon DEF mapping, ring, PipeInv, TypeOK
<1>5. Lists'
  BY DEF PipeInv, Lists, Targets
<1>6. Owners'
  BY <1>1 DEF PipeInv, Owners, End, mapping
<1>7. \A f \in Envs : Copied(f)' <=> Copied(f)
  BY <1>1 DEF Copied
<1>8. Ring'
  BY <1>1, <1>7 DEF PipeInv, Ring, ring
<1>9. InOrder'
  BY DEF PipeInv, InOrder, ring
<1> QED
  BY <1>4, <1>5, <1>6, <1>8, <1>9 DEF PipeInv

\* An environment at a place of read() or write()
LEMMA AtCall ==
  ASSUME PipeInv, NEW e \in Envs, NEW place, At(e, place)
  PROVE  /\ io[e] # None /\ io[e] \in Calls /\ io[e].at = place
         /\ e \in running /\ status[e] = "ready" /\ todo[e] = <<>>
         /\ e \in {Reader, Writer} /\ End(e) = (IF e = Reader THEN "r" ELSE "w")
         /\ io[e].n \in Nat /\ io[e].i \in Nat /\ io[e].i <= io[e].n
<1>1. /\ io[e] # None /\ io[e].at = place /\ e \in running
      /\ io[e] \in Calls /\ io[e].i <= io[e].n
  BY DEF At, PipeInv, TypeOK
<1>2. /\ status[e] = "ready" /\ todo[e] = <<>>
      /\ \/ e = Reader /\ End(e) = "r"
         \/ e = Writer /\ End(e) = "w"
  BY <1>1 DEF PipeInv, Owners
<1> QED
  BY <1>1, <1>2, PipeAssumption DEF Calls

LEMMA FdRefsType ==
  ASSUME NEW end
  PROVE  FdRefs(end) \in Nat
<1>1. IsFiniteSet(Envs \X Numbers)
  <2>1. IsFiniteSet(Numbers)
    BY PipeAssumption, FS_Interval DEF Numbers
  <2> QED
    BY <2>1, PipeAssumption, FS_Product
<1>2. IsFiniteSet({x \in Envs \X Numbers : fds[x[1]][x[2]] = end})
  BY <1>1, FS_Subset
<1> QED
  BY <1>2, FS_CardinalityType DEF FdRefs

LEMMA WaitingInv ==
  ASSUME PipeInv, NEW e \in Envs,
         devpipe_done(e) \/ devpipe_wait(e) \/ pageref_fd(e) \/ pageref_p(e)
           \/ pageref_retry(e)
  PROVE  PipeInv'
<1>1. CASE devpipe_done(e)
  <2>1. io[e] # None /\ io[e].at = "loop" /\ io' = [io EXCEPT ![e] = None]
    BY <1>1, AtCall DEF devpipe_done, Returns
  <2> QED
    BY <1>1, <2>1, IoMoves DEF devpipe_done, PipeInv, TypeOK
<1>2. CASE devpipe_wait(e)
  <2>1. io[e] # None /\ io[e].at = "loop" /\ Goes(e, "ref") /\ io[e].i < io[e].n
    BY <1>2, AtCall DEF devpipe_wait
  <2>2. PICK r \in Calls :
           /\ io' = [io EXCEPT ![e] = r]
           /\ r.at = "ref" /\ r.num = io[e].num /\ r.n = io[e].n /\ r.i = io[e].i
    BY <2>1, GoesTo DEF PipeInv
  <2> QED
    BY <1>2, <2>1, <2>2, IoMoves DEF devpipe_wait, PipeInv, TypeOK
<1>3. CASE pageref_fd(e)
  <2>1. io[e] # None /\ io[e].at = "ref" /\ io[e] \in Calls
    BY <1>3, AtCall DEF pageref_fd
  <2>2. io[e].i < io[e].n
    BY <2>1 DEF PipeInv, Owners
  <2> DEFINE k == FdRefs(End(e))
             r == [io[e] EXCEPT !.at = "ref2", !.ref = k, !.moved = FALSE]
  <2>3. k \in Nat
    BY FdRefsType
  <2> HIDE DEF k
  <2>4. /\ r \in Calls
        /\ r.at = "ref2" /\ r.num = io[e].num /\ r.n = io[e].n /\ r.i = io[e].i
    BY <2>1, <2>3 DEF Calls
  <2>5. io' = [io EXCEPT ![e] = r]
    BY <1>3 DEF pageref_fd, PipeInv, TypeOK, k
  <2> QED
    BY <1>3, <2>1, <2>2, <2>4, <2>5, IoMoves, ZenonT(40) DEF pageref_fd, PipeInv, TypeOK
<1>4. CASE pageref_p(e)
  <2>1. io[e] # None /\ io[e].at = "ref2"
    BY <1>4, AtCall DEF pageref_p
  <2>2. /\ running' \subseteq running /\ eof' \subseteq Envs
        /\ UNCHANGED <<status, mapping, todo, ring, short>>
    BY <1>4 DEF pageref_p, PipeInv, TypeOK
  <2>3. CASE Returns(e)
    BY <2>1, <2>2, <2>3, IoMoves DEF Returns
  <2>4. CASE Goes(e, "loop")
    <3>1. PICK r \in Calls :
             /\ io' = [io EXCEPT ![e] = r]
             /\ r.at = "loop" /\ r.num = io[e].num /\ r.n = io[e].n /\ r.i = io[e].i
      BY <2>1, <2>4, GoesTo DEF PipeInv
    <3> QED
      BY <2>1, <2>2, <3>1, IoMoves
  <2> QED
    BY <1>4, <2>3, <2>4 DEF pageref_p
<1>5. CASE pageref_retry(e)
  <2>1. io[e] # None /\ io[e].at = "ref2" /\ Goes(e, "ref")
    BY <1>5, AtCall DEF pageref_retry
  <2>2. io[e].i < io[e].n
    BY <2>1 DEF PipeInv, Owners
  <2>3. PICK r \in Calls :
           /\ io' = [io EXCEPT ![e] = r]
           /\ r.at = "ref" /\ r.num = io[e].num /\ r.n = io[e].n /\ r.i = io[e].i
    BY <2>1, GoesTo DEF PipeInv
  <2> QED
    BY <1>5, <2>1, <2>2, <2>3, IoMoves DEF pageref_retry, PipeInv, TypeOK
<1> QED
  BY <1>1, <1>2, <1>3, <1>4, <1>5

LEMMA EnterInv ==
  ASSUME PipeInv, NEW e \in Envs, read(e) \/ write(e)
  PROVE  PipeInv'
<1> USE PipeAssumption
<1> DEFINE end == IF e = Reader THEN "r" ELSE "w"
<1>1. PICK n \in 1..MaxRequest, num \in Open(e) :
        /\ Free(e) /\ fds[e][num] = end
        /\ e = Writer => stored + n <= MaxBytes
        /\ io' = [io EXCEPT ![e] = [at |-> "loop", num |-> num, n |-> n, i |-> 0,
                                    ref |-> 0, moved |-> FALSE]]
        /\ UNCHANGED <<status, running, mapping, todo, ring, eof, short>>
  BY DEF read, write, Enter
<1>2. PICK r : r = [at |-> "loop", num |-> num, n |-> n, i |-> 0, ref |-> 0,
                    moved |-> FALSE]
  OBVIOUS
<1>3. /\ r \in Calls /\ r.at = "loop" /\ r.num = num /\ r.n = n /\ r.i = 0
      /\ num \in Numbers /\ r # None /\ n \in Nat
  <2>1. num \in Numbers /\ n \in Nat
    <3>1. num \in Numbers
      BY Zenon DEF Open
    <3>2. n \in Nat
      OBVIOUS
    <3> QED
      BY <3>1, <3>2
  <2>2. r \in Calls /\ r.at = "loop" /\ r.num = num /\ r.n = n /\ r.i = 0
    BY <1>2, <2>1 DEF Calls
  <2> QED
    BY <2>1, <2>2
<1>4. /\ io' \in [Envs -> Calls \cup {None}]
      /\ \A f \in Envs : io'[f] = IF f = e THEN r ELSE io[f]
  BY <1>1, <1>2, <1>3 DEF PipeInv, TypeOK
<1>5. io[e] = None /\ todo[e] = <<>> /\ status[e] = "ready" /\ e \in {Reader, Writer}
  BY <1>1 DEF Free, PipeInv, TypeOK, read, write
<1>6. \A f \in Envs : io'[f] # None =>
        io'[f].num \in Open(f)' /\ io'[f].i <= io'[f].n
  <2>1. \A f \in Envs : Open(f)' = Open(f)
    BY <1>1 DEF Open, mapping
  <2> QED
    BY <1>3, <1>4, <2>1, CallRange DEF PipeInv
<1>7. TypeOK'
  BY <1>1, <1>4, <1>6, Zenon DEF mapping, ring, PipeInv, TypeOK
<1>8. Lists'
  <2>1. UNCHANGED <<status, todo>>
    BY <1>1
  <2> QED
    BY <2>1 DEF PipeInv, Lists, Targets
<1>9. Owners'
  BY <1>1, <1>3, <1>4, <1>5 DEF PipeInv, Owners, End, mapping
<1>10. \A f \in Envs : Copied(f)' <=> Copied(f)
  BY <1>3, <1>4, <1>5 DEF Copied
<1>11. Ring'
  <2>1. e = Writer => p_wpos + n <= MaxBytes
    <3>1. p_wpos \in Nat /\ stored \in Nat /\ p_wpos <= stored
      BY RingNumbers DEF PipeInv
    <3> QED
      BY <1>1, <1>3, <3>1
  <2>2. io'[Writer] # None => p_wpos + io'[Writer].n - io'[Writer].i <= MaxBytes
    <3>1. p_wpos \in Nat
      BY DEF PipeInv, TypeOK
    <3>2. CASE e = Writer
      BY <1>3, <1>4, <2>1, <3>1, <3>2
    <3>3. CASE e # Writer
      BY <1>4, <3>3 DEF PipeInv, Ring
    <3> QED
      BY <3>2, <3>3
  <2> QED
    BY <1>1, <1>10, <2>2 DEF PipeInv, Ring, ring
<1>12. InOrder'
  BY <1>1 DEF PipeInv, InOrder, ring
<1> QED
  BY <1>7, <1>8, <1>9, <1>11, <1>12 DEF PipeInv

\* What the three steps that move bytes have in common: the call of e goes on
\* with record r, and only the ring changes beside it.
LEMMA ByteFrame ==
  ASSUME PipeInv, NEW e \in Envs, io[e] # None, NEW r \in Calls,
         io' = [io EXCEPT ![e] = r], r.num = io[e].num, r.n = io[e].n,
         r.i <= r.n, r.at # "loop" => r.i < r.n,
         UNCHANGED <<status, running, mapping, todo, eof, short>>,
         p_rpos' \in Nat, p_wpos' \in Nat, stored' \in 0..MaxBytes,
         p_buf' \in [0..(PIPEBUFSIZ - 1) -> 0..MaxBytes],
         taken' \in Seq(0..MaxBytes)
  PROVE  /\ TypeOK' /\ Lists' /\ Owners'
         /\ \A f \in Envs : io'[f] = IF f = e THEN r ELSE io[f]
<1> USE PipeAssumption
<1>1. /\ io' \in [Envs -> Calls \cup {None}]
      /\ \A f \in Envs : io'[f] = IF f = e THEN r ELSE io[f]
  BY DEF PipeInv, TypeOK
<1>2. \A f \in Envs : io'[f] # None =>
        io'[f].num \in Open(f)' /\ io'[f].i <= io'[f].n
  <2>1. \A f \in Envs : Open(f)' = Open(f)
    BY DEF Open, mapping
  <2> QED
    BY <1>1, <2>1, CallRange DEF PipeInv
<1>3. TypeOK'
  BY <1>1, <1>2, Zenon DEF mapping, PipeInv, TypeOK
<1>4. Lists'
  BY ListsSame DEF PipeInv
<1>5. Owners'
  BY <1>1 DEF PipeInv, Owners, End, mapping
<1> QED
  BY <1>1, <1>3, <1>4, <1>5

LEMMA ReadByteInv ==
  ASSUME PipeInv, NEW e \in Envs, read_byte(e)
  PROVE  PipeInv'
<1> USE PipeAssumption
<1>1. /\ At(e, "loop") /\ End(e) = "r" /\ io[e].i < io[e].n /\ p_rpos # p_wpos
      /\ taken' = Append(taken, p_buf[p_rpos % PIPEBUFSIZ])
      /\ Goes(e, "copied")
      /\ UNCHANGED <<status, running, mapping, todo, p_rpos, p_wpos, p_buf, stored, eof, short>>
  BY DEF read_byte, Empty
<1>2. io[e] # None /\ io[e].at = "loop" /\ status[e] = "ready" /\ e = Reader
  BY <1>1, AtCall
<1>3. PICK r \in Calls :
         /\ io' = [io EXCEPT ![e] = r]
         /\ r.at = "copied" /\ r.num = io[e].num /\ r.n = io[e].n /\ r.i = io[e].i
  BY <1>1, <1>2, GoesTo DEF PipeInv
<1>4. /\ p_rpos \in Nat /\ p_wpos \in Nat /\ stored \in Nat /\ Len(taken) \in Nat
      /\ Len(taken) = p_rpos /\ p_rpos < p_wpos /\ p_wpos <= stored
      /\ stored <= p_wpos + 1 /\ stored <= p_rpos + PIPEBUFSIZ
  <2>1. ~Copied(Reader)
    BY <1>2 DEF Copied
  <2>2. Len(taken) # p_rpos + 1
    BY <1>2, <2>1 DEF PipeInv, Ring
  <2> QED
    BY <1>1, <2>2, RingNumbers DEF PipeInv
<1>5. p_buf[p_rpos % PIPEBUFSIZ] = p_rpos + 1
  <2>1. p_rpos \in p_rpos..(stored - 1)
    BY <1>4
  <2> QED
    BY <2>1 DEF PipeInv, Ring
<1>6. p_rpos + 1 \in 0..MaxBytes
  BY <1>4, RingNumbers DEF PipeInv
<1>7. /\ taken' \in Seq(0..MaxBytes) /\ Len(taken') = Len(taken) + 1
      /\ \A k \in 1..Len(taken) : taken'[k] = taken[k]
      /\ taken'[Len(taken) + 1] = p_rpos + 1
  <2>1. taken \in Seq(0..MaxBytes)
    BY DEF PipeInv, TypeOK
  <2>2. taken' = Append(taken, p_rpos + 1)
    BY <1>1, <1>5
  <2> QED
    BY <1>6, <2>1, <2>2, AppendProperties
<1>8. /\ TypeOK' /\ Lists' /\ Owners'
      /\ \A f \in Envs : io'[f] = IF f = e THEN r ELSE io[f]
  <2>1. r.i <= r.n /\ r.i < r.n
    BY <1>1, <1>3 DEF Calls
  <2>2. /\ p_rpos' \in Nat /\ p_wpos' \in Nat /\ stored' \in 0..MaxBytes
        /\ p_buf' \in [0..(PIPEBUFSIZ - 1) -> 0..MaxBytes]
    BY <1>1, Zenon DEF PipeInv, TypeOK
  <2> QED
    BY <1>1, <1>2, <1>3, <1>7, <2>1, <2>2, ByteFrame
<1>9. Ring'
  <2>1. Copied(Reader)' /\ (Copied(Writer)' <=> Copied(Writer))
    BY <1>2, <1>3, <1>8 DEF Copied
  <2>2. io'[Writer] = io[Writer]
    BY <1>2, <1>8
  <2>3. /\ p_rpos <= Len(taken') /\ Len(taken') <= p_rpos + 1 /\ Len(taken') <= p_wpos
        /\ Len(taken') = p_rpos + 1
    BY <1>4, <1>7
  <2> QED
    BY <1>1, <2>1, <2>2, <2>3 DEF PipeInv, Ring
<1>10. InOrder'
  <2> SUFFICES ASSUME NEW k \in 1..(Len(taken) + 1) PROVE taken'[k] = k
    BY <1>7 DEF InOrder
  <2>1. CASE k \in 1..Len(taken)
    BY <1>7, <2>1 DEF PipeInv, InOrder
  <2>2. CASE k = Len(taken) + 1
    BY <1>4, <1>7, <2>2
  <2> QED
    BY <1>4, <2>1, <2>2
<1> QED
  BY <1>8, <1>9, <1>10 DEF PipeInv

LEMMA WriteByteInv ==
  ASSUME PipeInv, NEW e \in Envs, write_byte(e)
  PROVE  PipeInv'
<1> USE PipeAssumption
<1>1. /\ At(e, "loop") /\ End(e) = "w" /\ io[e].i < io[e].n
      /\ ~(p_wpos >= p_rpos + PIPEBUFSIZ)
      /\ p_buf' = [p_buf EXCEPT ![p_wpos % PIPEBUFSIZ] = stored + 1]
      /\ stored' = stored + 1
      /\ Goes(e, "copied")
      /\ UNCHANGED <<status, running, mapping, todo, p_rpos, p_wpos, taken, eof, short>>
  BY DEF write_byte, Full
<1>2. /\ io[e] # None /\ io[e].at = "loop" /\ status[e] = "ready" /\ e = Writer
      /\ io[e].n \in Nat /\ io[e].i \in Nat
  BY <1>1, AtCall
<1>3. PICK r \in Calls :
         /\ io' = [io EXCEPT ![e] = r]
         /\ r.at = "copied" /\ r.num = io[e].num /\ r.n = io[e].n /\ r.i = io[e].i
  BY <1>1, <1>2, GoesTo DEF PipeInv
<1>4. /\ p_rpos \in Nat /\ p_wpos \in Nat /\ stored \in Nat /\ Len(taken) \in Nat
      /\ stored = p_wpos /\ p_wpos < p_rpos + PIPEBUFSIZ /\ p_rpos <= p_wpos
  <2>1. ~Copied(Writer)
    BY <1>2 DEF Copied
  <2>2. stored # p_wpos + 1
    BY <1>2, <2>1 DEF PipeInv, Ring
  <2> QED
    BY <1>1, <2>2, RingNumbers DEF PipeInv
<1>5. stored + 1 \in 0..MaxBytes
  <2>1. p_wpos + io[Writer].n - io[Writer].i <= MaxBytes
    BY <1>2 DEF PipeInv, Ring
  <2> QED
    BY <1>1, <1>2, <1>4, <2>1
<1>6. p_wpos % PIPEBUFSIZ \in 0..(PIPEBUFSIZ - 1)
  BY <1>4, PlaceInRing
<1>7. /\ p_buf' \in [0..(PIPEBUFSIZ - 1) -> 0..MaxBytes]
      /\ p_buf'[p_wpos % PIPEBUFSIZ] = p_wpos + 1
      /\ \A x \in 0..(PIPEBUFSIZ - 1) : x # p_wpos % PIPEBUFSIZ => p_buf'[x] = p_buf[x]
  <2>1. p_buf \in [0..(PIPEBUFSIZ - 1) -> 0..MaxBytes]
    BY DEF PipeInv, TypeOK
  <2>2. PICK x \in 0..(PIPEBUFSIZ - 1) : x = p_wpos % PIPEBUFSIZ
    BY <1>6
  <2>3. p_buf' = [p_buf EXCEPT ![x] = stored + 1]
    BY <1>1, <2>2
  <2> QED
    BY <1>4, <1>5, <2>1, <2>2, <2>3
<1>8. /\ TypeOK' /\ Lists' /\ Owners'
      /\ \A f \in Envs : io'[f] = IF f = e THEN r ELSE io[f]
  <2>1. r.i <= r.n /\ r.i < r.n
    BY <1>1, <1>3 DEF Calls
  <2>2. p_rpos' \in Nat /\ p_wpos' \in Nat /\ taken' \in Seq(0..MaxBytes)
    BY <1>1, Zenon DEF PipeInv, TypeOK
  <2>3. stored' \in 0..MaxBytes
    BY <1>1, <1>5
  <2> QED
    BY <1>1, <1>2, <1>3, <1>7, <2>1, <2>2, <2>3, ByteFrame
<1>9. Ring'
  <2>1. Copied(Writer)' /\ (Copied(Reader)' <=> Copied(Reader))
    BY <1>2, <1>3, <1>8 DEF Copied
  <2>2. io'[Writer] # None => p_wpos + io'[Writer].n - io'[Writer].i <= MaxBytes
    BY <1>2, <1>3, <1>8 DEF PipeInv, Ring
  <2>3. /\ p_wpos <= stored' /\ stored' <= p_wpos + 1 /\ stored' <= p_rpos + PIPEBUFSIZ
        /\ stored' = p_wpos + 1
    BY <1>1, <1>4
  <2>4. ASSUME NEW k \in p_rpos..(stored' - 1)
        PROVE  p_buf'[k % PIPEBUFSIZ] = k + 1
    <3>1. CASE k = p_wpos
      BY <1>7, <3>1
    <3>2. CASE k # p_wpos
      <4>1. k \in Nat /\ k < p_wpos /\ p_wpos < k + PIPEBUFSIZ /\ k \in p_rpos..(stored - 1)
        BY <1>1, <1>4, <3>2
      <4>2. k % PIPEBUFSIZ # p_wpos % PIPEBUFSIZ
        BY <1>4, <4>1, DifferentPlaces
      <4>3. k % PIPEBUFSIZ \in 0..(PIPEBUFSIZ - 1)
        BY <4>1, PlaceInRing
      <4>4. p_buf'[k % PIPEBUFSIZ] = p_buf[k % PIPEBUFSIZ]
        BY <1>7, <4>2, <4>3
      <4>5. p_buf[k % PIPEBUFSIZ] = k + 1
        BY <4>1 DEF PipeInv, Ring
      <4> QED
        BY <4>4, <4>5
    <3> QED
      BY <3>1, <3>2
  <2> QED
    BY <1>1, <2>1, <2>2, <2>3, <2>4 DEF PipeInv, Ring
<1>10. InOrder'
  BY <1>1 DEF PipeInv, InOrder
<1> QED
  BY <1>8, <1>9, <1>10 DEF PipeInv

LEMMA AdvanceInv ==
  ASSUME PipeInv, NEW e \in Envs, advance(e)
  PROVE  PipeInv'
<1> USE PipeAssumption
<1>1. /\ At(e, "copied")
      /\ IF End(e) = "r" THEN p_rpos' = p_rpos + 1 /\ UNCHANGED p_wpos
                         ELSE p_wpos' = p_wpos + 1 /\ UNCHANGED p_rpos
      /\ io' = [io EXCEPT ![e].at = "loop", ![e].i = @ + 1]
      /\ UNCHANGED <<status, running, mapping, todo, p_buf, stored, taken, eof, short>>
  BY DEF advance
<1>2. /\ io[e] # None /\ io[e].at = "copied" /\ status[e] = "ready" /\ io[e] \in Calls
      /\ io[e].n \in Nat /\ io[e].i \in Nat
      /\ e \in {Reader, Writer} /\ End(e) = (IF e = Reader THEN "r" ELSE "w")
  BY <1>1, AtCall
<1>3. io[e].i < io[e].n
  BY <1>2 DEF PipeInv, Owners
<1> DEFINE j == io[e].i + 1
           r == [io[e] EXCEPT !.at = "loop", !.i = j]
<1>5. io' = [io EXCEPT ![e] = r]
  BY <1>1 DEF PipeInv, TypeOK
<1>j. j \in Nat /\ j <= io[e].n /\ j = io[e].i + 1
  BY <1>2, <1>3
<1> HIDE DEF j
<1>4. /\ r \in Calls /\ r.at = "loop" /\ r.num = io[e].num /\ r.n = io[e].n
      /\ r.i = io[e].i + 1 /\ r.i <= r.n
  <2>1. /\ r \in Calls /\ r.at = "loop" /\ r.num = io[e].num /\ r.n = io[e].n
        /\ r.i = j
    BY <1>2, <1>j DEF Calls
  <2> QED
    BY <1>j, <2>1
<1> HIDE DEF r
<1>6. /\ p_rpos \in Nat /\ p_wpos \in Nat /\ stored \in Nat /\ Len(taken) \in Nat
      /\ p_wpos <= stored /\ stored <= p_wpos + 1 /\ stored <= p_rpos + PIPEBUFSIZ
      /\ p_rpos <= Len(taken) /\ Len(taken) <= p_rpos + 1 /\ Len(taken) <= p_wpos
  BY RingNumbers DEF PipeInv
<1>7. /\ TypeOK' /\ Lists' /\ Owners'
      /\ \A f \in Envs : io'[f] = IF f = e THEN r ELSE io[f]
  <2>1. p_rpos' \in Nat /\ p_wpos' \in Nat
    BY <1>1, <1>6
  <2>2. /\ taken' \in Seq(0..MaxBytes) /\ stored' \in 0..MaxBytes
        /\ p_buf' \in [0..(PIPEBUFSIZ - 1) -> 0..MaxBytes]
    BY <1>1, Zenon DEF PipeInv, TypeOK
  <2> QED
    BY <1>1, <1>2, <1>4, <1>5, <2>1, <2>2, ByteFrame
<1>8. ASSUME e = Reader PROVE Ring'
  <2>1. Len(taken) = p_rpos + 1
    BY <1>2, <1>8 DEF PipeInv, Ring, Copied
  <2>2. p_rpos' = p_rpos + 1 /\ p_wpos' = p_wpos
    BY <1>1, <1>2, <1>8
  <2>3. ~Copied(Reader)' /\ (Copied(Writer)' <=> Copied(Writer)) /\ io'[Writer] = io[Writer]
    BY <1>4, <1>7, <1>8 DEF Copied
  <2>4. /\ p_rpos' <= Len(taken) /\ Len(taken) <= p_rpos' + 1 /\ Len(taken) # p_rpos' + 1
        /\ stored <= p_rpos' + PIPEBUFSIZ
        /\ p_rpos'..(stored - 1) \subseteq p_rpos..(stored - 1)
    BY <1>6, <2>1, <2>2
  <2> QED
    BY <1>1, <2>2, <2>3, <2>4 DEF PipeInv, Ring
<1>9. ASSUME e = Writer PROVE Ring'
  <2>1. stored = p_wpos + 1
    BY <1>2, <1>9 DEF PipeInv, Ring, Copied
  <2>2. p_wpos' = p_wpos + 1 /\ p_rpos' = p_rpos
    BY <1>1, <1>2, <1>9
  <2>3. ~Copied(Writer)' /\ (Copied(Reader)' <=> Copied(Reader))
    BY <1>4, <1>7, <1>9 DEF Copied
  <2>4. /\ Len(taken) <= p_wpos' /\ p_wpos' <= stored /\ stored <= p_wpos' + 1
        /\ stored # p_wpos' + 1
    BY <1>6, <2>1, <2>2
  <2>5. p_wpos' + io'[Writer].n - io'[Writer].i <= MaxBytes
    <3>1. p_wpos + io[Writer].n - io[Writer].i <= MaxBytes
      BY <1>2, <1>9 DEF PipeInv, Ring
    <3>2. io'[Writer].n = io[Writer].n /\ io'[Writer].i = io[Writer].i + 1
      BY <1>4, <1>7, <1>9
    <3> QED
      BY <1>2, <1>6, <1>9, <2>2, <3>1, <3>2, SMTT(20)
  <2> QED
    BY <1>1, <2>2, <2>3, <2>4, <2>5 DEF PipeInv, Ring
<1>10. Ring'
  BY <1>2, <1>8, <1>9
<1>11. InOrder'
  BY <1>1 DEF PipeInv, InOrder
<1> QED
  BY <1>7, <1>10, <1>11 DEF PipeInv

LEMMA NextPipeInv == PipeInv /\ [Next]_vars => PipeInv'
<1> SUFFICES ASSUME PipeInv, [Next]_vars PROVE PipeInv'
  OBVIOUS
<1>s. CASE UNCHANGED vars
  <2>1. TypeOK'
    BY <1>s, Zenon DEF vars, PipeInv, TypeOK, Open
  <2>2. Lists' /\ Owners' /\ InOrder'
    BY <1>s DEF vars, PipeInv, Lists, Targets, Owners, End, InOrder
  <2>3. Ring'
    BY <1>s DEF vars, PipeInv, Ring, Copied
  <2> QED
    BY <2>1, <2>2, <2>3 DEF PipeInv
<1>1. ASSUME NEW e \in Envs, close_call(e) PROVE PipeInv'
  <2>1. PICK n \in Open(e) : Call(e, close(e, n)) /\ UNCHANGED status
    BY <1>1 DEF close_call
  <2>2. n \in Numbers
    BY Zenon DEF Open
  <2> QED
    BY <2>1, <2>2, CloseList, CallInv
<1>2. ASSUME NEW e \in Envs, dup(e) PROVE PipeInv'
  <2>1. PICK n \in Open(e), m \in Numbers :
          Call(e, close(e, m) \o DupMaps(e, n, m)) /\ UNCHANGED status
    BY <1>2 DEF dup
  <2>2. n \in Numbers
    BY Zenon DEF Open
  <2> QED
    BY <2>1, <2>2, DupList, CallInv
<1>3. ASSUME NEW e \in Envs, fork(e) PROVE PipeInv'
  <2>1. PICK c \in Envs :
          /\ status[c] = "unused" /\ status' = [status EXCEPT ![c] = "forking"]
          /\ Call(e, Append(CopyPages(e, c), Start(c)))
    BY <1>3 DEF fork
  <2>2. c # e
    BY <2>1 DEF Call, Free, PipeInv, TypeOK
  <2> QED
    BY <2>1, <2>2, ForkList, CallInv
<1>4. ASSUME NEW e \in Envs, exit(e) PROVE PipeInv'
  BY <1>4, ExitList, CallInv DEF exit
<1>5. ASSUME NEW e \in Envs, Io(e) PROVE PipeInv'
  BY <1>5, WaitingInv, ReadByteInv, WriteByteInv, AdvanceInv DEF Io
<1> QED
  BY <1>s, <1>1, <1>2, <1>3, <1>4, <1>5, EnvRunInv, EnvDestroyInv, PipeCallInv,
     PageStepInv, DupErrInv, ForkErrInv, EnterInv
     DEF Next

\* The positions, the ring, the lists of page operations and the calls stay in
\* step, whatever is created, destroyed or interrupted.
THEOREM PipeInvariance == Spec => []PipeInv
  BY InitPipeInv, NextPipeInv, PTL DEF Spec

\* Every variable keeps its type; in particular an environment on a CPU can run,
\* and one that reads or writes still has the descriptor open.
THEOREM TypeCorrect == Spec => []TypeOK
<1>1. PipeInv => TypeOK
  BY DEF PipeInv
<1> QED
  BY <1>1, PipeInvariance, PTL

\* The bytes of the pipe arrive in order, each once, for any ring, any requests
\* and any number of CPUs.
THEOREM BytesInOrder == Spec => []InOrder
<1>1. PipeInv => InOrder
  BY DEF PipeInv
<1> QED
  BY <1>1, PipeInvariance, PTL
-----------------------------------------------------------------------------
\* The end of the pipe: children made by fork, one CPU.

LEMMA OneElement ==
  ASSUME NEW S, IsFiniteSet(S), Cardinality(S) <= 1, NEW e \in S, NEW f \in S
  PROVE  e = f
<1>1. Cardinality(S) \in Nat /\ Cardinality(S) # 0
  BY FS_CardinalityType, FS_EmptySet
<1>2. Cardinality(S) = 1
  BY <1>1
<1>3. PICK x : S = {x}
  BY <1>2, FS_Singleton
<1> QED
  BY <1>3

LEMMA OneRunner ==
  ASSUME TypeOK, NCPU = 1, NEW e \in running, NEW f \in running
  PROVE  e = f
<1>1. IsFiniteSet(running) /\ Cardinality(running) <= 1
  BY RunningFinite DEF TypeOK
<1> QED
  BY <1>1, OneElement

LEMMA PairsFinite == IsFiniteSet(Envs \X Numbers)
<1>1. IsFiniteSet(Numbers)
  BY PipeAssumption, FS_Interval DEF Numbers
<1> QED
  BY <1>1, PipeAssumption, FS_Product

\* If as many pages refer to one end's descriptor as to the data page, then
\* the other end is open nowhere.
LEMMA EqualCounts ==
  ASSUME DataBesideFd, NEW end, end # "", FdRefs(end) = DataRefs
  PROVE  \A f \in Envs : \A n \in Numbers : fds[f][n] \in {"", end}
<1> DEFINE R == {x \in Envs \X Numbers : fds[x[1]][x[2]] = end}
           D == {x \in Envs \X Numbers : x[2] \in data[x[1]]}
<1>1. R \subseteq D
  BY DEF DataBesideFd
<1>2. IsFiniteSet(D)
  BY PairsFinite, FS_Subset
<1>3. Cardinality(R) = Cardinality(D)
  BY DEF FdRefs, DataRefs
<1>4. R = D
  <2> HIDE DEF R, D
  <2> QED
    BY <1>1, <1>2, <1>3, FS_Subset
<1> SUFFICES ASSUME NEW f \in Envs, NEW n \in Numbers, fds[f][n] # ""
             PROVE  fds[f][n] = end
  OBVIOUS
<1>5. <<f, n>> \in D
  BY DEF DataBesideFd
<1> QED
  BY <1>4, <1>5

LEMMA NoData ==
  ASSUME DataRefs = 0
  PROVE  \A f \in Envs : \A n \in Numbers : n \notin data[f]
<1> DEFINE D == {x \in Envs \X Numbers : x[2] \in data[x[1]]}
<1>1. IsFiniteSet(D)
  BY PairsFinite, FS_Subset
<1>2. D = {}
  BY <1>1, FS_EmptySet DEF DataRefs
<1> SUFFICES ASSUME NEW f \in Envs, NEW n \in Numbers, n \in data[f] PROVE FALSE
  OBVIOUS
<1>3. <<f, n>> \in D
  OBVIOUS
<1> QED
  BY <1>2, <1>3

LEMMA ClosedCount ==
  ASSUME NEW end, Closed(end)
  PROVE  FdRefs(end) = 0
<1>1. {x \in Envs \X Numbers : fds[x[1]][x[2]] = end} = {}
  BY DEF Closed
<1> QED
  BY <1>1, FS_EmptySet DEF FdRefs

LEMMA OtherSafe ==
  ASSUME NEW e, NEW q, NEW i, q[i].do \notin {"unmap_data", "map_fd"}
  PROVE  SafeAt(e, q, i)
  BY DEF SafeAt

\* Safety of a place depends on the places before it only.
LEMMA PrefixSafe ==
  ASSUME NEW e, NEW q, NEW r, NEW i \in Nat \ {0},
         \A j \in 1..i : r[j] = q[j], SafeAt(e, q, i)
  PROVE  SafeAt(e, r, i)
<1>1. r[i] = q[i] /\ (i # 1 => r[i - 1] = q[i - 1])
  OBVIOUS
<1>2. \A j \in 1..(i - 1) : r[j] = q[j]
  OBVIOUS
<1> QED
  BY <1>1, <1>2 DEF SafeAt

LEMMA UnmapSafe ==
  ASSUME NEW e, NEW n
  PROVE  SafeList(e, <<UnmapFd(n), UnmapData(n)>>)
<1>1. PICK q : q = <<UnmapFd(n), UnmapData(n)>>
  OBVIOUS
<1>2. Len(q) = 2 /\ q[1] = UnmapFd(n) /\ q[2] = UnmapData(n)
  BY <1>1
<1>3. SafeAt(e, q, 1)
  BY <1>2, OtherSafe DEF UnmapFd
<1>4. SafeAt(e, q, 2)
  <2>1. q[2].do = "unmap_data" /\ q[2].num = n /\ q[2 - 1] = UnmapFd(n)
    BY <1>2 DEF UnmapData
  <2> QED
    BY <2>1 DEF SafeAt
<1>5. \A i \in 1..Len(q) : i = 1 \/ i = 2
  BY <1>2
<1> QED
  BY <1>1, <1>3, <1>4, <1>5 DEF SafeList

LEMMA EmptyListSafe ==
  ASSUME NEW e
  PROVE  SafeList(e, <<>>)
<1>1. \A i \in 1..Len(<<>>) : FALSE
  OBVIOUS
<1> QED
  BY <1>1 DEF SafeList

LEMMA CloseSafe ==
  ASSUME NEW e \in Envs, NEW n \in Numbers
  PROVE  SafeList(e, close(e, n))
  BY UnmapSafe, EmptyListSafe DEF close, devpipe_close

LEMMA DupSafe ==
  ASSUME NEW e \in Envs, NEW n \in Numbers, NEW m \in Numbers, n \in data[e]
  PROVE  SafeList(e, close(e, m) \o DupMaps(e, n, m))
<1>1. PICK p : p = close(e, m)
  OBVIOUS
<1>2. PICK q : q = DupMaps(e, n, m)
  OBVIOUS
<1>3. p \in Seq(Ops) /\ Len(p) \in Nat
  BY <1>1, CloseList, LenProperties DEF GoodList
<1>4. q \in Seq(Ops) /\ Len(q) = 2 /\ q[1] = MapData(e, n, m) /\ q[2] = MapFd(e, n, m)
  <2>1. MapData(e, n, m) \in Ops /\ MapFd(e, n, m) \in Ops
    BY DEF MapFd, MapData, Ops
  <2> QED
    BY <1>2, <2>1 DEF DupMaps
<1>5. PICK r : r = p \o q
  OBVIOUS
<1>6. /\ Len(r) = Len(p) + 2
      /\ \A i \in 1..Len(p) : r[i] = p[i]
      /\ r[Len(p) + 1] = MapData(e, n, m) /\ r[Len(p) + 2] = MapFd(e, n, m)
  <2>1. /\ Len(r) = Len(p) + Len(q)
        /\ \A i \in 1..(Len(p) + Len(q)) :
             r[i] = IF i <= Len(p) THEN p[i] ELSE q[i - Len(p)]
    BY <1>3, <1>4, <1>5, ConcatProperties
  <2> QED
    BY <1>3, <1>4, <2>1
<1>7. ASSUME NEW i \in 1..Len(p) PROVE SafeAt(e, r, i)
  <2>1. SafeAt(e, p, i)
    BY <1>1, CloseSafe DEF SafeList
  <2>2. i \in Nat \ {0} /\ \A j \in 1..i : r[j] = p[j]
    BY <1>3, <1>6
  <2> QED
    BY <2>1, <2>2, PrefixSafe
<1>8. SafeAt(e, r, Len(p) + 1)
  <2>1. r[Len(p) + 1].do = "map_data"
    BY <1>6 DEF MapData
  <2> QED
    BY <2>1, OtherSafe
<1>9. SafeAt(e, r, Len(p) + 2)
  <2>1. PICK k : k = Len(p) + 2
    OBVIOUS
  <2>2. k # 1 /\ k - 1 = Len(p) + 1
    BY <1>3, <2>1
  <2>3. /\ r[k].do = "map_fd" /\ r[k].env = e /\ r[k].to = m
        /\ r[k - 1].do = "map_data" /\ r[k - 1].env = e /\ r[k - 1].to = m
    BY <1>6, <2>1, <2>2 DEF MapFd, MapData
  <2>4. SafeAt(e, r, k)
    BY <2>2, <2>3 DEF SafeAt
  <2> QED
    BY <2>1, <2>4
<1>10. \A i \in 1..Len(r) : i \in 1..Len(p) \/ i = Len(p) + 1 \/ i = Len(p) + 2
  BY <1>3, <1>6
<1>11. SafeList(e, r)
  BY <1>7, <1>8, <1>9, <1>10 DEF SafeList
<1> QED
  BY <1>1, <1>2, <1>5, <1>11

LEMMA ExitSafe ==
  ASSUME NEW e \in Envs
  PROVE  SafeList(e, Append(CloseAll(e), Destroy))
<1> USE PipeAssumption
<1>1. PICK q : q = CloseAll(e)
  OBVIOUS
<1>2. q \in [1..(2 * MAXFD) -> Ops]
  <2> SUFFICES ASSUME NEW i \in 1..(2 * MAXFD)
               PROVE  (LET n == (i - 1) \div 2 IN
                       IF n \in Open(e) THEN devpipe_close(n)[1 + ((i - 1) % 2)]
                       ELSE Skip) \in Ops
    BY <1>1 DEF CloseAll
  <2> DEFINE n == (i - 1) \div 2
  <2>1. n \in Numbers /\ (i - 1) % 2 \in {0, 1}
    BY DEF Numbers
  <2>2. UnmapFd(n) \in Ops /\ UnmapData(n) \in Ops /\ Skip \in Ops
    BY <2>1 DEF UnmapFd, UnmapData, Ops
  <2> QED
    BY <2>1, <2>2 DEF devpipe_close
<1>3. ASSUME NEW i \in 1..(2 * MAXFD) PROVE SafeAt(e, q, i)
  <2>1. PICK n : n = (i - 1) \div 2
    OBVIOUS
  <2>2. q[i] = IF n \in Open(e) THEN devpipe_close(n)[1 + ((i - 1) % 2)] ELSE Skip
    BY <1>1, <2>1 DEF CloseAll
  <2>3. CASE n \notin Open(e)
    BY <2>2, <2>3, OtherSafe DEF Skip
  <2>4. CASE n \in Open(e) /\ (i - 1) % 2 = 0
    <3>1. q[i] = UnmapFd(n)
      BY <2>2, <2>4 DEF devpipe_close
    <3> QED
      BY <3>1, OtherSafe DEF UnmapFd
  <2>5. CASE n \in Open(e) /\ (i - 1) % 2 = 1
    <3>1. q[i] = UnmapData(n)
      BY <2>2, <2>5 DEF devpipe_close
    <3>2. i # 1 /\ i - 1 \in 1..(2 * MAXFD)
      BY <2>5
    <3>3. ((i - 1) - 1) \div 2 = n /\ ((i - 1) - 1) % 2 = 0
      BY <2>1, <2>5
    <3>4. q[i - 1] = UnmapFd(n)
      BY <1>1, <2>5, <3>2, <3>3 DEF CloseAll, devpipe_close
    <3>5. q[i].do = "unmap_data" /\ q[i].num = n
      BY <3>1 DEF UnmapData
    <3> QED
      BY <3>2, <3>4, <3>5 DEF SafeAt
  <2>6. (i - 1) % 2 = 0 \/ (i - 1) % 2 = 1
    OBVIOUS
  <2> QED
    BY <2>3, <2>4, <2>5, <2>6
<1>4. q \in Seq(Ops) /\ Len(q) = 2 * MAXFD
  BY <1>2
<1>5. PICK r : r = Append(q, Destroy)
  OBVIOUS
<1>6. /\ Len(r) = 2 * MAXFD + 1 /\ r[2 * MAXFD + 1].do = "destroy"
      /\ \A i \in 1..(2 * MAXFD) : r[i] = q[i]
  <2>1. Destroy \in Ops /\ Destroy.do = "destroy"
    BY DEF Destroy, Ops
  <2> QED
    BY <1>4, <1>5, <2>1, AppendProperties
<1>7. ASSUME NEW i \in 1..(2 * MAXFD) PROVE SafeAt(e, r, i)
  <2>1. i \in Nat \ {0} /\ \A j \in 1..i : r[j] = q[j]
    BY <1>6
  <2> QED
    BY <1>3, <2>1, PrefixSafe
<1>8. SafeAt(e, r, 2 * MAXFD + 1)
  BY <1>6, OtherSafe
<1>9. \A i \in 1..Len(r) : i \in 1..(2 * MAXFD) \/ i = 2 * MAXFD + 1
  BY <1>6
<1>10. SafeList(e, r)
  BY <1>7, <1>8, <1>9 DEF SafeList
<1> QED
  BY <1>1, <1>5, <1>10

LEMMA ForkSafe ==
  ASSUME NEW e \in Envs, NEW c \in Envs, c # e, Children = "fork", DataBesideFd
  PROVE  SafeList(e, Append(CopyPages(e, c), Start(c)))
<1> USE PipeAssumption
<1>1. PICK q : q = DownPages(e, c) /\ q = CopyPages(e, c)
  BY DEF CopyPages
<1>2. q \in Seq(Ops) /\ Len(q) = 2 * MAXFD
  BY <1>1, DownPagesType, ZenonT(40)
<1>3. ASSUME NEW i \in 1..(2 * MAXFD) PROVE SafeAt(e, q, i)
  <2>1. CASE i <= MAXFD
    <3>1. q[i] = MapData(c, MAXFD - i, MAXFD - i) \/ q[i] = Skip
      BY <1>1, <2>1 DEF DownPages
    <3>2. q[i].do = "map_data" \/ q[i].do = "skip"
      BY <3>1 DEF MapData, Skip
    <3> QED
      BY <3>2, OtherSafe
  <2>2. CASE i > MAXFD
    <3>1. PICK n : n = 2 * MAXFD - i
      OBVIOUS
    <3>2. n \in Numbers /\ i - MAXFD \in 1..MAXFD /\ MAXFD - (i - MAXFD) = n
      BY <2>2, <3>1 DEF Numbers
    <3>3. q[i] = IF n \in Open(e) THEN MapFd(c, n, n) ELSE Skip
      BY <1>1, <2>2, <3>1 DEF DownPages
    <3>4. CASE n \notin Open(e)
      BY <3>3, <3>4, OtherSafe DEF Skip
    <3>5. CASE n \in Open(e)
      <4>1. n \in data[e]
        BY <3>2, <3>5 DEF Open, DataBesideFd
      <4>2. PICK j : j = i - MAXFD
        OBVIOUS
      <4>3. j \in 1..(2 * MAXFD) /\ j <= MAXFD /\ j \in 1..(i - 1) /\ MAXFD - j = n
        BY <3>2, <4>2
      <4>4. q[j] = MapData(c, n, n)
        BY <1>1, <4>1, <4>3 DEF DownPages
      <4>5. /\ q[i].do = "map_fd" /\ q[i].env = c /\ q[i].to = n
            /\ q[j].do = "map_data" /\ q[j].env = c /\ q[j].to = n
        BY <3>3, <3>5, <4>4 DEF MapFd, MapData
      <4> QED
        BY <4>3, <4>5 DEF SafeAt
    <3> QED
      BY <3>4, <3>5
  <2> QED
    BY <2>1, <2>2
<1>4. PICK r : r = Append(q, Start(c))
  OBVIOUS
<1>5. /\ Len(r) = 2 * MAXFD + 1 /\ r[2 * MAXFD + 1].do = "start"
      /\ \A i \in 1..(2 * MAXFD) : r[i] = q[i]
  <2>1. Start(c) \in Ops /\ Start(c).do = "start"
    BY DEF Start, Ops
  <2> QED
    BY <1>2, <1>4, <2>1, AppendProperties
<1>6. ASSUME NEW i \in 1..(2 * MAXFD) PROVE SafeAt(e, r, i)
  <2>1. i \in Nat \ {0} /\ \A j \in 1..i : r[j] = q[j]
    BY <1>5
  <2> QED
    BY <1>3, <2>1, PrefixSafe
<1>7. SafeAt(e, r, 2 * MAXFD + 1)
  BY <1>5, OtherSafe
<1>8. \A i \in 1..Len(r) : i \in 1..(2 * MAXFD) \/ i = 2 * MAXFD + 1
  BY <1>5
<1>9. SafeList(e, r)
  BY <1>6, <1>7, <1>8 DEF SafeList
<1> QED
  BY <1>1, <1>4, <1>9
-----------------------------------------------------------------------------
\* What a step that maps and unmaps nothing keeps.
LEMMA MappingFrame ==
  ASSUME ForkInv, UNCHANGED mapping
  PROVE  /\ DataBesideFd' /\ (eof' = eof => EofTrue')
         /\ \A end : FdRefs(end)' = FdRefs(end)
         /\ \A e, q : SafeList(e, q)' <=> SafeList(e, q)
<1>1. fds' = fds /\ data' = data
  BY DEF mapping
<1>2. DataBesideFd' /\ (eof' = eof => EofTrue')
  BY <1>1 DEF ForkInv, DataBesideFd, EofTrue, Closed
<1>3. \A end : FdRefs(end)' = FdRefs(end)
  BY <1>1 DEF FdRefs
<1>4. \A e, q : SafeList(e, q)' <=> SafeList(e, q)
  BY <1>1 DEF SafeList, SafeAt
<1> QED
  BY <1>2, <1>3, <1>4

LEMMA InitForkInv == Init => ForkInv
<1> SUFFICES ASSUME Init PROVE ForkInv
  OBVIOUS
<1>1. /\ fds = [e \in Envs |-> [n \in Numbers |-> ""]] /\ todo = [e \in Envs |-> <<>>]
      /\ io = [e \in Envs |-> None] /\ eof = {} /\ running \subseteq Envs
  BY PipeAssumption DEF Init
<1>2. DataBesideFd /\ EofTrue
  BY <1>1 DEF DataBesideFd, EofTrue
<1>3. ListsSafe
  BY <1>1, EmptyListSafe DEF ListsSafe
<1>4. Fresh
  BY <1>1 DEF Fresh
<1> QED
  BY <1>2, <1>3, <1>4 DEF ForkInv

LEMMA EnvRunFork ==
  ASSUME PipeInv, ForkInv, PipeInv', NCPU = 1, NEW e \in Envs, env_run(e)
  PROVE  ForkInv'
<1>1. UNCHANGED mapping /\ todo' = todo /\ eof' = eof /\ e \in running'
  BY DEF env_run, mapping
<1>2. ListsSafe'
  BY <1>1, MappingFrame DEF ForkInv, ListsSafe
<1>3. IsFiniteSet(running') /\ Cardinality(running') <= 1
  <2>1. running' \subseteq Envs /\ Cardinality(running') <= NCPU
    BY DEF PipeInv, TypeOK
  <2> QED
    BY <2>1, PipeAssumption, FS_Subset
<1>4. Fresh'
  <2> SUFFICES ASSUME NEW f \in running', io'[f] # None, io'[f].at = "ref2", ~io'[f].moved
               PROVE  FALSE
    BY DEF Fresh
  <2>1. f = e
    BY <1>1, <1>3, OneElement
  <2>2. io \in [Envs -> Calls \cup {None}]
    BY DEF PipeInv, TypeOK
  <2>3. CASE io[e] = None \/ io[e].at # "ref2"
    BY <2>1, <2>3 DEF env_run
  <2>4. CASE io[e] # None /\ io[e].at = "ref2"
    <3>1. io' = [io EXCEPT ![e].moved = TRUE] /\ io[e] \in Calls
      BY <2>2, <2>4 DEF env_run
    <3> QED
      BY <2>1, <2>2, <3>1 DEF Calls
  <2> QED
    BY <2>3, <2>4
<1> QED
  BY <1>1, <1>2, <1>4, MappingFrame DEF ForkInv

LEMMA EnvDestroyFork ==
  ASSUME PipeInv, ForkInv, NEW e \in Envs, env_destroy(e)
  PROVE  ForkInv'
<1>1. /\ UNCHANGED mapping /\ eof' = eof /\ running' = running \ {e}
      /\ todo' = [todo EXCEPT ![e] = <<>>] /\ io' = [io EXCEPT ![e] = None]
  BY DEF env_destroy, mapping
<1>2. \A f \in Envs : /\ todo'[f] = IF f = e THEN <<>> ELSE todo[f]
                      /\ f # e => io'[f] = io[f]
  BY <1>1 DEF PipeInv, TypeOK
<1>3. ListsSafe'
  <2> SUFFICES ASSUME NEW f \in Envs PROVE SafeList(f, todo[f])'
    BY DEF ListsSafe
  <2>1. PICK l : l = todo'[f]
    OBVIOUS
  <2>2. SafeList(f, l)
    BY <2>1, <1>2, EmptyListSafe DEF ForkInv, ListsSafe
  <2>3. SafeList(f, l)'
    BY <1>1, <2>2, MappingFrame
  <2> QED
    BY <2>1, <2>3
<1>4. Fresh'
  <2>1. running \subseteq Envs
    BY DEF PipeInv, TypeOK
  <2> QED
    BY <1>1, <1>2, <2>1, MappingFrame DEF ForkInv, Fresh, End, mapping
<1> QED
  BY <1>1, <1>3, <1>4, MappingFrame DEF ForkInv

LEMMA PipeCallFork ==
  ASSUME PipeInv, ForkInv, NCPU = 1, NEW e \in Envs, pipe(e)
  PROVE  ForkInv'
<1> USE PipeAssumption
<1>1. /\ e \in running /\ todo[e] = <<>> /\ io[e] = None /\ DataRefs = 0 /\ eof = {}
      /\ \A x \in Envs \ {e} : status[x] = "unused"
      /\ UNCHANGED <<status, running, todo, io, ring, eof>>
  BY DEF pipe, Free
<1>2. \A f \in Envs : \A n \in Numbers : n \notin data[f] /\ fds[f][n] = ""
  BY <1>1, NoData DEF ForkInv, DataBesideFd
<1>3. DataBesideFd'
  <2>1. /\ fds' = [fds EXCEPT ![e] = [@ EXCEPT ![0] = "r", ![1] = "w"]]
        /\ data' = [data EXCEPT ![e] = {0, 1}]
    BY DEF pipe
  <2>2. fds \in [Envs -> [Numbers -> {"r", "w", ""}]] /\ data \in [Envs -> SUBSET Numbers]
    BY DEF PipeInv, TypeOK
  <2>3. \A f \in Envs : \A n \in Numbers : fds'[f][n] # "" => f = e /\ n \in {0, 1}
    BY <1>2, <2>1, <2>2
  <2>4. data'[e] = {0, 1}
    BY <2>1, <2>2
  <2> QED
    BY <2>3, <2>4 DEF DataBesideFd
<1>4. ListsSafe'
  <2>1. \A f \in Envs : todo'[f] = <<>>
    BY <1>1 DEF PipeInv, Lists
  <2>2. ASSUME NEW f \in Envs PROVE SafeList(f, <<>>)'
    <3>1. \A i \in 1..Len(<<>>) : FALSE
      OBVIOUS
    <3> QED
      BY <3>1 DEF SafeList
  <2> QED
    BY <2>1, <2>2 DEF ListsSafe
<1>5. Fresh'
  <2>1. \A f \in running' : f = e
    BY <1>1, OneRunner DEF PipeInv
  <2> QED
    BY <1>1, <2>1 DEF Fresh
<1>6. EofTrue'
  BY <1>1 DEF EofTrue
<1> QED
  BY <1>3, <1>4, <1>5, <1>6 DEF ForkInv

\* A step that only enters a list of page operations.
LEMMA ListFork ==
  ASSUME PipeInv, ForkInv, NEW e \in Envs, NEW q, SafeList(e, q),
         todo' = [todo EXCEPT ![e] = q], UNCHANGED <<running, mapping, io, eof>>
  PROVE  ForkInv'
<1>1. \A f \in Envs : todo'[f] = IF f = e THEN q ELSE todo[f]
  BY DEF PipeInv, TypeOK
<1>2. ListsSafe'
  <2> SUFFICES ASSUME NEW f \in Envs PROVE SafeList(f, todo[f])'
    BY DEF ListsSafe
  <2>1. PICK l : l = todo'[f]
    OBVIOUS
  <2>2. SafeList(f, l)
    BY <2>1, <1>1 DEF ForkInv, ListsSafe
  <2>3. SafeList(f, l)'
    BY <2>2, MappingFrame
  <2> QED
    BY <2>1, <2>3
<1>3. Fresh'
  BY MappingFrame DEF ForkInv, Fresh, End, mapping
<1> QED
  BY <1>2, <1>3, MappingFrame DEF ForkInv

LEMMA CallFork ==
  ASSUME PipeInv, ForkInv, Children = "fork", NEW e \in Envs,
         close_call(e) \/ dup(e) \/ fork(e) \/ exit(e)
  PROVE  ForkInv'
<1>1. CASE close_call(e)
  <2>1. PICK n \in Open(e) : Call(e, close(e, n))
    BY <1>1 DEF close_call
  <2>2. n \in Numbers
    BY Zenon DEF Open
  <2> QED
    BY <2>1, <2>2, CloseSafe, ListFork DEF Call
<1>2. CASE dup(e)
  <2>1. PICK n \in Open(e), m \in Numbers : Call(e, close(e, m) \o DupMaps(e, n, m))
    BY <1>2 DEF dup
  <2>2. n \in Numbers
    BY Zenon DEF Open
  <2>3. n \in data[e]
    BY <2>2, Zenon DEF Open, ForkInv, DataBesideFd
  <2> QED
    BY <2>1, <2>2, <2>3, DupSafe, ListFork DEF Call
<1>3. CASE fork(e)
  <2>1. PICK c \in Envs :
          status[c] = "unused" /\ Call(e, Append(CopyPages(e, c), Start(c)))
    BY <1>3 DEF fork
  <2>2. c # e
    BY <2>1 DEF Call, Free, PipeInv, TypeOK
  <2>3. SafeList(e, Append(CopyPages(e, c), Start(c)))
    BY <2>2, ForkSafe DEF ForkInv
  <2> QED
    BY <2>1, <2>3, ListFork DEF Call
<1>4. CASE exit(e)
  BY <1>4, ExitSafe, ListFork DEF exit, Call
<1> QED
  BY <1>1, <1>2, <1>3, <1>4

LEMMA DupErrFork ==
  ASSUME PipeInv, ForkInv, NEW e \in Envs, dup_err(e)
  PROVE  ForkInv'
<1>1. PICK m : /\ todo' = [todo EXCEPT ![e] = <<UnmapFd(m), UnmapData(m)>>]
               /\ UNCHANGED <<running, mapping, io, eof>>
  BY DEF dup_err
<1> QED
  BY <1>1, UnmapSafe, ListFork

LEMMA NothingBefore == \A j \in 1..(1 - 1) : FALSE
<1> SUFFICES ASSUME NEW j \in Int, 1 <= j, j <= 1 - 1 PROVE FALSE
  OBVIOUS
<1> QED
  OBVIOUS

\* One page operation.  Who has one left is not reading or writing, and nobody
\* else is running.
LEMMA PageStepFork ==
  ASSUME PipeInv, ForkInv, NCPU = 1, NEW e \in Envs, PageStep(e)
  PROVE  ForkInv'
<1> USE PipeAssumption
<1>0. /\ e \in running /\ todo[e] # <<>> /\ status[e] = "ready" /\ io[e] = None
      /\ io' = io /\ eof' = eof /\ running' \subseteq running
      /\ todo' = [todo EXCEPT ![e] = Tail(@)]
  <2>1. /\ e \in running /\ todo[e] # <<>> /\ status[e] = "ready"
        /\ io' = io /\ eof' = eof /\ running' \subseteq running
        /\ todo' = [todo EXCEPT ![e] = Tail(@)]
    BY DEF PageStep, PipeInv, TypeOK
  <2>2. io[e] = None
    BY <2>1 DEF PipeInv, Owners
  <2> QED
    BY <2>1, <2>2
<1>1. PICK s \in Ops : s = todo[e][1] /\ s = Head(todo[e])
  BY <1>0, FirstOp DEF PipeInv
<1>2. PICK t : t = Tail(todo[e])
  OBVIOUS
<1>3. /\ Len(todo[e]) \in Nat \ {0} /\ Len(t) = Len(todo[e]) - 1
      /\ \A i \in 1..Len(t) : t[i] = todo[e][i + 1]
  BY <1>0, <1>2, FirstOp DEF PipeInv
<1>4. \A f \in Envs : todo'[f] = IF f = e THEN t ELSE todo[f]
  BY <1>0, <1>2 DEF PipeInv, TypeOK
<1>5. s.do \in Maps => s.env = e \/ status[s.env] = "forking"
  <2>1. 1 \in 1..Len(todo[e])
    BY <1>3
  <2>2. s.do \in Maps => Targets(e, 1, s.env) /\ s.env \in Envs
    BY <1>1, OpKinds DEF Targets, Maps
  <2> QED
    BY <2>1, <2>2 DEF PipeInv, Lists
<1>6. SafeAt(e, todo[e], 1)
  BY <1>3 DEF ForkInv, ListsSafe, SafeList
<1>7. fds \in [Envs -> [Numbers -> {"r", "w", ""}]] /\ data \in [Envs -> SUBSET Numbers]
  BY DEF PipeInv, TypeOK
\* What the operation does to the mappings
<1>8. \A f \in Envs : \A n \in Numbers :
        fds'[f][n] = IF s.do = "unmap_fd" /\ f = e /\ n = s.num THEN ""
                     ELSE IF s.do = "map_fd" /\ f = s.env /\ n = s.to
                       THEN fds[e][s.num] ELSE fds[f][n]
  <2>1. CASE s.do = "unmap_fd"
    <3>1. fds' = [fds EXCEPT ![e][s.num] = ""]
      BY <1>1, <2>1 DEF PageStep
    <3> QED
      BY <1>7, <2>1, <3>1
  <2>2. CASE s.do = "map_fd"
    <3>1. fds' = [fds EXCEPT ![s.env] = [fds[s.env] EXCEPT ![s.to] = fds[e][s.num]]]
      BY <1>1, <2>2 DEF PageStep
    <3>2. s.env \in Envs /\ s.to \in Numbers
      BY <2>2, OpKinds
    <3>3. \A f \in Envs : fds'[f] = IF f = s.env THEN [fds[s.env] EXCEPT ![s.to] = fds[e][s.num]]
                                    ELSE fds[f]
      BY <1>7, <3>1
    <3>4. fds[s.env] \in [Numbers -> {"r", "w", ""}]
      BY <1>7, <3>2
    <3>5. \A n \in Numbers : [fds[s.env] EXCEPT ![s.to] = fds[e][s.num]][n] =
                               IF n = s.to THEN fds[e][s.num] ELSE fds[s.env][n]
      BY <3>4
    <3> QED
      BY <2>2, <3>3, <3>5
  <2>3. CASE s.do \notin {"unmap_fd", "map_fd"}
    <3>1. fds' = fds
      BY <1>1, <2>3 DEF PageStep
    <3> QED
      BY <2>3, <3>1
  <2> QED
    BY <2>1, <2>2, <2>3
<1>9. \A f \in Envs :
        data'[f] = IF s.do = "unmap_data" /\ f = e THEN data[f] \ {s.num}
                   ELSE IF s.do = "map_data" /\ f = s.env
                     THEN data[f] \cup {s.to} ELSE data[f]
  <2>1. CASE s.do = "unmap_data"
    <3>1. data' = [data EXCEPT ![e] = @ \ {s.num}]
      BY <1>1, <2>1 DEF PageStep
    <3> QED
      BY <1>7, <2>1, <3>1
  <2>2. CASE s.do = "map_data"
    <3>1. data' = [data EXCEPT ![s.env] = @ \cup {s.to}]
      BY <1>1, <2>2 DEF PageStep
    <3> QED
      BY <1>7, <2>2, <3>1
  <2>3. CASE s.do \notin {"unmap_data", "map_data"}
    <3>1. data' = data
      BY <1>1, <2>3 DEF PageStep
    <3> QED
      BY <2>3, <3>1
  <2> QED
    BY <2>1, <2>2, <2>3
<1>10. DataBesideFd'
  <2> SUFFICES ASSUME NEW f \in Envs, NEW n \in Numbers, fds'[f][n] # ""
               PROVE  n \in data'[f]
    BY DEF DataBesideFd
  <2>1. CASE s.do = "map_fd" /\ f = s.env /\ n = s.to
    <3>1. n \in data[f]
      <4>1. \A j \in 1..(1 - 1) : FALSE
        BY NothingBefore
      <4>2. CASE s.env = e
        BY <1>1, <1>6, <2>1, <4>2 DEF SafeAt
      <4>3. CASE s.env # e
        BY <1>1, <1>6, <2>1, <4>1, <4>3 DEF SafeAt
      <4> QED
        BY <4>2, <4>3
    <3> QED
      BY <1>9, <2>1, <3>1
  <2>2. CASE ~(s.do = "map_fd" /\ f = s.env /\ n = s.to)
    <3>1. fds[f][n] # "" /\ n \in data[f]
      BY <1>8, <2>2 DEF ForkInv, DataBesideFd
    <3>2. ~(s.do = "unmap_data" /\ f = e /\ n = s.num)
      BY <1>1, <1>6, <3>1 DEF SafeAt
    <3> QED
      BY <1>9, <3>1, <3>2
  <2> QED
    BY <2>1, <2>2
<1>11. ASSUME NEW i \in 1..Len(t) PROVE SafeAt(e, t, i)'
  <2>1. i + 1 \in 1..Len(todo[e]) /\ i + 1 # 1 /\ (i + 1) - 1 = i /\ t[i] = todo[e][i + 1]
    BY <1>3
  <2>2. SafeAt(e, todo[e], i + 1)
    BY <2>1 DEF ForkInv, ListsSafe, SafeList
  <2>3. IF i = 1 THEN todo[e][i] = s ELSE todo[e][i] = t[i - 1]
    BY <1>1, <1>3
  <2>o. t[i] \in Ops
    BY <2>1, ListType DEF PipeInv
  <2>4. ASSUME t[i].do = "unmap_data"
        PROVE  IF i = 1 THEN fds'[e][t[i].num] = "" ELSE t[i - 1] = UnmapFd(t[i].num)
    <3>1. todo[e][i] = UnmapFd(t[i].num)
      BY <2>1, <2>2, <2>4 DEF SafeAt
    <3>2. CASE i = 1
      <4>1. s = UnmapFd(t[i].num) /\ t[i].num \in Numbers
        BY <2>3, <2>4, <2>o, <3>1, <3>2, OpKinds DEF Maps
      <4>2. s.do = "unmap_fd" /\ s.num = t[i].num
        BY <4>1 DEF UnmapFd
      <4> QED
        BY <1>8, <3>2, <4>1, <4>2
    <3>3. CASE i # 1
      BY <2>3, <3>1, <3>3
    <3> QED
      BY <3>2, <3>3
  <2>5. ASSUME t[i].do = "map_fd", t[i].env = e
        PROVE  IF i = 1 THEN t[i].to \in data'[e]
               ELSE t[i - 1].do = "map_data" /\ t[i - 1].env = e /\ t[i - 1].to = t[i].to
    <3>1. todo[e][i].do = "map_data" /\ todo[e][i].env = e /\ todo[e][i].to = t[i].to
      BY <2>1, <2>2, <2>5 DEF SafeAt
    <3> QED
      BY <1>9, <2>3, <3>1
  <2>6. ASSUME t[i].do = "map_fd", t[i].env # e
        PROVE  \/ t[i].to \in data'[t[i].env]
               \/ \E j \in 1..(i - 1) :
                    t[j].do = "map_data" /\ t[j].env = t[i].env /\ t[j].to = t[i].to
    <3>1. t[i].env \in Envs
      BY <2>6, <2>o, OpKinds DEF Maps
    <3>2. CASE t[i].to \in data[t[i].env]
      BY <1>9, <2>6, <3>1, <3>2
    <3>3. CASE \E j \in 1..i : /\ todo[e][j].do = "map_data"
                               /\ todo[e][j].env = t[i].env /\ todo[e][j].to = t[i].to
      <4>1. PICK j \in 1..i : /\ todo[e][j].do = "map_data"
                              /\ todo[e][j].env = t[i].env /\ todo[e][j].to = t[i].to
        BY <3>3
      <4>2. CASE j = 1
        BY <1>1, <1>9, <3>1, <4>1, <4>2, ZenonT(40)
      <4>3. CASE j # 1
        <5>1. j - 1 \in 1..(i - 1) /\ j - 1 \in 1..Len(t) /\ (j - 1) + 1 = j
          BY <1>3, <4>3
        <5>2. t[j - 1] = todo[e][j]
          BY <1>3, <5>1
        <5> QED
          BY <4>1, <5>1, <5>2
      <4> QED
        BY <4>2, <4>3
    <3> QED
      BY <2>1, <2>2, <2>6, <3>2, <3>3 DEF SafeAt
  <2> QED
    BY <2>4, <2>5, <2>6 DEF SafeAt
<1>12. ASSUME NEW f \in Envs \ {e}, NEW i \in 1..Len(todo[f]), NEW l, l = todo[f]
       PROVE  SafeAt(f, l, i)'
  <2>1. SafeAt(f, l, i)
    BY <1>12 DEF ForkInv, ListsSafe, SafeList
  <2>2. status[f] = "ready"
    <3>1. todo[f] # <<>>
      BY EmptySeq
    <3> QED
      BY <3>1 DEF PipeInv, Lists
  <2>3. l[i] \in Ops
    BY <1>12, ListType DEF PipeInv
  <2>4. \A n \in Numbers : fds'[f][n] = fds[f][n]
    BY <1>5, <1>8, <2>2 DEF Maps
  <2>5. data'[f] = data[f]
    BY <1>5, <1>9, <2>2 DEF Maps
  <2>6. l[i].do = "map_fd" /\ l[i].env # f => l[i].env \in Envs /\ l[i].env # e
    <3> SUFFICES ASSUME l[i].do = "map_fd", l[i].env # f
                 PROVE  l[i].env \in Envs /\ l[i].env # e
      OBVIOUS
    <3>1. l[i].env \in Envs
      BY <2>3, OpKinds DEF Maps
    <3>2. status[l[i].env] = "forking"
      BY <1>12, <3>1 DEF PipeInv, Lists, Targets, Maps
    <3> QED
      BY <1>0, <3>1, <3>2
  <2>7. l[i].do = "map_fd" /\ l[i].env # f => data[l[i].env] \subseteq data'[l[i].env]
    BY <1>9, <2>6
  <2>8. l[i].do = "unmap_data" => l[i].num \in Numbers
    BY <2>3, OpKinds DEF Maps
  <2> QED
    BY <2>1, <2>4, <2>5, <2>7, <2>8 DEF SafeAt
<1>13. ListsSafe'
  <2> SUFFICES ASSUME NEW f \in Envs PROVE SafeList(f, todo[f])'
    BY DEF ListsSafe
  <2>1. CASE f = e
    BY <1>4, <1>11, <2>1 DEF SafeList
  <2>2. CASE f # e
    <3>1. PICK l : l = todo[f]
      OBVIOUS
    <3>2. \A i \in 1..Len(l) : SafeAt(f, l, i)'
      BY <1>12, <2>2, <3>1
    <3>3. todo'[f] = l
      BY <1>4, <2>2, <3>1
    <3> QED
      BY <3>2, <3>3 DEF SafeList
  <2> QED
    BY <2>1, <2>2
<1>14. Fresh'
  <2>1. \A f \in running' : f = e
    BY <1>0, OneRunner DEF PipeInv
  <2> QED
    BY <1>0, <2>1 DEF Fresh
<1>15. ASSUME NEW end, end # "", Closed(end) PROVE Closed(end)'
  <2> SUFFICES ASSUME NEW f \in Envs, NEW n \in Numbers PROVE fds'[f][n] # end
    BY DEF Closed
  <2>1. s.do = "map_fd" => s.num \in Numbers
    BY OpKinds DEF Maps
  <2>2. fds[f][n] # end /\ (s.do = "map_fd" => fds[e][s.num] # end)
    BY <1>15, <2>1 DEF Closed
  <2>3. \/ fds'[f][n] = "" \/ fds'[f][n] = fds[f][n]
        \/ s.do = "map_fd" /\ fds'[f][n] = fds[e][s.num]
    BY <1>8
  <2> QED
    BY <1>15, <2>2, <2>3
<1>16. EofTrue'
  BY <1>0, <1>15 DEF ForkInv, EofTrue
<1> QED
  BY <1>10, <1>13, <1>14, <1>16 DEF ForkInv

\* Steps of read() and write() other than the two that count references
LEMMA QuietFork ==
  ASSUME PipeInv, ForkInv, NEW e \in Envs, NEW r, io' = [io EXCEPT ![e] = r],
         r # None => r.at # "ref2",
         UNCHANGED <<mapping, todo, eof>>, running' \subseteq running
  PROVE  ForkInv'
<1>1. \A f \in Envs : io'[f] = IF f = e THEN r ELSE io[f]
  BY DEF PipeInv, TypeOK
<1>2. ListsSafe'
  BY MappingFrame DEF ForkInv, ListsSafe
<1>3. Fresh'
  <2>1. running \subseteq Envs
    BY DEF PipeInv, TypeOK
  <2> QED
    BY <1>1, <2>1, MappingFrame DEF ForkInv, Fresh, End, mapping
<1> QED
  BY <1>2, <1>3, MappingFrame DEF ForkInv

LEMMA PagerefFdFork ==
  ASSUME PipeInv, ForkInv, NEW e \in Envs, pageref_fd(e)
  PROVE  ForkInv'
<1>1. io[e] # None /\ io[e] \in Calls
  BY AtCall DEF pageref_fd
<1>2. PICK k : k = FdRefs(End(e))
  OBVIOUS
<1>3. PICK r : r = [io[e] EXCEPT !.at = "ref2", !.ref = k, !.moved = FALSE]
  OBVIOUS
<1>4. r.ref = k /\ r.num = io[e].num
  BY <1>1, <1>3 DEF Calls
<1>5. \A f \in Envs : io'[f] = IF f = e THEN r ELSE io[f]
  BY <1>2, <1>3 DEF pageref_fd, PipeInv, TypeOK
<1>6. UNCHANGED <<running, mapping, todo, eof>>
  BY DEF pageref_fd
<1>7. ListsSafe'
  BY <1>6, MappingFrame DEF ForkInv, ListsSafe
<1>8. Fresh'
  <2>1. running \subseteq Envs
    BY DEF PipeInv, TypeOK
  <2> QED
    BY <1>2, <1>4, <1>5, <1>6, <2>1, MappingFrame DEF ForkInv, Fresh, End, mapping
<1> QED
  BY <1>6, <1>7, <1>8, MappingFrame DEF ForkInv

\* The two counts are equal: the other end is open nowhere.
LEMMA PagerefPFork ==
  ASSUME PipeInv, ForkInv, NEW e \in Envs, pageref_p(e)
  PROVE  ForkInv'
<1> USE PipeAssumption
<1>1. /\ io[e] # None /\ io[e].at = "ref2" /\ ~io[e].moved /\ e \in running
      /\ e \in {Reader, Writer} /\ End(e) = (IF e = Reader THEN "r" ELSE "w")
  BY AtCall DEF pageref_p, Undisturbed
<1>2. UNCHANGED <<mapping, todo>> /\ running' \subseteq running
  BY DEF pageref_p
<1>3. CASE io[e].ref = DataRefs
  <2>1. io' = [io EXCEPT ![e] = None] /\ eof' = eof \cup {e}
    BY <1>3 DEF pageref_p, Returns
  <2>2. FdRefs(End(e)) = DataRefs
    BY <1>1, <1>3 DEF ForkInv, Fresh
  <2>3. \A f \in Envs : \A n \in Numbers : fds[f][n] \in {"", End(e)}
    BY <1>1, <2>2, EqualCounts DEF ForkInv
  <2>4. Closed(IF e = Reader THEN "w" ELSE "r")
    BY <1>1, <2>3 DEF Closed
  <2>5. EofTrue'
    BY <1>1, <1>2, <2>1, <2>4 DEF ForkInv, EofTrue, Closed, mapping
  <2>6. ListsSafe'
    BY <1>2, MappingFrame DEF ForkInv, ListsSafe
  <2>7. Fresh'
    <3>1. running \subseteq Envs /\ \A f \in Envs : io'[f] = IF f = e THEN None ELSE io[f]
      BY <2>1 DEF PipeInv, TypeOK
    <3> QED
      BY <1>2, <3>1, MappingFrame DEF ForkInv, Fresh, End, mapping
  <2> QED
    BY <1>2, <2>5, <2>6, <2>7, MappingFrame DEF ForkInv
<1>4. CASE io[e].ref # DataRefs
  <2>1. Goes(e, "loop") /\ eof' = eof
    BY <1>4 DEF pageref_p
  <2>2. PICK r \in Calls : io' = [io EXCEPT ![e] = r] /\ r.at = "loop"
    BY <1>1, <2>1, GoesTo DEF PipeInv
  <2> QED
    BY <1>2, <2>1, <2>2, QuietFork
<1> QED
  BY <1>3, <1>4

LEMMA IoFork ==
  ASSUME PipeInv, ForkInv, NEW e \in Envs, Io(e) \/ read(e) \/ write(e)
  PROVE  ForkInv'
<1>1. CASE devpipe_done(e)
  BY <1>1, QuietFork DEF devpipe_done, Returns
<1>2. ASSUME NEW place \in {"loop", "ref", "copied"}, Goes(e, place), io[e] # None,
             UNCHANGED <<mapping, todo, eof>>, running' \subseteq running
      PROVE  ForkInv'
  <2>1. PICK r \in Calls : io' = [io EXCEPT ![e] = r] /\ r.at = place
    BY <1>2, GoesTo DEF PipeInv
  <2> QED
    BY <1>2, <2>1, QuietFork
<1>3. CASE devpipe_wait(e) \/ pageref_retry(e) \/ read_byte(e) \/ write_byte(e)
  BY <1>2, <1>3 DEF devpipe_wait, pageref_retry, read_byte, write_byte, At
<1>4. CASE advance(e)
  <2>1. io[e] # None /\ io[e] \in Calls /\ UNCHANGED <<running, mapping, todo, eof>>
    BY <1>4, AtCall DEF advance
  <2>2. PICK r : r = [io[e] EXCEPT !.at = "loop", !.i = @ + 1]
    OBVIOUS
  <2>3. r.at = "loop"
    BY <2>1, <2>2 DEF Calls
  <2>4. io' = [io EXCEPT ![e] = r]
    BY <1>4, <2>2 DEF advance, PipeInv, TypeOK
  <2> QED
    BY <2>1, <2>3, <2>4, QuietFork
<1>5. CASE read(e) \/ write(e)
  <2>1. PICK n, num :
          io' = [io EXCEPT ![e] = [at |-> "loop", num |-> num, n |-> n, i |-> 0,
                                   ref |-> 0, moved |-> FALSE]]
    BY <1>5 DEF read, write, Enter
  <2>2. PICK r : r = [at |-> "loop", num |-> num, n |-> n, i |-> 0,
                      ref |-> 0, moved |-> FALSE]
    OBVIOUS
  <2>3. r.at = "loop" /\ io' = [io EXCEPT ![e] = r]
    BY <2>1, <2>2
  <2>4. UNCHANGED <<running, mapping, todo, eof>>
    BY <1>5 DEF read, write, Enter
  <2> QED
    BY <2>3, <2>4, QuietFork
<1> QED
  BY <1>1, <1>3, <1>4, <1>5, PagerefFdFork, PagerefPFork DEF Io

LEMMA NextForkInv ==
  ASSUME Children = "fork", NCPU = 1, PipeInv, PipeInv', ForkInv, [Next]_vars, ~short'
  PROVE  ForkInv'
<1>1. CASE UNCHANGED vars
  <2>1. UNCHANGED <<mapping, todo, running, io, eof>>
    BY <1>1 DEF vars, mapping
  <2>2. ListsSafe' /\ Fresh'
    BY <2>1, MappingFrame DEF ForkInv, ListsSafe, Fresh, End, mapping
  <2> QED
    BY <2>1, <2>2, MappingFrame DEF ForkInv
<1>2. CASE Next
  <2>1. \A e \in Envs : ~fork_err(e)
    BY DEF fork_err
  <2> QED
    BY <1>2, <2>1, EnvRunFork, EnvDestroyFork, PipeCallFork, CallFork, PageStepFork,
     DupErrFork, IoFork DEF Next
<1> QED
  BY <1>1, <1>2

\* A child that misses a page is never forgotten.
LEMMA ShortStays ==
  ASSUME short, [Next]_vars
  PROVE  short'
<1>1. CASE UNCHANGED vars
  BY <1>1 DEF vars
<1>2. ASSUME NEW e \in Envs,
             \/ env_run(e) \/ env_destroy(e) \/ pipe(e) \/ close_call(e) \/ dup(e)
             \/ fork(e) \/ exit(e) \/ PageStep(e) \/ dup_err(e) \/ fork_err(e)
      PROVE  short'
  BY <1>2 DEF env_run, env_destroy, pipe, close_call, dup, fork, exit, PageStep,
     dup_err, fork_err, Call
<1>3. ASSUME NEW e \in Envs, read(e) \/ write(e) \/ Io(e)
      PROVE  short'
  BY <1>3 DEF read, write, Enter, Io, devpipe_done, devpipe_wait, pageref_fd,
     pageref_p, pageref_retry, read_byte, write_byte, advance
<1> QED
  BY <1>1, <1>2, <1>3 DEF Next

\* With one CPU and children made by fork, a reader or a writer that is told
\* that the other end is closed is told the truth, for any number of
\* environments and descriptors and whoever is destroyed when, as long as no
\* fork has lost a page for want of memory.
THEOREM EofTruthful ==
  ASSUME Children = "fork", NCPU = 1
  PROVE  Spec => []EofOnlyWhenClosed
<1>1. PipeInv /\ (short \/ ForkInv) /\ PipeInv' /\ [Next]_vars => (short \/ ForkInv)'
  BY NextForkInv, ShortStays
<1>2. (short \/ ForkInv) => EofOnlyWhenClosed
  BY ClosedCount DEF ForkInv, EofTrue, EofOnlyWhenClosed
<1> QED
  BY <1>1, <1>2, InitForkInv, PipeInvariance, PTL DEF Spec
==============================================================================
