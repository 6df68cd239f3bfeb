-------------------------------- MODULE Pipe --------------------------------
(***************************************************************************)
(* A pipe: lib/pipe.c, with dup and close of lib/fd.c, the copying of      *)
(* descriptors by fork and spawn, and exit.  A pipe is three shared pages: *)
(* one for the descriptor of each end, and the data page, which is mapped  *)
(* beside every mapping of a descriptor.  Who has which end open is known  *)
(* from reference counts alone.                                            *)
(*                                                                         *)
(* Every system call on a page, every read of a reference count and every  *)
(* access to the ring that the other side can see is a step.               *)
(***************************************************************************)
EXTENDS Integers, Sequences, FiniteSets, SequencesExt

CONSTANTS
  Envs,       \* environments
  Parent,     \* the one that calls pipe()
  Reader,     \* the one that calls read()
  Writer,     \* the one that calls write()
  MAXFD,      \* descriptors 0..MAXFD-1                       (32)
  PIPEBUFSIZ, \* bytes in the ring                            (32)
  NCPU,
  Children,   \* "fork" or "spawn": how environments are made
  MaxRequest, \* bound: bytes asked for in one read or write
  MaxBytes,   \* bound: bytes written in all
  None

Numbers == 0..(MAXFD - 1)

\* Where a read or a write is: see devpipe_read and devpipe_write below
Calls == [at : {"loop", "ref", "ref2", "copied"}, num : Numbers, n : Nat,
          i : Nat, ref : Nat, moved : BOOLEAN]

ASSUME PipeAssumption ==
  /\ Parent \in Envs /\ Reader \in Envs /\ Writer \in Envs /\ Reader # Writer
  /\ IsFiniteSet(Envs) /\ None \notin Calls
  /\ MAXFD \in Nat \ {0, 1} /\ PIPEBUFSIZ \in Nat \ {0} /\ NCPU \in Nat \ {0}
  /\ MaxRequest \in Nat /\ MaxBytes \in Nat
  /\ Children \in {"fork", "spawn"}

VARIABLES
  status,   \* [Envs -> "unused", "forking", "ready" or "gone"]
  running,  \* the environments on a CPU
  fds,      \* [Envs -> [numbers -> "r", "w" or "" (not mapped)]]
  data,     \* [Envs -> numbers whose data page is mapped]
  todo,     \* [Envs -> page operations left in the call it is in]
  io,       \* [Envs -> the read or write it is in, or None]
  p_rpos, p_wpos, p_buf,
  stored,   \* bytes ever given to the pipe; a byte is its number
  taken,    \* bytes the reader has taken, in order
  eof,      \* environments that were told that the other end is closed
  short     \* has a child missed a page for want of memory?

mapping == <<fds, data>>
ring == <<p_rpos, p_wpos, p_buf, stored, taken>>
vars == <<status, running, fds, data, todo, io, p_rpos, p_wpos, p_buf,
          stored, taken, eof, short>>

Init ==
  /\ status = [e \in Envs |-> IF e = Parent THEN "ready" ELSE "unused"]
  /\ running = {Parent}
  /\ fds = [e \in Envs |-> [n \in Numbers |-> ""]]
  /\ data = [e \in Envs |-> {}]
  /\ todo = [e \in Envs |-> <<>>]
  /\ io = [e \in Envs |-> None]
  /\ p_rpos = 0 /\ p_wpos = 0
  /\ p_buf = [i \in 0..(PIPEBUFSIZ - 1) |-> 0]
  /\ stored = 0 /\ taken = <<>>
  /\ eof = {} /\ short = FALSE

\* The reference count of the page of a descriptor, and of the data page
FdRefs(end) == Cardinality({x \in Envs \X Numbers : fds[x[1]][x[2]] = end})
DataRefs == Cardinality({x \in Envs \X Numbers : x[2] \in data[x[1]]})

Open(e) == {n \in Numbers : fds[e][n] # ""}

\* An environment in user mode, between two calls of the library
Free(e) == e \in running /\ todo[e] = <<>> /\ io[e] = None
-----------------------------------------------------------------------------
(***************************************************************************)
(* Scheduling.  env_run counts env_runs up each time it enters an          *)
(* environment, the one it interrupted too.  _pipeisclosed only compares   *)
(* two readings of it: "moved" is that it has changed since the first.     *)
(***************************************************************************)
env_run(e) ==
  /\ status[e] = "ready"
  /\ running' \in {running \cup {e}} \cup {(running \ {x}) \cup {e} : x \in running}
  /\ Cardinality(running') <= NCPU
  /\ io' = IF io[e] = None \/ io[e].at # "ref2" THEN io
           ELSE [io EXCEPT ![e].moved = TRUE]
  /\ UNCHANGED <<status, mapping, todo, ring, eof, short>>

\* Mutant: its CPU goes on with it.
env_destroy_Running(e) ==
  /\ status[e] = "ready"
  /\ status' = [status EXCEPT ![e] = "gone"]
  /\ UNCHANGED <<running, mapping, todo, io, ring, eof, short>>

\* An environment is destroyed, by another or for a fault.  env_free does not
\* reach the descriptor area, so the references stay.
env_destroy(e) ==
  /\ status[e] = "ready"
  /\ status' = [status EXCEPT ![e] = "gone"]
  /\ running' = running \ {e}
  /\ todo' = [todo EXCEPT ![e] = <<>>]
  /\ io' = [io EXCEPT ![e] = None]
  /\ UNCHANGED <<mapping, ring, eof, short>>
-----------------------------------------------------------------------------
(***************************************************************************)
(* Calls on descriptors.  A call is the list of the page operations it     *)
(* makes, which are then done one by one.                                  *)
(***************************************************************************)
UnmapFd(n) == [do |-> "unmap_fd", num |-> n]
UnmapData(n) == [do |-> "unmap_data", num |-> n]
MapFd(e, n, m) == [do |-> "map_fd", env |-> e, num |-> n, to |-> m]
MapData(e, n, m) == [do |-> "map_data", env |-> e, num |-> n, to |-> m]
Start(e) == [do |-> "start", env |-> e]
Destroy == [do |-> "destroy"]

\* A page that a loop over all pages, or over all descriptors, passes over
Skip == [do |-> "skip"]

Ops ==
  [do : {"unmap_fd", "unmap_data"}, num : Numbers]
    \cup [do : {"map_fd", "map_data"}, env : Envs, num : Numbers, to : Numbers]
    \cup [do : {"start"}, env : Envs] \cup {Destroy, Skip}

\* Mutant: the data page stays.
devpipe_close_FdOnly(n) == <<UnmapFd(n), Skip>>

devpipe_close(n) == <<UnmapFd(n), UnmapData(n)>>

close(e, n) == IF n \in Open(e) THEN devpipe_close(n) ELSE <<>>

\* The data page of n is passed over if it is not mapped.
DupMaps(e, n, m) ==
  <<IF n \in data[e] THEN MapData(e, n, m) ELSE Skip, MapFd(e, n, m)>>

\* The shared pages of e, from the highest address down: all data pages lie
\* above all descriptors.
DownPages(e, c) ==
  [i \in 1..(2 * MAXFD) |->
     IF i <= MAXFD
       THEN LET n == MAXFD - i IN
            IF n \in data[e] THEN MapData(c, n, n) ELSE Skip
       ELSE LET n == 2 * MAXFD - i IN
            IF n \in Open(e) THEN MapFd(c, n, n) ELSE Skip]

\* fork goes down, copy_shared_pages of spawn goes up.
CopyPages(e, c) ==
  IF Children = "fork" THEN DownPages(e, c) ELSE Reverse(DownPages(e, c))

\* close_all: every descriptor, from 0 up
CloseAll(e) ==
  [i \in 1..(2 * MAXFD) |->
     LET n == (i - 1) \div 2 IN
     IF n \in Open(e) THEN devpipe_close(n)[1 + ((i - 1) % 2)] ELSE Skip]

\* All of pipe(), which nobody else can watch; if memory runs out in it, it
\* undoes what it did.  There is one pipe, so this is before its first use.
pipe(e) ==
  /\ Free(e) /\ e = Parent /\ DataRefs = 0
  /\ stored = 0 /\ eof = {} /\ \A x \in Envs \ {e} : status[x] = "unused"
  /\ fds' = [fds EXCEPT ![e] = [@ EXCEPT ![0] = "r", ![1] = "w"]]
  /\ data' = [data EXCEPT ![e] = {0, 1}]
  /\ UNCHANGED <<status, running, todo, io, ring, eof, short>>

Call(e, steps) ==
  /\ Free(e)
  /\ todo' = [todo EXCEPT ![e] = steps]
  /\ UNCHANGED <<running, mapping, io, ring, eof, short>>

close_call(e) ==
  /\ \E n \in Open(e) : Call(e, close(e, n))
  /\ UNCHANGED status

dup(e) ==
  /\ \E n \in Open(e), m \in Numbers :
        n # m /\ Call(e, close(e, m) \o DupMaps(e, n, m))
  /\ UNCHANGED status

fork(e) ==
  \E c \in Envs :
    /\ status[c] = "unused" /\ Open(e) # {}
    /\ status' = [status EXCEPT ![c] = "forking"]
    /\ Call(e, Append(CopyPages(e, c), Start(c)))

\* close_all and sys_env_destroy(0)
exit(e) ==
  /\ Call(e, Append(CloseAll(e), Destroy))
  /\ UNCHANGED status

\* One page operation of e
PageStep(e) ==
  /\ e \in running /\ todo[e] # <<>>
  /\ LET s == Head(todo[e]) IN
     /\ todo' = [todo EXCEPT ![e] = Tail(@)]
     /\ fds' = CASE s.do = "unmap_fd" -> [fds EXCEPT ![e][s.num] = ""]
                 [] s.do = "map_fd" -> [fds EXCEPT ![s.env][s.to] = fds[e][s.num]]
                 [] OTHER -> fds
     /\ data' = CASE s.do = "unmap_data" -> [data EXCEPT ![e] = @ \ {s.num}]
                  [] s.do = "map_data" -> [data EXCEPT ![s.env] = @ \cup {s.to}]
                  [] OTHER -> data
     /\ status' = CASE s.do = "start" -> [status EXCEPT ![s.env] = "ready"]
                    [] s.do = "destroy" -> [status EXCEPT ![e] = "gone"]
                    [] OTHER -> status
     /\ running' = IF s.do = "destroy" THEN running \ {e} ELSE running
  /\ UNCHANGED <<io, ring, eof, short>>

\* A mapping of dup fails for want of a page table: it unmaps what there is.
dup_err(e) ==
  /\ e \in running /\ todo[e] # <<>>
  /\ LET s == Head(todo[e]) IN
     /\ s.do \in {"map_data", "map_fd"} /\ s.env = e
     /\ todo' = [todo EXCEPT ![e] = <<UnmapFd(s.to), UnmapData(s.to)>>]
  /\ UNCHANGED <<status, running, mapping, io, ring, eof, short>>

\* A mapping of fork or spawn fails for want of a page table, and they go on
\* without it: duppage takes only a positive result for a failure, and
\* copy_shared_pages looks at none.  All descriptors and data pages lie in one
\* page table, so that it is there once one page is mapped in the child.
fork_err(e) ==
  /\ e \in running /\ todo[e] # <<>>
  /\ LET s == Head(todo[e]) IN
     /\ s.do \in {"map_data", "map_fd"} /\ s.env # e
     /\ data[s.env] = {} /\ Open(s.env) = {}
     /\ todo' = [todo EXCEPT ![e] = Tail(@)]
  /\ short' = TRUE
  /\ UNCHANGED <<status, running, mapping, io, ring, eof>>
-----------------------------------------------------------------------------
(***************************************************************************)
(* read() and write() of n bytes: i of them are done, and the environment  *)
(* is at one of the places                                                 *)
(*   "loop"   the test of the inner loop,                                  *)
(*   "ref"    in _pipeisclosed, before the first reference count,          *)
(*   "ref2"   after it, with the count it read,                            *)
(*   "copied" between the copying of a byte and the move of the position.  *)
(***************************************************************************)
End(e) == fds[e][io[e].num]

\* Without the data page the first access to the ring is a fault: env_destroy.
Enter(e, end) ==
  /\ Free(e)
  /\ \E n \in 1..MaxRequest, num \in Open(e) \cap data[e] :
        /\ fds[e][num] = end
        /\ end = "w" => stored + n <= MaxBytes
        /\ io' = [io EXCEPT ![e] = [at |-> "loop", num |-> num, n |-> n, i |-> 0,
                                    ref |-> 0, moved |-> FALSE]]
  /\ UNCHANGED <<status, running, mapping, todo, ring, eof, short>>

read(e) == e = Reader /\ Enter(e, "r")
write(e) == e = Writer /\ Enter(e, "w")

At(e, place) == e \in running /\ io[e] # None /\ io[e].at = place

Goes(e, place) == io' = [io EXCEPT ![e].at = place, ![e].ref = 0, ![e].moved = FALSE]
Returns(e) == io' = [io EXCEPT ![e] = None]

Empty == p_rpos = p_wpos

\* Mutant: one byte too many fits.
Full_OffByOne == p_wpos > p_rpos + PIPEBUFSIZ

Full == p_wpos >= p_rpos + PIPEBUFSIZ

\* The loop's test finds nothing to do: all bytes are done, or some are and
\* the reader finds no more.
devpipe_done(e) ==
  /\ At(e, "loop")
  /\ \/ io[e].i = io[e].n
     \/ End(e) = "r" /\ Empty /\ io[e].i > 0
  /\ Returns(e)
  /\ UNCHANGED <<status, running, mapping, todo, ring, eof, short>>

devpipe_wait(e) ==
  /\ At(e, "loop") /\ io[e].i < io[e].n
  /\ \/ End(e) = "r" /\ Empty /\ io[e].i = 0
     \/ End(e) = "w" /\ Full
  /\ Goes(e, "ref")
  /\ UNCHANGED <<status, running, mapping, todo, ring, eof, short>>

\* n = env_runs, and pageref(fd), which the compiler calls before pageref(p)
pageref_fd(e) ==
  /\ At(e, "ref")
  /\ io' = [io EXCEPT ![e].at = "ref2", ![e].ref = FdRefs(End(e)), ![e].moved = FALSE]
  /\ UNCHANGED <<status, running, mapping, todo, ring, eof, short>>

\* Mutant: the two counts are compared whatever happened between them.
Undisturbed_Always(e) == TRUE

Undisturbed(e) == ~io[e].moved

\* pageref(p), and the comparison if env_runs is what it was; the reader or
\* writer then returns 0, or yields and tries again.
pageref_p(e) ==
  /\ At(e, "ref2") /\ Undisturbed(e)
  /\ IF io[e].ref = DataRefs
       THEN Returns(e) /\ eof' = eof \cup {e} /\ UNCHANGED running
       ELSE Goes(e, "loop") /\ running' = running \ {e} /\ UNCHANGED eof
  /\ UNCHANGED <<status, mapping, todo, ring, short>>

pageref_retry(e) ==
  /\ At(e, "ref2") /\ ~Undisturbed(e)
  /\ Goes(e, "ref")
  /\ UNCHANGED <<status, running, mapping, todo, ring, eof, short>>

read_byte(e) ==
  /\ At(e, "loop") /\ End(e) = "r" /\ io[e].i < io[e].n /\ ~Empty
  /\ taken' = Append(taken, p_buf[p_rpos % PIPEBUFSIZ])
  /\ Goes(e, "copied")
  /\ UNCHANGED <<status, running, mapping, todo, p_rpos, p_wpos, p_buf, stored, eof, short>>

write_byte(e) ==
  /\ At(e, "loop") /\ End(e) = "w" /\ io[e].i < io[e].n /\ ~Full
  /\ p_buf' = [p_buf EXCEPT ![p_wpos % PIPEBUFSIZ] = stored + 1]
  /\ stored' = stored + 1
  /\ Goes(e, "copied")
  /\ UNCHANGED <<status, running, mapping, todo, p_rpos, p_wpos, taken, eof, short>>

advance(e) ==
  /\ At(e, "copied")
  /\ IF End(e) = "r" THEN p_rpos' = p_rpos + 1 /\ UNCHANGED p_wpos
                     ELSE p_wpos' = p_wpos + 1 /\ UNCHANGED p_rpos
  /\ io' = [io EXCEPT ![e].at = "loop", ![e].i = @ + 1]
  /\ UNCHANGED <<status, running, mapping, todo, p_buf, stored, taken, eof, short>>
-----------------------------------------------------------------------------
Io(e) ==
  \/ devpipe_done(e) \/ devpipe_wait(e) \/ pageref_fd(e) \/ pageref_p(e)
  \/ pageref_retry(e) \/ read_byte(e) \/ write_byte(e) \/ advance(e)

Next ==
  \E e \in Envs :
     \/ env_run(e) \/ env_destroy(e)
     \/ pipe(e) \/ close_call(e) \/ dup(e) \/ fork(e) \/ exit(e)
     \/ PageStep(e) \/ dup_err(e) \/ fork_err(e)
     \/ read(e) \/ write(e) \/ Io(e)

Spec == Init /\ [][Next]_vars

(***************************************************************************)
(* Environments that can run are run, again and again, and a time slice is *)
(* long enough for a few instructions in a row: whoever keeps entering     *)
(* _pipeisclosed gets through it undisturbed some time.                    *)
(***************************************************************************)
Fairness ==
  \A e \in {Reader, Writer} :
    /\ WF_vars(e \notin running /\ env_run(e))
    /\ SF_vars(Io(e))
    /\ SF_vars(pageref_p(e))

FairSpec == Spec /\ Fairness
-----------------------------------------------------------------------------
TypeOK ==
  /\ status \in [Envs -> {"unused", "forking", "ready", "gone"}]
  /\ running \subseteq {e \in Envs : status[e] = "ready"}
  /\ Cardinality(running) <= NCPU
  /\ fds \in [Envs -> [Numbers -> {"r", "w", ""}]]
  /\ data \in [Envs -> SUBSET Numbers]
  /\ todo \in [Envs -> Seq(Ops)]
  /\ io \in [Envs -> Calls \cup {None}]
  /\ \A e \in Envs : io[e] # None => io[e].num \in Open(e) /\ io[e].i <= io[e].n
  /\ p_rpos \in Nat /\ p_wpos \in Nat /\ stored \in 0..MaxBytes
  /\ p_buf \in [0..(PIPEBUFSIZ - 1) -> 0..MaxBytes]
  /\ taken \in Seq(0..MaxBytes)
  /\ eof \subseteq Envs /\ short \in BOOLEAN

\* The reader gets the bytes that were written, in order, each once, however
\* the two sides are interleaved: a byte is stored before p_wpos tells of it,
\* and taken before p_rpos gives its place away (lib/pipe.c:132 and 166).
InOrder == \A k \in 1..Len(taken) : taken[k] = k

\* Whoever is told that the other end of the pipe is closed is told the truth:
\* no environment has it open, and so none will (lib/pipe.c:123 and 155).
\* It rests on dup, fork and close keeping a data page mapped wherever a
\* descriptor is, and on the comparison of counts being tried again.  It is
\* not so once a fork has lost a page for want of memory (lib/fork.c:77): the
\* child may have the descriptor and not the data page, which is one
\* reference too few.
EofOnlyWhenClosed ==
  ~short =>
    /\ Reader \in eof => FdRefs("w") = 0
    /\ Writer \in eof => FdRefs("r") = 0

\* read() returns 0 only when all bytes were read: "pipe is empty ... if all
\* the writers are gone, note eof" (lib/pipe.c:119-123).  This does not hold: a
\* reader that found the pipe empty is preempted before it calls
\* _pipeisclosed, and the writer stores a byte and closes in between.
EofOnlyWhenEmpty == Reader \in eof => Len(taken) = stored

\* e waits at its end of a pipe that nobody has open at the other end, while
\* everybody else is out of dup, fork and close.  There are two exceptions: an
\* environment that was destroyed with the pipe open, whose references are
\* never taken back, and a child that missed a page for want of memory, whose
\* data page may have no descriptor to close it by.
Abandoned(e, end) ==
  /\ io[e] # None /\ FdRefs(end) = 0 /\ ~short
  /\ \A x \in Envs : todo[x] = <<>> /\ (status[x] = "gone" => data[x] = {})

\* A reader in a pipe without writers, and a writer in a full pipe without
\* readers, do not wait for ever (lib/pipe.c:118 and 153).
NobodyWaitsForNobody ==
  /\ []<>~Abandoned(Reader, "w")
  /\ []<>~Abandoned(Writer, "r")
=============================================================================
