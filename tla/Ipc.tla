-------------------------------- MODULE Ipc ---------------------------------
(***************************************************************************)
(* Inter-environment messages: sys_ipc_try_send and sys_ipc_recv of        *)
(* kern/syscall.c with the page they transfer, and ipc_send and ipc_recv   *)
(* of lib/ipc.c that every client and server uses.                         *)
(*                                                                         *)
(* A system call is one step, the kernel lock being held throughout (see   *)
(* Kernel).  ipc_send retries; ipc_recv, once woken, reads the fields of   *)
(* its struct Env in user mode, one after the other and without the lock.  *)
(* Environments are destroyed and their slots used again at any time.      *)
(***************************************************************************)
EXTENDS Naturals, FiniteSets

CONSTANTS
  Slots,     \* indices into envs[]
  Senders, Receivers,   \* the slots whose programs call ipc_send, ipc_recv
  Offers,    \* the <<address, permissions>> that programs pass to ipc_send
  Wishes,    \* the addresses that programs pass to ipc_recv
  Values,    \* the 32-bit words sent
  UTOP,      \* page-aligned user addresses are 0..UTOP-1; UTOP itself, or
             \*   anything above, means "no page"
  MaxGen,    \* BOUND: times a slot is handed out
  NoPage,    \* nothing is mapped at an address
  Idle, Waiting, None   \* see Rendezvous

VA == 0..(UTOP - 1)
Perms == {{}, {"U"}, {"U", "W"}}     \* PTE_U and PTE_W, PTE_P apart
Mappings == [page : Slots, perm : Perms]

ASSUME IpcAssumption ==
  /\ UTOP \in Nat \ {0}
  /\ MaxGen \in Nat \ {0}
  /\ Slots # {} /\ Values # {}
  /\ Senders \subseteq Slots /\ Receivers \subseteq Slots
  /\ Offers \subseteq (0..UTOP) \X Perms
  /\ Wishes \subseteq 0..UTOP

Ids == (0..MaxGen) \X Slots          \* envid_t: generation and index
Args == [to : Ids, value : Values, srcva : 0..UTOP, perm : Perms]
Messages == [from : Ids, value : Values]

VARIABLES
  gen,              \* generation of env_id
  alive,            \* env_status is not ENV_FREE
  env_ipc_recving, env_ipc_dstva, env_ipc_from, env_ipc_value,
  env_ipc_perm,     \* a subset of {"P", "U", "W"}
  pgmap,            \* what is mapped at each address, or NoPage
  pc,               \* where the environment's library code is
  args,             \* the arguments of the ipc_send under way
  from_store,       \* what ipc_recv has stored in *from_env_store
  perm_store,       \* and in *perm_store
  got,              \* the message the last ipc_recv returned
  asked,            \* history: the address of the last sys_ipc_recv
  transferred       \* history: the last message came with a page mapped

fields == <<env_ipc_recving, env_ipc_dstva, env_ipc_from, env_ipc_value,
            env_ipc_perm>>
history == <<asked, transferred>>
locals == <<args, from_store, perm_store, got>>
vars == <<gen, alive, fields, pgmap, pc, locals, history>>

\* "run": elsewhere in the program; "send": in ipc_send's loop; "recv": in
\* sys_ipc_recv, not runnable while env_ipc_recving; "perm" and "value": woken,
\* with perm_store, then the value, still to be read; "free": no environment
Pc == {"run", "send", "recv", "perm", "value", "free"}

Id(e) == <<gen[e], e>>
NoId == <<0, CHOOSE e \in Slots : TRUE>>
NoArgs == [to |-> NoId, value |-> CHOOSE v \in Values : TRUE,
           srcva |-> UTOP, perm |-> {}]

\* Address 1 (any but 0) holds a page of the environment's own, which it may
\* write; nothing else is mapped.
FreshMap(e) ==
  [va \in VA |-> IF va = 1 THEN [page |-> e, perm |-> {"U", "W"}] ELSE NoPage]

\* Every slot in use, as after a first env_alloc: the memset of env_init has
\* left the IPC fields zero.
Init ==
  /\ gen = [e \in Slots |-> 1]
  /\ alive = [e \in Slots |-> TRUE]
  /\ env_ipc_recving = [e \in Slots |-> FALSE]
  /\ env_ipc_dstva = [e \in Slots |-> 0]
  /\ env_ipc_from = [e \in Slots |-> NoId]
  /\ env_ipc_value = [e \in Slots |-> CHOOSE v \in Values : TRUE]
  /\ env_ipc_perm = [e \in Slots |-> {}]
  /\ pgmap = [e \in Slots |-> FreshMap(e)]
  /\ pc = [e \in Slots |-> "run"]
  /\ args = [e \in Slots |-> NoArgs]
  /\ from_store = [e \in Slots |-> NoId]
  /\ perm_store = [e \in Slots |-> {}]
  /\ got = [e \in Slots |-> None]
  /\ asked = [e \in Slots |-> UTOP]
  /\ transferred = [e \in Slots |-> FALSE]
-----------------------------------------------------------------------------
\* envid2env without the permission check
Resolves(id) == alive[id[2]] /\ gen[id[2]] = id[1]

\* Mutants: the test is missing; the test is the wrong way round.
Accepts_Always(d) == TRUE
Accepts_Inverted(d) == ~env_ipc_recving[d]

\* The test of env_ipc_recving in sys_ipc_try_send
Accepts(d) == env_ipc_recving[d]

\* ipc_send is called; a null page is passed on as UTOP.
ipc_send(e, a) ==
  /\ pc[e] = "run"
  /\ pc' = [pc EXCEPT ![e] = "send"]
  /\ args' = [args EXCEPT ![e] = a]
  /\ UNCHANGED <<gen, alive, fields, pgmap, from_store, perm_store, got, history>>

\* Mutant: write permission is granted without being held.
SendablePage_AnyWrite(e, va, perm) ==
  pgmap[e][va] # NoPage /\ "U" \in pgmap[e][va].perm

\* The checks of sys_ipc_try_send on the page to send; the first is that the
\* address is mapped, the others are on the permission bits of its entry.
SendablePage(e, va, perm) ==
  /\ pgmap[e][va] # NoPage
  /\ "U" \in pgmap[e][va].perm
  /\ "W" \in perm => "W" \in pgmap[e][va].perm

\* Mutant: the entry gets bits outside PTE_SYSCALL.
sys_page_map_RawPerm(e, va, d, dstva, perm, mem) ==
  /\ pgmap' = [pgmap EXCEPT ![d][dstva] =
                  [page |-> pgmap[e][va].page, perm |-> perm \cup {"P"}]]
  /\ transferred' = [transferred EXCEPT ![d] = mem]

\* The page transfer: sys_page_map's own checks, and the page_insert that may
\* run out of memory (mem).  Its failure, being negative, is never seen by
\* sys_ipc_try_send.
sys_page_map(e, va, d, dstva, perm, mem) ==
  IF mem /\ "U" \in perm
    THEN /\ pgmap' = [pgmap EXCEPT ![d][dstva] =
                        [page |-> pgmap[e][va].page, perm |-> perm]]
         /\ transferred' = [transferred EXCEPT ![d] = TRUE]
    ELSE /\ UNCHANGED pgmap
         /\ transferred' = [transferred EXCEPT ![d] = FALSE]

\* What sys_ipc_try_send does once all its checks have passed.
deliver(e, d, a) ==
  /\ env_ipc_recving' = [env_ipc_recving EXCEPT ![d] = FALSE]
  /\ env_ipc_from' = [env_ipc_from EXCEPT ![d] = Id(e)]
  /\ env_ipc_value' = [env_ipc_value EXCEPT ![d] = a.value]
  /\ IF a.srcva < UTOP /\ env_ipc_dstva[d] < UTOP
       THEN /\ env_ipc_perm' = [env_ipc_perm EXCEPT ![d] = a.perm \cup {"P"}]
            /\ \E mem \in BOOLEAN :
                 sys_page_map(e, a.srcva, d, env_ipc_dstva[d], a.perm, mem)
       ELSE /\ transferred' = [transferred EXCEPT ![d] = FALSE]
            /\ UNCHANGED <<env_ipc_perm, pgmap>>
  /\ UNCHANGED env_ipc_dstva

\* ipc_send returns, and its arguments are gone.
send_returns(e) ==
  /\ pc' = [pc EXCEPT ![e] = "run"]
  /\ args' = [args EXCEPT ![e] = NoArgs]

\* One turn of ipc_send's loop.  Only -E_IPC_NOT_RECV makes it try again; any
\* other error ends it like a success.
sys_ipc_try_send(e) ==
  LET a == args[e]
      d == a.to[2] IN
  /\ pc[e] = "send"
  /\ \/ /\ Resolves(a.to)
        /\ ~Accepts(d)                                \* -E_IPC_NOT_RECV
        /\ UNCHANGED <<pc, args, fields, pgmap, transferred>>
     \/ /\ \/ ~Resolves(a.to)                         \* -E_BAD_ENV
           \/ /\ Accepts(d)                           \* -E_INVAL
              /\ a.srcva < UTOP /\ ~SendablePage(e, a.srcva, a.perm)
        /\ send_returns(e)
        /\ UNCHANGED <<fields, pgmap, transferred>>
     \/ /\ Resolves(a.to)
        /\ Accepts(d)
        /\ a.srcva < UTOP => SendablePage(e, a.srcva, a.perm)
        /\ deliver(e, d, a)
        /\ send_returns(e)
  /\ UNCHANGED <<gen, alive, from_store, perm_store, got, asked>>

\* ipc_recv up to and into sys_ipc_recv: the address is only recorded when it
\* is below UTOP.
sys_ipc_recv(e, dstva) ==
  /\ pc[e] = "run"
  /\ env_ipc_recving' = [env_ipc_recving EXCEPT ![e] = TRUE]
  /\ env_ipc_dstva' =
       [env_ipc_dstva EXCEPT ![e] = IF dstva < UTOP THEN dstva ELSE @]
  /\ pc' = [pc EXCEPT ![e] = "recv"]
  /\ asked' = [asked EXCEPT ![e] = dstva]
  /\ UNCHANGED <<gen, alive, env_ipc_from, env_ipc_value, env_ipc_perm, pgmap,
                 locals, transferred>>

\* The history of a receive ends with it.
forget(e) ==
  /\ asked' = [asked EXCEPT ![e] = UTOP]
  /\ transferred' = [transferred EXCEPT ![e] = FALSE]

\* The rest of ipc_recv, in user mode: three reads of thisenv.  The two stores
\* are the caller's; they are forgotten once it has returned.
read_from(e) ==
  /\ pc[e] = "recv" /\ ~env_ipc_recving[e]
  /\ from_store' = [from_store EXCEPT ![e] = env_ipc_from[e]]
  /\ pc' = [pc EXCEPT ![e] = "perm"]
  /\ UNCHANGED <<gen, alive, fields, pgmap, args, perm_store, got, history>>

read_perm(e) ==
  /\ pc[e] = "perm"
  /\ perm_store' = [perm_store EXCEPT ![e] = env_ipc_perm[e]]
  /\ pc' = [pc EXCEPT ![e] = "value"]
  /\ UNCHANGED <<gen, alive, fields, pgmap, args, from_store, got, history>>

read_value(e) ==
  /\ pc[e] = "value"
  /\ got' = [got EXCEPT ![e] =
               [from |-> from_store[e], value |-> env_ipc_value[e]]]
  /\ pc' = [pc EXCEPT ![e] = "run"]
  /\ from_store' = [from_store EXCEPT ![e] = NoId]
  /\ perm_store' = [perm_store EXCEPT ![e] = {}]
  /\ forget(e)
  /\ UNCHANGED <<gen, alive, fields, pgmap, args>>

\* env_free: the address space goes, the IPC fields stay as they are.
env_free(e) ==
  /\ alive[e]
  /\ alive' = [alive EXCEPT ![e] = FALSE]
  /\ pc' = [pc EXCEPT ![e] = "free"]
  /\ pgmap' = [pgmap EXCEPT ![e] = [va \in VA |-> NoPage]]
  /\ args' = [args EXCEPT ![e] = NoArgs]
  /\ from_store' = [from_store EXCEPT ![e] = NoId]
  /\ perm_store' = [perm_store EXCEPT ![e] = {}]
  /\ got' = [got EXCEPT ![e] = None]
  /\ forget(e)
  /\ UNCHANGED <<gen, fields>>

\* env_alloc: a new generation; of the IPC fields only env_ipc_recving is reset.
env_alloc(e) ==
  /\ ~alive[e] /\ gen[e] < MaxGen
  /\ alive' = [alive EXCEPT ![e] = TRUE]
  /\ gen' = [gen EXCEPT ![e] = @ + 1]
  /\ env_ipc_recving' = [env_ipc_recving EXCEPT ![e] = FALSE]
  /\ pgmap' = [pgmap EXCEPT ![e] = FreshMap(e)]
  /\ pc' = [pc EXCEPT ![e] = "run"]
  /\ UNCHANGED <<env_ipc_dstva, env_ipc_from, env_ipc_value, env_ipc_perm,
                 locals, history>>

Next ==
  \/ \E e \in Senders :
       \/ \E d \in Receivers \ {e}, v \in Values, o \in Offers :
            /\ alive[d]
            /\ ipc_send(e, [to |-> Id(d), value |-> v,
                            srcva |-> o[1], perm |-> o[2]])
       \/ sys_ipc_try_send(e)
  \/ \E e \in Receivers :
       \/ \E va \in Wishes : sys_ipc_recv(e, va)
       \/ read_from(e) \/ read_perm(e) \/ read_value(e)
  \/ \E e \in Slots : env_free(e) \/ env_alloc(e)

Spec == Init /\ [][Next]_vars

\* Both ends run on: an environment that can run gets a CPU again and again
\* (RunnableRuns of Kernel).  Nothing makes programs send, receive or die.
FairSpec ==
  /\ Spec
  /\ \A e \in Senders : WF_vars(sys_ipc_try_send(e))
  /\ \A e \in Receivers : WF_vars(read_from(e) \/ read_perm(e) \/ read_value(e))
-----------------------------------------------------------------------------
TypeOK ==
  /\ gen \in [Slots -> 1..MaxGen]
  /\ alive \in [Slots -> BOOLEAN]
  /\ env_ipc_recving \in [Slots -> BOOLEAN]
  /\ env_ipc_dstva \in [Slots -> 0..UTOP]
  /\ env_ipc_from \in [Slots -> Ids]
  /\ env_ipc_value \in [Slots -> Values]
  /\ env_ipc_perm \in [Slots -> SUBSET {"P", "U", "W"}]
  /\ pgmap \in [Slots -> [VA -> Mappings \cup {NoPage}]]
  /\ pc \in [Slots -> Pc]
  /\ args \in [Slots -> Args]
  /\ from_store \in [Slots -> Ids]
  /\ perm_store \in [Slots -> SUBSET {"P", "U", "W"}]
  /\ got \in [Slots -> Messages \cup {None}]
  /\ asked \in [Slots -> 0..UTOP]
  /\ transferred \in [Slots -> BOOLEAN]

\* The IPC implements Rendezvous: a message reaches the receiver whole, and no
\* other send can change it, however long the receiver takes to read the three
\* fields of its struct Env and whoever sends meanwhile.
box == [e \in Slots |->
          IF ~alive[e] THEN Idle
          ELSE IF pc[e] = "recv" /\ env_ipc_recving[e] THEN Waiting
          ELSE IF pc[e] = "recv"
            THEN [from |-> env_ipc_from[e], value |-> env_ipc_value[e]]
          ELSE IF pc[e] \in {"perm", "value"}
            THEN [from |-> from_store[e], value |-> env_ipc_value[e]]
          ELSE Idle]

Abstract == INSTANCE Rendezvous WITH Receivers <- Slots

Implements == Abstract!RendezvousSpec

\* A mapping appears in an environment only when it is new or by a message, and
\* then with no right that the sender did not have on the page at that moment:
\* a page received read-only is never passed on, or sent back, writable.
NoRightsGained ==
  [][\A e \in Slots : \A va \in VA :
       pgmap'[e][va] # pgmap[e][va] /\ pgmap'[e][va] # NoPage =>
         \/ ~alive[e]
         \/ \E s \in Senders :
              /\ pc[s] = "send" /\ pc'[s] = "run"
              /\ args[s].srcva \in VA
              /\ pgmap[s][args[s].srcva] # NoPage
              /\ pgmap'[e][va].page = pgmap[s][args[s].srcva].page
              /\ pgmap'[e][va].perm \subseteq pgmap[s][args[s].srcva].perm]_vars

\* env_ipc_perm is the permission of the page if one was transferred and 0
\* otherwise (kern/syscall.c:353; lib/ipc.c:10, "nonzero iff a page was
\* successfully transferred").  This does not hold: it is set before the page is
\* mapped and never cleared.
PermIffPage ==
  \A e \in Slots : pc[e] = "value" => (perm_store[e] # {} <=> transferred[e])

\* No page is mapped into a receiver that did not ask for one
\* (kern/syscall.c:358), nor at another address than it asked for.  This does
\* not hold: env_ipc_dstva keeps the address of an earlier call.
OnlyAskedPages ==
  [][\A e \in Slots : \A va \in VA :
       alive[e] /\ alive'[e] /\ pgmap'[e][va] # pgmap[e][va] => asked[e] = va]_vars

\* An environment that tries to send to one that waits has delivered, or given
\* up, in the end: the receiver does not sleep through ipc_send's polling.
ReceiverWoken ==
  \A r \in Receivers, s \in Senders :
    (pc[r] = "recv" /\ env_ipc_recving[r] /\ pc[s] = "send" /\ args[s].to = Id(r))
      ~> (~(pc[r] = "recv" /\ env_ipc_recving[r])
          \/ ~(pc[s] = "send" /\ args[s].to = Id(r)))
=============================================================================
