# JOS in TLA+

A verification project for the multiprocessor JOS kernel and its user-level
servers in `JOS-with-network/` (x86-64, with file system and network).  The tree
`JOS-with-file-system/` is an earlier state of the same code and is not modelled
separately, with one exception: the block cache `fs/bc.c`.  In the newer tree its
fault handler holds the text of the exercise and the solution one after the
other, and the first (`fs/bc.c:57`) maps a page that is not there, so every read
of a block panics; the older file is what both trees mean.  All source paths
below are relative to `src/JOS-with-network/`.

## The system

JOS is an exokernel-like teaching system.  The kernel multiplexes CPUs, memory
and messages between *environments* (processes); `fork`, pipes, files and
sockets are built in user space on page mappings and IPC.

| part | state | operations | interacts with |
|---|---|---|---|
| environments (`kern/env.c`) | `envs[]`: status, id with generation, parent, page directory, IPC fields; `env_free_list`; per-CPU `curenv` and `%cr3` | `env_alloc`, `env_free`, `env_destroy`, `env_run`, `env_create` | every system call; memory |
| scheduler (`kern/sched.c`) | one round-robin position for all CPUs | `sched_yield`, `sched_halt` | environments, kernel lock |
| traps and system calls (`kern/trap.c`, `kern/syscall.c`) | `cpu_status`, `panicstr` | `trap`, `trap_dispatch`, `page_fault_handler`, `sys_*` | all of the kernel |
| kernel lock (`kern/spinlock.c`) | `locked`, `cpu` | `spin_lock`, `spin_unlock`, `holding` | taken on every entry to the kernel, given back in `env_run` and `sched_halt` |
| SMP start (`kern/init.c`) | `cpu_status` of each CPU | `i386_init`, `boot_aps`, `mp_main` | lock, scheduler |
| IPC (`kern/syscall.c`, `lib/ipc.c`) | `env_ipc_*` of the receiver, page mappings | `sys_ipc_try_send`, `sys_ipc_recv`, `ipc_send`, `ipc_recv` | scheduler, memory; used by all servers |
| memory (`kern/pmap.c`) | page free list, `pp_ref`, four-level page tables | `page_alloc`, `page_free`, `page_insert`, `page_remove`, walks, `user_mem_check` | environments, `sys_page_*` |
| copy-on-write fork (`lib/fork.c`) | page permissions of parent and child | `fork`, `duppage`, `pgfault` | memory, environments |
| descriptors and pipes (`lib/fd.c`, `lib/pipe.c`, `lib/pageref.c`) | shared pages and their reference counts, ring positions | `pipe`, `read`, `write`, `dup`, `close`, `_pipeisclosed` | memory |
| file system (`fs/fs.c`, `fs/bc.c`) | bitmap, file blocks, block cache | `alloc_block`, `file_get_block`, `file_create`, `file_truncate_blocks`, `file_remove`, `flush_block` | disk |
| file server (`fs/serv.c`, `lib/file.c`) | `opentab[]`, page references | `openfile_alloc`, `serve_*`, `serve`, `fsipc` | IPC, file system |
| network (`net/serv.c`, `net/input.c`, `net/output.c`, `net/timer.c`, `lib/nsipc.c`) | request buffers, threads | `serve`, `serve_thread`, `process_timer`, the helper loops | IPC, driver, lwIP |
| lwIP port (`net/lwip/jos/arch`) | thread queue, semaphores, mailboxes | `thread_*`, `sys_sem_*`, `sys_mbox_*` | network server |
| E1000 driver (`kern/e1000.c`) | transmit and receive rings shared with the card | attach, transmit, receive | `sys_net_tx`, `sys_net_rx` |
| malloc (`lib/malloc.c`) | a user address range counted by page | `malloc`, `free` | memory; the network server |
| the rest | boot loader, console, monitor, interrupt controllers, formatting, shell and test programs, lwIP itself | | |

What is hard here: the kernel has one big lock, but `env_run` still has work to
do after it gives the lock back (`lcr3`); environments are destroyed by one CPU
while they run on another; statuses are written by handlers, by the scheduler
and by other environments; slots of `envs[]` are used again while other
environments still keep the ids of the earlier users; a receiver reads its
message in user mode, without the lock, after it was woken; senders poll; the
lock's own debugging check reads two words that another CPU is writing.  What
makes each part correct is in the sections on the modules; the list `hazards`
in PROJECT.json gives the lines.

## Modules

| module | models | proofs |
|---|---|---|
| `Kernel` | environment table, scheduler, traps, environment system calls, SMP start | `Kernel_proofs` |
| `SpinLock` | the spin lock, one memory access per step; implements `Mutex` | `SpinLock_proofs` |
| `Mutex` | abstract: one holder at a time | |
| `Ipc` | messages and their page, kernel and library side; implements `Rendezvous` | `Ipc_proofs` |
| `Rendezvous` | abstract: a message goes to a waiting receiver and is read whole | |
| `MCIpc` | sets for the instances of `Ipc` | |
| `PageTables` | physical pages, reference counts, page tables, the calls on mappings | `PageTables_proofs` |
| `MCPageTables` | sets and the view for the instance of `PageTables` | |
| `Pipe` | a pipe, its descriptors and their reference counts | `Pipe_proofs` |
| `Fork` | copy-on-write fork and its fault handler; implements `PrivateMemory` | `Fork_proofs` |
| `PrivateMemory` | abstract: everybody has a memory, a child starts with a copy | |
| `MCFork` | the view for the instance of `Fork`, and that its layout satisfies `VisitsAll` | |
| `FileSystem` | bitmap, files and block cache over a disk, with crashes | `FileSystem_proofs` |
| `MCFileSystem` | symmetry for the instances of `FileSystem` | |
| `E1000` | the rings shared by driver and card | `NetServer_proofs` |
| `NetServer` | network server, its helper environments and clients, over `E1000` and `Rendezvous` | `NetServer_proofs` |

Operators named `X_Something` next to an operator `X`, marked *Mutant*, are
versions of `X` with a plausible mistake in them.  No specification uses them;
they show that the properties notice the mistake.

### Kernel

One action per trap, system call or step of the start-up.  A handler runs with
the kernel lock and with interrupts off from `lock_kernel` to the
`unlock_kernel` of `env_run` or `sched_halt`, so it is one step (what makes
that sound is `SpinLock`); the operators `env_run`, `sched_halt`, `sched_yield`
and `trap_return` take the statuses, `curenv` and `%cr3` as the handler has left
them and are the last part of that step.  `lcr3_pop` is the part of `env_run`
after `unlock_kernel`, and a step of its own: other CPUs may run whole handlers
before it.

`mode` is where a CPU is; `env_cr3` is the generation of the environment that
the slot's page directory belongs to, `cr3` the directory a CPU has loaded,
named by the environment id it was made for, so that a directory that was freed
and made again is told apart.  `allocs` and `creator` are history variables,
used by `ParentIsCreator` only.  A system call that fails changes nothing, and
is an `other_trap`; `page_fault` is a fault sent to the upcall, which goes back
to `curenv` without the test of its status that `trap()` makes.
Physical memory never runs out in this module: `env_setup_vm` succeeds.

`Users` says what environments ask of `sys_env_set_status` and
`sys_env_destroy`: what the library and the programs of the repository ask
(`"library"`), what the comments above the calls allow (`"documented"`), or
anything the code lets through (`"any"`).

### SpinLock

`locked` and `cpu` are the words of `struct spinlock`; every read or write that
another CPU can see is a step, `holding()` being two.  The `pcs` trace is left
out.  x86 memory order keeps the steps of one CPU in order as others see them
(stores are not reordered, and the `xchg`s are fences); the one reordering x86
allows, a load before an earlier store of the same CPU, concerns no two words
that the code accesses in that order without an `xchg` in between.

### Ipc

A system call is one step.  `ipc_send` is the loop around `sys_ipc_try_send`;
`ipc_recv`, after it was woken, reads `env_ipc_from`, `env_ipc_perm` and
`env_ipc_value` in three steps.  Addresses are page numbers below `UTOP`;
`UTOP` stands for itself and everything above.  Permissions are sets of `"P"`,
`"U"`, `"W"`.  A mapping may fail for want of memory at any time.  `env_free`
and `env_alloc` may strike at any moment and, as in the code, leave
`env_ipc_dstva`, `env_ipc_perm`, `env_ipc_from` and `env_ipc_value` behind.
`asked` and `transferred` are history.

### PageTables

The functions of `kern/pmap.c` are operators from one memory (free pages, counts,
entries, writable addresses) to the next; a system call, which holds the kernel
lock throughout, is one step that applies them in the order of the code.  A walk
may find the free list empty at any level, so the partial failures are all
there: the page that `sys_page_alloc` drops, the page directory that `pdpe_walk`
forgets (its variable `page` is shadowed), the table that `pml4e_walk` takes
back.  `page_lookup` is `pml4e_walk` with `create`, so lookups, unmappings and
`user_mem_check` allocate tables as well.  `sys_ipc_try_send` moves a page by
`page_lookup` and `sys_page_map`, and is a step of those here.

An entry is named by the environment and the node below it (a prefix of an
address), and holds the page.  Below the functions of `pmap.c` are the four things
they do to a memory: `Take` a page from the free list, `incref`, `SetEntry` and
`SetWritable`; `PutEntry` is the last three.
The free list is a set, because free pages are interchangeable: all have count 0
and are referred to nowhere (`RefsCounted`).  `env_free` visits the entries that
its loops visit, with their limits scaled down (`NPT`, `NPD`, `UTOP_PDX`).  For
an address space into which nothing was ever mapped it reads physical page 0 as
a table and panics; that outcome is outside `NoPanic` of `Kernel`, which leaves
page tables out.

`TypeOK` says more than the types: an address is writable only where a page is
mapped (`Cut`, which takes down what hangs below a table, drops the rights with the
entries).  `pp_ref` counts modulo `REFS`, as 16 bits do, so that its range says
nothing; that no count is too low is `RefsCounted`.  `MaxRefs` is a bound of the
model with no counterpart in the code.

Left out: addresses above 4 GB and the address `UTOP` itself, which the calls
let through and which lies in tables that all environments share with the
kernel; `region_alloc`, which runs at boot; contents of pages; TLBs.

### Pipe

A pipe is three pages: the descriptor of each end, and the data page mapped
beside every descriptor.  `fds` and `data` say which are mapped where, so
`pageref` is a count.  A call of `dup`, `close`, `fork`, `spawn` or `exit` is the
list of its page operations (`todo`), in the order of the code; each is a step,
because another environment may run between any two.  The loops of `fork`,
`spawn` and `close_all` go over all descriptors, so their lists have a place for
each (`DownPages`, `CloseAll`), with a `Skip` where the loop finds nothing to
do.  `_pipeisclosed` reads one
count, then the other, and takes the result only if `env_runs` has not moved:
`env_run` sets `moved`.  Copying a byte and moving the position are two steps.
There is one pipe, one reader and one writer at a time: two readers of one
descriptor race on `p_rpos`, which the code does not try to prevent.
`env_destroy` leaves the references of the dead environment behind, as
`env_free` does (its loops stop short of the descriptor area); therefore
`NobodyWaitsForNobody` is about pipes whose users left by `close` or `exit`.

A map may find no memory for a page table.  In `dup` that is noticed and undone
(`dup_err`).  In `fork` and `spawn` it is not (`fork_err`): `duppage` tests `0 < r`
(`lib/fork.c:77`), which no error satisfies, and `copy_shared_pages` does not look at
the result (`lib/spawn.c:311`).  All descriptors and data pages lie in one page table,
so the failure concerns maps before the first that succeeds, and a child may get
the descriptor of an end without the data page beside it.  The counts then do
not say who has an end open any more: a reader may be told that the pipe is
closed while a writer has it, or wait for ever.  `short` remembers that this has
happened; `EofOnlyWhenClosed` and `NobodyWaitsForNobody` are about pipes where it has
not, and `TypeOK` and `InOrder` about all.  A `read` or `write` without the data page is
a fault, hence an `env_destroy`.

### Fork

`pt` is the address space of each environment, page by page, with the bits
`PTE_W`, `PTE_COW` and `PTE_SHARE`; a physical page holds one value.  Each page
call of `fork`, `duppage` and `pgfault` is a step; the calls run on a stack that
is copy-on-write itself, so inside `fork` a fault on the stack comes before the
next call (`InFork`).  What a fork has still to copy is a set of addresses, of
which it takes the highest (`IsNext`), as the loop goes down.  `Visited` is that
loop over addresses with its steps over missing tables, and `VisitsAll` says
that they skip nothing of the layout.  `Visited` has the steps for a missing
page table and for a missing page directory; all user addresses are below one
PML4 entry, which is there.  `Implements` maps the pages to what each environment
reads, and shows that all the steps of copying are invisible.

Memory may run out at every call.  `pgfault` then panics, which is `env_destroy`, as
is a fault without handler or mapping.  `fork` does not notice: `duppage` tests
`0 < r` (`lib/fork.c:77`, `84`, `90`), and the calls at `169` to `173` are not tested.
`duppage_fails` leaves the page out of the child and goes on; a call takes memory
only for page tables, so it can fail only while the child has nothing mapped in
that table.  `fork_xstack` may leave the child without an exception stack, so that
its first fault ends it.  `fork_stuck` is the parent in `memmove` to a `PFTEMP` that was
never mapped: its own handler maps and unmaps the page for ever.  `partial` is
whoever may lack pages for such a reason, with all who descend from them; in
`PrivateMemory` these start with a part of their parent's memory, and never with
anything else in its place.  Everybody else starts with all of it.

### FileSystem

The file server does one request after the other, so an operation is one step on
`cache`; its `flush_block`s become `pending` writes, which `ide_write` moves to
`disk` one at a time, and `Crash` may come before any of them.  `file_flush` and
`fs_sync` change nothing in memory but what is dirty: they set up `loop`, the blocks
they go over, and `flush_next` is one turn, for one block.  After a crash the
cache is what the disk holds.  `SetBitmap`, `SetFile` and `SetBlock` are the stores to
cached blocks, which make their pages dirty (`va_is_dirty` reads the bit).  Blocks are words, so that an indirect block can be
a block that held data before.  `file_read` allocates as the code does, because
`file_get_block` does not tell reading from writing.  There is one directory of
one block, a block is read and written as a whole, and paths are left out.
`bc_pgfault` is the cache being there; its panic on reading a free block cannot
occur while `FilesAreDisjoint` holds.  Nothing reorders writes (`ide_write` waits for
each), and the write of a block is one step, although its eight sectors go out one
by one (`fs/ide.c:103`): a machine that stops within a block is left out.  The
bitmap is one block: `alloc_block` flushes the first bitmap block whichever it changed
(`fs/fs.c:72`), which is the right one on disks of up to 32768 blocks.

`Words` are what programs write, any numbers at all (9 in `filesystem`, where blocks
are 1 and 2).  With indirect blocks a word of old data can become a pointer, and
one that is no block's number a panic of `diskaddr`; therefore `TypeOK`, too, is for
files without them, and `FileSystemAssumption` allows arbitrary words only for those.

### E1000 and NetServer

`E1000` has the two rings with their status bits, the driver's tails and the
card's registers.  A transmission or reception is two steps, to the last change
of a descriptor and to the store to the tail register, between which the card may
work.  The card is external: it owns the descriptors from its head to its tail
register, and with the two equal it owns none.

`NetServer` extends it with `input()`, `output()`, `timer()`, clients in
`nsipc()`, and the server.  A message is one step of sender and receiver
(`Rendezvous`).  The server's threads are cooperative: `cur_tc` runs until it
yields; `ns` says where the whole server stands, which any thread's `ipc_send`
stops.  A request's thread is named by its buffer.  Pages are tracked from
`input()` to the server, since the two share one until `input()` takes another.

Anybody may send to the server, to `output()` and, as `Stranger`, ask for what the
server does not know:

- `serve_stray`, `stray_send`: a message without a page costs a buffer.  Once a page
  has come the stale `env_ipc_perm` passes the test at `net/serv.c:285`, and so it does
  for a first page that could not be mapped (`kern/syscall.c:414` tests `0 < r`): the
  message gets a thread, which reads an unmapped buffer and ends the server
  (`thread_fault`), unless its code is unknown.
- `client_send(Stranger)`: an unknown code, with a page or without.  The thread takes
  the `default` case, touches nothing of the request and replies, which stops the
  server until the stranger receives.  Nothing makes it do so.
- `stranger_timer`: an `NSREQ_TIMER` from somebody else, from which `process_timer`
  returns at once.
- `output_fault`: an `NSREQ_OUTPUT` without a page, after one with a page, makes
  `output()` read what it has unmapped.  Messages of unknown code, and those without
  a page before the first, are dropped, which is no step.  Afterwards, or when the
  first page cannot be mapped, the server's packets are lost (`output_lost`), since
  `ipc_send` ignores the error.
- `input_panic`, `low_level_panic`: no page for the next packet.

`Pages` is only a pool of names for pages in use, large enough for all of them; that
memory may run out is `input_panic`.  Two tests of the driver are left out because
packets have no length here: `n > E1000_TXD_BUFFER_LENGTH` (`kern/e1000.c:78`), which
lwIP's packets of at most 1514 bytes stay below, and the panic for a received
packet in several descriptors (`kern/e1000.c:127`), which the card does not make with
long packets off in RCTL (`kern/e1000.c:168`).

Left out: what requests say, well-formed `NSREQ_INPUT` and `NSREQ_OUTPUT` with a page
from environments other than `input()` and the server (packets that did not come from
where they say), packets that lwIP drops for want of a `pbuf`, a `malloc` that fails
in `serve()`, which is one more panic, a `thread_create` that fails (its result is
ignored), clients that die while the server serves them, lwIP's own threads, and time.

## Runs

| run | instance | result |
|---|---|---|
| `kernel_library` | 2 CPUs, 3 slots used up to twice, 2 environments at boot, library users | no environment on two CPUs, statuses and `curenv`s agree, no panic, user mode always in the right address space, the monitor only when idle, receivers blocked, parents are creators, zombies wait for their CPU |
| `kernel_users` | 2 CPUs, 2 slots, any calls, generations wrap at 2 | types, the lock and the free list survive any user |
| `kernel_live` | 2 CPUs, 3 slots used once, library users, fairness | every runnable environment runs, every zombie is reaped |
| `ipc` | 2 environments that both send and receive, all page offers, slots used twice, fairness | `Ipc` implements `Rendezvous`; no message gives rights its sender lacks; a receiver somebody keeps sending to is woken |
| `spinlock` | 3 CPUs, fairness | no false panic, implements `Mutex`, somebody gets in |
| `pagetables` | 2 address spaces, 10 pages, 3 addresses, counts up to 4 | no page in use is free, no table is mapped for users, rights to write are rights to a page, read-only pages stay so, pages are lost only where the code is known to lose them |
| `pipe` | parent and child, 2 descriptors each, a ring of 1 byte, 2 bytes written, 1 CPU, failing maps, fairness | bytes in order, each once; unless a map of `fork` failed, an end reported closed is closed and nobody waits for a closed end |
| `fork` | 3 environments, stack, data and a shared page in 3 page tables, 6 physical pages, calls that run out of memory, 2 values | no writable page is in two address spaces; `Fork` implements `PrivateMemory` |
| `filesystem` | 2 files, 2 blocks, 2 direct pointers, words 0 and 9, crashes | files share no block, in memory or on disk, at any moment; a flushed file is on disk |
| `network` | rings of 2, 3 request buffers, a client, the timer and a stranger with 2 calls, 2 packets in, 2 out, 1 message without a page before the first with one and any number after it, fairness | packets in order, buffers with one owner; packets arrive unless the server has died or waits for a stranger, the transmit ring is wedged, or `input()` or `output()` has died |
| `kernel_shared` | documented users | violated: `sys_env_set_status(0, ENV_RUNNABLE)` puts an environment on two CPUs |
| `filesystem_indirect` | 2 files, 4 blocks, 1 direct and 2 indirect pointers | violated: a new indirect block is not cleared, and old data becomes block pointers |

The two violations are disagreements between the code and its comments;
PROJECT.json quotes the lines.  Others were met that have no run of their own.
Those that are formulas of a module carry the remark that they do not hold:

- `Kernel.LoadedDirectoryLive`: `env_run` gives the lock back before `lcr3`
  (`kern/env.c:630`), so the directory still loaded can be freed by another CPU.
- `Ipc.PermIffPage`, `Ipc.OnlyAskedPages`: `env_ipc_perm` and `env_ipc_dstva` keep
  what an earlier message or call left (`kern/syscall.c:353` and `358` say
  otherwise).
- `PageTables.FreesAllItUses`: `env_free` misses the last entry of each table and
  all tables above `PDX(UTOP)`, the user stacks and descriptors among them.
- `Pipe.EofOnlyWhenEmpty`: a reader that found the pipe empty may see it closed
  after one more byte was written.  And with two CPUs `EofOnlyWhenClosed` fails:
  `env_runs` notices that this environment was preempted, not that another ran
  beside it.  It also fails for children made by `spawn`, whose
  `copy_shared_pages` maps descriptors before data pages.
- `Fork.CopiesAll`: the loop of `fork` steps one page too far over a missing page
  table, so a program of a few hundred pages loses some of them in the child; and
  a map that fails is not noticed.
- `Fork.ReadOnlyStays`: the test in `pgfault` (`lib/fork.c:34`) lets a write to a
  read-only page through as if it were copy-on-write.
- `E1000.TxWedged`: a transmit ring filled to its last descriptor has equal
  registers, which tells the card that it is empty; nothing is sent again.

And without a formula: the generation of an environment id wraps after 2^19 - 1
uses of a slot (`kern/env.c:247`), after which `ParentIsCreator` fails (it holds in
`kernel_library`, where `MaxAllocs` is below `GENERATIONS`).  `pp_ref` wraps after
2^16 mappings of one page, after which `RefsCounted` fails (it holds in
`pagetables`, where `MaxRefs` is below `REFS`).  `env_destroy` of a zombie frees it
at once, although its comment has it wait for the next trap (`kern/env.c:547`);
with `Users = "documented"` `ZombieStaysUntilItTraps` fails.  `ipc_send` returns
normally on every error but `-E_IPC_NOT_RECV`, where its comment asks for a panic
(`lib/ipc.c:52`).  `file_set_size` to a size that still needs the indirect block
frees blocks without writing that block, so the disk may point to free blocks
until the next flush: `CrashSafe` is for files without one.

### Bounds

Two CPUs are enough for every race that is about one CPU in the kernel and
another that is not, since the lock admits one at a time; three slots let a
parent, a child and a bystander be in different states at once, or a slot be
used again while its old parent or child lives.  `MaxAllocs` (how often a slot
is handed out) is the only cap in `Kernel`, `MaxGen` the only one in `Ipc`.  `MaxRefs`
in `PageTables` stops the mapping of a page whose count has grown to it, which
happens because `env_free` forgets references.  Ten pages are two sets of tables
for one address, a page shared by both and one to spare, so that a second address
runs out half way at every level; the three addresses are two in one page table,
one of them in its last entry, and one where `env_free` does not look.  `MCView`
merges states that differ only in which page is which.  In
`kernel_users` `GENERATIONS` is 2, so that the first reuse already wraps.  What
matters most is proved for constants of any size.

In `Pipe` one CPU is what the makefile gives by default (`CPUS ?= 1`), and the
only case in which the property is true; two bytes through a ring of one wrap
it, and two descriptors let `dup` close one end while it copies the other.  In
`Fork` three environments are a parent, a child and a grandchild that all share a
page not yet copied; addresses are page numbers in tables of three and directories
of nine, with tables and a directory missing in between, which `fork` steps over
without leaving anything out; each mapped page is in a table of its own, so that
every map into the child may fail.  Six pages are three for the first program and
three for the copies.  In `FileSystem` two blocks let the disk fill up at every
place an operation allocates; `MaxSize` is `NDIRECT`, so that the properties are
about direct blocks, and `filesystem_indirect` shows what is wrong beyond.  In
`NetServer` rings of two wrap and fill, and three buffers are one lost, one held
by a waiting thread and one for `serve()`; two calls are any two of client, timer
and stranger at once, or one of them twice.  Every bound on traffic (`MaxIn`, `MaxOut`,
`MaxCalls`, `MaxStrays`, `MaxBytes`) only ends it.

Deadlock is not checked where the machine may stop: in `Kernel` a CPU in the
monitor keeps the lock for ever, in `Ipc` all slots may be used up, in
`PageTables` the kernel may panic, in `Pipe` and `Fork` all environments may be
gone, in `NetServer` the traffic ends.

### Fairness

`Kernel`: a CPU inside the kernel, in the start-up or between `unlock_kernel` and
`iret` runs on (weak fairness).  The local APIC timer is periodic on every CPU,
so a CPU in user mode or in `hlt` traps (weak), and among its traps timer
interrupts recur however many other traps there are (strong fairness of
`timer`).  A CPU that spins gets the lock if the lock is free again and again
(strong): `xchg` gives no such guarantee by itself, but the lock is free for
whole time slices of user code while a turn of the spin takes a few cycles.
`SpinLock` assumes weak fairness only, and promises accordingly less: somebody
gets in.  `Ipc`: environments that can run do run (`RunnableRuns` of `Kernel`).

`Pipe`: reader and writer are run again and again when they can be (weak), get on
with a call they are in, and, because a time slice is millions of instructions
long, get through `_pipeisclosed` undisturbed some time (strong).  Nothing is
assumed of anybody else.  `NetServer`: the card, the helpers and the callers go
on (weak); a thread does something when it is its turn, which may be to wait for
ever; `serve()` goes on to receive (strong), because it yields at most 32 times in
a row.  Nothing makes a stranger receive.  Nothing makes clients call, and the
timer calls only while `MaxCalls` lasts: what waits for the next tick in the code
waits for none here.

## Proofs

Proved by TLAPS for all values of the constants that satisfy the named
assumptions of each module (for the kernel `ConstantsAssumption`, for the lock
`SpinLockAssumption`).

*Kernel, any users* (`Kernel_proofs`): `TypeOK`, `LockHolder`,
`FreeListIntegrity`.  The inductive invariant `AnyInv` is the type invariant
split into parts that different actions touch, with `LockHolder`, `HasEnv` (a
CPU on its way to user mode has an environment, without which `lcr3_pop` has no
type) and `FreeListIntegrity`.  `Leaves` covers the ways out of the kernel, so
that each handler needs an argument only for what it does to the table.
`FreeListIntegrity` is about page directories and not about `env_status`,
because any user can overwrite a status; that is why it can be proved for all of
them.

`ParentIsCreator` is proved for any users too, from `MaxAllocs < GENERATIONS`: it
is false once a generation comes around, which takes 2^19 - 1 uses of a slot, and
the hypothesis says no slot gets there.  Its invariant `ParentInv` says that the
generation counts the uses of a slot and that `env_parent_id` and the history
`creator` record the same maker; it needs nothing of who is alive, so freed and
reused parents are covered.

*Kernel, library users* (`Kernel_proofs`): `NoSharedEnv`,
`RunningIsCurrent`, `FreeIsFree`, `ReceiverIsBlocked`, `UserAddressSpace`,
`NoPanic`, `GiveUpOnlyWhenIdle`, and the action property
`ZombieStaysUntilItTraps`.  None is inductive alone: that no environment is
shared rests on statuses agreeing with the `curenv`s; that user mode is in the
right address space rests on slots of running environments not being freed,
hence on zombies; that the monitor is entered only when idle needs that no CPU
is still to be started.  `LibInv` joins them with `IdleCpus`, `OwnDirectory`,
`LoadedOwn`, `MonitorQuiet`, `Booting` and `NoneStopped`.  `Ready` and
`TableAgrees` say what a handler must leave behind; `HandlerLib` shows that this
is enough, whichever way out of the kernel follows; one lemma per kind of
handler shows that it does.

*SpinLock* (`SpinLock_proofs`): `Inv`, `MutualExclusion`, `NoFalsePanic`, and that
the lock implements `Mutex`, for any set of CPUs.  `LockWords` ties the two words
to the places the CPUs are at, which is what makes `holding()` right.

*Ipc* (`Ipc_proofs`, from `IpcAssumption`): `TypeOK`, that the IPC implements
`Rendezvous`, and the action property `NoRightsGained`, for any environments,
offers and values.  `ReceiverSync` is the strengthening: an environment that the
kernel takes to be receiving is inside `sys_ipc_recv`, and what `ipc_recv` has read
of the sender so far is still what the kernel holds.  Without it the three reads
of `ipc_recv` could belong to two messages.

*Pipe* (`Pipe_proofs`, from `PipeAssumption`): `TypeOK` and `InOrder` for any number
of environments and CPUs and any buffer; `EofOnlyWhenClosed` for children made by
`fork` and one CPU, the two hypotheses without which it is false (see above); the
third, that no map of `fork` failed, is in the property (`short`).
`PipeInv` adds `Lists` (which page operations of a call can still be under way,
and on whom), `Owners` (who reads and writes, through which end) and `Ring`: the
bytes between the positions are in their places, and each side is at most one
byte ahead of its position, either inside the call or because it died there.
`ForkInv` carries the proof about ends: `DataBesideFd`, a data page is mapped
wherever a descriptor is; `ListsSafe`, no list of operations will change that;
and `Fresh`, a count that was read and not disturbed is still right.

*Fork* (`Fork_proofs`, from `ForkAssumption`): `TypeOK` and `WritableIsPrivate`, for
any layout; and that `Fork` implements `PrivateMemory`, under the hypothesis
`VisitsAll`, which `MCFork` lets TLC evaluate for the layout of the run and which
a program of a few hundred pages violates (`CopiesAll`).  `PrivateInv` adds `Parties`
(who has an address space, and what forks and faults under way may be about) and
`FreshPages` (the page at `PFTEMP` is in nobody else's hands).  `CopyInv` adds for
the refinement that two addresses with one page are the same address
(`OnePlace`), that a copy on its way holds what the original holds (`FaultCopy`),
and that a child has whatever its parent's fork is done with, or is `partial`
(`Copying`).

*PageTables* (`PageTables_proofs`, from `PageTablesAssumption`): `TypeOK`, `RefsCounted`,
`TablesArePrivate` and the action properties `ReadOnlyStays` and `LossesAreKnown`,
for any pages, addresses and address spaces.  The assumption has `MaxRefs < REFS`:
beyond it `pp_ref` wraps and `RefsCounted` is false.  Of `TypeOK` the part that needs an
argument is that rights to write are rights to a page, through every walk that
is cut off half way (`RightsKept`).  `PageInv` is `TypeOK`,
`RefsCounted` and `OwnPage` (who refers to the page of a table is that table's
entry), which `TablesArePrivate` follows from.  The functions of `pmap.c` are taken
one by one: each, from a good memory, leaves a good one, counts the references it
makes and drops, and loses a page only when memory is short.  `Effect` is what a
step may do in all; `env_free`'s walk is one argument about all the entries it
visits at once.

*NetServer* and *E1000* (`NetServer_proofs`, from `ServerAssumption` and
`RingAssumption`): `TypeOK`, `InOrder` and `BufferOwners`, for rings, request queues
and numbers of clients of any size.  `NetInv` says where every packet is.
`TxInv` and `RxInv` tie registers, tails and status bits to how many packets have
passed, modulo the size of the ring: driver and card never use one descriptor at
a time, except that a full transmit ring looks empty to the card (`TxWedged`),
which stops packets and does not disorder them.  `Carried` says which packet is in
`input()`'s page and in a request that has not begun.  `OneRound` is why packets
are not overtaken between `serve()` and lwIP: a thread that has not begun comes
before `serve()`'s next turn, so there is at most one.  `Owned` and `Balanced` are the
buffers.  That the pool `Pages` is large enough is a pigeonhole argument: `QUEUE_SIZE + 1`
pages are in use at most.  What a dead `output()` loses is counted in `lost`, and is
the last packets of all.

*FileSystem* (`FileSystem_proofs`, from `FileSystemAssumption`): `TypeOK`,
`FilesAreDisjoint`, `CrashSafe` and `FlushIsDurable` under the hypothesis
`MaxSize <= NDIRECT`, with data of any words.  Beyond it the first three are false: `filesystem_indirect` shows
how an indirect block that is not cleared makes files share blocks.  For `TypeOK` each
operator of `fs.c` and `bc.c` has a lemma that says what cache it leaves from a
given one.  `CrashSafe` is not inductive, because what a crash leaves depends on
writes still to come and on what later operations will make of the cache.
`FsInv` therefore speaks of the disk to come: the `pending` writes lead over disks
that are all in order (`Leads`) to one that the cache extends safely (`Safe`).
Safely means that the cache is in order itself; that what is not dirty is the
same in both; that no block the cache points to is free there, so the
directory may be written; and that no block that disk points to is free in the
cache, so the bitmap may be written.  `alloc_block` keeps this because it writes
the bitmap before a pointer is stored.  Truncation and removal break the last
part for a moment (`Follows` is what is left) and restore it by writing the
directory (`FileChange`, `DirFlush`); that is the reason they must flush the File.  `Full`
is the part about lost blocks; the last conjunct of `FsInv` says that of a file
being flushed whatever is still dirty is still in `loop`.

Each inductive invariant was checked by TLC on the instance of its run before it
was proved.

*Only model-checked*: liveness (`RunnableRuns`, `ZombieReaped`, `ReceiverWoken`,
`SomeoneEnters`, `NobodyWaitsForNobody`, `PacketsArrive`), which needs fairness and
`ENABLED`.  Every invariant and every other action property of the passing runs
has a theorem.

## Not modelled, and the plan

Not modelled for good: the boot loader, assembly stubs, console, monitor,
interrupt controllers and string formatting (device registers and printing);
lwIP, which is third-party and most of the lines of the repository; shell, web
server and test programs (clients); the older copy of the tree.

Planned, in this order:

1. `FileServer`: the open file table, whose entries are free when only the server
   refers to their page, against clients that fork, close and die; a file that is
   removed while open.
2. `SysArch`: semaphores and mailboxes under lwIP; lost wake-ups, full mailboxes,
   a mailbox freed under a waiter.
3. `Malloc`: the reference counting allocator of the network server.
4. `FileSystem` with an `alloc_block` that clears what it hands out, the repair for
   `filesystem_indirect`: the proofs without the hypothesis on `MaxSize`, with the
   indirect blocks among the pointers of `DirOK` and `Apart`.
