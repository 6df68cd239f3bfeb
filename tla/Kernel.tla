------------------------------- MODULE Kernel -------------------------------
(***************************************************************************)
(* The environment table, the scheduler and the big kernel lock of JOS on  *)
(* a multiprocessor: kern/env.c, kern/sched.c, kern/trap.c, the calls of   *)
(* kern/syscall.c that change an environment's state, and the start of the *)
(* application processors in kern/init.c.                                  *)
(*                                                                         *)
(* A CPU that traps spins for the kernel lock (trap), holds it for the     *)
(* whole of the handler, interrupts being off, and gives it back in        *)
(* env_run or sched_halt.  A handler is therefore one step, from the lock  *)
(* taken to the lock released; what the code does after unlock_kernel (the *)
(* lcr3 of env_run) is a step of its own, that other CPUs may precede.     *)
(*                                                                         *)
(* Left to other modules: the words of an IPC message and its page (Ipc),  *)
(* the inside of the lock (SpinLock).  Registers, the contents of address  *)
(* spaces and the tick counter are not state here.                         *)
(***************************************************************************)
EXTENDS Integers, Sequences, FiniteSets

CONSTANTS
  NENV,       \* number of slots of envs[]                     (inc/env.h)
  NCPU,       \* number of CPUs found by mp_init              (kern/cpu.h)
  NBOOT,      \* number of ENV_CREATEs of i386_init
  GENERATIONS,\* a generation count wraps to 1 on reaching this value:
              \*   2^31 / 2^ENVGENSHIFT = 2^19 in env_alloc
  MaxAllocs,  \* BOUND: times a slot may be handed out
  Users       \* how environments use the status and destroy system calls

(***************************************************************************)
(* "library"    as lib/fork.c, lib/spawn.c, lib/exit.c and the programs in *)
(*              user/ do: a status is set once, to start a child that      *)
(*              sys_exofork just made, and no environment is destroyed     *)
(*              twice by its parent;                                       *)
(* "documented" any call the comments above the system calls allow;        *)
(* "any"        any call the code lets through.                            *)
(***************************************************************************)
ASSUME ConstantsAssumption ==
  /\ NENV \in Nat \ {0}
  /\ NCPU \in Nat \ {0}
  /\ NBOOT \in 1..NENV
  /\ GENERATIONS \in Nat \ {0, 1}
  /\ MaxAllocs \in Nat \ {0}
  /\ Users \in {"library", "documented", "any"}

Slots == 0..(NENV - 1)
CPUs == 0..(NCPU - 1)
BSP == 0                      \* the boot processor: cpus[0]
NULL == -1

Status == {"FREE", "DYING", "RUNNABLE", "RUNNING", "NOT_RUNNABLE"}

(***************************************************************************)
(* An envid_t is a pair of a generation and an index into envs[]; the      *)
(* generation 0 belongs to no environment.  A loaded %cr3 is named by the  *)
(* environment the page directory was made for.                            *)
(***************************************************************************)
EnvIds == (0..(GENERATIONS - 1)) \X Slots
NoParent == <<0, NULL>>       \* env_parent_id of an ENV_CREATEd environment
BootDir == <<0, NULL>>        \* boot_cr3, the kernel's own page directory

VARIABLES
  env_status,     \* [Slots -> Status]
  env_gen,        \* [Slots -> generation of env_id]
  env_parent_id,  \* [Slots -> envid of the parent, or NoParent]
  env_cr3,        \* [Slots -> generation its page directory is for, 0: none]
  env_ipc_recving,\* [Slots -> BOOLEAN]
  env_free_list,  \* sequence of slots, its head is handed out next
  env_counter,    \* sched_yield's static round-robin position
  boot_envs,      \* ENV_CREATEs i386_init has still to do
  kernel_lock,    \* the CPU holding kernel_lock, or NULL
  mode,           \* where a CPU is
  cpu_status,     \* CpuInfo.cpu_status
  curenv,         \* CpuInfo.cpu_env: a slot or NULL
  cr3,            \* the page directory a CPU has loaded
  panicstr,       \* TRUE once some CPU called panic
  allocs,         \* history: how often a slot was handed out
  creator         \* history: <<slot, allocs of it>> that made this environment

envVars == <<env_status, env_gen, env_parent_id, env_cr3, env_ipc_recving,
             env_free_list, allocs, creator>>
cpuVars == <<kernel_lock, mode, cpu_status, curenv, cr3, panicstr>>
vars == <<envVars, cpuVars, env_counter, boot_envs>>

Modes == {"off",      \* an AP not started yet
          "mp_main",  \* an AP started by lapic_startap, before its lock_kernel
          "boot",     \* the BSP in i386_init, holding the lock
          "spin",     \* in lock_kernel
          "kernel",   \* holding the lock, the trap (or mp_main) not yet handled
          "lcr3",     \* in env_run, after unlock_kernel and before lcr3
          "user",     \* running curenv
          "halt",     \* in sched_halt's hlt, interrupts on
          "monitor",  \* in the kernel monitor for good, holding the lock
          "hlt"}      \* stopped by trap() because another CPU panicked

EnvId(e) == <<env_gen[e], e>>
-----------------------------------------------------------------------------
\* env_init: every slot free, the list in the order of the array.
Init ==
  /\ env_status = [e \in Slots |-> "FREE"]
  /\ env_gen = [e \in Slots |-> 0]
  /\ env_parent_id = [e \in Slots |-> NoParent]
  /\ env_cr3 = [e \in Slots |-> 0]
  /\ env_ipc_recving = [e \in Slots |-> FALSE]
  /\ env_free_list = [i \in 1..NENV |-> i - 1]
  /\ env_counter = 0
  /\ boot_envs = NBOOT
  /\ kernel_lock = BSP
  /\ mode = [c \in CPUs |-> IF c = BSP THEN "boot" ELSE "off"]
  /\ cpu_status = [c \in CPUs |-> IF c = BSP THEN "STARTED" ELSE "UNUSED"]
  /\ curenv = [c \in CPUs |-> NULL]
  /\ cr3 = [c \in CPUs |-> BootDir]
  /\ panicstr = FALSE
  /\ allocs = [e \in Slots |-> 0]
  /\ creator = [e \in Slots |-> NoParent]
-----------------------------------------------------------------------------
(***************************************************************************)
(* Running an environment.  These operators are the last thing a handler   *)
(* does: st is env_status, cur this CPU's curenv and dir its loaded %cr3   *)
(* as the handler leaves them.                                             *)
(***************************************************************************)

\* Mutant: out of the kernel with the lock.
LeaveKernel_KeepLock(c, m) ==
  mode' = [mode EXCEPT ![c] = m] /\ UNCHANGED kernel_lock

\* unlock_kernel, on the way out of the kernel to mode m
LeaveKernel(c, m) ==
  /\ kernel_lock' = NULL
  /\ mode' = [mode EXCEPT ![c] = m]

\* Mutants: the new environment is not marked RUNNING; the old one stays
\* RUNNING; the old one becomes RUNNABLE whatever its status was.
Switch_NotMarked(st, cur, e) ==
  [s \in Slots |-> IF s = cur /\ st[s] = "RUNNING" THEN "RUNNABLE" ELSE st[s]]
Switch_OldRunning(st, cur, e) == [st EXCEPT ![e] = "RUNNING"]
Switch_OldRunnable(st, cur, e) ==
  [s \in Slots |-> IF s = e THEN "RUNNING" ELSE IF s = cur THEN "RUNNABLE" ELSE st[s]]

\* The statuses after a context switch from cur (or NULL) to e
Switch(st, cur, e) ==
  [s \in Slots |-> IF s = e THEN "RUNNING"
                   ELSE IF s = cur /\ st[s] = "RUNNING" THEN "RUNNABLE"
                   ELSE st[s]]

\* env_run.  Going back to curenv leaves its status and %cr3 alone; a switch
\* gives the lock back before it loads the new environment's %cr3.
env_run(c, e, st, cur, dir) ==
  /\ IF cur = e
       THEN /\ env_status' = st
            /\ LeaveKernel(c, "user")
       ELSE /\ env_status' = Switch(st, cur, e)
            /\ LeaveKernel(c, "lcr3")
  /\ curenv' = [curenv EXCEPT ![c] = e]
  /\ cr3' = [cr3 EXCEPT ![c] = dir]
  /\ UNCHANGED <<cpu_status, panicstr>>

\* Mutant: only RUNNABLE environments count as something to run.
NothingToRun_RunnableOnly(st) == \A e \in Slots : st[e] # "RUNNABLE"

\* sched_halt finds no environment that runs or may run.
NothingToRun(st) == \A e \in Slots : st[e] \in {"FREE", "NOT_RUNNABLE"}

\* sched_halt.  With nothing left to run, the CPU stays in the monitor, and
\* the lock with it.
sched_halt(c, st, cur, dir) ==
  /\ env_status' = st
  /\ UNCHANGED panicstr
  /\ IF NothingToRun(st)
       THEN /\ mode' = [mode EXCEPT ![c] = "monitor"]
            /\ curenv' = [curenv EXCEPT ![c] = cur]
            /\ cr3' = [cr3 EXCEPT ![c] = dir]
            /\ UNCHANGED <<kernel_lock, cpu_status>>
       ELSE /\ curenv' = [curenv EXCEPT ![c] = NULL]
            /\ cr3' = [cr3 EXCEPT ![c] = BootDir]
            /\ cpu_status' = [cpu_status EXCEPT ![c] = "HALTED"]
            /\ LeaveKernel(c, "halt")

\* The slot i places after the one last chosen, by whichever CPU.
Rotor(i) == (env_counter + i) % NENV

\* Mutant: curenv goes on if it can, others are looked for only then.
sched_yield_Stay(c, st, cur, dir) ==
  \/ /\ cur # NULL /\ st[cur] = "RUNNING"
     /\ UNCHANGED env_counter
     /\ env_run(c, cur, st, cur, dir)
  \/ /\ ~(cur # NULL /\ st[cur] = "RUNNING")
     /\ \/ \E i \in 1..NENV :
             /\ st[Rotor(i)] = "RUNNABLE"
             /\ \A j \in 1..(i - 1) : st[Rotor(j)] # "RUNNABLE"
             /\ env_counter' = Rotor(i)
             /\ env_run(c, Rotor(i), st, cur, dir)
        \/ /\ \A e \in Slots : st[e] # "RUNNABLE"
           /\ UNCHANGED env_counter
           /\ sched_halt(c, st, cur, dir)

\* sched_yield
sched_yield(c, st, cur, dir) ==
  \/ \E i \in 1..NENV :
       /\ st[Rotor(i)] = "RUNNABLE"
       /\ \A j \in 1..(i - 1) : st[Rotor(j)] # "RUNNABLE"
       /\ env_counter' = Rotor(i)
       /\ env_run(c, Rotor(i), st, cur, dir)
  \/ /\ \A e \in Slots : st[e] # "RUNNABLE"
     /\ UNCHANGED env_counter
     /\ IF cur # NULL /\ st[cur] = "RUNNING"
          THEN env_run(c, cur, st, cur, dir)
          ELSE sched_halt(c, st, cur, dir)

\* The end of trap(): a handler that returned goes back to curenv, if it may.
trap_return(c, st) ==
  IF st[curenv[c]] = "RUNNING"
    THEN /\ UNCHANGED env_counter
         /\ env_run(c, curenv[c], st, curenv[c], cr3[c])
    ELSE sched_yield(c, st, curenv[c], cr3[c])

\* panic, or a page fault in the kernel: the CPU ends in the monitor, and
\* never gives the lock back.
panic(c) ==
  /\ panicstr' = TRUE
  /\ mode' = [mode EXCEPT ![c] = "monitor"]
  /\ UNCHANGED <<env_status, env_gen, env_parent_id, env_cr3, env_ipc_recving,
                 env_free_list, allocs, creator,
                 kernel_lock, cpu_status, curenv, cr3, env_counter>>
-----------------------------------------------------------------------------
(***************************************************************************)
(* The environment table.                                                  *)
(***************************************************************************)

\* envid2env succeeds with slot x for curenv e: on envid 0, which is e whatever
\* its status, and on the envid of x.  It fails on a free slot, on an envid
\* that is not the slot's and, asked to check, on one that is not a child's.
envid2env(e, x, checkperm) ==
  \/ x = e
  \/ /\ env_status[x] # "FREE"
     /\ checkperm => env_parent_id[x] = EnvId(e)

\* Mutant: a slot keeps its generation.
NextGeneration_Same(g) == 1

\* Mutant: the generation grows past its field.
NextGeneration_NoWrap(g) == g + 1

\* The generation after g; env_alloc avoids 0 and negative envids.
NextGeneration(g) == IF g + 1 = GENERATIONS THEN 1 ELSE g + 1

\* env_alloc, past the check that the free list is not empty: all it writes
\* but env_status.  maker is the history of who asks.
env_alloc(parent_id, maker) ==
  LET e == Head(env_free_list) IN
  /\ allocs[e] < MaxAllocs
  /\ env_gen' = [env_gen EXCEPT ![e] = NextGeneration(env_gen[e])]
  /\ env_cr3' = [env_cr3 EXCEPT ![e] = NextGeneration(env_gen[e])]
  /\ env_parent_id' = [env_parent_id EXCEPT ![e] = parent_id]
  /\ env_ipc_recving' = [env_ipc_recving EXCEPT ![e] = FALSE]
  /\ env_free_list' = Tail(env_free_list)
  /\ allocs' = [allocs EXCEPT ![e] = @ + 1]
  /\ creator' = [creator EXCEPT ![e] = maker]

\* Mutant: env_free that leaves the page directory to the free slot.
env_free_KeepDirectory(e) ==
  /\ env_free_list' = <<e>> \o env_free_list
  /\ UNCHANGED <<env_gen, env_parent_id, env_cr3, env_ipc_recving, allocs,
                 creator>>

\* env_free: all it writes but env_status.  It walks env_pml4e, so a slot
\* without one is a page fault in the kernel (see panic in the callers).
env_free(e) ==
  /\ env_cr3' = [env_cr3 EXCEPT ![e] = 0]
  /\ env_free_list' = <<e>> \o env_free_list
  /\ UNCHANGED <<env_gen, env_parent_id, env_ipc_recving, allocs, creator>>

\* env_free(curenv); curenv = NULL; sched_yield()
FreeCurenv(c) ==
  IF env_cr3[curenv[c]] = 0
    THEN panic(c)
    ELSE /\ env_free(curenv[c])
         /\ sched_yield(c, [env_status EXCEPT ![curenv[c]] = "FREE"],
                        NULL, BootDir)
-----------------------------------------------------------------------------
(***************************************************************************)
(* Starting the machine: i386_init, boot_aps and mp_main.                  *)
(***************************************************************************)

\* boot_aps starts one AP at a time and waits until it says STARTED.
lapic_startap(c) ==
  /\ mode[BSP] = "boot"
  /\ mode[c] = "off"
  /\ \A d \in CPUs : d < c => cpu_status[d] # "UNUSED"
  /\ mode' = [mode EXCEPT ![c] = "mp_main"]
  /\ UNCHANGED <<envVars, env_counter, boot_envs, kernel_lock, cpu_status,
                 curenv, cr3, panicstr>>

\* mp_main up to its lock_kernel
mp_main(c) ==
  /\ mode[c] = "mp_main"
  /\ cpu_status' = [cpu_status EXCEPT ![c] = "STARTED"]
  /\ mode' = [mode EXCEPT ![c] = "spin"]
  /\ UNCHANGED <<envVars, env_counter, boot_envs, kernel_lock, curenv, cr3,
                 panicstr>>

BootApsDone == \A d \in CPUs : cpu_status[d] # "UNUSED"

\* ENV_CREATE in i386_init, the lock held
env_create ==
  /\ mode[BSP] = "boot" /\ BootApsDone
  /\ boot_envs > 0
  /\ boot_envs' = boot_envs - 1
  /\ IF env_free_list = <<>>
       THEN panic(BSP)
       ELSE /\ env_alloc(NoParent, NoParent)
            /\ env_status' =
                 [env_status EXCEPT ![Head(env_free_list)] = "RUNNABLE"]
            /\ UNCHANGED <<cpuVars, env_counter>>

\* i386_init ends in sched_yield
boot_yield ==
  /\ mode[BSP] = "boot" /\ BootApsDone
  /\ boot_envs = 0
  /\ sched_yield(BSP, env_status, NULL, BootDir)
  /\ UNCHANGED <<env_gen, env_parent_id, env_cr3, env_ipc_recving,
                 env_free_list, allocs, creator, boot_envs>>
-----------------------------------------------------------------------------
(***************************************************************************)
(* Entering the kernel.                                                    *)
(***************************************************************************)

\* A trap: a system call, a fault or an interrupt in user mode, or the timer
\* waking a halted CPU.  Up to lock_kernel.
trap_enter(c) ==
  /\ mode[c] \in {"user", "halt"}
  /\ IF panicstr
       THEN /\ mode' = [mode EXCEPT ![c] = "hlt"]
            /\ UNCHANGED cpu_status
       ELSE /\ mode' = [mode EXCEPT ![c] = "spin"]
            /\ cpu_status' = [cpu_status EXCEPT ![c] = "STARTED"]
  /\ UNCHANGED <<envVars, env_counter, boot_envs, kernel_lock, curenv, cr3,
                 panicstr>>

\* lock_kernel returns
lock_kernel(c) ==
  /\ mode[c] = "spin"
  /\ kernel_lock = NULL
  /\ kernel_lock' = c
  /\ mode' = [mode EXCEPT ![c] = "kernel"]
  /\ UNCHANGED <<envVars, env_counter, boot_envs, cpu_status, curenv, cr3,
                 panicstr>>

\* An AP out of mp_main, or a CPU woken from hlt: trap_dispatch, sched_yield.
idle_yield(c) ==
  /\ mode[c] = "kernel"
  /\ curenv[c] = NULL
  /\ sched_yield(c, env_status, NULL, cr3[c])
  /\ UNCHANGED <<env_gen, env_parent_id, env_cr3, env_ipc_recving,
                 env_free_list, allocs, creator, boot_envs>>

\* Mutant: trap() without its check for zombies.
IsZombie_Never(e) == FALSE

IsZombie(e) == env_status[e] = "DYING"

\* A trap from a zombie: trap() frees it before anything else.
reap_zombie(c) ==
  /\ mode[c] = "kernel"
  /\ curenv[c] # NULL /\ IsZombie(curenv[c])
  /\ FreeCurenv(c)
  /\ UNCHANGED boot_envs

\* CPU c is about to handle a trap of environment e.
Handling(c, e) ==
  /\ mode[c] = "kernel"
  /\ e = curenv[c]
  /\ ~IsZombie(e)

tableUnchanged == UNCHANGED <<env_gen, env_parent_id, env_cr3,
                              env_ipc_recving, env_free_list, allocs, creator>>

\* Timer, keyboard and serial interrupts, and sys_yield
interrupt(c, e) ==
  /\ Handling(c, e)
  /\ sched_yield(c, env_status, e, cr3[c])
  /\ tableUnchanged

\* A fault nobody handles: no page fault upcall or no room on the exception
\* stack, a breakpoint after the monitor, any other exception.
\* env_destroy(curenv)
fault(c, e) ==
  /\ Handling(c, e)
  /\ FreeCurenv(c)

\* A page fault sent to the upcall: page_fault_handler goes back to curenv
\* itself, without a look at its status.
page_fault(c, e) ==
  /\ Handling(c, e)
  /\ env_run(c, e, env_status, e, cr3[c])
  /\ UNCHANGED env_counter
  /\ tableUnchanged

\* A trap that changes nothing in this module's state: a spurious interrupt, and
\* the system calls that fail, print, read or touch registers and address
\* spaces.
other_trap(c, e) ==
  /\ Handling(c, e)
  /\ trap_return(c, env_status)
  /\ tableUnchanged
-----------------------------------------------------------------------------
(***************************************************************************)
(* The system calls on environments.  e is curenv.  A call that fails      *)
(* (-E_BAD_ENV and the like) changes nothing and is an other_trap.         *)
(***************************************************************************)

\* sys_exofork
sys_exofork(c, e) ==
  /\ Handling(c, e)
  /\ env_free_list # <<>>
  /\ env_alloc(EnvId(e), <<e, allocs[e]>>)
  /\ trap_return(c, [env_status EXCEPT ![Head(env_free_list)] = "NOT_RUNNABLE"])

\* What a caller that goes by Users asks of sys_env_set_status.
StatusWanted(e, x) ==
  CASE Users = "library" ->
         IF x # e /\ env_status[x] = "NOT_RUNNABLE" /\ ~env_ipc_recving[x]
           THEN {"RUNNABLE"} ELSE {}
    [] Users = "documented" -> {"RUNNABLE", "NOT_RUNNABLE"}
    [] Users = "any" -> Status

\* sys_env_set_status of environment x, by its envid or, x being curenv, by 0.
sys_env_set_status(c, e, x, s) ==
  /\ Handling(c, e)
  /\ envid2env(e, x, TRUE)
  /\ s \in StatusWanted(e, x)
  /\ trap_return(c, [env_status EXCEPT ![x] = s])
  /\ tableUnchanged

DestroyWanted(x) == Users = "library" => env_status[x] # "DYING"

\* Mutant: env_destroy without its check for environments on other CPUs.
RunsElsewhere_Never(x) == FALSE

\* Given that x is not curenv: it is running on another CPU.
RunsElsewhere(x) == env_status[x] = "RUNNING"

\* sys_env_destroy and env_destroy
sys_env_destroy(c, e, x) ==
  /\ Handling(c, e)
  /\ envid2env(e, x, TRUE)
  /\ DestroyWanted(x)
  /\ CASE x = e -> FreeCurenv(c)
       [] x # e /\ RunsElsewhere(x) ->
            /\ trap_return(c, [env_status EXCEPT ![x] = "DYING"])
            /\ tableUnchanged
       [] x # e /\ ~RunsElsewhere(x) ->
            IF env_cr3[x] = 0
              THEN panic(c)
              ELSE /\ env_free(x)
                   /\ trap_return(c, [env_status EXCEPT ![x] = "FREE"])

\* sys_ipc_recv: block until somebody sends.
sys_ipc_recv(c, e) ==
  /\ Handling(c, e)
  /\ env_ipc_recving' = [env_ipc_recving EXCEPT ![e] = TRUE]
  /\ sched_yield(c, [env_status EXCEPT ![e] = "NOT_RUNNABLE"], e, cr3[c])
  /\ UNCHANGED <<env_gen, env_parent_id, env_cr3, env_free_list, allocs,
                 creator>>

\* sys_ipc_try_send to an environment that is receiving.  To oneself, by one's
\* own envid, it is a panic; by envid 0 it is not.
sys_ipc_try_send(c, e, x) ==
  /\ Handling(c, e)
  /\ envid2env(e, x, FALSE)
  /\ env_ipc_recving[x]
  /\ \/ /\ env_ipc_recving' = [env_ipc_recving EXCEPT ![x] = FALSE]
        /\ trap_return(c, [env_status EXCEPT ![x] = "RUNNABLE"])
        /\ UNCHANGED <<env_gen, env_parent_id, env_cr3, env_free_list, allocs,
                       creator>>
     \/ /\ x = e /\ env_status[e] # "FREE"
        /\ panic(c)
-----------------------------------------------------------------------------
\* env_run's lcr3(curenv->env_cr3) and env_pop_tf, the lock already released.
lcr3_pop(c) ==
  /\ mode[c] = "lcr3"
  /\ cr3' = [cr3 EXCEPT ![c] = <<env_cr3[curenv[c]], curenv[c]>>]
  /\ mode' = [mode EXCEPT ![c] = "user"]
  /\ UNCHANGED <<envVars, env_counter, boot_envs, kernel_lock, cpu_status,
                 curenv, panicstr>>

\* trap_dispatch and the syscall() it calls
trap_dispatch(c) ==
  /\ \E e \in Slots :
       \/ interrupt(c, e)
       \/ fault(c, e)
       \/ page_fault(c, e)
       \/ other_trap(c, e)
       \/ sys_exofork(c, e)
       \/ sys_ipc_recv(c, e)
       \/ \E x \in Slots : \/ sys_env_destroy(c, e, x)
                           \/ sys_ipc_try_send(c, e, x)
                           \/ \E s \in Status : sys_env_set_status(c, e, x, s)
  /\ UNCHANGED boot_envs

Next ==
  \/ env_create
  \/ boot_yield
  \/ \E c \in CPUs :
       \/ lapic_startap(c) \/ mp_main(c)
       \/ trap_enter(c) \/ lock_kernel(c)
       \/ idle_yield(c) \/ reap_zombie(c) \/ trap_dispatch(c)
       \/ lcr3_pop(c)

Spec == Init /\ [][Next]_vars
-----------------------------------------------------------------------------
(***************************************************************************)
(* Fairness.  A CPU in the kernel runs on (WF), and so does one between    *)
(* unlock_kernel and iret.  The local APIC timer fires for ever on every   *)
(* CPU, so a CPU in user mode or in hlt traps (WF), and among the traps of *)
(* a CPU timer interrupts keep coming back however many system calls are   *)
(* made in between (SF).  A CPU spinning on the lock gets it if the lock   *)
(* is free again and again (SF): the other CPUs are out of the kernel for  *)
(* whole time slices, while one turn of the spin is a few cycles.          *)
(***************************************************************************)
timer(c) == (\E e \in Slots : interrupt(c, e)) /\ UNCHANGED boot_envs

Fairness ==
  /\ WF_vars(env_create \/ boot_yield)
  /\ \A c \in CPUs :
       /\ WF_vars(lapic_startap(c) \/ mp_main(c))
       /\ WF_vars(trap_enter(c))
       /\ SF_vars(lock_kernel(c))
       /\ WF_vars(idle_yield(c) \/ reap_zombie(c) \/ trap_dispatch(c))
       /\ SF_vars(timer(c))
       /\ WF_vars(lcr3_pop(c))

FairSpec == Spec /\ Fairness
-----------------------------------------------------------------------------
(***************************************************************************)
(* Properties.                                                             *)
(***************************************************************************)

TypeOK ==
  /\ env_status \in [Slots -> Status]
  /\ env_gen \in [Slots -> 0..(GENERATIONS - 1)]
  /\ env_parent_id \in [Slots -> EnvIds \cup {NoParent}]
  /\ env_cr3 \in [Slots -> 0..(GENERATIONS - 1)]
  /\ env_ipc_recving \in [Slots -> BOOLEAN]
  /\ env_free_list \in Seq(Slots)
  /\ env_counter \in Slots
  /\ boot_envs \in 0..NBOOT
  /\ kernel_lock \in CPUs \cup {NULL}
  /\ mode \in [CPUs -> Modes]
  /\ cpu_status \in [CPUs -> {"UNUSED", "STARTED", "HALTED"}]
  /\ curenv \in [CPUs -> Slots \cup {NULL}]
  /\ cr3 \in [CPUs -> EnvIds \cup {BootDir}]
  /\ panicstr \in BOOLEAN
  /\ allocs \in [Slots -> 0..MaxAllocs]
  /\ creator \in [Slots -> (Slots \X (0..MaxAllocs)) \cup {NoParent}]

\* The lock is held by exactly the CPU that is inside the kernel, whatever
\* environments do: every way out of trap(), mp_main and i386_init goes
\* through one unlock_kernel, or ends in the monitor.
LockHolder ==
  \A c \in CPUs : (kernel_lock = c) <=> (mode[c] \in {"boot", "kernel", "monitor"})

\* No environment runs on two CPUs: sched_yield and env_run never choose one
\* that is current on another CPU (kern/sched.c, "Never choose an environment
\* that's currently running on another CPU").
NoSharedEnv ==
  \A c, d \in CPUs : c # d /\ curenv[c] # NULL => curenv[c] # curenv[d]

\* RUNNING and DYING are the statuses of the environments that are current on
\* some CPU, and of no other: env_run, env_destroy, sys_ipc_recv and sched_halt
\* keep env_status and the curenv of all CPUs together.
RunningIsCurrent ==
  \A e \in Slots :
    (env_status[e] \in {"RUNNING", "DYING"})
      <=> (\E c \in CPUs : curenv[c] = e /\ mode[c] # "monitor")

\* The free list is made of the slots that own no page directory, each once,
\* whatever environments do: env_free never pushes a slot that is already free
\* and env_alloc never hands out one that is in use.
FreeListIntegrity ==
  /\ \A i, j \in 1..Len(env_free_list) :
       i # j => env_free_list[i] # env_free_list[j]
  /\ \A e \in Slots :
       (env_cr3[e] = 0) <=> (\E i \in 1..Len(env_free_list) : env_free_list[i] = e)

\* FREE is the status of the slots without a page directory, the ones of the
\* free list, and of no other.
FreeIsFree == \A e \in Slots : (env_status[e] = "FREE") <=> (env_cr3[e] = 0)

\* A CPU in user mode runs on the page directory of its own environment, and
\* that directory has not been freed: the lcr3 after unlock_kernel in env_run
\* still finds the environment it was meant for.
UserAddressSpace ==
  \A c \in CPUs :
    mode[c] = "user" => /\ curenv[c] # NULL
                        /\ cr3[c] = EnvId(curenv[c])
                        /\ env_cr3[curenv[c]] = env_gen[curenv[c]]

\* The page directory a CPU has loaded is never a freed one (kern/env.c,
\* env_free: "switch to kern_pgdir before freeing the page directory, just in
\* case the page gets reused").  This does not hold: between env_run's unlock
\* and its lcr3 another CPU can free the environment whose directory is loaded.
LoadedDirectoryLive ==
  \A c \in CPUs : cr3[c] # BootDir => env_cr3[cr3[c][2]] = cr3[c][1]

\* The kernel never panics: env_free is never applied to a slot whose page
\* directory is gone, no environment is found receiving while it sends to
\* itself, and trap()'s assert(curenv) holds.
NoPanic ==
  /\ ~panicstr
  /\ \A c \in CPUs : mode[c] = "user" => curenv[c] # NULL

\* sched_halt gives the machine up to the monitor only when nothing is left to
\* run: no other CPU is running an environment or is about to.
GiveUpOnlyWhenIdle ==
  \A c \in CPUs :
    mode[c] = "monitor" =>
      /\ \A e \in Slots : env_status[e] \in {"FREE", "NOT_RUNNABLE"}
      /\ \A d \in CPUs \ {c} : mode[d] \in {"halt", "spin"} /\ curenv[d] = NULL

\* Permission over an environment belongs to the one that made it: an envid in
\* env_parent_id never comes to name a later environment in the same slot
\* (inc/env.h, the uniqueifier; kern/env.c, envid2env's check for stale ids).
ParentIsCreator ==
  \A e, p \in Slots :
    env_cr3[e] # 0 /\ env_cr3[p] # 0 /\ env_parent_id[e] = EnvId(p)
      => creator[e] = <<p, allocs[p]>>

\* A zombie is freed by the CPU that was running it, when it traps, and by
\* nothing else (kern/env.c, env_destroy: "A zombie environment will be freed
\* the next time it traps to the kernel").
ZombieStaysUntilItTraps ==
  [][\A e \in Slots :
       env_status[e] = "DYING" /\ env_status'[e] # "DYING" =>
         /\ env_status'[e] = "FREE"
         /\ \E c \in CPUs : curenv[c] = e /\ mode[c] = "kernel"]_vars

\* An environment with env_ipc_recving set is blocked: sys_ipc_try_send, which
\* makes it RUNNABLE without looking at its status, never does that to one that
\* is running, dying or queued.  (env_free leaves the flag behind.)
ReceiverIsBlocked ==
  \A e \in Slots : env_ipc_recving[e] => env_status[e] \in {"NOT_RUNNABLE", "FREE"}

\* A runnable environment gets a CPU: the one position env_counter, moved by
\* all CPUs, starves nobody.
RunnableRuns ==
  \A e \in Slots : env_status[e] = "RUNNABLE" ~> env_status[e] # "RUNNABLE"

\* A zombie is reaped.
ZombieReaped ==
  \A e \in Slots : env_status[e] = "DYING" ~> env_status[e] # "DYING"
=============================================================================
