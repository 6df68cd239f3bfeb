---------------------------- MODULE Kernel_proofs ----------------------------
(***************************************************************************)
(* Proofs about Kernel, for any number of slots, CPUs and generations:     *)
(* whatever environments do, who the parent of an environment is, and what *)
(* holds when environments use the system calls as the library does.       *)
(***************************************************************************)
EXTENDS Kernel, TLAPS

-----------------------------------------------------------------------------
(***************************************************************************)
(* The ways out of the kernel.  A handler ends in sched_yield, or goes     *)
(* back to a curenv that is RUNNING.                                       *)
(***************************************************************************)
Leaves(c, st, cur, dir) ==
  \/ sched_yield(c, st, cur, dir)
  \/ /\ cur # NULL /\ st[cur] = "RUNNING"
     /\ UNCHANGED env_counter
     /\ env_run(c, cur, st, cur, dir)

\* trap() returning is a way out.
LEMMA ReturnLeaves ==
  ASSUME NEW c, NEW st, curenv[c] # NULL, trap_return(c, st)
  PROVE  Leaves(c, st, curenv[c], cr3[c])
  BY DEF trap_return, Leaves

\* sched_yield stays within envs[].
LEMMA RotorInSlots ==
  ASSUME env_counter \in Slots, NEW i \in 1..NENV
  PROVE  Rotor(i) \in Slots
<1>1. env_counter + i \in Nat /\ NENV \in Nat \ {0}
  BY ConstantsAssumption DEF Slots
<1>2. \A a \in Nat, b \in Nat \ {0} : a % b \in 0..(b - 1)
  OBVIOUS
<1> QED
  BY <1>1, <1>2 DEF Rotor, Slots
-----------------------------------------------------------------------------
(***************************************************************************)
(* Whatever environments do (any value of Users): types, the lock, and the *)
(* free list.                                                              *)
(***************************************************************************)

\* A CPU in user mode or on its way there has an environment.
HasEnv == \A c \in CPUs : mode[c] \in {"lcr3", "user"} => curenv[c] # NULL

CpuType ==
  /\ kernel_lock \in CPUs \cup {NULL}
  /\ mode \in [CPUs -> Modes]
  /\ cpu_status \in [CPUs -> {"UNUSED", "STARTED", "HALTED"}]
  /\ curenv \in [CPUs -> Slots \cup {NULL}]
  /\ cr3 \in [CPUs -> EnvIds \cup {BootDir}]
  /\ panicstr \in BOOLEAN

CpuInv == CpuType /\ LockHolder /\ HasEnv

TableType ==
  /\ env_gen \in [Slots -> 0..(GENERATIONS - 1)]
  /\ env_parent_id \in [Slots -> EnvIds \cup {NoParent}]
  /\ env_cr3 \in [Slots -> 0..(GENERATIONS - 1)]
  /\ env_ipc_recving \in [Slots -> BOOLEAN]
  /\ env_free_list \in Seq(Slots)
  /\ allocs \in [Slots -> 0..MaxAllocs]
  /\ creator \in [Slots -> (Slots \X (0..MaxAllocs)) \cup {NoParent}]

StatusType == env_status \in [Slots -> Status]

CounterType == env_counter \in Slots

BootType == boot_envs \in 0..NBOOT

\* The inductive invariant of this part
AnyInv == /\ CpuInv
          /\ TableType
          /\ StatusType
          /\ CounterType
          /\ BootType
          /\ FreeListIntegrity

\* NULL is neither a slot nor a CPU.
LEMMA NullOutside == NULL \notin Slots /\ NULL \notin CPUs
  BY ConstantsAssumption DEF NULL, Slots, CPUs

\* env_run gives the lock back, and keeps the types.
LEMMA RunFacts ==
  ASSUME CpuInv, NEW c \in CPUs, kernel_lock = c,
         NEW e \in Slots,
         NEW st \in [Slots -> Status],
         NEW cur \in Slots \cup {NULL},
         NEW dir \in EnvIds \cup {BootDir},
         env_run(c, e, st, cur, dir)
  PROVE  CpuInv' /\ StatusType'
<1>1. StatusType'
  BY DEF env_run, Switch, StatusType, Status
<1>2. /\ kernel_lock' = NULL
      /\ \/ mode' = [mode EXCEPT ![c] = "user"]
         \/ mode' = [mode EXCEPT ![c] = "lcr3"]
  BY DEF env_run, LeaveKernel
<1>3. CpuType'
  BY <1>2 DEF env_run, CpuInv, CpuType, Modes
<1>4. LockHolder'
  BY <1>2, NullOutside DEF CpuInv, CpuType, LockHolder
<1>5. HasEnv'
  BY <1>2, NullOutside DEF env_run, CpuInv, CpuType, HasEnv
<1> QED
  BY <1>1, <1>3, <1>4, <1>5 DEF CpuInv

\* sched_halt gives the lock back, or keeps it in the monitor.
LEMMA HaltFacts ==
  ASSUME CpuInv, NEW c \in CPUs, kernel_lock = c,
         NEW st \in [Slots -> Status],
         NEW cur \in Slots \cup {NULL},
         NEW dir \in EnvIds \cup {BootDir},
         sched_halt(c, st, cur, dir)
  PROVE  CpuInv' /\ StatusType'
<1>1. CASE NothingToRun(st)
  BY <1>1, NullOutside
     DEF sched_halt, CpuInv, CpuType, LockHolder, HasEnv, StatusType, Modes
<1>2. CASE ~NothingToRun(st)
  BY <1>2, NullOutside
     DEF sched_halt, LeaveKernel, CpuInv, CpuType, LockHolder, HasEnv,
         StatusType, Modes
<1> QED
  BY <1>1, <1>2

\* Whatever way a handler takes out of the kernel, exactly the right CPU is
\* left holding the lock.
LEMMA LeaveFacts ==
  ASSUME CpuInv, CounterType, NEW c \in CPUs, kernel_lock = c,
         NEW st \in [Slots -> Status],
         NEW cur \in Slots \cup {NULL},
         NEW dir \in EnvIds \cup {BootDir},
         Leaves(c, st, cur, dir)
  PROVE  CpuInv' /\ StatusType' /\ CounterType'
<1>1. CASE cur # NULL /\ UNCHANGED env_counter /\ env_run(c, cur, st, cur, dir)
  BY <1>1, RunFacts DEF CounterType
<1>2. ASSUME NEW i \in 1..NENV, env_counter' = Rotor(i),
             env_run(c, Rotor(i), st, cur, dir)
      PROVE  CpuInv' /\ StatusType' /\ CounterType'
  <2>1. Rotor(i) \in Slots
    BY RotorInSlots DEF CounterType
  <2> QED
    BY <1>2, <2>1, RunFacts DEF CounterType
<1>3. CASE UNCHANGED env_counter /\ sched_halt(c, st, cur, dir)
  BY <1>3, HaltFacts DEF CounterType
<1> QED
  BY <1>1, <1>2, <1>3 DEF Leaves, sched_yield

\* env_alloc takes the head off the free list and gives it a directory.
LEMMA AllocTable ==
  ASSUME TableType, FreeListIntegrity, env_free_list # <<>>,
         NEW parent \in EnvIds \cup {NoParent},
         NEW maker \in (Slots \X (0..MaxAllocs)) \cup {NoParent},
         env_alloc(parent, maker)
  PROVE  TableType' /\ FreeListIntegrity' /\ Head(env_free_list) \in Slots
<1> DEFINE h == Head(env_free_list)
<1>1. /\ h \in Slots /\ h = env_free_list[1]
      /\ Len(env_free_list) \in Nat \ {0}
      /\ Tail(env_free_list) \in Seq(Slots)
      /\ Len(Tail(env_free_list)) = Len(env_free_list) - 1
      /\ \A i \in 1..(Len(env_free_list) - 1) :
           Tail(env_free_list)[i] = env_free_list[i + 1]
  BY DEF TableType
<1>2. NextGeneration(env_gen[h]) \in 1..(GENERATIONS - 1)
  BY <1>1, ConstantsAssumption DEF TableType, NextGeneration
<1>3. TableType'
  <2>1. 1..(GENERATIONS - 1) \subseteq 0..(GENERATIONS - 1)
    BY ConstantsAssumption
  <2>2. /\ env_gen' \in [Slots -> 0..(GENERATIONS - 1)]
        /\ env_cr3' \in [Slots -> 0..(GENERATIONS - 1)]
    BY <1>1, <1>2, <2>1 DEF TableType, env_alloc
  <2>3. env_parent_id' \in [Slots -> EnvIds \cup {NoParent}]
    BY <1>1 DEF TableType, env_alloc
  <2>4. env_ipc_recving' \in [Slots -> BOOLEAN]
    BY <1>1 DEF TableType, env_alloc
  <2>5. allocs[h] + 1 \in 0..MaxAllocs
    BY <1>1, ConstantsAssumption DEF TableType, env_alloc
  <2>6. allocs' \in [Slots -> 0..MaxAllocs]
    BY <1>1, <2>5 DEF TableType, env_alloc
  <2>7. creator' \in [Slots -> (Slots \X (0..MaxAllocs)) \cup {NoParent}]
    BY <1>1 DEF TableType, env_alloc
  <2>8. env_free_list' \in Seq(Slots)
    BY <1>1 DEF env_alloc
  <2> QED
    BY <2>2, <2>3, <2>4, <2>6, <2>7, <2>8 DEF TableType
<1>4. env_free_list' = Tail(env_free_list)
  BY DEF env_alloc
<1>5. \A i, j \in 1..Len(env_free_list') :
        i # j => env_free_list'[i] # env_free_list'[j]
  BY <1>1, <1>4 DEF FreeListIntegrity
<1>6. \A e \in Slots : env_cr3'[e] = 0 <=> env_cr3[e] = 0 /\ e # h
  BY <1>1, <1>2 DEF env_alloc, TableType
<1>7. ASSUME NEW e \in Slots, NEW i \in 1..Len(env_free_list), env_free_list[i] = e,
             e # h
      PROVE  \E j \in 1..Len(env_free_list') : env_free_list'[j] = e
  <2>1. i - 1 \in 1..Len(env_free_list') /\ env_free_list'[i - 1] = e
    BY <1>1, <1>4, <1>7
  <2> QED
    BY <2>1
<1>8. ASSUME NEW e \in Slots, NEW j \in 1..Len(env_free_list'),
             env_free_list'[j] = e
      PROVE  e # h /\ \E i \in 1..Len(env_free_list) : env_free_list[i] = e
  <2>1. j + 1 \in 1..Len(env_free_list) /\ env_free_list[j + 1] = e /\ j + 1 # 1
    BY <1>1, <1>4, <1>8
  <2> QED
    BY <2>1, <1>1 DEF FreeListIntegrity
<1>9. \A e \in Slots :
        env_cr3'[e] = 0 <=> \E i \in 1..Len(env_free_list') : env_free_list'[i] = e
  BY <1>6, <1>7, <1>8 DEF FreeListIntegrity
<1> QED
  BY <1>1, <1>3, <1>5, <1>9 DEF FreeListIntegrity

\* env_free pushes a slot that still had its directory, and so was not on the
\* list.
LEMMA FreeTable ==
  ASSUME TableType, FreeListIntegrity,
         NEW e \in Slots, env_cr3[e] # 0, env_free(e)
  PROVE  TableType' /\ FreeListIntegrity'
<1>1. /\ env_free_list' \in Seq(Slots)
      /\ Len(env_free_list) \in Nat
      /\ Len(env_free_list') = Len(env_free_list) + 1
      /\ env_free_list'[1] = e
      /\ \A i \in 1..Len(env_free_list) : env_free_list'[i + 1] = env_free_list[i]
  BY DEF TableType, env_free
<1>2. TableType'
  BY <1>1, ConstantsAssumption DEF TableType, env_free
<1>3. \A i \in 1..Len(env_free_list) : env_free_list[i] # e
  BY DEF FreeListIntegrity
<1>4. \A i \in 1..Len(env_free_list') :
        i = 1 \/ (/\ i - 1 \in 1..Len(env_free_list)
                  /\ env_free_list'[i] = env_free_list[i - 1])
  <2> SUFFICES ASSUME NEW i \in 1..Len(env_free_list'), i # 1
               PROVE  /\ i - 1 \in 1..Len(env_free_list)
                      /\ env_free_list'[i] = env_free_list[i - 1]
    OBVIOUS
  <2>1. i - 1 \in 1..Len(env_free_list)
    BY <1>1
  <2>2. env_free_list'[(i - 1) + 1] = env_free_list[i - 1]
    BY <1>1, <2>1
  <2> QED
    BY <2>1, <2>2
<1>5. \A i, j \in 1..Len(env_free_list') :
        i # j => env_free_list'[i] # env_free_list'[j]
  <2> SUFFICES ASSUME NEW i \in 1..Len(env_free_list'),
                      NEW j \in 1..Len(env_free_list'), i # j
               PROVE  env_free_list'[i] # env_free_list'[j]
    OBVIOUS
  <2>1. CASE i = 1
    BY <2>1, <1>1, <1>3, <1>4
  <2>2. CASE j = 1
    BY <2>2, <1>1, <1>3, <1>4
  <2>3. CASE i # 1 /\ j # 1
    <3>1. i - 1 # j - 1
      BY <1>1
    <3> QED
      BY <2>3, <3>1, <1>4 DEF FreeListIntegrity
  <2> QED
    BY <2>1, <2>2, <2>3
<1>6. \A x \in Slots : env_cr3'[x] = 0 <=> env_cr3[x] = 0 \/ x = e
  BY DEF env_free, TableType
<1>7. ASSUME NEW x \in Slots
      PROVE  (\E i \in 1..Len(env_free_list') : env_free_list'[i] = x)
               <=> x = e \/ \E i \in 1..Len(env_free_list) : env_free_list[i] = x
  <2>1. 1 \in 1..Len(env_free_list')
    BY <1>1
  <2>2. \A i \in 1..Len(env_free_list) : i + 1 \in 1..Len(env_free_list')
    BY <1>1
  <2> QED
    BY <1>1, <1>4, <2>1, <2>2, ZenonT(40)
<1> QED
  BY <1>2, <1>5, <1>6, <1>7 DEF FreeListIntegrity

\* panic keeps the lock.
LEMMA PanicFacts ==
  ASSUME AnyInv, NEW c \in CPUs, kernel_lock = c, panic(c)
  PROVE  CpuInv' /\ StatusType' /\ CounterType' /\ TableType' /\ FreeListIntegrity'
<1>1. CpuInv'
  BY NullOutside DEF AnyInv, CpuInv, CpuType, LockHolder, HasEnv, panic, Modes
<1> QED
  BY <1>1 DEF AnyInv, StatusType, CounterType, TableType, FreeListIntegrity, panic

\* Handlers that leave the environment table alone and go to the scheduler.
LEMMA TableUnchangedFacts ==
  ASSUME TableType, FreeListIntegrity, tableUnchanged
  PROVE  TableType' /\ FreeListIntegrity'
  BY DEF TableType, FreeListIntegrity, tableUnchanged

\* Freeing curenv, from a fault, from sys_env_destroy or because it is a zombie
LEMMA FreeCurenvFacts ==
  ASSUME AnyInv, NEW c \in CPUs, kernel_lock = c, curenv[c] # NULL, FreeCurenv(c)
  PROVE  CpuInv' /\ StatusType' /\ CounterType' /\ TableType' /\ FreeListIntegrity'
<1>0. curenv[c] \in Slots
  BY DEF AnyInv, CpuInv, CpuType
<1>1. CASE env_cr3[curenv[c]] = 0
  BY <1>1, PanicFacts DEF FreeCurenv
<1>2. CASE env_cr3[curenv[c]] # 0
  <2>1. TableType' /\ FreeListIntegrity'
    BY <1>0, <1>2, FreeTable DEF AnyInv, FreeCurenv
  <2> DEFINE st == [env_status EXCEPT ![curenv[c]] = "FREE"]
  <2>2. st \in [Slots -> Status]
    BY DEF AnyInv, StatusType, Status
  <2>3. Leaves(c, st, NULL, BootDir)
    BY <1>2 DEF FreeCurenv, Leaves
  <2>4. CpuInv' /\ StatusType' /\ CounterType'
    BY <2>2, <2>3, LeaveFacts DEF AnyInv
  <2> QED
    BY <2>1, <2>4
<1> QED
  BY <1>1, <1>2

\* Handlers that change statuses only and return.
LEMMA ReturnFacts ==
  ASSUME AnyInv, NEW c \in CPUs, kernel_lock = c, curenv[c] # NULL,
         NEW st \in [Slots -> Status], trap_return(c, st)
  PROVE  CpuInv' /\ StatusType' /\ CounterType'
<1>1. /\ curenv[c] \in Slots \cup {NULL}
      /\ cr3[c] \in EnvIds \cup {BootDir}
  BY DEF AnyInv, CpuInv, CpuType
<1> QED
  BY <1>1, ReturnLeaves, LeaveFacts DEF AnyInv

LEMMA DispatchFacts ==
  ASSUME AnyInv, NEW c \in CPUs, trap_dispatch(c)
  PROVE  AnyInv'
<1>1. BootType'
  BY DEF AnyInv, BootType, trap_dispatch
<1> DEFINE Goal == CpuInv' /\ StatusType' /\ CounterType' /\ TableType'
                   /\ FreeListIntegrity'
<1>2. ASSUME NEW e \in Slots, Handling(c, e)
      PROVE  /\ kernel_lock = c /\ e = curenv[c] /\ curenv[c] # NULL
             /\ env_status \in [Slots -> Status]
             /\ cr3[c] \in EnvIds \cup {BootDir}
             /\ TableType /\ FreeListIntegrity
  BY <1>2, NullOutside
     DEF Handling, AnyInv, CpuInv, CpuType, LockHolder, StatusType
<1>3. ASSUME NEW e \in Slots, interrupt(c, e) PROVE Goal
  <2>1. Handling(c, e) /\ Leaves(c, env_status, e, cr3[c]) /\ tableUnchanged
    BY <1>3 DEF interrupt, Leaves
  <2>2. CpuInv' /\ StatusType' /\ CounterType'
    BY <2>1, <1>2, LeaveFacts DEF AnyInv
  <2> QED
    BY <2>1, <2>2, <1>2, TableUnchangedFacts
<1>4. ASSUME NEW e \in Slots, fault(c, e) PROVE Goal
  BY <1>4, <1>2, FreeCurenvFacts DEF fault
<1>5. ASSUME NEW e \in Slots, other_trap(c, e) PROVE Goal
  BY <1>5, <1>2, ReturnFacts, TableUnchangedFacts DEF other_trap
<1>6. ASSUME NEW e \in Slots, sys_exofork(c, e) PROVE Goal
  <2>1. Handling(c, e)
    BY <1>6 DEF sys_exofork
  <2>2. EnvId(e) \in EnvIds /\ <<e, allocs[e]>> \in Slots \X (0..MaxAllocs)
    BY <2>1, <1>2 DEF TableType, EnvId, EnvIds
  <2>3. TableType' /\ FreeListIntegrity' /\ Head(env_free_list) \in Slots
    BY <1>6, <2>1, <2>2, <1>2, AllocTable DEF sys_exofork
  <2>4. [env_status EXCEPT ![Head(env_free_list)] = "NOT_RUNNABLE"]
          \in [Slots -> Status]
    BY <2>1, <1>2 DEF Status
  <2> QED
    BY <1>6, <2>1, <2>3, <2>4, <1>2, ReturnFacts DEF sys_exofork
<1>7. ASSUME NEW e \in Slots, sys_ipc_recv(c, e) PROVE Goal
  <2> DEFINE st == [env_status EXCEPT ![e] = "NOT_RUNNABLE"]
  <2>1. Handling(c, e) /\ Leaves(c, st, e, cr3[c])
    BY <1>7 DEF sys_ipc_recv, Leaves
  <2>2. st \in [Slots -> Status]
    BY <2>1, <1>2 DEF Status
  <2>3. CpuInv' /\ StatusType' /\ CounterType'
    BY <2>1, <2>2, <1>2, LeaveFacts DEF AnyInv
  <2>4. TableType' /\ FreeListIntegrity'
    BY <1>7, <2>1, <1>2 DEF sys_ipc_recv, TableType, FreeListIntegrity
  <2> QED
    BY <2>3, <2>4
<1>8. ASSUME NEW e \in Slots, NEW x \in Slots, sys_env_destroy(c, e, x) PROVE Goal
  <2>0. Handling(c, e)
    BY <1>8 DEF sys_env_destroy
  <2>1. CASE x = e
    BY <1>8, <2>0, <2>1, <1>2, FreeCurenvFacts DEF sys_env_destroy
  <2>2. CASE x # e /\ RunsElsewhere(x)
    <3>1. [env_status EXCEPT ![x] = "DYING"] \in [Slots -> Status]
      BY <2>0, <1>2 DEF Status
    <3>2. trap_return(c, [env_status EXCEPT ![x] = "DYING"]) /\ tableUnchanged
      BY <1>8, <2>2 DEF sys_env_destroy
    <3> QED
      BY <2>0, <3>1, <3>2, <1>2, ReturnFacts, TableUnchangedFacts
  <2>3. CASE x # e /\ ~RunsElsewhere(x) /\ env_cr3[x] = 0
    <3>1. panic(c)
      BY <1>8, <2>3 DEF sys_env_destroy
    <3> QED
      BY <2>0, <3>1, <1>2, PanicFacts
  <2>4. CASE x # e /\ ~RunsElsewhere(x) /\ env_cr3[x] # 0
    <3>1. env_free(x) /\ trap_return(c, [env_status EXCEPT ![x] = "FREE"])
      BY <1>8, <2>4 DEF sys_env_destroy
    <3>2. [env_status EXCEPT ![x] = "FREE"] \in [Slots -> Status]
      BY <2>0, <1>2 DEF Status
    <3> QED
      BY <2>0, <2>4, <3>1, <3>2, <1>2, ReturnFacts, FreeTable
  <2> QED
    BY <2>1, <2>2, <2>3, <2>4
<1>9. ASSUME NEW e \in Slots, NEW x \in Slots, sys_ipc_try_send(c, e, x) PROVE Goal
  <2>0. Handling(c, e)
    BY <1>9 DEF sys_ipc_try_send
  <2>1. CASE panic(c)
    BY <2>0, <2>1, <1>2, PanicFacts
  <2>2. CASE ~panic(c)
    <3>1. /\ env_ipc_recving' = [env_ipc_recving EXCEPT ![x] = FALSE]
          /\ trap_return(c, [env_status EXCEPT ![x] = "RUNNABLE"])
          /\ UNCHANGED <<env_gen, env_parent_id, env_cr3, env_free_list, allocs,
                         creator>>
      BY <1>9, <2>2 DEF sys_ipc_try_send
    <3>2. [env_status EXCEPT ![x] = "RUNNABLE"] \in [Slots -> Status]
      BY <2>0, <1>2 DEF Status
    <3>3. TableType' /\ FreeListIntegrity'
      BY <2>0, <1>2, <3>1 DEF TableType, FreeListIntegrity
    <3> QED
      BY <2>0, <3>1, <3>2, <3>3, <1>2, ReturnFacts
  <2> QED
    BY <2>1, <2>2
<1>10. ASSUME NEW e \in Slots, NEW x \in Slots, NEW s \in Status,
              sys_env_set_status(c, e, x, s)
       PROVE  Goal
  <2>1. Handling(c, e) /\ trap_return(c, [env_status EXCEPT ![x] = s])
        /\ tableUnchanged
    BY <1>10 DEF sys_env_set_status
  <2>2. [env_status EXCEPT ![x] = s] \in [Slots -> Status]
    BY <2>1, <1>2
  <2> QED
    BY <2>1, <2>2, <1>2, ReturnFacts, TableUnchangedFacts
<1>11. ASSUME NEW e \in Slots, page_fault(c, e) PROVE Goal
  <2>1. /\ Handling(c, e) /\ env_run(c, e, env_status, e, cr3[c])
        /\ UNCHANGED env_counter /\ tableUnchanged
    BY <1>11 DEF page_fault
  <2>2. CpuInv' /\ StatusType' /\ CounterType'
    BY <2>1, <1>2, RunFacts DEF AnyInv, CounterType
  <2> QED
    BY <2>1, <2>2, <1>2, TableUnchangedFacts
<1>12. Goal
  BY <1>11, <1>3, <1>4, <1>5, <1>6, <1>7, <1>8, <1>9, <1>10 DEF trap_dispatch
<1> QED
  BY <1>1, <1>12 DEF AnyInv

\* env_init and the first lines of i386_init
LEMMA InitAny == Init => AnyInv
<1> SUFFICES ASSUME Init PROVE AnyInv
  OBVIOUS
<1>0. BSP \in CPUs
  BY ConstantsAssumption DEF BSP, CPUs
<1>1. CpuInv
  <2>1. CpuType
    BY <1>0 DEF Init, CpuType, Modes
  <2>2. LockHolder /\ HasEnv
    BY <1>0 DEF Init, LockHolder, HasEnv
  <2> QED
    BY <2>1, <2>2 DEF CpuInv
<1>2. env_free_list \in Seq(Slots) /\ Len(env_free_list) = NENV
  <2>1. \A i \in 1..NENV : i - 1 \in Slots
    BY ConstantsAssumption DEF Slots
  <2>2. env_free_list \in [1..NENV -> Slots] /\ NENV \in Nat
    BY <2>1, ConstantsAssumption DEF Init
  <2> QED
    BY <2>2
<1>3. TableType
  BY <1>2, ConstantsAssumption DEF Init, TableType
<1>4. StatusType /\ CounterType /\ BootType
  BY ConstantsAssumption DEF Init, StatusType, Status, CounterType, BootType, Slots
<1>5. FreeListIntegrity
  <2>1. \A i \in 1..NENV : env_free_list[i] = i - 1
    BY DEF Init
  <2>2. \A e \in Slots : e + 1 \in 1..NENV /\ env_free_list[e + 1] = e
    BY <2>1, ConstantsAssumption DEF Slots
  <2>3. \A e \in Slots : env_cr3[e] = 0
    BY DEF Init
  <2> QED
    BY <1>2, <2>1, <2>2, <2>3, ConstantsAssumption DEF FreeListIntegrity
<1> QED
  BY <1>1, <1>3, <1>4, <1>5 DEF AnyInv

LEMMA NextAny == AnyInv /\ [Next]_vars => AnyInv'
<1> SUFFICES ASSUME AnyInv, [Next]_vars PROVE AnyInv'
  OBVIOUS
<1> USE DEF AnyInv
<1>s. CASE UNCHANGED vars
  BY <1>s DEF vars, envVars, cpuVars, CpuInv, CpuType, LockHolder, HasEnv,
       TableType, StatusType, CounterType, BootType, FreeListIntegrity
<1>b. BSP \in CPUs
  BY ConstantsAssumption DEF BSP, CPUs
<1>1. CASE env_create
  <2>1. mode[BSP] = "boot" /\ kernel_lock = BSP
    BY <1>1, <1>b DEF env_create, CpuInv, LockHolder
  <2>2. BootType'
    BY <1>1, ConstantsAssumption DEF env_create, BootType
  <2>3. CASE env_free_list = <<>>
    <3>1. panic(BSP)
      BY <1>1, <2>3 DEF env_create
    <3> QED
      BY <2>1, <2>2, <3>1, <1>b, PanicFacts
  <2>4. CASE env_free_list # <<>>
    <3>1. /\ env_alloc(NoParent, NoParent)
          /\ env_status' = [env_status EXCEPT ![Head(env_free_list)] = "RUNNABLE"]
          /\ UNCHANGED <<cpuVars, env_counter>>
      BY <1>1, <2>4 DEF env_create
    <3>2. TableType' /\ FreeListIntegrity'
      BY <2>4, <3>1, AllocTable
    <3>3. StatusType' /\ CounterType'
      BY <3>1 DEF StatusType, Status, CounterType
    <3>4. CpuInv'
      BY <3>1 DEF cpuVars, CpuInv, CpuType, LockHolder, HasEnv
    <3> QED
      BY <2>2, <3>2, <3>3, <3>4
  <2> QED
    BY <2>3, <2>4
<1>2. CASE boot_yield
  <2>1. kernel_lock = BSP
    BY <1>2, <1>b DEF boot_yield, CpuInv, LockHolder
  <2>2. Leaves(BSP, env_status, NULL, BootDir)
    BY <1>2 DEF boot_yield, Leaves
  <2>3. CpuInv' /\ StatusType' /\ CounterType'
    BY <1>b, <2>1, <2>2, LeaveFacts DEF StatusType
  <2> QED
    BY <1>2, <2>3 DEF boot_yield, TableType, FreeListIntegrity, BootType
<1>3. ASSUME NEW c \in CPUs,
             \/ lapic_startap(c) \/ mp_main(c) \/ trap_enter(c) \/ lcr3_pop(c)
      PROVE  AnyInv'
  <2>1. /\ UNCHANGED <<envVars, env_counter, boot_envs, kernel_lock, curenv>>
        /\ CpuType'
    <3>1. CASE lapic_startap(c)
      BY <3>1 DEF lapic_startap, CpuInv, CpuType, Modes
    <3>2. CASE mp_main(c)
      BY <3>2 DEF mp_main, CpuInv, CpuType, Modes
    <3>3. CASE trap_enter(c)
      BY <3>3 DEF trap_enter, CpuInv, CpuType, Modes
    <3>4. CASE lcr3_pop(c)
      <4>1. curenv[c] \in Slots
        BY <3>4 DEF lcr3_pop, CpuInv, CpuType, HasEnv
      <4>2. <<env_cr3[curenv[c]], curenv[c]>> \in EnvIds
        BY <4>1 DEF TableType, EnvIds
      <4> QED
        BY <3>4, <4>2 DEF lcr3_pop, CpuInv, CpuType, Modes
    <3> QED
      BY <1>3, <3>1, <3>2, <3>3, <3>4
  <2>2. LockHolder' /\ HasEnv'
    BY <1>3, <2>1
       DEF lapic_startap, mp_main, trap_enter, lcr3_pop, CpuInv, CpuType,
           LockHolder, HasEnv
  <2> QED
    BY <2>1, <2>2 DEF envVars, CpuInv, TableType, StatusType, CounterType,
                      BootType, FreeListIntegrity
<1>4. ASSUME NEW c \in CPUs, lock_kernel(c) PROVE AnyInv'
  <2>1. CpuInv'
    BY <1>4, NullOutside DEF lock_kernel, CpuInv, CpuType, LockHolder, HasEnv, Modes
  <2> QED
    BY <1>4, <2>1 DEF lock_kernel, envVars, TableType, StatusType, CounterType,
                      BootType, FreeListIntegrity
<1>5. ASSUME NEW c \in CPUs, idle_yield(c) PROVE AnyInv'
  <2>1. kernel_lock = c /\ cr3[c] \in EnvIds \cup {BootDir}
    BY <1>5 DEF idle_yield, CpuInv, CpuType, LockHolder
  <2>2. Leaves(c, env_status, NULL, cr3[c])
    BY <1>5 DEF idle_yield, Leaves
  <2>3. CpuInv' /\ StatusType' /\ CounterType'
    BY <2>1, <2>2, LeaveFacts DEF StatusType
  <2> QED
    BY <1>5, <2>3 DEF idle_yield, TableType, FreeListIntegrity, BootType
<1>6. ASSUME NEW c \in CPUs, reap_zombie(c) PROVE AnyInv'
  <2>1. kernel_lock = c /\ curenv[c] # NULL /\ FreeCurenv(c)
    BY <1>6 DEF reap_zombie, CpuInv, LockHolder
  <2> QED
    BY <1>6, <2>1, FreeCurenvFacts DEF reap_zombie, BootType
<1>7. ASSUME NEW c \in CPUs, trap_dispatch(c) PROVE AnyInv'
  BY <1>7, DispatchFacts
<1> QED
  BY <1>s, <1>1, <1>2, <1>3, <1>4, <1>5, <1>6, <1>7 DEF Next

LEMMA AnyInvariance == Spec => []AnyInv
<1>1. Init => AnyInv
  BY InitAny
<1>2. AnyInv /\ [Next]_vars => AnyInv'
  BY NextAny
<1> QED
  BY <1>1, <1>2, PTL DEF Spec

\* Every variable keeps its type, whatever environments do: in particular
\* sched_yield's position stays inside envs[] and lcr3 always has an
\* environment to take the directory of.
THEOREM TypeCorrect == Spec => []TypeOK
<1>1. AnyInv => TypeOK
  BY DEF AnyInv, CpuInv, CpuType, TableType, StatusType, CounterType, BootType, TypeOK
<1> QED
  BY <1>1, AnyInvariance, PTL

\* The CPU that holds kernel_lock is the one inside the kernel, whatever
\* environments do.
THEOREM LockCorrect == Spec => []LockHolder
<1>1. AnyInv => LockHolder
  BY DEF AnyInv, CpuInv
<1> QED
  BY <1>1, AnyInvariance, PTL

\* The free list holds every slot without a page directory exactly once,
\* whatever environments do.
THEOREM FreeListCorrect == Spec => []FreeListIntegrity
<1>1. AnyInv => FreeListIntegrity
  BY DEF AnyInv
<1> QED
  BY <1>1, AnyInvariance, PTL
-----------------------------------------------------------------------------
(***************************************************************************)
(* Parents, whatever environments do, as long as no slot has been handed   *)
(* out GENERATIONS times: an envid then names one environment for ever.    *)
(***************************************************************************)

\* A generation counts the times its slot was handed out, and env_parent_id is
\* the envid the maker of the environment had when it made it.
ParentInv ==
  \A e \in Slots :
    /\ env_gen[e] = allocs[e]
    /\ \/ env_parent_id[e] = NoParent
       \/ /\ creator[e] \in Slots \X (0..MaxAllocs)
          /\ env_parent_id[e] = <<creator[e][2], creator[e][1]>>

parentKept == UNCHANGED <<env_gen, env_parent_id, allocs, creator>>

\* env_alloc counts its slot, and records its caller twice in the same way.
LEMMA AllocParent ==
  ASSUME MaxAllocs < GENERATIONS, TableType, ParentInv,
         Head(env_free_list) \in Slots,
         NEW parent, NEW maker, env_alloc(parent, maker),
         \/ parent = NoParent
         \/ maker \in Slots \X (0..MaxAllocs) /\ parent = <<maker[2], maker[1]>>
  PROVE  ParentInv'
<1> DEFINE h == Head(env_free_list)
<1>1. NextGeneration(env_gen[h]) = allocs[h] + 1
  BY ConstantsAssumption DEF TableType, ParentInv, NextGeneration, env_alloc
<1>2. \A e \in Slots :
        /\ env_gen'[e] = IF e = h THEN allocs[h] + 1 ELSE env_gen[e]
        /\ allocs'[e] = IF e = h THEN allocs[h] + 1 ELSE allocs[e]
        /\ env_parent_id'[e] = IF e = h THEN parent ELSE env_parent_id[e]
        /\ creator'[e] = IF e = h THEN maker ELSE creator[e]
  BY <1>1 DEF TableType, env_alloc
<1> QED
  BY <1>2 DEF ParentInv

\* FreeCurenv leaves the record of a slot's past environments alone.
LEMMA FreeCurenvParent ==
  ASSUME NEW c, FreeCurenv(c)
  PROVE  parentKept
  BY DEF FreeCurenv, panic, env_free, parentKept

\* Only sys_exofork, of the system calls, makes environments.
LEMMA DispatchParent ==
  ASSUME MaxAllocs < GENERATIONS, AnyInv, ParentInv, NEW c \in CPUs, trap_dispatch(c)
  PROVE  ParentInv'
<1>1. ASSUME NEW e \in Slots, sys_exofork(c, e) PROVE ParentInv'
  <2>1. TableType /\ env_free_list # <<>> /\ env_alloc(EnvId(e), <<e, allocs[e]>>)
    BY <1>1 DEF AnyInv, sys_exofork
  <2>2. Head(env_free_list) \in Slots
    BY <2>1 DEF TableType
  <2>3. <<e, allocs[e]>> \in Slots \X (0..MaxAllocs) /\ EnvId(e) = <<allocs[e], e>>
    BY <2>1 DEF TableType, ParentInv, EnvId
  <2> QED
    BY <2>1, <2>2, <2>3, AllocParent
<1>2. ASSUME NEW e \in Slots, fault(c, e) PROVE parentKept
  BY <1>2, FreeCurenvParent DEF fault
<1>3. ASSUME NEW e \in Slots, interrupt(c, e) \/ page_fault(c, e) \/ other_trap(c, e)
      PROVE  parentKept
  BY <1>3 DEF interrupt, page_fault, other_trap, tableUnchanged, parentKept
<1>4. ASSUME NEW e \in Slots, sys_ipc_recv(c, e) PROVE parentKept
  BY <1>4 DEF sys_ipc_recv, parentKept
<1>5. ASSUME NEW e \in Slots, NEW x \in Slots, sys_env_destroy(c, e, x)
      PROVE  parentKept
  BY <1>5, FreeCurenvParent
     DEF sys_env_destroy, tableUnchanged, panic, env_free, parentKept
<1>6. ASSUME NEW e \in Slots, NEW x \in Slots, sys_ipc_try_send(c, e, x)
      PROVE  parentKept
  BY <1>6 DEF sys_ipc_try_send, panic, parentKept
<1>7. ASSUME NEW e \in Slots, NEW x \in Slots, NEW s \in Status,
             sys_env_set_status(c, e, x, s)
      PROVE  parentKept
  BY <1>7 DEF sys_env_set_status, tableUnchanged, parentKept
<1>8. CASE parentKept
  BY <1>8 DEF parentKept, ParentInv
<1> QED
  BY <1>1, <1>2, <1>3, <1>4, <1>5, <1>6, <1>7, <1>8 DEF trap_dispatch

LEMMA NextParent ==
  ASSUME MaxAllocs < GENERATIONS, AnyInv, ParentInv, [Next]_vars
  PROVE  ParentInv'
<1>1. CASE parentKept
  BY <1>1 DEF parentKept, ParentInv
<1>2. CASE env_create
  <2>1. CASE env_free_list = <<>>
    <3>1. parentKept
      BY <1>2, <2>1 DEF env_create, panic, parentKept
    <3> QED
      BY <1>1, <3>1
  <2>2. CASE env_free_list # <<>>
    <3>1. env_alloc(NoParent, NoParent)
      BY <1>2, <2>2 DEF env_create
    <3>2. TableType /\ Head(env_free_list) \in Slots
      BY <2>2 DEF AnyInv, TableType
    <3> QED
      BY <3>1, <3>2, AllocParent
  <2> QED
    BY <2>1, <2>2
<1>3. CASE boot_yield \/ UNCHANGED vars
  <2>1. parentKept
    BY <1>3 DEF boot_yield, vars, envVars, parentKept
  <2> QED
    BY <1>1, <2>1
<1>4. ASSUME NEW c \in CPUs, trap_dispatch(c) PROVE ParentInv'
  BY <1>4, DispatchParent
<1>5. ASSUME NEW c \in CPUs, reap_zombie(c) PROVE ParentInv'
  BY <1>1, <1>5, FreeCurenvParent DEF reap_zombie
<1>6. ASSUME NEW c \in CPUs,
             \/ lapic_startap(c) \/ mp_main(c) \/ trap_enter(c) \/ lock_kernel(c)
             \/ idle_yield(c) \/ lcr3_pop(c)
      PROVE  ParentInv'
  <2>1. parentKept
    BY <1>6 DEF lapic_startap, mp_main, trap_enter, lock_kernel, idle_yield,
                lcr3_pop, envVars, parentKept
  <2> QED
    BY <1>1, <2>1
<1> QED
  BY <1>2, <1>3, <1>4, <1>5, <1>6 DEF Next

\* Whatever environments do, and however slots are freed and handed out again,
\* whoever envid2env takes for the parent of an environment is the one that
\* made it, as long as no slot's generation has come around.
THEOREM ParentCorrect == MaxAllocs < GENERATIONS => (Spec => []ParentIsCreator)
<1> SUFFICES ASSUME MaxAllocs < GENERATIONS PROVE Spec => []ParentIsCreator
  OBVIOUS
<1>1. Init => ParentInv
  BY DEF Init, ParentInv
<1>2. AnyInv /\ ParentInv /\ [Next]_vars => ParentInv'
  BY NextParent
<1>3. AnyInv /\ ParentInv => ParentIsCreator
  <2> SUFFICES ASSUME AnyInv, ParentInv, NEW e \in Slots, NEW p \in Slots,
                      env_parent_id[e] = EnvId(p)
               PROVE  creator[e] = <<p, allocs[p]>>
    BY DEF ParentIsCreator
  <2>1. EnvId(p) = <<allocs[p], p>>
    BY DEF ParentInv, EnvId
  <2>2. env_parent_id[e] # NoParent
    BY <2>1, NullOutside DEF NoParent
  <2>3. /\ creator[e] \in Slots \X (0..MaxAllocs)
        /\ creator[e][2] = allocs[p] /\ creator[e][1] = p
    BY <2>1, <2>2 DEF ParentInv
  <2> QED
    BY <2>3
<1> QED
  BY <1>1, <1>2, <1>3, AnyInvariance, PTL DEF Spec
-----------------------------------------------------------------------------
(***************************************************************************)
(* Environments that use the status and destroy calls as the library and   *)
(* the programs of the repository do (Users = "library"): no environment   *)
(* runs on two CPUs, the kernel does not panic, a CPU in user mode is in   *)
(* its environment's address space, and zombies wait for their own CPU.    *)
(* The inductive invariant of this part comes on top of AnyInv.            *)
(***************************************************************************)

\* CPUs that are starting or halted have no environment.
IdleCpus ==
  \A c \in CPUs : mode[c] \in {"off", "mp_main", "boot", "halt"} => curenv[c] = NULL

\* A page directory belongs to the present generation of its slot.
OwnDirectory == \A e \in Slots : env_cr3[e] \in {0, env_gen[e]}

\* A CPU with an environment has its directory loaded, from lcr3 on.
LoadedOwn ==
  \A c \in CPUs :
    mode[c] \in {"user", "spin", "kernel"} /\ curenv[c] # NULL
      => cr3[c] = EnvId(curenv[c])

\* The machine is given up to the monitor with nothing to run.
MonitorQuiet ==
  \A c \in CPUs : mode[c] = "monitor" => NothingToRun(env_status)

\* While i386_init runs: enough free slots are left for its ENV_CREATEs, and
\* only then is an AP not started.
Booting ==
  /\ mode[BSP] = "boot" => Len(env_free_list) = (NENV - NBOOT) + boot_envs
  /\ \A d \in CPUs : cpu_status[d] = "UNUSED" <=> mode[d] \in {"off", "mp_main"}
  /\ \A d \in CPUs : mode[d] \in {"off", "mp_main"} => mode[BSP] = "boot"

\* No CPU was stopped by trap() for a panic.
NoneStopped == \A c \in CPUs : mode[c] # "hlt"

LibInv ==
  /\ NoSharedEnv
  /\ RunningIsCurrent
  /\ ReceiverIsBlocked
  /\ FreeIsFree
  /\ ~panicstr
  /\ IdleCpus
  /\ OwnDirectory
  /\ LoadedOwn
  /\ MonitorQuiet
  /\ Booting
  /\ NoneStopped
-----------------------------------------------------------------------------
\* Statuses st and curenv cur of CPU c, the other CPUs' curenvs apart, agree.
Ready(c, st, cur) ==
  /\ cur # NULL => st[cur] \in {"RUNNING", "NOT_RUNNABLE"}
  /\ \A d \in CPUs \ {c} :
       curenv[d] # NULL =>
         curenv[d] # cur /\ st[curenv[d]] \in {"RUNNING", "DYING"}
  /\ \A e \in Slots :
       st[e] \in {"RUNNING", "DYING"} =>
         e = cur \/ \E d \in CPUs \ {c} : curenv[d] = e

\* What a way out of the kernel does to the statuses the handler has left:
\* nothing but turn RUNNABLE into RUNNING and back.
Rescheduled(st) ==
  \A e \in Slots :
    \/ env_status'[e] = st[e]
    \/ st[e] \in {"RUNNABLE", "RUNNING"} /\ env_status'[e] \in {"RUNNABLE", "RUNNING"}

\* What it does to this CPU, and not to the others.
OnlyThisCpu(c, cur, dir) ==
  /\ \A d \in CPUs \ {c} : /\ mode'[d] = mode[d] /\ curenv'[d] = curenv[d]
                           /\ cr3'[d] = cr3[d] /\ cpu_status'[d] = cpu_status[d]
  /\ mode'[c] \in {"user", "lcr3", "halt", "monitor"}
  /\ mode'[c] = "user" => curenv'[c] = cur /\ cr3'[c] = dir
  /\ mode'[c] = "halt" => curenv'[c] = NULL
  /\ mode'[c] = "monitor" => NothingToRun(env_status')
  /\ cpu_status'[c] \in {cpu_status[c], "HALTED"}
  /\ panicstr' = panicstr

\* A slot that was ever handed out has a nonzero generation: env_alloc skips 0,
\* which is what lets 0 stand for "no page directory".
LEMMA GenerationNonzero ==
  ASSUME NEW g \in 0..(GENERATIONS - 1)
  PROVE  NextGeneration(g) # 0
<1>1. g + 1 # 0
  OBVIOUS
<1> QED
  BY <1>1 DEF NextGeneration

\* Consequences of CPU c being in the kernel: no other CPU is.
LEMMA AloneInKernel ==
  ASSUME AnyInv, NEW c \in CPUs, kernel_lock = c
  PROVE  \A d \in CPUs \ {c} : mode[d] \notin {"boot", "kernel", "monitor"}
  BY DEF AnyInv, CpuInv, LockHolder

\* Going back to curenv.
LEMMA ResumeLib ==
  ASSUME AnyInv, NoSharedEnv, NEW c \in CPUs, kernel_lock = c,
         NEW st \in [Slots -> Status], NEW cur \in Slots, NEW dir,
         Ready(c, st, cur), st[cur] = "RUNNING",
         env_run(c, cur, st, cur, dir)
  PROVE  /\ NoSharedEnv' /\ RunningIsCurrent'
         /\ Rescheduled(st) /\ OnlyThisCpu(c, cur, dir)
<1>1. /\ env_status' = st
      /\ mode' = [mode EXCEPT ![c] = "user"]
      /\ curenv' = [curenv EXCEPT ![c] = cur]
      /\ cr3' = [cr3 EXCEPT ![c] = dir]
      /\ UNCHANGED <<cpu_status, panicstr>>
  BY DEF env_run, LeaveKernel
<1>2. mode \in [CPUs -> Modes] /\ curenv \in [CPUs -> Slots \cup {NULL}]
      /\ DOMAIN cr3 = CPUs
  BY DEF AnyInv, CpuInv, CpuType
<1>3. Rescheduled(st) /\ OnlyThisCpu(c, cur, dir)
  BY <1>1, <1>2 DEF Rescheduled, OnlyThisCpu
<1>4. NoSharedEnv'
  BY <1>1, <1>2, NullOutside DEF NoSharedEnv, Ready
<1>5. RunningIsCurrent'
  BY <1>1, <1>2, AloneInKernel, NullOutside DEF RunningIsCurrent, Ready
<1> QED
  BY <1>3, <1>4, <1>5

\* A context switch to a RUNNABLE environment.
LEMMA SwitchLib ==
  ASSUME AnyInv, NoSharedEnv, NEW c \in CPUs, kernel_lock = c,
         NEW st \in [Slots -> Status], NEW cur \in Slots \cup {NULL}, NEW dir,
         Ready(c, st, cur), NEW e \in Slots, st[e] = "RUNNABLE",
         env_run(c, e, st, cur, dir)
  PROVE  /\ NoSharedEnv' /\ RunningIsCurrent'
         /\ Rescheduled(st) /\ OnlyThisCpu(c, cur, dir)
<1>0. e # cur
  BY NullOutside DEF Ready
<1>1. /\ env_status' = Switch(st, cur, e)
      /\ mode' = [mode EXCEPT ![c] = "lcr3"]
      /\ curenv' = [curenv EXCEPT ![c] = e]
      /\ cr3' = [cr3 EXCEPT ![c] = dir]
      /\ UNCHANGED <<cpu_status, panicstr>>
  BY <1>0 DEF env_run, LeaveKernel
<1>2. mode \in [CPUs -> Modes] /\ curenv \in [CPUs -> Slots \cup {NULL}]
      /\ DOMAIN cr3 = CPUs
  BY DEF AnyInv, CpuInv, CpuType
<1>3. Rescheduled(st) /\ OnlyThisCpu(c, cur, dir)
  BY <1>1, <1>2 DEF Rescheduled, OnlyThisCpu, Switch
<1>4. \A d \in CPUs \ {c} : curenv[d] # e
  BY NullOutside DEF Ready
<1>5. NoSharedEnv'
  BY <1>1, <1>2, <1>4, NullOutside DEF NoSharedEnv
<1>6. \A x \in Slots : env_status'[x] \in {"RUNNING", "DYING"}
                         <=> x = e \/ (x # cur /\ st[x] \in {"RUNNING", "DYING"})
  BY <1>0, <1>1, NullOutside DEF Switch, Ready
<1>7. ASSUME NEW x \in Slots, env_status'[x] \in {"RUNNING", "DYING"}
      PROVE  \E d \in CPUs : curenv'[d] = x /\ mode'[d] # "monitor"
  <2>1. CASE x = e
    BY <1>1, <1>2, <2>1
  <2>2. CASE x # e
    <3>1. PICK d \in CPUs \ {c} : curenv[d] = x
      BY <1>6, <1>7, <2>2 DEF Ready
    <3>2. curenv'[d] = x /\ mode'[d] = mode[d]
      BY <1>1, <1>2, <3>1
    <3> QED
      BY <3>2, AloneInKernel
  <2> QED
    BY <2>1, <2>2
<1>8. ASSUME NEW x \in Slots, NEW d \in CPUs, curenv'[d] = x
      PROVE  env_status'[x] \in {"RUNNING", "DYING"}
  <2>1. CASE d = c
    BY <1>1, <1>2, <1>6, <1>8, <2>1
  <2>2. CASE d # c
    <3>1. curenv[d] = x /\ x # NULL
      BY <1>1, <1>2, <1>8, <2>2, NullOutside
    <3>2. x # cur /\ st[x] \in {"RUNNING", "DYING"}
      BY <2>2, <3>1 DEF Ready
    <3> QED
      BY <1>6, <3>2
  <2> QED
    BY <2>1, <2>2
<1>9. RunningIsCurrent'
  BY <1>7, <1>8 DEF RunningIsCurrent
<1> QED
  BY <1>3, <1>5, <1>9

\* Nothing to switch to and nothing to go back to.
LEMMA HaltLib ==
  ASSUME AnyInv, NoSharedEnv, NEW c \in CPUs, kernel_lock = c,
         NEW st \in [Slots -> Status], NEW cur \in Slots \cup {NULL}, NEW dir,
         Ready(c, st, cur), cur # NULL => st[cur] # "RUNNING",
         sched_halt(c, st, cur, dir)
  PROVE  /\ NoSharedEnv' /\ RunningIsCurrent'
         /\ Rescheduled(st) /\ OnlyThisCpu(c, cur, dir)
<1>1. mode \in [CPUs -> Modes] /\ curenv \in [CPUs -> Slots \cup {NULL}]
      /\ DOMAIN cr3 = CPUs /\ DOMAIN cpu_status = CPUs
  BY DEF AnyInv, CpuInv, CpuType
<1>2. Rescheduled(st)
  BY DEF sched_halt, Rescheduled
<1>3. OnlyThisCpu(c, cur, dir)
  BY <1>1 DEF sched_halt, LeaveKernel, OnlyThisCpu
<1>4. NoSharedEnv'
  BY <1>1, NullOutside DEF sched_halt, NoSharedEnv, Ready
<1>5. RunningIsCurrent'
  <2>1. CASE NothingToRun(st)
    BY <1>1, <2>1, NullOutside DEF sched_halt, NothingToRun, RunningIsCurrent, Ready
  <2>2. CASE ~NothingToRun(st)
    <3>1. /\ env_status' = st /\ curenv' = [curenv EXCEPT ![c] = NULL]
          /\ mode' = [mode EXCEPT ![c] = "halt"]
      BY <2>2 DEF sched_halt, LeaveKernel
    <3> QED
      BY <1>1, <3>1, AloneInKernel, NullOutside DEF RunningIsCurrent, Ready
  <2> QED
    BY <2>1, <2>2
<1> QED
  BY <1>2, <1>3, <1>4, <1>5

\* Every way out of the kernel keeps statuses and curenvs together.
LEMMA LeaveLib ==
  ASSUME AnyInv, NoSharedEnv, NEW c \in CPUs, kernel_lock = c,
         NEW st \in [Slots -> Status], NEW cur \in Slots \cup {NULL}, NEW dir,
         Ready(c, st, cur), Leaves(c, st, cur, dir)
  PROVE  /\ NoSharedEnv' /\ RunningIsCurrent'
         /\ Rescheduled(st) /\ OnlyThisCpu(c, cur, dir)
<1>1. CASE cur # NULL /\ st[cur] = "RUNNING" /\ env_run(c, cur, st, cur, dir)
  BY <1>1, ResumeLib
<1>2. ASSUME NEW i \in 1..NENV, st[Rotor(i)] = "RUNNABLE",
             env_run(c, Rotor(i), st, cur, dir)
      PROVE  /\ NoSharedEnv' /\ RunningIsCurrent'
             /\ Rescheduled(st) /\ OnlyThisCpu(c, cur, dir)
  <2>1. Rotor(i) \in Slots
    BY RotorInSlots DEF AnyInv, CounterType
  <2> QED
    BY <1>2, <2>1, SwitchLib
<1>3. CASE ~(cur # NULL /\ st[cur] = "RUNNING") /\ sched_halt(c, st, cur, dir)
  BY <1>3, HaltLib
<1> QED
  BY <1>1, <1>2, <1>3 DEF Leaves, sched_yield

\* What trap() and the handlers do to zombies: the step of
\* ZombieStaysUntilItTraps.
ZombieStep ==
  \A e \in Slots :
    env_status[e] = "DYING" /\ env_status'[e] # "DYING" =>
      /\ env_status'[e] = "FREE"
      /\ \E c \in CPUs : curenv[c] = e /\ mode[c] = "kernel"

\* The environment table that a handler leaves, with statuses st, agrees with
\* itself, with the other CPUs, and with what this CPU is to go back to.
TableAgrees(c, st, cur, dir) ==
  /\ \A e \in Slots : env_cr3'[e] \in {0, env_gen'[e]}
  /\ \A e \in Slots : st[e] = "FREE" <=> env_cr3'[e] = 0
  /\ \A e \in Slots : env_ipc_recving'[e] => st[e] \in {"NOT_RUNNABLE", "FREE"}
  /\ \A d \in CPUs \ {c} :
       curenv[d] # NULL => env_gen'[curenv[d]] = env_gen[curenv[d]]
  /\ cur # NULL => dir = <<env_gen'[cur], cur>>
  /\ \A e \in Slots :
       env_status[e] = "DYING" =>
         \/ st[e] = "DYING"
         \/ st[e] = "FREE" /\ e = curenv[c] /\ mode[c] = "kernel"

\* A handler that leaves statuses, curenvs and table in agreement keeps the
\* whole invariant.
LEMMA HandlerLib ==
  ASSUME AnyInv, LibInv, AnyInv', NEW c \in CPUs, kernel_lock = c,
         mode[c] \in {"boot", "kernel"},
         \A d \in CPUs : mode[d] \notin {"off", "mp_main"},
         NEW st \in [Slots -> Status], NEW cur \in Slots \cup {NULL}, NEW dir,
         Ready(c, st, cur), Leaves(c, st, cur, dir), TableAgrees(c, st, cur, dir)
  PROVE  LibInv' /\ ZombieStep
<1>0. /\ BSP \in CPUs
      /\ curenv \in [CPUs -> Slots \cup {NULL}]
      /\ curenv' \in [CPUs -> Slots \cup {NULL}]
  BY ConstantsAssumption DEF BSP, CPUs, AnyInv, CpuInv, CpuType
<1>1. /\ NoSharedEnv' /\ RunningIsCurrent'
      /\ Rescheduled(st) /\ OnlyThisCpu(c, cur, dir)
  BY LeaveLib DEF LibInv
<1>2. ReceiverIsBlocked'
  BY <1>1 DEF Rescheduled, TableAgrees, ReceiverIsBlocked
<1>3. FreeIsFree' /\ OwnDirectory'
  BY <1>1 DEF Rescheduled, TableAgrees, FreeIsFree, OwnDirectory
<1>4. ~panicstr' /\ IdleCpus' /\ NoneStopped'
  BY <1>1 DEF OnlyThisCpu, LibInv, IdleCpus, NoneStopped
<1>5. LoadedOwn'
  <2>1. \A d \in CPUs \ {c} :
          mode'[d] \in {"user", "spin", "kernel"} /\ curenv'[d] # NULL
            => cr3'[d] = <<env_gen'[curenv'[d]], curenv'[d]>>
    BY <1>0, <1>1 DEF OnlyThisCpu, TableAgrees, LibInv, LoadedOwn, EnvId
  <2>2. mode'[c] \in {"user", "spin", "kernel"} /\ curenv'[c] # NULL
            => cr3'[c] = <<env_gen'[curenv'[c]], curenv'[c]>>
    BY <1>1 DEF OnlyThisCpu, TableAgrees
  <2> QED
    BY <2>1, <2>2 DEF LoadedOwn, EnvId
<1>6. MonitorQuiet'
  BY <1>1, AloneInKernel DEF OnlyThisCpu, MonitorQuiet, NothingToRun
<1>7. Booting'
  <2>1. \A d \in CPUs : mode'[d] \notin {"off", "mp_main", "boot"}
    BY <1>1, AloneInKernel DEF OnlyThisCpu
  <2>2. \A d \in CPUs : cpu_status'[d] # "UNUSED"
    BY <1>1 DEF OnlyThisCpu, LibInv, Booting
  <2> QED
    BY <1>0, <2>1, <2>2 DEF Booting
<1>8. ZombieStep
  BY <1>1 DEF Rescheduled, TableAgrees, ZombieStep
<1> QED
  BY <1>1, <1>2, <1>3, <1>4, <1>5, <1>6, <1>7, <1>8 DEF LibInv

\* What a handler finds: environment e, RUNNING on this CPU only, in its own
\* address space.
LEMMA HandlingLib ==
  ASSUME AnyInv, LibInv, NEW c \in CPUs, mode[c] = "kernel"
  PROVE  /\ kernel_lock = c
         /\ \A d \in CPUs : mode[d] \notin {"off", "mp_main"}
         /\ env_status \in [Slots -> Status]
         /\ curenv[c] \in Slots \cup {NULL}
         /\ \A d \in CPUs \ {c} :
              curenv[d] # NULL => /\ curenv[d] \in Slots /\ curenv[d] # curenv[c]
                                  /\ env_status[curenv[d]] \in {"RUNNING", "DYING"}
         /\ \A e \in Slots : env_status[e] \in {"RUNNING", "DYING"} =>
              \E d \in CPUs : curenv[d] = e
         /\ curenv[c] # NULL =>
              /\ env_status[curenv[c]] \in {"RUNNING", "DYING"}
              /\ cr3[c] = EnvId(curenv[c]) /\ env_cr3[curenv[c]] # 0
<1>1. /\ kernel_lock = c
      /\ BSP \in CPUs
      /\ env_status \in [Slots -> Status]
      /\ curenv \in [CPUs -> Slots \cup {NULL}]
  BY ConstantsAssumption
     DEF BSP, CPUs, AnyInv, CpuInv, CpuType, StatusType, LockHolder
<1>2. \A d \in CPUs : mode[d] \notin {"off", "mp_main"}
  <2>1. mode[BSP] # "boot"
    BY <1>1, AloneInKernel
  <2> QED
    BY <2>1 DEF LibInv, Booting
<1>3. \A d \in CPUs : mode[d] # "monitor"
  BY <1>1, AloneInKernel
<1>4. \A d \in CPUs : curenv[d] # NULL =>
        curenv[d] \in Slots /\ env_status[curenv[d]] \in {"RUNNING", "DYING"}
  BY <1>1, <1>3 DEF LibInv, RunningIsCurrent
<1>5. curenv[c] # NULL => cr3[c] = EnvId(curenv[c]) /\ env_cr3[curenv[c]] # 0
  BY <1>4 DEF LibInv, LoadedOwn, FreeIsFree
<1>6. \A d \in CPUs \ {c} : curenv[d] # NULL => curenv[d] # curenv[c]
  BY DEF LibInv, NoSharedEnv
<1>7. \A e \in Slots : env_status[e] \in {"RUNNING", "DYING"} =>
        \E d \in CPUs : curenv[d] = e
  BY DEF LibInv, RunningIsCurrent
<1> QED
  BY <1>1, <1>2, <1>4, <1>5, <1>6, <1>7

\* A handler that changes no status.
LEMMA QuietLib ==
  ASSUME AnyInv, LibInv, AnyInv', NEW c \in CPUs, mode[c] = "kernel",
         curenv[c] = NULL \/ env_status[curenv[c]] = "RUNNING",
         Leaves(c, env_status, curenv[c], cr3[c]), tableUnchanged
  PROVE  LibInv' /\ ZombieStep
<1>1. Ready(c, env_status, curenv[c])
  BY HandlingLib DEF Ready
<1>2. TableAgrees(c, env_status, curenv[c], cr3[c])
  BY HandlingLib
     DEF TableAgrees, tableUnchanged, LibInv, OwnDirectory, FreeIsFree,
         ReceiverIsBlocked, EnvId
<1> QED
  BY <1>1, <1>2, HandlingLib, HandlerLib

\* A handler of environment e that changes the status of another one, x, that
\* no CPU runs and none will.
LEMMA OtherLib ==
  ASSUME AnyInv, LibInv, AnyInv', NEW c \in CPUs, mode[c] = "kernel",
         NEW e \in Slots, e = curenv[c], env_status[e] = "RUNNING",
         NEW x \in Slots, NEW s \in Status,
         env_status[x] \notin {"RUNNING", "DYING"}, s \notin {"RUNNING", "DYING"},
         trap_return(c, [env_status EXCEPT ![x] = s]),
         env_cr3'[x] \in {0, env_gen'[x]},
         s = "FREE" <=> env_cr3'[x] = 0,
         env_ipc_recving'[x] => s \in {"NOT_RUNNABLE", "FREE"},
         \A y \in Slots \ {x} : /\ env_cr3'[y] = env_cr3[y]
                                /\ env_gen'[y] = env_gen[y]
                                /\ env_ipc_recving'[y] = env_ipc_recving[y]
  PROVE  LibInv' /\ ZombieStep
<1> DEFINE st == [env_status EXCEPT ![x] = s]
<1>0. e # NULL /\ x # e /\ env_status \in [Slots -> Status]
  BY NullOutside, HandlingLib
<1>1. st \in [Slots -> Status]
  BY <1>0
<1>2. \A d \in CPUs \ {c} : curenv[d] # NULL => curenv[d] \in Slots \ {x}
  BY HandlingLib
<1>3. Ready(c, st, e)
  BY <1>0, <1>2, HandlingLib DEF Ready
<1>4. TableAgrees(c, st, e, cr3[c])
  BY <1>0, <1>2, HandlingLib
     DEF TableAgrees, LibInv, OwnDirectory, FreeIsFree, ReceiverIsBlocked, EnvId
<1>5. Leaves(c, st, e, cr3[c])
  BY <1>0, <1>1, ReturnLeaves
<1> HIDE DEF st
<1> QED
  BY <1>1, <1>3, <1>4, <1>5, HandlingLib, HandlerLib

\* env_destroy of an environment on another CPU makes it a zombie.
LEMMA ZombieLib ==
  ASSUME AnyInv, LibInv, AnyInv', NEW c \in CPUs, mode[c] = "kernel",
         NEW e \in Slots, e = curenv[c], env_status[e] = "RUNNING",
         NEW x \in Slots, x # e, env_status[x] = "RUNNING",
         trap_return(c, [env_status EXCEPT ![x] = "DYING"]), tableUnchanged
  PROVE  LibInv' /\ ZombieStep
<1> DEFINE st == [env_status EXCEPT ![x] = "DYING"]
<1>0. e # NULL /\ env_status \in [Slots -> Status]
  BY NullOutside, HandlingLib
<1>1. st \in [Slots -> Status]
  BY <1>0 DEF Status
<1>2. Ready(c, st, e)
  BY <1>0, HandlingLib DEF Ready
<1>3. TableAgrees(c, st, e, cr3[c])
  BY <1>0, HandlingLib
     DEF TableAgrees, tableUnchanged, LibInv, OwnDirectory, FreeIsFree,
         ReceiverIsBlocked, EnvId
<1>4. Leaves(c, st, e, cr3[c])
  BY <1>0, <1>1, ReturnLeaves
<1> HIDE DEF st
<1> QED
  BY <1>1, <1>2, <1>3, <1>4, HandlingLib, HandlerLib

\* Freeing curenv never meets a slot without page directory.
LEMMA FreeCurenvLib ==
  ASSUME AnyInv, LibInv, AnyInv', NEW c \in CPUs, mode[c] = "kernel",
         curenv[c] # NULL, FreeCurenv(c)
  PROVE  LibInv' /\ ZombieStep
<1> DEFINE e == curenv[c]
           st == [env_status EXCEPT ![e] = "FREE"]
<1>0. /\ e \in Slots /\ env_status \in [Slots -> Status]
      /\ env_status[e] \in {"RUNNING", "DYING"} /\ env_cr3[e] # 0
  BY HandlingLib
<1>1. env_free(e) /\ sched_yield(c, st, NULL, BootDir)
  BY <1>0 DEF FreeCurenv
<1>2. /\ env_cr3' = [env_cr3 EXCEPT ![e] = 0]
      /\ env_gen' = env_gen /\ env_ipc_recving' = env_ipc_recving
      /\ DOMAIN env_cr3 = Slots
  BY <1>1 DEF env_free, AnyInv, TableType
<1>3. st \in [Slots -> Status]
  BY <1>0 DEF Status
<1>4. Ready(c, st, NULL)
  BY <1>0, HandlingLib DEF Ready
<1>5. TableAgrees(c, st, NULL, BootDir)
  BY <1>0, <1>2, HandlingLib
     DEF TableAgrees, LibInv, OwnDirectory, FreeIsFree, ReceiverIsBlocked
<1>6. Leaves(c, st, NULL, BootDir)
  BY <1>1 DEF Leaves
<1> HIDE DEF st
<1> QED
  BY <1>3, <1>4, <1>5, <1>6, HandlingLib, HandlerLib

\* sys_ipc_recv blocks curenv.
LEMMA RecvLib ==
  ASSUME AnyInv, LibInv, AnyInv', NEW c \in CPUs, NEW e \in Slots,
         env_status[e] = "RUNNING", sys_ipc_recv(c, e)
  PROVE  LibInv' /\ ZombieStep
<1> DEFINE st == [env_status EXCEPT ![e] = "NOT_RUNNABLE"]
<1>0. /\ mode[c] = "kernel" /\ e = curenv[c] /\ e # NULL
      /\ Leaves(c, st, e, cr3[c])
      /\ env_ipc_recving' = [env_ipc_recving EXCEPT ![e] = TRUE]
      /\ UNCHANGED <<env_gen, env_cr3>>
  BY NullOutside DEF sys_ipc_recv, Handling, Leaves
<1>1. env_status \in [Slots -> Status] /\ st \in [Slots -> Status]
      /\ DOMAIN env_ipc_recving = Slots
  BY <1>0, HandlingLib DEF Status, AnyInv, TableType
<1>2. Ready(c, st, e)
  BY <1>0, <1>1, HandlingLib DEF Ready
<1>3. TableAgrees(c, st, e, cr3[c])
  BY <1>0, <1>1, HandlingLib
     DEF TableAgrees, LibInv, OwnDirectory, FreeIsFree, ReceiverIsBlocked, EnvId
<1> HIDE DEF st
<1> QED
  BY <1>0, <1>1, <1>2, <1>3, HandlingLib, HandlerLib

\* Every handler, when the status and destroy calls are used as the library
\* uses them.
LEMMA DispatchLib ==
  ASSUME Users = "library", AnyInv, LibInv, AnyInv', NEW c \in CPUs,
         trap_dispatch(c)
  PROVE  LibInv' /\ ZombieStep
<1> DEFINE Goal == LibInv' /\ ZombieStep
<1>1. ASSUME NEW e \in Slots, Handling(c, e)
      PROVE  /\ mode[c] = "kernel" /\ e = curenv[c] /\ curenv[c] # NULL
             /\ env_status[e] = "RUNNING" /\ env_cr3[e] # 0
             /\ DOMAIN env_status = Slots /\ DOMAIN env_cr3 = Slots
             /\ DOMAIN env_gen = Slots /\ DOMAIN env_ipc_recving = Slots
  BY <1>1, NullOutside, HandlingLib DEF Handling, IsZombie, AnyInv, TableType
<1>2. ASSUME NEW e \in Slots, interrupt(c, e) PROVE Goal
  <2>1. Handling(c, e) /\ Leaves(c, env_status, e, cr3[c]) /\ tableUnchanged
    BY <1>2 DEF interrupt, Leaves
  <2> QED
    BY <1>1, <2>1, QuietLib
<1>3. ASSUME NEW e \in Slots, fault(c, e) PROVE Goal
  BY <1>1, <1>3, FreeCurenvLib DEF fault
<1>4. ASSUME NEW e \in Slots, other_trap(c, e) PROVE Goal
  <2>1. Handling(c, e) /\ trap_return(c, env_status) /\ tableUnchanged
    BY <1>4 DEF other_trap
  <2>2. Leaves(c, env_status, curenv[c], cr3[c])
    BY <1>1, <2>1, ReturnLeaves
  <2> QED
    BY <1>1, <2>1, <2>2, QuietLib
<1>5. ASSUME NEW e \in Slots, sys_exofork(c, e) PROVE Goal
  <2> DEFINE h == Head(env_free_list)
  <2>1. /\ Handling(c, e) /\ env_free_list # <<>>
        /\ env_alloc(EnvId(e), <<e, allocs[e]>>)
        /\ trap_return(c, [env_status EXCEPT ![h] = "NOT_RUNNABLE"])
    BY <1>5 DEF sys_exofork
  <2>2. h \in Slots /\ env_cr3[h] = 0
    <3>1. env_free_list \in Seq(Slots)
      BY DEF AnyInv, TableType
    <3>2. h = env_free_list[1] /\ 1 \in 1..Len(env_free_list) /\ h \in Slots
      BY <2>1, <3>1
    <3> QED
      BY <3>2 DEF AnyInv, FreeListIntegrity
  <2>3. env_status[h] = "FREE"
    BY <2>2 DEF LibInv, FreeIsFree
  <2>4. /\ env_gen' = [env_gen EXCEPT ![h] = NextGeneration(env_gen[h])]
        /\ env_cr3' = [env_cr3 EXCEPT ![h] = NextGeneration(env_gen[h])]
        /\ env_ipc_recving' = [env_ipc_recving EXCEPT ![h] = FALSE]
    BY <2>1 DEF env_alloc
  <2>5. NextGeneration(env_gen[h]) # 0
    <3>1. env_gen[h] \in 0..(GENERATIONS - 1)
      BY <2>2 DEF AnyInv, TableType
    <3> QED
      BY <3>1, GenerationNonzero
  <2>6. "NOT_RUNNABLE" \in Status
    BY DEF Status
  <2> HIDE DEF h
  <2> QED
    BY <1>1, <2>1, <2>2, <2>3, <2>4, <2>5, <2>6, OtherLib
<1>6. ASSUME NEW e \in Slots, sys_ipc_recv(c, e) PROVE Goal
  BY <1>1, <1>6, RecvLib DEF sys_ipc_recv
<1>7. ASSUME NEW e \in Slots, NEW x \in Slots, sys_env_destroy(c, e, x) PROVE Goal
  <2>1. Handling(c, e) /\ envid2env(e, x, TRUE) /\ env_status[x] # "DYING"
    BY <1>7 DEF sys_env_destroy, DestroyWanted
  <2>2. CASE x = e
    <3>1. FreeCurenv(c)
      BY <1>7, <2>2 DEF sys_env_destroy
    <3> QED
      BY <1>1, <2>1, <3>1, FreeCurenvLib
  <2>3. CASE x # e /\ env_status[x] = "RUNNING"
    <3>1. trap_return(c, [env_status EXCEPT ![x] = "DYING"]) /\ tableUnchanged
      BY <1>7, <2>3 DEF sys_env_destroy, RunsElsewhere
    <3> QED
      BY <1>1, <2>1, <2>3, <3>1, ZombieLib
  <2>4. CASE x # e /\ env_status[x] # "RUNNING"
    <3>1. env_status[x] # "FREE" /\ env_cr3[x] # 0
      BY <2>1, <2>4 DEF envid2env, LibInv, FreeIsFree
    <3>2. env_free(x) /\ trap_return(c, [env_status EXCEPT ![x] = "FREE"])
      BY <1>7, <2>4, <3>1 DEF sys_env_destroy, RunsElsewhere
    <3>3. /\ env_cr3' = [env_cr3 EXCEPT ![x] = 0]
          /\ env_gen' = env_gen /\ env_ipc_recving' = env_ipc_recving
      BY <3>2 DEF env_free
    <3>4. "FREE" \in Status
      BY DEF Status
    <3> QED
      BY <1>1, <2>1, <2>4, <3>2, <3>3, <3>4, OtherLib
  <2> QED
    BY <2>2, <2>3, <2>4
<1>8. ASSUME NEW e \in Slots, NEW x \in Slots, sys_ipc_try_send(c, e, x)
      PROVE  Goal
  <2>1. Handling(c, e) /\ envid2env(e, x, FALSE) /\ env_ipc_recving[x]
    BY <1>8 DEF sys_ipc_try_send
  <2>2. env_status[x] = "NOT_RUNNABLE" /\ x # e
    BY <1>1, <2>1 DEF envid2env, LibInv, ReceiverIsBlocked
  <2>3. /\ env_ipc_recving' = [env_ipc_recving EXCEPT ![x] = FALSE]
        /\ trap_return(c, [env_status EXCEPT ![x] = "RUNNABLE"])
        /\ env_gen' = env_gen /\ env_cr3' = env_cr3
    BY <1>8, <2>2 DEF sys_ipc_try_send
  <2>4. env_cr3[x] \in {0, env_gen[x]} /\ env_cr3[x] # 0
    BY <2>2 DEF LibInv, OwnDirectory, FreeIsFree
  <2>5. "RUNNABLE" \in Status
    BY DEF Status
  <2> QED
    BY <1>1, <2>1, <2>2, <2>3, <2>4, <2>5, OtherLib
<1>9. ASSUME NEW e \in Slots, NEW x \in Slots, NEW s \in Status,
             sys_env_set_status(c, e, x, s)
      PROVE  Goal
  <2>1. /\ Handling(c, e) /\ s = "RUNNABLE"
        /\ env_status[x] = "NOT_RUNNABLE" /\ ~env_ipc_recving[x]
        /\ trap_return(c, [env_status EXCEPT ![x] = s]) /\ tableUnchanged
    BY <1>9 DEF sys_env_set_status, StatusWanted
  <2>2. env_cr3[x] \in {0, env_gen[x]} /\ env_cr3[x] # 0
    BY <2>1 DEF LibInv, OwnDirectory, FreeIsFree
  <2>3. /\ env_gen' = env_gen /\ env_cr3' = env_cr3
        /\ env_ipc_recving' = env_ipc_recving
    BY <2>1 DEF tableUnchanged
  <2> QED
    BY <1>1, <2>1, <2>2, <2>3, OtherLib
<1>10. ASSUME NEW e \in Slots, page_fault(c, e) PROVE Goal
  <2>1. Handling(c, e) /\ Leaves(c, env_status, e, cr3[c]) /\ tableUnchanged
    BY <1>1, <1>10 DEF page_fault, Leaves
  <2> QED
    BY <1>1, <2>1, QuietLib
<1> QED
  BY <1>2, <1>3, <1>4, <1>5, <1>6, <1>7, <1>8, <1>9, <1>10 DEF trap_dispatch

-----------------------------------------------------------------------------
\* A CPU goes from one place to another, outside the kernel or into it.
LEMMA MoveLib ==
  ASSUME AnyInv, LibInv, NEW c \in CPUs, NEW m,
         mode[c] \notin {"boot", "monitor"},
         m \in {"mp_main", "spin", "kernel", "user"},
         mode' = [mode EXCEPT ![c] = m],
         UNCHANGED <<envVars, curenv, panicstr, boot_envs>>,
         \A d \in CPUs \ {c} : cr3'[d] = cr3[d] /\ cpu_status'[d] = cpu_status[d],
         cpu_status'[c] = "UNUSED" <=> m = "mp_main",
         m = "mp_main" => curenv[c] = NULL /\ mode[BSP] = "boot",
         m # "mp_main" /\ curenv[c] # NULL => cr3'[c] = EnvId(curenv[c])
  PROVE  LibInv' /\ ZombieStep
<1>0. /\ BSP \in CPUs
      /\ mode \in [CPUs -> Modes]
  BY ConstantsAssumption DEF BSP, CPUs, AnyInv, CpuInv, CpuType
<1>1. /\ \A d \in CPUs \ {c} : mode'[d] = mode[d]
      /\ mode'[c] = m
      /\ UNCHANGED <<env_status, env_gen, env_cr3, env_ipc_recving, env_free_list>>
  BY <1>0 DEF envVars
<1>2. NoSharedEnv' /\ ReceiverIsBlocked' /\ FreeIsFree' /\ OwnDirectory'
  BY <1>1 DEF LibInv, NoSharedEnv, ReceiverIsBlocked, FreeIsFree, OwnDirectory
<1>3. RunningIsCurrent'
  BY <1>1 DEF LibInv, RunningIsCurrent
<1>4. ~panicstr' /\ IdleCpus' /\ NoneStopped' /\ MonitorQuiet'
  BY <1>1 DEF LibInv, IdleCpus, NoneStopped, MonitorQuiet, NothingToRun
<1>5. LoadedOwn'
  BY <1>1 DEF LibInv, LoadedOwn, EnvId
<1>6. Booting'
  BY <1>0, <1>1 DEF LibInv, Booting
<1>7. ZombieStep
  BY <1>1 DEF ZombieStep
<1> QED
  BY <1>2, <1>3, <1>4, <1>5, <1>6, <1>7 DEF LibInv

\* An ENV_CREATE finds a free slot.
LEMMA CreateLib ==
  ASSUME AnyInv, LibInv, env_create
  PROVE  LibInv' /\ ZombieStep
<1> DEFINE h == Head(env_free_list)
<1>1. /\ BSP \in CPUs /\ mode[BSP] = "boot" /\ kernel_lock = BSP
      /\ env_free_list \in Seq(Slots) /\ boot_envs \in Nat \ {0}
      /\ curenv \in [CPUs -> Slots \cup {NULL}]
  BY ConstantsAssumption
     DEF BSP, CPUs, env_create, AnyInv, CpuInv, CpuType, LockHolder, TableType,
         BootType
<1>2. Len(env_free_list) = (NENV - NBOOT) + boot_envs /\ Len(env_free_list) # 0
  BY <1>1, ConstantsAssumption DEF LibInv, Booting
<1>3. /\ env_free_list # <<>> /\ h = env_free_list[1] /\ h \in Slots
      /\ 1 \in 1..Len(env_free_list)
      /\ Len(Tail(env_free_list)) = Len(env_free_list) - 1
  BY <1>1, <1>2
<1>4. env_cr3[h] = 0 /\ env_status[h] = "FREE"
  BY <1>3 DEF AnyInv, FreeListIntegrity, LibInv, FreeIsFree
<1>5. /\ env_alloc(NoParent, NoParent) /\ boot_envs' = boot_envs - 1
      /\ env_status' = [env_status EXCEPT ![h] = "RUNNABLE"]
      /\ UNCHANGED <<mode, cpu_status, curenv, cr3, panicstr>>
  BY <1>3 DEF env_create, cpuVars
<1>5a. NextGeneration(env_gen[h]) # 0
  <2>1. env_gen[h] \in 0..(GENERATIONS - 1)
    BY <1>3 DEF AnyInv, TableType
  <2> QED
    BY <2>1, GenerationNonzero
<1>6. /\ \A e \in Slots \ {h} : /\ env_status'[e] = env_status[e]
                                /\ env_gen'[e] = env_gen[e]
                                /\ env_cr3'[e] = env_cr3[e]
                                /\ env_ipc_recving'[e] = env_ipc_recving[e]
      /\ env_status'[h] = "RUNNABLE" /\ ~env_ipc_recving'[h]
      /\ env_cr3'[h] = env_gen'[h] /\ env_cr3'[h] # 0
      /\ env_free_list' = Tail(env_free_list)
  BY <1>3, <1>5, <1>5a DEF env_alloc, AnyInv, TableType, StatusType
<1> HIDE DEF h
<1>7. NoSharedEnv' /\ ~panicstr' /\ IdleCpus' /\ NoneStopped'
  BY <1>5 DEF LibInv, NoSharedEnv, IdleCpus, NoneStopped
<1>8. ReceiverIsBlocked' /\ FreeIsFree' /\ OwnDirectory'
  BY <1>6 DEF LibInv, ReceiverIsBlocked, FreeIsFree, OwnDirectory
<1>9. \A d \in CPUs : mode[d] # "monitor"
  BY <1>1, AloneInKernel
<1>10. RunningIsCurrent' /\ MonitorQuiet'
  BY <1>4, <1>5, <1>6, <1>9 DEF LibInv, RunningIsCurrent, MonitorQuiet
<1>11. LoadedOwn'
  <2>1. \A d \in CPUs : curenv[d] # NULL => curenv[d] \in Slots \ {h}
    BY <1>1, <1>4, <1>9 DEF LibInv, RunningIsCurrent
  <2> QED
    BY <1>5, <1>6, <2>1 DEF LibInv, LoadedOwn, EnvId
<1>12. Booting'
  BY <1>1, <1>2, <1>3, <1>5, <1>6, ConstantsAssumption DEF LibInv, Booting
<1>13. ZombieStep
  BY <1>4, <1>6 DEF ZombieStep
<1> QED
  BY <1>7, <1>8, <1>10, <1>11, <1>12, <1>13 DEF LibInv

\* i386_init's own sched_yield
LEMMA BootYieldLib ==
  ASSUME AnyInv, LibInv, AnyInv', boot_yield
  PROVE  LibInv' /\ ZombieStep
<1>1. /\ BSP \in CPUs /\ mode[BSP] = "boot" /\ kernel_lock = BSP
      /\ env_status \in [Slots -> Status]
      /\ curenv \in [CPUs -> Slots \cup {NULL}] /\ curenv[BSP] = NULL
      /\ \A d \in CPUs : mode[d] \notin {"off", "mp_main"}
  BY ConstantsAssumption
     DEF BSP, CPUs, boot_yield, BootApsDone, AnyInv, CpuInv, CpuType, LockHolder,
         StatusType, LibInv, IdleCpus, Booting
<1>2. \A d \in CPUs : mode[d] # "monitor"
  BY <1>1, AloneInKernel
<1>3. Ready(BSP, env_status, NULL)
  BY <1>1, <1>2, NullOutside DEF Ready, LibInv, RunningIsCurrent
<1>4. TableAgrees(BSP, env_status, NULL, BootDir)
  BY DEF boot_yield, TableAgrees, LibInv, OwnDirectory, FreeIsFree,
         ReceiverIsBlocked
<1>5. Leaves(BSP, env_status, NULL, BootDir)
  BY DEF boot_yield, Leaves
<1> QED
  BY <1>1, <1>3, <1>4, <1>5, HandlerLib

LEMMA InitLib == Init => LibInv
<1> SUFFICES ASSUME Init PROVE LibInv
  OBVIOUS
<1>1. BSP \in CPUs
  BY ConstantsAssumption DEF BSP, CPUs
<1>2. /\ NoSharedEnv /\ RunningIsCurrent /\ ReceiverIsBlocked /\ FreeIsFree
      /\ ~panicstr /\ IdleCpus /\ OwnDirectory
  BY NullOutside
     DEF Init, NoSharedEnv, RunningIsCurrent, ReceiverIsBlocked, FreeIsFree,
         IdleCpus, OwnDirectory
<1>3. LoadedOwn /\ MonitorQuiet /\ NoneStopped
  BY DEF Init, LoadedOwn, MonitorQuiet, NoneStopped
<1>4. Len(env_free_list) = NENV /\ boot_envs = NBOOT
  BY ConstantsAssumption DEF Init
<1>5. Booting
  BY <1>1, <1>4, ConstantsAssumption DEF Init, Booting
<1> QED
  BY <1>2, <1>3, <1>5 DEF LibInv

\* One step of the kernel keeps the invariant.
LEMMA NextLib ==
  ASSUME Users = "library", AnyInv, LibInv, AnyInv', [Next]_vars
  PROVE  LibInv' /\ ZombieStep
<1> DEFINE Goal == LibInv' /\ ZombieStep
<1>0. CASE UNCHANGED vars
  <2>1. UNCHANGED <<env_status, env_gen, env_cr3, env_ipc_recving, env_free_list,
                    boot_envs, mode, cpu_status, curenv, cr3, panicstr>>
    BY <1>0 DEF vars, envVars, cpuVars
  <2> QED
    BY <2>1 DEF LibInv, NoSharedEnv, RunningIsCurrent, ReceiverIsBlocked,
       FreeIsFree, IdleCpus, OwnDirectory, LoadedOwn, MonitorQuiet, NothingToRun,
       Booting, NoneStopped, EnvId, ZombieStep
<1>1. CASE env_create
  BY <1>1, CreateLib
<1>2. CASE boot_yield
  BY <1>2, BootYieldLib
<1>3. ASSUME NEW c \in CPUs, lapic_startap(c) PROVE Goal
  <2>1. /\ mode[BSP] = "boot" /\ mode[c] = "off" /\ cpu_status[c] = "UNUSED"
        /\ curenv[c] = NULL
    BY <1>3 DEF lapic_startap, LibInv, IdleCpus, Booting
  <2> QED
    BY <1>3, <2>1, MoveLib DEF lapic_startap
<1>4. ASSUME NEW c \in CPUs, mp_main(c) PROVE Goal
  <2>1. /\ mode[c] = "mp_main" /\ curenv[c] = NULL
        /\ cpu_status' = [cpu_status EXCEPT ![c] = "STARTED"]
        /\ DOMAIN cpu_status = CPUs
    BY <1>4 DEF mp_main, LibInv, IdleCpus, AnyInv, CpuInv, CpuType
  <2> QED
    BY <1>4, <2>1, MoveLib DEF mp_main
<1>5. ASSUME NEW c \in CPUs, trap_enter(c) PROVE Goal
  <2>1. /\ mode[c] \in {"user", "halt"}
        /\ mode' = [mode EXCEPT ![c] = "spin"]
        /\ cpu_status' = [cpu_status EXCEPT ![c] = "STARTED"]
        /\ DOMAIN cpu_status = CPUs
    BY <1>5 DEF trap_enter, LibInv, AnyInv, CpuInv, CpuType
  <2>2. curenv[c] # NULL => cr3[c] = EnvId(curenv[c])
    BY <2>1 DEF LibInv, LoadedOwn, IdleCpus
  <2> QED
    BY <1>5, <2>1, <2>2, MoveLib DEF trap_enter
<1>6. ASSUME NEW c \in CPUs, lock_kernel(c) PROVE Goal
  <2>1. /\ mode[c] = "spin" /\ cpu_status[c] # "UNUSED"
        /\ curenv[c] # NULL => cr3[c] = EnvId(curenv[c])
    BY <1>6 DEF lock_kernel, LibInv, LoadedOwn, Booting
  <2> QED
    BY <1>6, <2>1, MoveLib DEF lock_kernel
<1>7. ASSUME NEW c \in CPUs, idle_yield(c) PROVE Goal
  BY <1>7, QuietLib DEF idle_yield, Leaves, tableUnchanged
<1>8. ASSUME NEW c \in CPUs, reap_zombie(c) PROVE Goal
  BY <1>8, FreeCurenvLib DEF reap_zombie
<1>9. ASSUME NEW c \in CPUs, lcr3_pop(c) PROVE Goal
  <2>1. /\ mode[c] = "lcr3" /\ curenv[c] \in Slots /\ cpu_status[c] # "UNUSED"
        /\ cr3' = [cr3 EXCEPT ![c] = <<env_cr3[curenv[c]], curenv[c]>>]
        /\ DOMAIN cr3 = CPUs
    BY <1>9 DEF lcr3_pop, AnyInv, CpuInv, CpuType, HasEnv, LibInv, Booting
  <2>2. env_cr3[curenv[c]] = env_gen[curenv[c]]
    BY <2>1 DEF LibInv, RunningIsCurrent, FreeIsFree, OwnDirectory
  <2> QED
    BY <1>9, <2>1, <2>2, MoveLib DEF lcr3_pop, EnvId
<1>10. ASSUME NEW c \in CPUs, trap_dispatch(c) PROVE Goal
  BY <1>10, DispatchLib
<1> QED
  BY <1>0, <1>1, <1>2, <1>3, <1>4, <1>5, <1>6, <1>7, <1>8, <1>9, <1>10 DEF Next

LEMMA LibInvariance ==
  ASSUME Users = "library" PROVE Spec => [](AnyInv /\ LibInv)
<1>1. Init => AnyInv /\ LibInv
  BY InitAny, InitLib
<1>2. (AnyInv /\ LibInv) /\ [Next]_vars => (AnyInv /\ LibInv)'
  BY NextAny, NextLib
<1> QED
  BY <1>1, <1>2, PTL DEF Spec
-----------------------------------------------------------------------------
\* No environment is current on two CPUs: sched_yield and env_run never choose
\* one that another CPU has, when environments start only the children they
\* made.
THEOREM NoSharing == Users = "library" => (Spec => []NoSharedEnv)
<1> SUFFICES ASSUME Users = "library" PROVE Spec => []NoSharedEnv
  OBVIOUS
<1>1. LibInv => NoSharedEnv
  BY DEF LibInv
<1> QED
  BY <1>1, LibInvariance, PTL

\* RUNNING and DYING are the statuses of the environments some CPU has.
THEOREM StatusMatchesCpus == Users = "library" => (Spec => []RunningIsCurrent)
<1> SUFFICES ASSUME Users = "library" PROVE Spec => []RunningIsCurrent
  OBVIOUS
<1>1. LibInv => RunningIsCurrent
  BY DEF LibInv
<1> QED
  BY <1>1, LibInvariance, PTL

\* A FREE slot has no page directory, and the other slots have one.
THEOREM FreeMeansFree == Users = "library" => (Spec => []FreeIsFree)
<1> SUFFICES ASSUME Users = "library" PROVE Spec => []FreeIsFree
  OBVIOUS
<1>1. LibInv => FreeIsFree
  BY DEF LibInv
<1> QED
  BY <1>1, LibInvariance, PTL

\* A receiver that sys_ipc_try_send wakes up was blocked.
THEOREM WokenWasBlocked == Users = "library" => (Spec => []ReceiverIsBlocked)
<1> SUFFICES ASSUME Users = "library" PROVE Spec => []ReceiverIsBlocked
  OBVIOUS
<1>1. LibInv => ReceiverIsBlocked
  BY DEF LibInv
<1> QED
  BY <1>1, LibInvariance, PTL

\* User mode is always entered in the environment's own, live address space,
\* although env_run loads it after it has given the lock back.
THEOREM OwnAddressSpace == Users = "library" => (Spec => []UserAddressSpace)
<1> SUFFICES ASSUME Users = "library" PROVE Spec => []UserAddressSpace
  OBVIOUS
<1>1. AnyInv /\ LibInv => UserAddressSpace
  <2> SUFFICES ASSUME AnyInv, LibInv, NEW c \in CPUs, mode[c] = "user"
               PROVE  /\ curenv[c] # NULL
                      /\ cr3[c] = EnvId(curenv[c])
                      /\ env_cr3[curenv[c]] = env_gen[curenv[c]]
    BY DEF UserAddressSpace
  <2>1. curenv[c] \in Slots /\ curenv[c] # NULL
    BY DEF AnyInv, CpuInv, CpuType, HasEnv
  <2>2. cr3[c] = EnvId(curenv[c])
    BY <2>1 DEF LibInv, LoadedOwn
  <2>3. env_cr3[curenv[c]] = env_gen[curenv[c]]
    BY <2>1 DEF LibInv, RunningIsCurrent, FreeIsFree, OwnDirectory
  <2> QED
    BY <2>1, <2>2, <2>3
<1> QED
  BY <1>1, LibInvariance, PTL

\* No panic, and no failing assertion of trap().
THEOREM KernelNeverPanics == Users = "library" => (Spec => []NoPanic)
<1> SUFFICES ASSUME Users = "library" PROVE Spec => []NoPanic
  OBVIOUS
<1>1. AnyInv /\ LibInv => NoPanic
  BY DEF AnyInv, CpuInv, HasEnv, LibInv, NoPanic
<1> QED
  BY <1>1, LibInvariance, PTL

\* A CPU keeps the lock and stays in the monitor only when nothing is left to
\* run anywhere.
THEOREM MonitorIsLast == Users = "library" => (Spec => []GiveUpOnlyWhenIdle)
<1> SUFFICES ASSUME Users = "library" PROVE Spec => []GiveUpOnlyWhenIdle
  OBVIOUS
<1>1. AnyInv /\ LibInv => GiveUpOnlyWhenIdle
  <2> SUFFICES ASSUME AnyInv, LibInv, NEW c \in CPUs, mode[c] = "monitor"
               PROVE  /\ \A e \in Slots : env_status[e] \in {"FREE", "NOT_RUNNABLE"}
                      /\ \A d \in CPUs \ {c} :
                           mode[d] \in {"halt", "spin"} /\ curenv[d] = NULL
    BY DEF GiveUpOnlyWhenIdle
  <2>1. \A e \in Slots : env_status[e] \in {"FREE", "NOT_RUNNABLE"}
    BY DEF LibInv, MonitorQuiet, NothingToRun
  <2>2. kernel_lock = c /\ BSP \in CPUs
    BY ConstantsAssumption DEF AnyInv, CpuInv, LockHolder, BSP, CPUs
  <2>3. \A d \in CPUs \ {c} : mode[d] \notin {"boot", "kernel", "monitor"}
    BY <2>2, AloneInKernel
  <2>4. \A d \in CPUs \ {c} : curenv[d] = NULL
    BY <2>1, <2>3 DEF AnyInv, CpuInv, CpuType, LibInv, RunningIsCurrent
  <2>5. mode[BSP] # "boot"
    BY <2>2, <2>3
  <2>6. \A d \in CPUs : mode[d] \in Modes \ {"off", "mp_main", "hlt"}
    BY <2>5 DEF AnyInv, CpuInv, CpuType, LibInv, Booting, NoneStopped
  <2>7. \A d \in CPUs \ {c} : mode[d] \notin {"lcr3", "user"}
    BY <2>4 DEF AnyInv, CpuInv, HasEnv
  <2> QED
    BY <2>1, <2>3, <2>4, <2>6, <2>7 DEF Modes
<1> QED
  BY <1>1, LibInvariance, PTL

\* A zombie is freed only by a trap of the CPU that runs it.
THEOREM ZombiesWait == Users = "library" => (Spec => ZombieStaysUntilItTraps)
<1> SUFFICES ASSUME Users = "library" PROVE Spec => ZombieStaysUntilItTraps
  OBVIOUS
<1>1. (AnyInv /\ LibInv) /\ (AnyInv /\ LibInv)' /\ [Next]_vars => [ZombieStep]_vars
  BY NextLib
<1>2. [][ZombieStep]_vars => ZombieStaysUntilItTraps
  BY DEF ZombieStep, ZombieStaysUntilItTraps
<1> QED
  BY <1>1, <1>2, LibInvariance, PTL DEF Spec
==============================================================================
