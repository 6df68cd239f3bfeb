------------------------------ MODULE SpinLock ------------------------------
(***************************************************************************)
(* The spin lock of kern/spinlock.c, one step per memory access that       *)
(* another CPU can see, DEBUG_SPINLOCK being on: the word "locked", taken  *)
(* and given back with xchg, and the record "cpu" of who took it, written  *)
(* after the one and cleared before the other.  spin_lock and spin_unlock  *)
(* first ask holding(), which reads the two words without any lock.        *)
(***************************************************************************)
CONSTANTS CPUs, NULL

ASSUME SpinLockAssumption == NULL \notin CPUs

VARIABLES
  locked,   \* lk->locked
  cpu,      \* lk->cpu: who took the lock, or NULL
  pc

vars == <<locked, cpu, pc>>

\* Outside ("out") and inside ("in") the critical section; the steps of
\* spin_lock and of spin_unlock; "panic" for their panics.
Pc == {"out", "holds_locked", "holds_cpu", "xchg", "record",
       "in", "check_locked", "check_cpu", "clear", "release", "panic"}

\* __spin_initlock
Init ==
  /\ locked = 0
  /\ cpu = NULL
  /\ pc = [c \in CPUs |-> "out"]

Goto(c, l) == pc' = [pc EXCEPT ![c] = l]

\* spin_lock is called, by a CPU that is not in the kernel.
spin_lock(c) ==
  /\ pc[c] = "out"
  /\ Goto(c, "holds_locked")
  /\ UNCHANGED <<locked, cpu>>

\* holding(lk) in spin_lock: first lk->locked, then, if it is set, lk->cpu
holding_locked(c) ==
  /\ pc[c] = "holds_locked"
  /\ Goto(c, IF locked = 1 THEN "holds_cpu" ELSE "xchg")
  /\ UNCHANGED <<locked, cpu>>

holding_cpu(c) ==
  /\ pc[c] = "holds_cpu"
  /\ Goto(c, IF cpu = c THEN "panic" ELSE "xchg")
  /\ UNCHANGED <<locked, cpu>>

\* Mutant: whoever writes the word thinks it has the lock.
xchg_lock_Blind(c) ==
  /\ pc[c] = "xchg"
  /\ Goto(c, "record")
  /\ locked' = 1
  /\ UNCHANGED cpu

\* One turn of while (xchg(&lk->locked, 1) != 0)
xchg_lock(c) ==
  /\ pc[c] = "xchg"
  /\ Goto(c, IF locked = 0 THEN "record" ELSE "xchg")
  /\ locked' = 1
  /\ UNCHANGED cpu

\* lk->cpu = thiscpu, and spin_lock returns
record_cpu(c) ==
  /\ pc[c] = "record"
  /\ Goto(c, "in")
  /\ cpu' = c
  /\ UNCHANGED locked

\* spin_unlock is called, by the CPU that is in the kernel.
spin_unlock(c) ==
  /\ pc[c] = "in"
  /\ Goto(c, "check_locked")
  /\ UNCHANGED <<locked, cpu>>

\* holding(lk) in spin_unlock
unlock_holding_locked(c) ==
  /\ pc[c] = "check_locked"
  /\ Goto(c, IF locked = 1 THEN "check_cpu" ELSE "panic")
  /\ UNCHANGED <<locked, cpu>>

unlock_holding_cpu(c) ==
  /\ pc[c] = "check_cpu"
  /\ Goto(c, IF cpu = c THEN "clear" ELSE "panic")
  /\ UNCHANGED <<locked, cpu>>

\* Mutant: the record of the holder stays behind.
clear_cpu_Keep(c) ==
  /\ pc[c] = "clear"
  /\ Goto(c, "release")
  /\ UNCHANGED <<locked, cpu>>

\* lk->cpu = 0
clear_cpu(c) ==
  /\ pc[c] = "clear"
  /\ Goto(c, "release")
  /\ cpu' = NULL
  /\ UNCHANGED locked

\* Mutant: the word stays set.
xchg_unlock_Forgotten(c) ==
  /\ pc[c] = "release"
  /\ Goto(c, "out")
  /\ UNCHANGED <<locked, cpu>>

\* xchg(&lk->locked, 0)
xchg_unlock(c) ==
  /\ pc[c] = "release"
  /\ Goto(c, "out")
  /\ locked' = 0
  /\ UNCHANGED cpu

\* A step of a CPU inside spin_lock or spin_unlock
Step(c) ==
  \/ holding_locked(c) \/ holding_cpu(c) \/ xchg_lock(c) \/ record_cpu(c)
  \/ unlock_holding_locked(c) \/ unlock_holding_cpu(c)
  \/ clear_cpu(c) \/ xchg_unlock(c)

Next == \E c \in CPUs : spin_lock(c) \/ spin_unlock(c) \/ Step(c)

Spec == Init /\ [][Next]_vars

\* A CPU runs on, and leaves the kernel again.
FairSpec == Spec /\ \A c \in CPUs : WF_vars(Step(c)) /\ WF_vars(spin_unlock(c))
-----------------------------------------------------------------------------
TypeOK ==
  /\ locked \in {0, 1}
  /\ cpu \in CPUs \cup {NULL}
  /\ pc \in [CPUs -> Pc]

\* The CPUs that have won the xchg and not yet undone it.
Owns(c) == pc[c] \in {"record", "in", "check_locked", "check_cpu", "clear", "release"}

\* At most one CPU is between the xchg that takes the lock and the one that
\* gives it back.
MutualExclusion == \A c, d \in CPUs : Owns(c) /\ Owns(d) => c = d

\* holding() is right although it reads two words that another CPU is changing:
\* spin_lock never panics with "already holding", nor spin_unlock with
\* "not held".
NoFalsePanic == \A c \in CPUs : pc[c] # "panic"

\* The lock word and the record of its holder, against where the CPUs are.
LockWords ==
  /\ \A c \in CPUs : Owns(c) => locked = 1
  /\ locked = 1 => \E c \in CPUs : Owns(c)
  /\ \A c \in CPUs :
       cpu = c <=> pc[c] \in {"in", "check_locked", "check_cpu", "clear"}

\* The inductive invariant
Inv == TypeOK /\ MutualExclusion /\ NoFalsePanic /\ LockWords

\* The lock implements Mutex: it changes hands at the two xchgs.
Holder == IF \E c \in CPUs : Owns(c)
            THEN CHOOSE c \in CPUs : Owns(c) ELSE NULL

Abstract == INSTANCE Mutex WITH holder <- Holder

Implements == Abstract!MutexSpec

\* Somebody gets in: CPUs spinning on the lock cannot keep each other out.
SomeoneEnters ==
  (\E c \in CPUs : pc[c] = "xchg") ~> (\E c \in CPUs : pc[c] = "in")
=============================================================================
