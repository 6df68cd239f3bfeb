--------------------------- MODULE SpinLock_proofs ---------------------------
(***************************************************************************)
(* Proofs about the spin lock, for any set of CPUs: mutual exclusion, no   *)
(* panic out of holding(), and refinement of Mutex.                        *)
(***************************************************************************)
EXTENDS SpinLock, TLAPS

\* The lock as initialised satisfies the invariant.
LEMMA InitInv == Init => Inv
  BY SpinLockAssumption
     DEF Init, Inv, TypeOK, MutualExclusion, NoFalsePanic, LockWords, Owns, Pc

\* Every memory access of a CPU preserves it.
LEMMA NextInv == Inv /\ [Next]_vars => Inv'
<1> USE SpinLockAssumption
<1> SUFFICES ASSUME Inv, [Next]_vars PROVE Inv'
  OBVIOUS
<1>s. CASE UNCHANGED vars
  BY <1>s DEF Inv, TypeOK, MutualExclusion, NoFalsePanic, LockWords, Owns, vars
<1>n. ASSUME NEW c \in CPUs, spin_lock(c) \/ spin_unlock(c) \/ Step(c) PROVE Inv'
  <2> USE DEF Inv, TypeOK, MutualExclusion, NoFalsePanic, LockWords, Owns, Pc, Goto
  <2>1. CASE spin_lock(c)
    BY <2>1 DEF spin_lock
  <2>2. CASE holding_locked(c)
    BY <2>2 DEF holding_locked
  <2>3. CASE holding_cpu(c)
    BY <2>3 DEF holding_cpu
  <2>4. CASE xchg_lock(c)
    BY <2>4 DEF xchg_lock
  <2>5. CASE record_cpu(c)
    BY <2>5 DEF record_cpu
  <2>6. CASE spin_unlock(c)
    BY <2>6 DEF spin_unlock
  <2>7. CASE unlock_holding_locked(c)
    BY <2>7 DEF unlock_holding_locked
  <2>8. CASE unlock_holding_cpu(c)
    BY <2>8 DEF unlock_holding_cpu
  <2>9. CASE clear_cpu(c)
    BY <2>9 DEF clear_cpu
  <2>10. CASE xchg_unlock(c)
    BY <2>10 DEF xchg_unlock
  <2> QED
    BY <1>n, <2>1, <2>2, <2>3, <2>4, <2>5, <2>6, <2>7, <2>8, <2>9, <2>10 DEF Step
<1> QED
  BY <1>s, <1>n DEF Next

\* The lock words and the program counters of all CPUs stay consistent.
THEOREM Invariance == Spec => []Inv
<1>1. Init => Inv
  BY InitInv
<1>2. Inv /\ [Next]_vars => Inv'
  BY NextInv
<1> QED
  BY <1>1, <1>2, PTL DEF Spec

\* At most one CPU is between the xchg that takes the lock and the one that
\* gives it back.
THEOREM Exclusion == Spec => []MutualExclusion
<1>1. Inv => MutualExclusion
  BY DEF Inv
<1> QED
  BY <1>1, Invariance, PTL

\* Neither of the two panics of kern/spinlock.c is ever reached.
THEOREM NeverPanics == Spec => []NoFalsePanic
<1>1. Inv => NoFalsePanic
  BY DEF Inv
<1> QED
  BY <1>1, Invariance, PTL

\* In a state of the invariant, Holder is the one CPU that owns the lock.
LEMMA HolderIsOwner ==
  ASSUME Inv, NEW c \in CPUs, Owns(c)
  PROVE  Holder = c
<1>1. \A d \in CPUs : Owns(d) => d = c
  BY DEF Inv, MutualExclusion
<1> QED
  BY <1>1 DEF Holder

\* A CPU that neither gains nor loses the lock leaves Holder alone.
LEMMA SameOwnersSameHolder ==
  ASSUME \A d \in CPUs : Owns(d)' <=> Owns(d)
  PROVE  Holder' = Holder
  BY DEF Holder

\* The lock implements Mutex: the xchg of spin_lock that finds the lock free is
\* its Acquire, the xchg of spin_unlock its Release, every other memory access
\* a stutter.
THEOREM Refinement == Spec => Implements
<1> USE SpinLockAssumption
<1>1. Init => Abstract!MutexInit
  BY DEF Init, Abstract!MutexInit, Holder, Owns
<1>2. ASSUME Inv, Inv', [Next]_vars
      PROVE  [Abstract!MutexNext]_Holder
  <2>s. CASE UNCHANGED vars
    <3>1. \A d \in CPUs : Owns(d)' <=> Owns(d)
      BY <2>s DEF Owns, vars
    <3> QED
      BY <3>1, SameOwnersSameHolder
  <2>n. ASSUME NEW c \in CPUs, spin_lock(c) \/ spin_unlock(c) \/ Step(c)
        PROVE  [Abstract!MutexNext]_Holder
    <3>1. CASE xchg_lock(c) /\ locked = 0
      <4>1. \A d \in CPUs : ~Owns(d)
        BY <3>1, <1>2 DEF Inv, LockWords
      <4>2. Owns(c)'
        BY <3>1, <1>2 DEF xchg_lock, Goto, Owns, Inv, TypeOK
      <4>3. \A d \in CPUs : Owns(d)' => d = c
        BY <4>2, <1>2 DEF Inv, MutualExclusion
      <4>5. Holder' = c
        BY <4>2, <4>3 DEF Holder
      <4>4. Holder = NULL
        BY <4>1 DEF Holder
      <4> QED
        BY <4>5, <4>4 DEF Abstract!MutexNext, Abstract!Acquire
    <3>2. CASE xchg_unlock(c)
      <4>1. Holder = c
        BY <3>2, <1>2, HolderIsOwner DEF xchg_unlock, Owns
      <4>2. \A d \in CPUs : ~Owns(d)'
        BY <3>2, <1>2 DEF xchg_unlock, Goto, Owns, Inv, TypeOK, LockWords
      <4>3. Holder' = NULL
        BY <4>2 DEF Holder
      <4> QED
        BY <4>1, <4>3 DEF Abstract!MutexNext, Abstract!Release
    <3>3. CASE ~(xchg_lock(c) /\ locked = 0) /\ ~xchg_unlock(c)
      <4>1. \A d \in CPUs : Owns(d)' <=> Owns(d)
        <5> USE <1>2, <3>3 DEF Inv, TypeOK, NoFalsePanic, Owns, Goto
        <5>1. CASE spin_lock(c) \/ spin_unlock(c)
          BY <5>1 DEF spin_lock, spin_unlock
        <5>2. CASE holding_locked(c) \/ holding_cpu(c)
          BY <5>2 DEF holding_locked, holding_cpu
        <5>3. CASE xchg_lock(c) \/ record_cpu(c) \/ clear_cpu(c)
          BY <5>3 DEF xchg_lock, record_cpu, clear_cpu
        <5>4. CASE unlock_holding_locked(c) \/ unlock_holding_cpu(c)
          BY <5>4 DEF unlock_holding_locked, unlock_holding_cpu
        <5> QED
          BY <2>n, <5>1, <5>2, <5>3, <5>4 DEF Step
      <4> QED
        BY <4>1, SameOwnersSameHolder
    <3> QED
      BY <3>1, <3>2, <3>3
  <2> QED
    BY <1>2, <2>s, <2>n DEF Next
<1> QED
  BY <1>1, <1>2, Invariance, PTL DEF Spec, Implements, Abstract!MutexSpec
==============================================================================
