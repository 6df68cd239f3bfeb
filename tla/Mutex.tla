-------------------------------- MODULE Mutex --------------------------------
(***************************************************************************)
(* What the kernel expects of kernel_lock: at most one CPU holds it, and   *)
(* only its holder gives it back.                                          *)
(***************************************************************************)
CONSTANTS CPUs, NULL

VARIABLE holder     \* the CPU in the kernel, or NULL

MutexInit == holder = NULL

Acquire(c) == holder = NULL /\ holder' = c

Release(c) == holder = c /\ holder' = NULL

MutexNext == \E c \in CPUs : Acquire(c) \/ Release(c)

MutexSpec == MutexInit /\ [][MutexNext]_holder
=============================================================================
