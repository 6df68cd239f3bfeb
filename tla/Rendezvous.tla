----------------------------- MODULE Rendezvous -----------------------------
(***************************************************************************)
(* What the IPC of JOS promises (the comments above sys_ipc_try_send and   *)
(* sys_ipc_recv in kern/syscall.c and ipc_recv in lib/ipc.c), as far as    *)
(* sender and value go: a receiver waits, one message is delivered to it,  *)
(* and it is that message, whole and once, that its ipc_recv returns.      *)
(***************************************************************************)
CONSTANTS Receivers, Messages, Idle, Waiting, None

\* box[r] is Idle, Waiting or the message delivered and not yet returned;
\* got[r] the message r's last ipc_recv returned, None at first.
VARIABLES box, got

RendezvousInit ==
  /\ box = [r \in Receivers |-> Idle]
  /\ got = [r \in Receivers |-> None]

Wait(r) ==
  /\ box[r] = Idle
  /\ box' = [box EXCEPT ![r] = Waiting]
  /\ UNCHANGED got

Deliver(r, m) ==
  /\ box[r] = Waiting
  /\ box' = [box EXCEPT ![r] = m]
  /\ UNCHANGED got

Take(r) ==
  /\ box[r] \in Messages
  /\ got' = [got EXCEPT ![r] = box[r]]
  /\ box' = [box EXCEPT ![r] = Idle]

\* The receiver is destroyed, and with it what it waited for or was told.
Vanish(r) ==
  /\ box' = [box EXCEPT ![r] = Idle]
  /\ got' = [got EXCEPT ![r] = None]

RendezvousNext ==
  \E r \in Receivers :
    Wait(r) \/ Take(r) \/ Vanish(r) \/ \E m \in Messages : Deliver(r, m)

RendezvousSpec == RendezvousInit /\ [][RendezvousNext]_<<box, got>>
=============================================================================
