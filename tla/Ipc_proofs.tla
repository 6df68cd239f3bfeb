----------------------------- MODULE Ipc_proofs -----------------------------
(***************************************************************************)
(* Proofs about the IPC, for any environments, offers, wishes, values and  *)
(* number of generations: its type, that it implements Rendezvous, and     *)
(* that no message gives away a right its sender did not have.             *)
(***************************************************************************)
EXTENDS Ipc, TLAPS

\* What ties the kernel's fields to where a receiver's library code is: a slot
\* is alive when it has a program; an environment marked as receiving is still
\* inside sys_ipc_recv; what it has read of the sender so far is what the
\* kernel left there, and it cannot be delivered to again before it returns.
ReceiverSync ==
  \A e \in Slots :
    /\ alive[e] <=> pc[e] # "free"
    /\ alive[e] /\ env_ipc_recving[e] => pc[e] = "recv"
    /\ pc[e] \in {"perm", "value"} => from_store[e] = env_ipc_from[e]

IInv == TypeOK /\ ReceiverSync

LEMMA InitIInv == Init => IInv
<1> SUFFICES ASSUME Init PROVE IInv
  OBVIOUS
<1> USE IpcAssumption
<1>1. NoId \in Ids /\ NoArgs \in Args /\ (CHOOSE v \in Values : TRUE) \in Values
  BY DEF NoId, NoArgs, Ids, Args, Perms
<1>2. \A e \in Slots : FreshMap(e) \in [VA -> Mappings \cup {NoPage}]
  BY DEF FreshMap, Mappings, Perms
<1>3. TypeOK
  BY <1>1, <1>2 DEF Init, TypeOK, Pc
<1>4. ReceiverSync
  BY DEF Init, ReceiverSync
<1> QED
  BY <1>3, <1>4 DEF IInv

LEMMA NextIInv == IInv /\ [Next]_vars => IInv'
<1> SUFFICES ASSUME IInv, [Next]_vars PROVE IInv'
  OBVIOUS
<1> USE IpcAssumption DEF IInv
<1>0. NoId \in Ids /\ NoArgs \in Args
  BY DEF NoId, NoArgs, Ids, Args, Perms
<1>s. CASE UNCHANGED vars
  BY <1>s DEF vars, fields, locals, history, TypeOK, ReceiverSync
<1>1. ASSUME NEW e \in Senders, NEW d \in Receivers \ {e}, NEW v \in Values,
             NEW o \in Offers,
             ipc_send(e, [to |-> Id(d), value |-> v, srcva |-> o[1], perm |-> o[2]])
      PROVE  IInv'
  <2>1. [to |-> Id(d), value |-> v, srcva |-> o[1], perm |-> o[2]] \in Args
    BY DEF Args, Id, Ids, TypeOK
  <2>2. TypeOK'
    BY <1>1, <2>1 DEF ipc_send, TypeOK, Pc, fields, history
  <2>3. ReceiverSync'
    BY <1>1 DEF ipc_send, TypeOK, ReceiverSync, fields, history
  <2> QED
    BY <2>2, <2>3
<1>2. ASSUME NEW e \in Senders, sys_ipc_try_send(e)
      PROVE  IInv'
  <2> DEFINE a == args[e]
             d == a.to[2]
  <2>0. /\ a \in Args /\ d \in Slots /\ e \in Slots /\ a.to \in Ids
        /\ a.srcva \in 0..UTOP /\ a.perm \in Perms /\ a.value \in Values
    BY DEF TypeOK, Args, Ids
  <2>1. CASE UNCHANGED <<fields, pgmap, transferred>>
    <3>1. pc' = pc \/ pc' = [pc EXCEPT ![e] = "run"]
      BY <1>2 DEF sys_ipc_try_send, send_returns, deliver
    <3>2. args' \in [Slots -> Args]
      BY <1>0, <1>2 DEF sys_ipc_try_send, send_returns, TypeOK
    <3>3. pc[e] = "send" /\ UNCHANGED <<gen, alive, from_store, perm_store, got, asked>>
      BY <1>2 DEF sys_ipc_try_send
    <3>4. TypeOK'
      BY <2>0, <2>1, <3>1, <3>2, <3>3 DEF TypeOK, Pc, fields
    <3>5. ReceiverSync'
      BY <2>0, <2>1, <3>1, <3>3 DEF TypeOK, ReceiverSync, fields
    <3> QED
      BY <3>4, <3>5
  <2>2. CASE /\ Resolves(a.to) /\ Accepts(d)
             /\ a.srcva < UTOP => SendablePage(e, a.srcva, a.perm)
             /\ deliver(e, d, a) /\ send_returns(e)
    <3>1. Id(e) \in Ids
      BY <2>0 DEF Id, Ids, TypeOK
    <3>2. pgmap' \in [Slots -> [VA -> Mappings \cup {NoPage}]]
      <4>1. CASE UNCHANGED pgmap
        BY <4>1 DEF TypeOK
      <4>2. CASE /\ a.srcva < UTOP /\ env_ipc_dstva[d] < UTOP
                 /\ pgmap' = [pgmap EXCEPT ![d][env_ipc_dstva[d]] =
                               [page |-> pgmap[e][a.srcva].page, perm |-> a.perm]]
        <5>1. a.srcva \in VA /\ env_ipc_dstva[d] \in VA
          BY <2>0, <4>2 DEF VA, TypeOK
        <5>2. pgmap[e][a.srcva] \in Mappings
          BY <2>0, <2>2, <4>2, <5>1 DEF SendablePage, TypeOK
        <5>3. [page |-> pgmap[e][a.srcva].page, perm |-> a.perm] \in Mappings
          BY <2>0, <5>2 DEF Mappings
        <5> QED
          BY <2>0, <4>2, <5>1, <5>3 DEF TypeOK
      <4>3. CASE a.srcva < UTOP /\ env_ipc_dstva[d] < UTOP
        <5>1. PICK mem \in BOOLEAN :
                sys_page_map(e, a.srcva, d, env_ipc_dstva[d], a.perm, mem)
          BY <2>2, <4>3 DEF deliver
        <5> QED
          BY <4>1, <4>2, <4>3, <5>1 DEF sys_page_map
      <4> QED
        BY <2>2, <4>1, <4>3 DEF deliver
    <3>3. transferred' \in [Slots -> BOOLEAN]
      BY <2>0, <2>2 DEF deliver, sys_page_map, TypeOK
    <3>4. env_ipc_perm' \in [Slots -> SUBSET {"P", "U", "W"}]
      <4>1. a.perm \cup {"P"} \in SUBSET {"P", "U", "W"}
        BY <2>0 DEF Perms
      <4> QED
        BY <2>0, <2>2, <4>1 DEF deliver, TypeOK
    <3>5. /\ env_ipc_recving' = [env_ipc_recving EXCEPT ![d] = FALSE]
          /\ env_ipc_from' = [env_ipc_from EXCEPT ![d] = Id(e)]
          /\ env_ipc_value' = [env_ipc_value EXCEPT ![d] = a.value]
          /\ UNCHANGED env_ipc_dstva
          /\ pc' = [pc EXCEPT ![e] = "run"]
          /\ args' = [args EXCEPT ![e] = NoArgs]
      BY <2>2 DEF deliver, send_returns
    <3>6. /\ pc[e] = "send"
          /\ UNCHANGED <<gen, alive, from_store, perm_store, got, asked>>
      BY <1>2 DEF sys_ipc_try_send
    <3>7. TypeOK'
      BY <1>0, <2>0, <3>1, <3>2, <3>3, <3>4, <3>5, <3>6 DEF TypeOK, Pc
    <3>8. alive[d] /\ env_ipc_recving[d] /\ pc[d] = "recv"
      BY <2>0, <2>2 DEF Resolves, Accepts, ReceiverSync
    <3>9. ReceiverSync'
      BY <2>0, <3>5, <3>6, <3>8 DEF TypeOK, ReceiverSync
    <3> QED
      BY <3>7, <3>9
  <2> QED
    BY <1>2, <2>1, <2>2 DEF sys_ipc_try_send
<1>3. ASSUME NEW e \in Receivers, NEW va \in Wishes, sys_ipc_recv(e, va)
      PROVE  IInv'
  <2>1. TypeOK'
    BY <1>3 DEF sys_ipc_recv, TypeOK, Pc, locals
  <2>2. ReceiverSync'
    BY <1>3 DEF sys_ipc_recv, TypeOK, ReceiverSync, locals
  <2> QED
    BY <2>1, <2>2
<1>4. ASSUME NEW e \in Receivers, read_from(e)
      PROVE  IInv'
  <2>1. TypeOK'
    BY <1>4 DEF read_from, TypeOK, Pc, fields, history
  <2>2. ReceiverSync'
    BY <1>4 DEF read_from, TypeOK, ReceiverSync, fields, history
  <2> QED
    BY <2>1, <2>2
<1>5. ASSUME NEW e \in Receivers, read_perm(e)
      PROVE  IInv'
  <2>1. TypeOK'
    BY <1>5 DEF read_perm, TypeOK, Pc, fields, history
  <2>2. ReceiverSync'
    BY <1>5 DEF read_perm, TypeOK, ReceiverSync, fields, history
  <2> QED
    BY <2>1, <2>2
<1>6. ASSUME NEW e \in Receivers, read_value(e)
      PROVE  IInv'
  <2>1. [from |-> from_store[e], value |-> env_ipc_value[e]] \in Messages
    BY DEF TypeOK, Messages
  <2>2. TypeOK'
    BY <1>0, <1>6, <2>1 DEF read_value, forget, TypeOK, Pc, fields
  <2>3. ReceiverSync'
    BY <1>6 DEF read_value, forget, TypeOK, ReceiverSync, fields
  <2> QED
    BY <2>2, <2>3
<1>7. ASSUME NEW e \in Slots, env_free(e)
      PROVE  IInv'
  <2>1. TypeOK'
    BY <1>0, <1>7 DEF env_free, forget, TypeOK, Pc, fields
  <2>2. ReceiverSync'
    BY <1>7 DEF env_free, forget, TypeOK, ReceiverSync, fields
  <2> QED
    BY <2>1, <2>2
<1>8. ASSUME NEW e \in Slots, env_alloc(e)
      PROVE  IInv'
  <2>1. FreshMap(e) \in [VA -> Mappings \cup {NoPage}]
    BY DEF FreshMap, Mappings, Perms
  <2>2. TypeOK'
    BY <1>8, <2>1 DEF env_alloc, TypeOK, Pc, locals, history
  <2>3. ReceiverSync'
    BY <1>8 DEF env_alloc, TypeOK, ReceiverSync, locals, history
  <2> QED
    BY <2>2, <2>3
<1> QED
  BY <1>s, <1>1, <1>2, <1>3, <1>4, <1>5, <1>6, <1>7, <1>8 DEF Next

\* The fields of struct Env and the library's program counters stay in step.
THEOREM Invariance == Spec => []IInv
  BY InitIInv, NextIInv, PTL DEF Spec

\* Every variable keeps its type: identifiers name slots, permissions that a
\* message grants are ones sys_page_map allows.
THEOREM TypeCorrect == Spec => []TypeOK
<1>1. IInv => TypeOK
  BY DEF IInv
<1> QED
  BY <1>1, Invariance, PTL
-----------------------------------------------------------------------------
\* One element of box, that is, what Rendezvous sees of slot e.
BoxOf(e) ==
  IF ~alive[e] THEN Idle
  ELSE IF pc[e] = "recv" /\ env_ipc_recving[e] THEN Waiting
  ELSE IF pc[e] = "recv"
    THEN [from |-> env_ipc_from[e], value |-> env_ipc_value[e]]
  ELSE IF pc[e] \in {"perm", "value"}
    THEN [from |-> from_store[e], value |-> env_ipc_value[e]]
  ELSE Idle

\* A step that leaves what Rendezvous sees of every slot but e changes box at e
\* only.
LEMMA BoxChange ==
  ASSUME NEW e \in Slots, \A f \in Slots \ {e} : BoxOf(f)' = BoxOf(f)
  PROVE  box' = [box EXCEPT ![e] = BoxOf(e)']
  BY DEF box, BoxOf

\* A step that leaves what Rendezvous sees of every slot leaves box.
LEMMA BoxSame ==
  ASSUME \A f \in Slots : BoxOf(f)' = BoxOf(f)
  PROVE  box' = box
  BY DEF box, BoxOf

\* Every step of the IPC is a step of Rendezvous or none.
LEMMA StepRefines ==
  ASSUME IInv, IInv', [Next]_vars
  PROVE  [Abstract!RendezvousNext]_<<box, got>>
<1> USE IpcAssumption
<1> USE DEF IInv
<1>0. \A f \in Slots : box[f] = BoxOf(f)
  BY DEF box, BoxOf
<1>s. CASE UNCHANGED vars
  BY <1>s, BoxSame DEF vars, fields, locals, BoxOf
<1>1. ASSUME NEW e \in Senders, NEW a, ipc_send(e, a)
      PROVE  UNCHANGED <<box, got>>
  BY <1>1, BoxSame DEF ipc_send, fields, BoxOf, TypeOK
<1>2. ASSUME NEW e \in Senders, sys_ipc_try_send(e)
      PROVE  [Abstract!RendezvousNext]_<<box, got>>
  <2>a. PICK a \in Args, d \in Slots : a = args[e] /\ d = a.to[2]
    BY DEF TypeOK, Args, Ids
  <2>0. e \in Slots /\ a.value \in Values
    BY DEF TypeOK, Args
  <2>1. CASE UNCHANGED <<fields, pgmap, transferred>>
    <3>1. pc' = pc \/ pc' = [pc EXCEPT ![e] = "run"]
      BY <1>2 DEF sys_ipc_try_send, send_returns, deliver
    <3>2. pc[e] = "send" /\ UNCHANGED <<alive, from_store, got>>
      BY <1>2 DEF sys_ipc_try_send
    <3> QED
      BY <2>0, <2>1, <3>1, <3>2, BoxSame DEF TypeOK, fields, BoxOf
  <2>2. CASE Resolves(a.to) /\ Accepts(d) /\ deliver(e, d, a) /\ send_returns(e)
    <3> DEFINE m == [from |-> Id(e), value |-> a.value]
    <3>1. /\ env_ipc_recving' = [env_ipc_recving EXCEPT ![d] = FALSE]
          /\ env_ipc_from' = [env_ipc_from EXCEPT ![d] = Id(e)]
          /\ env_ipc_value' = [env_ipc_value EXCEPT ![d] = a.value]
          /\ pc' = [pc EXCEPT ![e] = "run"]
      BY <2>2 DEF deliver, send_returns
    <3>2. pc[e] = "send" /\ UNCHANGED <<alive, from_store, got>>
      BY <1>2 DEF sys_ipc_try_send
    <3>3. alive[d] /\ env_ipc_recving[d] /\ pc[d] = "recv"
      BY <2>a, <2>2 DEF Resolves, Accepts, ReceiverSync
    <3>4. box[d] = Waiting
      BY <1>0, <2>0, <3>3 DEF BoxOf
    <3>5. BoxOf(d)' = m
      BY <2>0, <3>1, <3>2, <3>3 DEF BoxOf, TypeOK
    <3>6. \A f \in Slots \ {d} : BoxOf(f)' = BoxOf(f)
      BY <2>0, <3>1, <3>2 DEF BoxOf, TypeOK
    <3>7. m \in Messages
      BY <2>0 DEF Messages, Id, Ids, TypeOK
    <3>8. Abstract!Deliver(d, m)
      BY <2>0, <3>2, <3>4, <3>5, <3>6, BoxChange DEF Abstract!Deliver
    <3> QED
      BY <2>0, <3>7, <3>8 DEF Abstract!RendezvousNext
  <2> QED
    BY <1>2, <2>a, <2>1, <2>2 DEF sys_ipc_try_send
<1>3. ASSUME NEW e \in Receivers, NEW va \in Wishes, sys_ipc_recv(e, va)
      PROVE  Abstract!RendezvousNext
  <2>1. alive[e] /\ alive' = alive
    BY <1>3 DEF sys_ipc_recv, ReceiverSync
  <2>2. box[e] = Idle
    BY <1>0, <1>3 DEF BoxOf, sys_ipc_recv
  <2>3. BoxOf(e)' = Waiting
    BY <1>3, <2>1 DEF BoxOf, sys_ipc_recv, TypeOK
  <2>4. \A f \in Slots \ {e} : BoxOf(f)' = BoxOf(f)
    BY <1>3 DEF BoxOf, sys_ipc_recv, locals, TypeOK
  <2>5. Abstract!Wait(e)
    BY <1>3, <2>2, <2>3, <2>4, BoxChange DEF Abstract!Wait, sys_ipc_recv, locals
  <2> QED
    BY <2>5 DEF Abstract!RendezvousNext
<1>4. ASSUME NEW e \in Receivers, read_from(e)
      PROVE  UNCHANGED <<box, got>>
  BY <1>4, BoxSame DEF read_from, fields, BoxOf, TypeOK
<1>5. ASSUME NEW e \in Receivers, read_perm(e)
      PROVE  UNCHANGED <<box, got>>
  BY <1>5, BoxSame DEF read_perm, fields, BoxOf, TypeOK
<1>6. ASSUME NEW e \in Receivers, read_value(e)
      PROVE  Abstract!RendezvousNext
  <2> DEFINE m == [from |-> from_store[e], value |-> env_ipc_value[e]]
  <2>1. alive[e] /\ alive' = alive
    BY <1>6 DEF read_value, ReceiverSync
  <2>2. box[e] = m
    BY <1>0, <1>6, <2>1 DEF BoxOf, read_value
  <2>3. m \in Messages
    BY DEF TypeOK, Messages
  <2>4. BoxOf(e)' = Idle
    BY <1>6 DEF BoxOf, read_value, TypeOK
  <2>5. \A f \in Slots \ {e} : BoxOf(f)' = BoxOf(f)
    BY <1>6 DEF BoxOf, read_value, fields, TypeOK
  <2>6. Abstract!Take(e)
    BY <1>6, <2>2, <2>3, <2>4, <2>5, BoxChange DEF Abstract!Take, read_value
  <2> QED
    BY <2>6 DEF Abstract!RendezvousNext
<1>7. ASSUME NEW e \in Slots, env_free(e)
      PROVE  Abstract!RendezvousNext
  <2>1. BoxOf(e)' = Idle
    BY <1>7 DEF BoxOf, env_free, TypeOK
  <2>2. \A f \in Slots \ {e} : BoxOf(f)' = BoxOf(f)
    BY <1>7 DEF BoxOf, env_free, fields, TypeOK
  <2>3. Abstract!Vanish(e)
    BY <1>7, <2>1, <2>2, BoxChange DEF Abstract!Vanish, env_free
  <2> QED
    BY <2>3 DEF Abstract!RendezvousNext
<1>8. ASSUME NEW e \in Slots, env_alloc(e)
      PROVE  UNCHANGED <<box, got>>
  BY <1>8, BoxSame DEF env_alloc, locals, BoxOf, TypeOK
<1> QED
  BY <1>s, <1>1, <1>2, <1>3, <1>4, <1>5, <1>6, <1>7, <1>8 DEF Next

\* The IPC implements Rendezvous, for any number of environments that send,
\* retry, receive, die and are replaced: ipc_recv returns one message, whole,
\* as one sys_ipc_try_send delivered it.
THEOREM Refinement == Spec => Implements
<1>1. Init => Abstract!RendezvousInit
  BY DEF Init, Abstract!RendezvousInit, box
<1>2. IInv /\ IInv' /\ [Next]_vars => [Abstract!RendezvousNext]_<<box, got>>
  BY StepRefines
<1> QED
  BY <1>1, <1>2, Invariance, PTL DEF Spec, Implements, Abstract!RendezvousSpec
-----------------------------------------------------------------------------
\* What a step may do to the mappings, the action of NoRightsGained.
RightsStep ==
  \A e \in Slots : \A va \in VA :
    pgmap'[e][va] # pgmap[e][va] /\ pgmap'[e][va] # NoPage =>
      \/ ~alive[e]
      \/ \E s \in Senders :
           /\ pc[s] = "send" /\ pc'[s] = "run"
           /\ args[s].srcva \in VA
           /\ pgmap[s][args[s].srcva] # NoPage
           /\ pgmap'[e][va].page = pgmap[s][args[s].srcva].page
           /\ pgmap'[e][va].perm \subseteq pgmap[s][args[s].srcva].perm

LEMMA StepKeepsRights ==
  ASSUME TypeOK, Next
  PROVE  RightsStep
<1> USE IpcAssumption
<1>1. CASE UNCHANGED pgmap
  BY <1>1 DEF RightsStep
<1>2. ASSUME NEW s \in Senders, sys_ipc_try_send(s), pgmap' # pgmap
      PROVE  RightsStep
  <2> DEFINE a == args[s]
             d == a.to[2]
  <2>1. /\ Resolves(a.to) /\ Accepts(d)
        /\ a.srcva < UTOP => SendablePage(s, a.srcva, a.perm)
        /\ deliver(s, d, a) /\ send_returns(s)
        /\ pc[s] = "send"
    BY <1>2 DEF sys_ipc_try_send
  <2>2. a.srcva < UTOP /\ env_ipc_dstva[d] < UTOP
    BY <1>2, <2>1 DEF deliver
  <2>3. PICK mem \in BOOLEAN :
          sys_page_map(s, a.srcva, d, env_ipc_dstva[d], a.perm, mem)
    BY <2>1, <2>2 DEF deliver
  <2>4. pgmap' = [pgmap EXCEPT ![d][env_ipc_dstva[d]] =
                    [page |-> pgmap[s][a.srcva].page, perm |-> a.perm]]
    BY <1>2, <2>3 DEF sys_page_map
  <2>5. /\ s \in Slots /\ d \in Slots /\ a.srcva \in VA /\ a.perm \in Perms
        /\ env_ipc_dstva[d] \in VA
    BY <2>2 DEF TypeOK, Args, Ids, VA
  <2>6. pgmap[s][a.srcva] # NoPage /\ a.perm \subseteq pgmap[s][a.srcva].perm
    BY <2>1, <2>2, <2>5 DEF SendablePage, Perms
  <2>7. pc'[s] = "run"
    BY <2>1, <2>5 DEF send_returns, TypeOK
  <2> SUFFICES ASSUME NEW e \in Slots, NEW va \in VA,
                      pgmap'[e][va] # pgmap[e][va]
               PROVE  pgmap'[e][va] = [page |-> pgmap[s][a.srcva].page, perm |-> a.perm]
    BY <2>1, <2>5, <2>6, <2>7 DEF RightsStep
  <2> QED
    BY <2>4, <2>5 DEF TypeOK
<1>3. ASSUME NEW f \in Slots, env_free(f)
      PROVE  RightsStep
  BY <1>3 DEF env_free, RightsStep, TypeOK
<1>4. ASSUME NEW f \in Slots, env_alloc(f)
      PROVE  RightsStep
  BY <1>4 DEF env_alloc, RightsStep, TypeOK
<1> QED
  BY <1>1, <1>2, <1>3, <1>4
     DEF Next, ipc_send, sys_ipc_recv, read_from, read_perm, read_value

\* A page reaches another environment only by a message, and never with a right
\* that the sender lacked when it was sent.
THEOREM RightsKept == Spec => NoRightsGained
<1>1. TypeOK /\ [Next]_vars => [RightsStep]_vars
  BY StepKeepsRights
<1>2. [][RightsStep]_vars => NoRightsGained
  BY DEF RightsStep, NoRightsGained
<1> QED
  BY <1>1, <1>2, TypeCorrect, PTL DEF Spec
=============================================================================
