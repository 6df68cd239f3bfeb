---------------------------- MODULE PrivateMemory ----------------------------
(***************************************************************************)
(* What fork promises (lib/fork.c): every environment has a memory of its  *)
(* own, a child starts with a copy of its parent's, and only pages meant   *)
(* to be shared are shared.  Where memory ran out a child may lack pages.  *)
(***************************************************************************)
CONSTANTS Envs, Addrs, Shared, Values, Boot, Nothing

VARIABLES
  view,  \* [Envs -> what each page of its memory holds, or Nothing]
  short  \* environments for whose pages memory ran out

Init ==
  /\ \E m \in [Addrs -> Values] :
        view = [e \in Envs |-> IF e = Boot THEN m ELSE Nothing]
  /\ short = {}

Write(e, a, v) ==
  /\ view[e] # Nothing /\ view[e][a] # Nothing
  /\ view' = [x \in Envs |->
                IF (x = e \/ a \in Shared) /\ view[x] # Nothing /\ view[x][a] # Nothing
                  THEN [view[x] EXCEPT ![a] = v] ELSE view[x]]
  /\ UNCHANGED short

\* The pages K of the parent's memory, and all of them if memory sufficed
Fork(e, c, K) ==
  /\ view[e] # Nothing /\ view[c] = Nothing
  /\ c \notin short => K = Addrs
  /\ view' = [view EXCEPT ![c] = [a \in Addrs |-> IF a \in K THEN view[e][a] ELSE Nothing]]
  /\ UNCHANGED short

\* Memory runs out before c has started.
RunOut(c) ==
  /\ view[c] = Nothing
  /\ short' = short \cup {c}
  /\ UNCHANGED view

Exit(e) ==
  /\ view' = [view EXCEPT ![e] = Nothing]
  /\ UNCHANGED short

Next ==
  \E e \in Envs :
    \/ \E a \in Addrs, v \in Values : Write(e, a, v)
    \/ \E c \in Envs, K \in SUBSET Addrs : Fork(e, c, K)
    \/ RunOut(e)
    \/ Exit(e)

Spec == Init /\ [][Next]_<<view, short>>
=============================================================================
