------------------------------- MODULE MCFork -------------------------------
(***************************************************************************)
(* Instances of Fork.  Which physical page is behind an address makes no   *)
(* difference, only which addresses have the same one and what it holds.   *)
(***************************************************************************)
EXTENDS Fork

ASSUME LayoutAssumption == VisitsAll

MCSame(p) == {x \in Envs \X Addrs : Mapped(x[1], x[2]) /\ pt[x[1]][x[2]].page = p}

MCView ==
  <<status, handler, op, partial,
    [e \in Envs |-> IF fault[e] = None THEN None
                    ELSE <<fault[e].addr, mem[fault[e].page]>>],
    [e \in Envs |-> [a \in Addrs |->
       IF ~Mapped(e, a) THEN None
       ELSE <<pt[e][a].perm, MCSame(pt[e][a].page), mem[pt[e][a].page]>>]]>>
=============================================================================
