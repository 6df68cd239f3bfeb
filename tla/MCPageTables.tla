---------------------------- MODULE MCPageTables ----------------------------
(***************************************************************************)
(* Instances of PageTables.                                                *)
(***************************************************************************)
EXTENDS PageTables

MCPages == 1..10

\* Two addresses in one page table, the second in its last entry, and one in
\* the part of the last page directory that env_free does not visit.
MCVAs == {<<0, 0, 0, 0>>, <<0, 0, 0, 1>>, <<0, 1, 1, 0>>}

\* States that differ only in which page is which are the same: what matters of
\* a page is where it is referred to and its count.  A page that is referred to
\* nowhere and is not free is never used again.
MCView ==
  <<{<<Refs(p), pp_ref[p]>> : p \in {q \in Pages : Refs(q) # {}}},
    Cardinality(page_free_list), writable, panicstr>>
=============================================================================
