-------------------------------- MODULE MCIpc --------------------------------
(***************************************************************************)
(* Instances of Ipc.  Address 1 is the sender's own page, address 0 and    *)
(* UTOP = 2 are what a receiver may ask for: a page, or none.              *)
(***************************************************************************)
EXTENDS Ipc

\* A message without a page, and one with a page the receiver may write.
MCOffers == {<<2, {}>>, <<1, {"U", "W"}>>}

\* Also a page the receiver may only read, permissions that sys_page_map
\* refuses, and the address where a received page ends up.
MCAllOffers == MCOffers \cup {<<1, {"U"}>>, <<1, {}>>, <<0, {"U", "W"}>>}

MCWishes == {0, 2}
=============================================================================
