------------------------------- MODULE E1000 --------------------------------
(***************************************************************************)
(* The rings of packet descriptors that the driver in kern/e1000.c shares  *)
(* with the network card.  The kernel lock keeps CPUs apart, but the card  *)
(* works beside them: pci_transmit_packet and pci_receive_packet are two   *)
(* steps each, up to the last change of a descriptor and the store to the  *)
(* card's tail register.                                                   *)
(*                                                                         *)
(* The card is external, modelled as the driver uses it: it owns the       *)
(* descriptors from its head register up to, not including, the tail       *)
(* register, and equal registers mean that it owns none.                   *)
(*                                                                         *)
(* Packets have no length here, so two tests of the driver are left out,   *)
(* neither of which fails: that a packet fits its buffer (lwIP sends at    *)
(* most 1514 bytes), and that a received packet is in one descriptor (the  *)
(* card is not set to take packets longer than a buffer).                  *)
(***************************************************************************)
EXTENDS Naturals, Sequences

CONSTANTS
  NUM_TX_DESC, NUM_RX_DESC,
  MaxIn,          \* BOUND: packets that come from the network
  Nothing         \* what is in a buffer before its first packet

ASSUME RingAssumption ==
  /\ NUM_TX_DESC \in Nat \ {0} /\ NUM_RX_DESC \in Nat \ {0, 1}
  /\ MaxIn \in Nat

VARIABLES
  tx_status, rx_status,     \* the DD bit of each descriptor
  tx_buffer, rx_buffer,     \* the packet in the page of each descriptor
  tx_desc_tail, rx_desc_tail,
  TDH, TDT, RDH, RDT,       \* the card's registers
  wire_in, wire_out         \* history: packets the card took in and sent out

tx_ring == <<tx_status, tx_buffer, tx_desc_tail, TDT>>
rx_ring == <<rx_status, rx_buffer, rx_desc_tail, RDT>>
rings == <<tx_ring, rx_ring, TDH, RDH, wire_in, wire_out>>

Tx == 0..(NUM_TX_DESC - 1)
Rx == 0..(NUM_RX_DESC - 1)

NextTx_NoWrap(i) == i + 1    \* Mutant: runs off the end of the ring
NextTx(i) == (i + 1) % NUM_TX_DESC
NextRx(i) == (i + 1) % NUM_RX_DESC

\* The receive head starts one past the tail: all but one descriptor are the
\* card's.  Packets are numbered in the order they come.
RingInit ==
  /\ tx_status = [i \in Tx |-> TRUE] /\ rx_status = [i \in Rx |-> FALSE]
  /\ tx_buffer = [i \in Tx |-> Nothing] /\ rx_buffer = [i \in Rx |-> Nothing]
  /\ tx_desc_tail = 0 /\ rx_desc_tail = 0
  /\ TDH = 0 /\ TDT = 0 /\ RDH = 1 /\ RDT = 0
  /\ wire_in = <<>> /\ wire_out = <<>>
-----------------------------------------------------------------------------
\* pci_transmit_packet up to the tail register; with tx_full, its -1
tx_full == ~tx_status[tx_desc_tail]
tx_fill(pkt) ==
  /\ ~tx_full
  /\ tx_buffer' = [tx_buffer EXCEPT ![tx_desc_tail] = pkt]
  /\ tx_status' = [tx_status EXCEPT ![tx_desc_tail] = FALSE]
  /\ tx_desc_tail' = NextTx(tx_desc_tail)
  /\ UNCHANGED <<rx_ring, TDT, TDH, RDH, wire_in, wire_out>>

tx_tail ==
  /\ TDT' = tx_desc_tail
  /\ UNCHANGED <<rx_ring, tx_status, tx_buffer, tx_desc_tail, TDH, RDH,
                 wire_in, wire_out>>

\* pci_receive_packet: the descriptor after the last one that was read
rx_next == NextRx(rx_desc_tail)
rx_ready == rx_status[rx_next]
rx_packet == rx_buffer[rx_next]

\* The packet has been copied: the descriptor is marked free.
rx_take ==
  /\ rx_ready
  /\ rx_desc_tail' = rx_next
  /\ rx_status' = [rx_status EXCEPT ![rx_next] = FALSE]
  /\ UNCHANGED <<tx_ring, rx_buffer, RDT, TDH, RDH, wire_in, wire_out>>

rx_tail ==
  /\ RDT' = rx_desc_tail
  /\ UNCHANGED <<tx_ring, rx_status, rx_buffer, rx_desc_tail, TDH, RDH,
                 wire_in, wire_out>>
-----------------------------------------------------------------------------
\* The card sends the packet at its head and reports so (every descriptor's
\* command has the RS bit).
card_send ==
  /\ TDH # TDT
  /\ wire_out' = Append(wire_out, tx_buffer[TDH])
  /\ tx_status' = [tx_status EXCEPT ![TDH] = TRUE]
  /\ TDH' = NextTx(TDH)
  /\ UNCHANGED <<rx_ring, tx_buffer, tx_desc_tail, TDT, RDH, wire_in>>

\* The card stores a packet from the network; without a descriptor of its own
\* it drops the packet, which is no step.
card_receive ==
  /\ RDH # RDT
  /\ Len(wire_in) < MaxIn
  /\ wire_in' = Append(wire_in, Len(wire_in) + 1)
  /\ rx_buffer' = [rx_buffer EXCEPT ![RDH] = Len(wire_in) + 1]
  /\ rx_status' = [rx_status EXCEPT ![RDH] = TRUE]
  /\ RDH' = NextRx(RDH)
  /\ UNCHANGED <<tx_ring, rx_desc_tail, RDT, TDH, wire_out>>

\* All descriptors hold packets to be sent, and the registers are equal, which
\* tells the card that there is none: it never sends again, and the driver
\* never finds a free descriptor again.  The driver keeps no descriptor back.
TxWedged == TDH = TDT /\ tx_full

RingTypeOK ==
  /\ tx_status \in [Tx -> BOOLEAN] /\ rx_status \in [Rx -> BOOLEAN]
  /\ tx_buffer \in [Tx -> Nat \cup {Nothing}]
  /\ rx_buffer \in [Rx -> Nat \cup {Nothing}]
  /\ tx_desc_tail \in Tx /\ TDH \in Tx /\ TDT \in Tx
  /\ rx_desc_tail \in Rx /\ RDH \in Rx /\ RDT \in Rx
  /\ wire_in \in Seq(Nat) /\ wire_out \in Seq(Nat)
=============================================================================
