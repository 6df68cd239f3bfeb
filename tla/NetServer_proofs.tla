-------------------------- MODULE NetServer_proofs --------------------------
(***************************************************************************)
(* Proofs about the path of packets, for rings, request buffers and        *)
(* numbers of clients of any size: packets cross the machine in order, and *)
(* every request buffer in use has one owner.                              *)
(***************************************************************************)
EXTENDS NetServer, FiniteSetTheorems, SequenceTheorems, WellFoundedInduction, TLAPS

(***************************************************************************)
(* The round of threads: the one that runs, and the others in the order in *)
(* which they will.                                                        *)
(***************************************************************************)
Round == Len(thread_queue) + 1
Turn(i) == IF i = 1 THEN cur_tc ELSE thread_queue[i - 1]
Alive(t) == \E i \in 1..Round : Turn(i) = t

\* A thread has one turn.  One that has not begun comes before serve()'s next
\* turn, and there is at most one.
OneRound ==
  /\ \A i, j \in 1..Round : Turn(i) = Turn(j) => i = j
  /\ Alive(Main)
  /\ \A i, j \in 1..Round : Turn(i) = Main /\ Turn(j) \notin begun => j <= i
  /\ \A i, j \in 1..Round :
       Turn(i) \notin begun \cup {Main} /\ Turn(j) \notin begun \cup {Main} => i = j
  /\ \A b \in begun : Alive(b)

\* The buffers of the threads, and the one serve() waits with, are in use and
\* different.
Owned ==
  /\ \A b \in Buffers : Alive(b) => b \in buse /\ (main # "top" => b # va)
  /\ main # "top" => va \in buse

\* The server waits for a message in serve() only, and for output() and for
\* clients in a thread that is inside lwIP.
Where ==
  /\ ns = "recv" <=> main = "recv"
  /\ ns = "recv" => cur_tc = Main
  /\ ns \in {"output", "reply"} => cur_tc \in begun

\* Where a ring holds the packet after the first k.
TxPlace(k) == k % NUM_TX_DESC
RxPlace(k) == k % NUM_RX_DESC

\* The packets that are in the transmit ring or have been
Filled ==
  ((Len(from_lwip) - lost) - (IF ns = "output" THEN 1 ELSE 0)) - (IF output = "tx" THEN 1 ELSE 0)

\* How far the card has been told to send
TxTail == IF output = "tx_tail" THEN Filled - 1 ELSE Filled

\* The transmit ring: the packets between the head and the tail are the ones
\* after those sent, in their places, and not marked done.
TxInv ==
  /\ \A i \in 1..Len(from_lwip) : from_lwip[i] = i
  /\ \A i \in 1..Len(wire_out) : wire_out[i] = i
  /\ Filled \in Nat /\ Len(wire_out) <= TxTail /\ Filled <= Len(wire_out) + NUM_TX_DESC
  /\ TDH = TxPlace(Len(wire_out)) /\ tx_desc_tail = TxPlace(Filled) /\ TDT = TxPlace(TxTail)
  /\ output = "tx" => out_packet = Filled + 1
  /\ output # "dead" => lost = 0
  /\ \A k \in Len(wire_out)..(Filled - 1) :
       ~tx_status[TxPlace(k)] /\ tx_buffer[TxPlace(k)] = k + 1

\* A packet that has come and that lwIP has not seen
Fresh(b) == Alive(b) /\ b \notin begun /\ request[b] = "input"
Holding == input \in {"rx_tail", "send"}
Waiting == IF \E b \in Buffers : Fresh(b) THEN 1 ELSE 0
Taken == (Len(to_lwip) + Waiting) + (IF Holding THEN 1 ELSE 0)

\* How far the card has been told to receive
RxTail == IF input = "rx_tail" THEN Taken - 1 ELSE Taken

\* The receive ring: the packets between what input() took and what the card
\* stored are in their places, and only they are marked done.
RxInv ==
  /\ \A i \in 1..Len(wire_in) : wire_in[i] = i
  /\ \A i \in 1..Len(to_lwip) : to_lwip[i] = i
  /\ Taken <= Len(wire_in) /\ Len(wire_in) < RxTail + NUM_RX_DESC
  /\ RDH = RxPlace(Len(wire_in) + 1) /\ rx_desc_tail = RxPlace(Taken) /\ RDT = RxPlace(RxTail)
  /\ \A i \in Rx : rx_status[i] =>
       \E k \in Taken..(Len(wire_in) - 1) : i = RxPlace(k + 1)
  /\ \A k \in Taken..(Len(wire_in) - 1) : rx_buffer[RxPlace(k + 1)] = k + 1

\* The packet that input() holds, the one a request carries that lwIP has not
\* seen, and that their pages are different.
Carried ==
  /\ Holding => content[input_page] = Taken
  /\ \A b \in Buffers : Fresh(b) =>
       req_page[b] \in Pages /\ content[req_page[b]] = Len(to_lwip) + 1
  /\ input \notin {"alloc", "dead"} =>
       input_page \in Pages /\ \A b \in Buffers : req_page[b] # input_page

\* A buffer is in use for a thread, for serve() while it waits, or has been lost
\* to a message without a page.
AliveBuffers == {b \in Buffers : Alive(b)}
Balanced ==
  Cardinality(buse) = Cardinality(AliveBuffers) + (IF main = "top" THEN 0 ELSE 1) + strays

NetInv == TypeOK /\ OneRound /\ Owned /\ Balanced /\ Where /\ TxInv /\ RxInv /\ Carried
-----------------------------------------------------------------------------
LEMMA MinIn ==
  ASSUME NEW S, S \subseteq Nat, S # {}
  PROVE  Min(S) \in S
<1>1. PICK R : R = OpToRel(<, Nat)
  OBVIOUS
<1>2. \A x, y \in Nat : x < y => <<x, y>> \in R
  BY <1>1, Zenon DEF OpToRel
<1>3. IsWellFoundedOn(R, Nat)
  BY <1>1, NatLessThanWellFounded, Zenon
<1>4. PICK x \in S : \A y \in S : ~(<<y, x>> \in R)
  BY <1>3, WFMin
<1>5. \A y \in S : x <= y
  <2> SUFFICES ASSUME NEW y \in S PROVE x <= y
    OBVIOUS
  <2>1. x \in Nat /\ y \in Nat
    OBVIOUS
  <2>2. ~(y < x)
    BY <1>2, <1>4, <2>1, Zenon
  <2> QED
    BY <2>1, <2>2
<1> QED
  BY <1>5 DEF Min
-----------------------------------------------------------------------------
\* The round of threads

LEMMA Sizes ==
  /\ QUEUE_SIZE \in Nat /\ QUEUE_SIZE > 0 /\ Main \notin Buffers
  /\ NUM_TX_DESC \in Nat /\ NUM_TX_DESC > 0 /\ NUM_RX_DESC \in Nat /\ NUM_RX_DESC > 1
  BY ServerAssumption, RingAssumption DEF Main, Buffers

LEMMA RoundType ==
  ASSUME TypeOK
  PROVE  /\ Round \in Nat /\ Round >= 1
         /\ cur_tc \in Threads /\ thread_queue \in Seq(Threads)
         /\ \A i \in 1..Round : Turn(i) \in Threads
         /\ Turn(1) = cur_tc
  BY DEF TypeOK, Round, Turn

\* The next threads: first those in q, then the last one.
NextRound(q, last) ==
  /\ cur_tc' \in Threads /\ thread_queue' \in Seq(Threads)
  /\ Round' = Len(q) + 1
  /\ \A i \in 1..(Len(q) + 1) : Turn(i)' = IF i <= Len(q) THEN q[i] ELSE last

LEMMA YieldRound ==
  ASSUME TypeOK, NEW q \in Seq(Threads), Yield(q)
  PROVE  NextRound(q, cur_tc)
<1>1. PICK all : all = Append(q, cur_tc)
  OBVIOUS
<1>2. cur_tc \in Threads
  BY DEF TypeOK
<1>3. /\ all \in Seq(Threads) /\ Len(all) = Len(q) + 1
      /\ \A i \in 1..Len(all) : all[i] = IF i <= Len(q) THEN q[i] ELSE cur_tc
  BY <1>1, <1>2
<1>4. cur_tc' = Head(all) /\ thread_queue' = Tail(all)
  BY <1>1 DEF Yield
<1>5. /\ cur_tc' = all[1] /\ thread_queue' \in Seq(Threads) /\ Len(thread_queue') = Len(q)
      /\ \A i \in 1..Len(q) : thread_queue'[i] = all[i + 1]
  BY <1>3, <1>4
<1>6. Round' = Len(q) + 1 /\ cur_tc' \in Threads
  BY <1>3, <1>5 DEF Round
<1>7. ASSUME NEW i \in 1..(Len(q) + 1)
      PROVE  Turn(i)' = IF i <= Len(q) THEN q[i] ELSE cur_tc
  <2>1. Turn(i)' = all[i]
    BY <1>3, <1>5 DEF Turn
  <2> QED
    BY <1>3, <2>1
<1> QED
  BY <1>5, <1>6, <1>7 DEF NextRound

\* cur_tc goes behind the others.
Rotated ==
  /\ cur_tc' \in Threads /\ thread_queue' \in Seq(Threads) /\ Round' = Round
  /\ \A i \in 1..Round : Turn(i)' = Turn(IF i < Round THEN i + 1 ELSE 1)

LEMMA YieldRotates ==
  ASSUME TypeOK, Yield(thread_queue)
  PROVE  Rotated
<1>1. thread_queue \in Seq(Threads)
  BY DEF TypeOK
<1>2. NextRound(thread_queue, cur_tc)
  BY <1>1, YieldRound
<1>3. Round' = Round
  BY <1>2 DEF NextRound, Round
<1>4. ASSUME NEW i \in 1..Round PROVE Turn(i)' = Turn(IF i < Round THEN i + 1 ELSE 1)
  <2>1. i \in 1..(Len(thread_queue) + 1) /\ Len(thread_queue) \in Nat
    BY <1>1 DEF Round
  <2>2. Turn(i)' = IF i <= Len(thread_queue) THEN thread_queue[i] ELSE cur_tc
    BY <1>2, <2>1 DEF NextRound
  <2> QED
    BY <2>1, <2>2 DEF Turn, Round
<1> QED
  BY <1>2, <1>3, <1>4 DEF Rotated, NextRound

\* A new thread b comes next to last.
Joined(b) ==
  /\ cur_tc' \in Threads /\ thread_queue' \in Seq(Threads) /\ Round' = Round + 1
  /\ \A i \in 1..(Round + 1) :
       Turn(i)' = IF i = Round THEN b ELSE Turn(IF i < Round THEN i + 1 ELSE 1)

LEMMA CreateJoins ==
  ASSUME TypeOK, NEW b \in Buffers, Create(b)
  PROVE  Joined(b)
<1>1. thread_queue \in Seq(Threads) /\ b \in Threads
  BY DEF TypeOK, Threads
<1>2. PICK q : q = Append(thread_queue, b)
  OBVIOUS
<1>3. /\ q \in Seq(Threads) /\ Len(q) = Len(thread_queue) + 1
      /\ \A i \in 1..Len(q) : q[i] = IF i <= Len(thread_queue) THEN thread_queue[i] ELSE b
  BY <1>1, <1>2
<1>4. NextRound(q, cur_tc)
  <2>1. Yield(q)
    BY <1>2 DEF Create
  <2> QED
    BY <1>3, <2>1, YieldRound
<1>5. Round' = Round + 1
  BY <1>1, <1>3, <1>4 DEF NextRound, Round
<1>6. ASSUME NEW i \in 1..(Round + 1)
      PROVE  Turn(i)' = IF i = Round THEN b ELSE Turn(IF i < Round THEN i + 1 ELSE 1)
  <2>1. i \in 1..(Len(q) + 1) /\ Len(thread_queue) \in Nat
    BY <1>1, <1>3 DEF Round
  <2>2. Turn(i)' = IF i <= Len(q) THEN q[i] ELSE cur_tc
    BY <1>4, <2>1 DEF NextRound
  <2> QED
    BY <1>3, <2>1, <2>2 DEF Turn, Round
<1> QED
  BY <1>4, <1>5, <1>6 DEF Joined, NextRound

\* cur_tc leaves.
Left ==
  /\ cur_tc' \in Threads /\ thread_queue' \in Seq(Threads) /\ Round > 1 /\ Round' = Round - 1
  /\ \A i \in 1..(Round - 1) : Turn(i)' = Turn(i + 1)

LEMMA HaltLeaves ==
  ASSUME TypeOK, Halt, Round > 1
  PROVE  Left
<1>1. thread_queue \in Seq(Threads) /\ Len(thread_queue) > 0
  BY DEF TypeOK, Round
<1>2. cur_tc' = thread_queue[1] /\ thread_queue' = Tail(thread_queue)
  BY <1>1 DEF Halt
<1>3. /\ cur_tc' \in Threads
      /\ thread_queue' \in Seq(Threads) /\ Len(thread_queue') = Len(thread_queue) - 1
      /\ \A i \in 1..(Len(thread_queue) - 1) : thread_queue'[i] = thread_queue[i + 1]
  BY <1>1, <1>2
<1>4. Round' = Round - 1
  BY <1>1, <1>3 DEF Round
<1>5. ASSUME NEW i \in 1..(Round - 1) PROVE Turn(i)' = Turn(i + 1)
  BY <1>1, <1>2, <1>3 DEF Turn, Round
<1> QED
  BY <1>3, <1>4, <1>5 DEF Left


LEMMA RotatedRound ==
  ASSUME TypeOK, OneRound, Rotated, cur_tc \in begun \cup {Main}, begun' = begun
  PROVE  OneRound' /\ \A t : Alive(t)' <=> Alive(t)
<1>1. Round \in Nat /\ Round >= 1 /\ Round' = Round /\ Turn(1) = cur_tc
  BY RoundType DEF Rotated
<1>2. PICK s : s = [i \in 1..Round |-> IF i < Round THEN i + 1 ELSE 1]
  OBVIOUS
<1>3. \A i \in 1..Round : s[i] \in 1..Round /\ Turn(i)' = Turn(s[i])
  BY <1>1, <1>2 DEF Rotated
<1>4. \A i, j \in 1..Round : s[i] = s[j] => i = j
  BY <1>1, <1>2
<1>5. \A j \in 1..Round : \E i \in 1..Round : s[i] = j
  <2> SUFFICES ASSUME NEW j \in 1..Round PROVE \E i \in 1..Round : s[i] = j
    OBVIOUS
  <2>1. CASE j = 1
    BY <1>1, <1>2, <2>1
  <2>2. CASE j > 1
    <3>1. j - 1 \in 1..Round /\ s[j - 1] = j
      BY <1>1, <1>2, <2>2
    <3> QED
      BY <3>1
  <2> QED
    BY <2>1, <2>2
<1>6. \A t : Alive(t)' <=> Alive(t)
  BY <1>1, <1>3, <1>5 DEF Alive
<1>7. \A i, j \in 1..Round : Turn(i)' = Turn(j)' => i = j
  BY <1>3, <1>4 DEF OneRound
<1>8. Alive(Main)'
  BY <1>6 DEF OneRound
<1>9. ASSUME NEW i \in 1..Round, NEW j \in 1..Round, Turn(i)' = Main, Turn(j)' \notin begun
      PROVE  j <= i
  <2>1. Turn(s[i]) = Main /\ Turn(s[j]) \notin begun /\ s[i] \in 1..Round /\ s[j] \in 1..Round
    BY <1>3, <1>9
  <2>2. s[j] <= s[i]
    BY <2>1 DEF OneRound
  <2>3. s[j] = 1 => s[i] = 1
    <3> SUFFICES ASSUME s[j] = 1 PROVE s[i] = 1
      OBVIOUS
    <3>1. cur_tc = Main
      BY <1>1, <2>1
    <3> QED
      BY <1>1, <2>1, <3>1 DEF OneRound
  <2> QED
    BY <1>1, <1>2, <2>2, <2>3
<1>10. \A i, j \in 1..Round :
         Turn(i)' \notin begun \cup {Main} /\ Turn(j)' \notin begun \cup {Main} => i = j
  BY <1>3, <1>4 DEF OneRound
<1>11. \A b \in begun : Alive(b)'
  BY <1>6 DEF OneRound
<1> QED
  BY <1>1, <1>6, <1>7, <1>8, <1>9, <1>10, <1>11 DEF OneRound

LEMMA JoinedRound ==
  ASSUME TypeOK, OneRound, NEW b \in Buffers, Joined(b), ~Alive(b), cur_tc = Main,
         begun' = begun
  PROVE  OneRound' /\ \A t : Alive(t)' <=> Alive(t) \/ t = b
<1>1. Round \in Nat /\ Round >= 1 /\ Round' = Round + 1 /\ Turn(1) = Main /\ b # Main
  BY RoundType, Sizes DEF Joined
<1>2. PICK s : s = [i \in 1..(Round + 1) |-> IF i < Round THEN i + 1 ELSE 1]
  OBVIOUS
<1>3. \A i \in 1..(Round + 1) :
        s[i] \in 1..Round /\ Turn(i)' = IF i = Round THEN b ELSE Turn(s[i])
  BY <1>1, <1>2 DEF Joined
<1>4. \A i, j \in 1..(Round + 1) : s[i] = s[j] /\ i # Round /\ j # Round => i = j
  BY <1>1, <1>2
<1>5. \A j \in 1..Round : \E i \in 1..(Round + 1) : s[i] = j /\ i # Round
  <2> SUFFICES ASSUME NEW j \in 1..Round
               PROVE  \E i \in 1..(Round + 1) : s[i] = j /\ i # Round
    OBVIOUS
  <2>1. CASE j = 1
    <3>1. Round + 1 \in 1..(Round + 1) /\ s[Round + 1] = j /\ Round + 1 # Round
      BY <1>1, <1>2, <2>1
    <3> QED
      BY <3>1
  <2>2. CASE j > 1
    <3>1. j - 1 \in 1..(Round + 1) /\ s[j - 1] = j /\ j - 1 # Round
      BY <1>1, <1>2, <2>2
    <3> QED
      BY <3>1
  <2> QED
    BY <2>1, <2>2
<1>0. PICK n \in Nat : n = Round
  BY <1>1
<1>6. n \in 1..(n + 1) /\ Turn(n)' = b
  BY <1>0, <1>1, <1>3
<1>7. \A t : Alive(t)' <=> Alive(t) \/ t = b
  <2>1. ASSUME NEW t, Alive(t) PROVE Alive(t)'
    <3>1. PICK j \in 1..Round : Turn(j) = t
      BY <2>1 DEF Alive
    <3>2. PICK i \in 1..(Round + 1) : s[i] = j /\ i # Round
      BY <1>5
    <3>3. Turn(i)' = t
      BY <1>3, <3>1, <3>2
    <3> QED
      BY <1>1, <3>3 DEF Alive
  <2>2. Alive(b)'
    BY <1>0, <1>1, <1>6 DEF Alive
  <2>3. ASSUME NEW t, Alive(t)' PROVE Alive(t) \/ t = b
    <3>1. PICK i \in 1..(Round + 1) : Turn(i)' = t
      BY <1>1, <2>3 DEF Alive
    <3> QED
      BY <1>3, <3>1 DEF Alive
  <2> QED
    BY <2>1, <2>2, <2>3
<1>8. \A i \in 1..(Round + 1) : i # Round => Turn(i)' # b
  BY <1>3 DEF Alive
<1>9. \A i, j \in 1..(Round + 1) : Turn(i)' = Turn(j)' => i = j
  <2> SUFFICES ASSUME NEW i \in 1..(Round + 1), NEW j \in 1..(Round + 1), Turn(i)' = Turn(j)'
               PROVE  i = j
    OBVIOUS
  <2>1. CASE i = Round \/ j = Round
    BY <1>0, <1>6, <1>8, <2>1
  <2>2. CASE i # Round /\ j # Round
    <3>1. Turn(s[i]) = Turn(s[j])
      BY <1>3, <2>2
    <3>2. s[i] = s[j]
      BY <1>3, <3>1 DEF OneRound
    <3> QED
      BY <1>4, <2>2, <3>2
  <2> QED
    BY <2>1, <2>2
<1>10. \A i \in 1..(Round + 1) : Turn(i)' = Main => i = Round + 1
  <2> SUFFICES ASSUME NEW i \in 1..(Round + 1), Turn(i)' = Main PROVE i = Round + 1
    OBVIOUS
  <2>1. i # Round
    BY <1>0, <1>1, <1>6
  <2>2. Turn(s[i]) = Turn(1) /\ s[i] \in 1..Round /\ 1 \in 1..Round
    BY <1>1, <1>3, <2>1
  <2>3. s[i] = 1
    BY <2>2 DEF OneRound
  <2> QED
    BY <1>1, <1>2, <2>1, <2>3
<1>11. \A i \in 1..Round : Turn(i) \in begun \cup {Main}
  <2> SUFFICES ASSUME NEW i \in 1..Round, Turn(i) \notin begun PROVE Turn(i) = Main
    OBVIOUS
  <2>1. 1 \in 1..Round /\ Turn(1) = Main
    BY <1>1
  <2>2. i <= 1
    BY <2>1 DEF OneRound
  <2> QED
    BY <1>1, <2>2
<1>12. \A i \in 1..(Round + 1) : Turn(i)' \notin begun \cup {Main} => i = Round
  BY <1>3, <1>11
<1>13. \A x \in begun : Alive(x)'
  BY <1>7 DEF OneRound
<1>14. Alive(Main)'
  BY <1>7 DEF OneRound
<1>15. \A i, j \in 1..(Round + 1) : Turn(i)' = Main => j <= i
  BY <1>1, <1>10
<1>16. \A i, j \in 1..(Round + 1) :
         Turn(i)' \notin begun \cup {Main} /\ Turn(j)' \notin begun \cup {Main} => i = j
  BY <1>12
<1> QED
  BY <1>1, <1>7, <1>9, <1>13, <1>14, <1>15, <1>16 DEF OneRound

LEMMA LeftRound ==
  ASSUME TypeOK, OneRound, Left, cur_tc # Main, begun' = begun \ {cur_tc}
  PROVE  OneRound' /\ \A t : Alive(t)' <=> Alive(t) /\ t # cur_tc
<1>1. Round \in Nat /\ Round > 1 /\ Round' = Round - 1 /\ Turn(1) = cur_tc
  BY RoundType DEF Left
<1>2. \A i \in 1..(Round - 1) : i + 1 \in 1..Round /\ Turn(i)' = Turn(i + 1)
  BY <1>1 DEF Left
<1>3. \A i \in 1..Round : Turn(i) = cur_tc => i = 1
  BY <1>1 DEF OneRound
<1>4. \A t : Alive(t)' <=> Alive(t) /\ t # cur_tc
  <2>1. ASSUME NEW t, Alive(t), t # cur_tc PROVE Alive(t)'
    <3>1. PICK j \in 1..Round : Turn(j) = t
      BY <2>1 DEF Alive
    <3>2. j # 1
      BY <1>1, <2>1, <3>1
    <3>3. j - 1 \in 1..(Round - 1) /\ (j - 1) + 1 = j
      BY <1>1, <3>2
    <3>4. Turn(j - 1)' = t
      BY <1>2, <3>1, <3>3
    <3> QED
      BY <1>1, <3>3, <3>4 DEF Alive
  <2>2. ASSUME NEW t, Alive(t)' PROVE Alive(t) /\ t # cur_tc
    <3>1. PICK i \in 1..(Round - 1) : Turn(i)' = t
      BY <1>1, <2>2 DEF Alive
    <3>2. Turn(i + 1) = t /\ i + 1 \in 1..Round /\ i + 1 # 1
      BY <1>1, <1>2, <3>1
    <3> QED
      BY <1>3, <3>2 DEF Alive
  <2> QED
    BY <2>1, <2>2
<1>5. \A i, j \in 1..(Round - 1) : Turn(i)' = Turn(j)' => i = j
  <2> SUFFICES ASSUME NEW i \in 1..(Round - 1), NEW j \in 1..(Round - 1), Turn(i)' = Turn(j)'
               PROVE  i = j
    OBVIOUS
  <2>1. i + 1 = j + 1
    BY <1>2 DEF OneRound
  <2> QED
    BY <1>1, <2>1
<1>6. \A i \in 1..(Round - 1) : Turn(i)' # cur_tc
  BY <1>1, <1>2, <1>3
<1>7. \A i, j \in 1..(Round - 1) : Turn(i)' = Main /\ Turn(j)' \notin begun' => j <= i
  <2> SUFFICES ASSUME NEW i \in 1..(Round - 1), NEW j \in 1..(Round - 1), Turn(i)' = Main,
                      Turn(j)' \notin begun'
               PROVE  j <= i
    OBVIOUS
  <2>1. Turn(j + 1) \notin begun /\ Turn(i + 1) = Main
    BY <1>2, <1>6
  <2>2. j + 1 <= i + 1
    BY <1>2, <2>1 DEF OneRound
  <2> QED
    BY <1>1, <2>2
<1>8. \A i, j \in 1..(Round - 1) :
        Turn(i)' \notin begun' \cup {Main} /\ Turn(j)' \notin begun' \cup {Main} => i = j
  <2> SUFFICES ASSUME NEW i \in 1..(Round - 1), NEW j \in 1..(Round - 1),
                      Turn(i)' \notin begun' \cup {Main}, Turn(j)' \notin begun' \cup {Main}
               PROVE  i = j
    OBVIOUS
  <2>1. Turn(j + 1) \notin begun \cup {Main} /\ Turn(i + 1) \notin begun \cup {Main}
    BY <1>2, <1>6
  <2>2. i + 1 = j + 1
    BY <1>2, <2>1 DEF OneRound
  <2> QED
    BY <1>1, <2>2
<1>9. Alive(Main)' /\ \A b \in begun' : Alive(b)'
  BY <1>4 DEF OneRound
<1> QED
  BY <1>1, <1>4, <1>5, <1>7, <1>8, <1>9 DEF OneRound

LEMMA SameRound ==
  ASSUME TypeOK, UNCHANGED <<cur_tc, thread_queue>>
  PROVE  /\ Round' = Round /\ \A i \in 1..Round : Turn(i)' = Turn(i)
         /\ \A t : Alive(t)' <=> Alive(t)
  BY DEF Round, Turn, Alive

LEMMA SameOneRound ==
  ASSUME TypeOK, OneRound, UNCHANGED <<cur_tc, thread_queue, begun>>
  PROVE  OneRound'
  BY SameRound DEF OneRound

LEMMA BegunRound ==
  ASSUME TypeOK, OneRound, UNCHANGED <<cur_tc, thread_queue>>, begun' = begun \cup {cur_tc}
  PROVE  OneRound'
<1>1. Alive(cur_tc)
  BY RoundType DEF Alive
<1>2. \A b \in begun' : Alive(b)'
  BY <1>1, SameRound DEF OneRound
<1> QED
  BY <1>2, SameRound DEF OneRound
-----------------------------------------------------------------------------
\* Places in a ring

LEMMA SmallMultiple ==
  ASSUME NEW size \in Nat \ {0}, NEW k \in Int, size * k < size, 0 - size < size * k
  PROVE  k = 0
<1>1. k >= 1 \/ k <= 0 - 1 \/ k = 0
  OBVIOUS
<1>2. CASE k >= 1
  <2>1. size * k >= size
    BY <1>2
  <2> QED
    BY <2>1
<1>3. CASE k <= 0 - 1
  <2>1. size * k <= 0 - size
    BY <1>3
  <2> QED
    BY <2>1
<1> QED
  BY <1>1, <1>2, <1>3

LEMMA Division ==
  ASSUME NEW a \in Nat, NEW size \in Nat \ {0}
  PROVE  \E q \in Int : a = size * q + (a % size) /\ a % size \in 0..(size - 1)
<1>1. a \div size \in Int /\ a = size * (a \div size) + (a % size) /\ a % size \in 0..(size - 1)
  OBVIOUS
<1> QED
  BY <1>1

LEMMA SamePlace ==
  ASSUME NEW a \in Nat, NEW r, NEW q \in Int, NEW size \in Nat \ {0}, r \in 0..(size - 1),
         a = size * q + r
  PROVE  a % size = r
<1>1. PICK p \in Int : a = size * p + (a % size) /\ a % size \in 0..(size - 1)
  BY Division
<1>2. PICK m \in 0..(size - 1) : m = a % size
  BY <1>1
<1>3. PICK d \in Int : d = p - q
  OBVIOUS
<1>4. size * p = size * q + size * d
  BY <1>3
<1>5. PICK x \in Int, y \in Int, z \in Int : x = size * p /\ y = size * q /\ z = size * d
  OBVIOUS
<1>10. a = y + r /\ a = x + m /\ x = y + z
  BY <1>1, <1>2, <1>4, <1>5
<1>6. z = r - m
  BY <1>10
<1>7. z < size /\ 0 - size < z
  BY <1>6
<1>8. d = 0
  BY <1>5, <1>7, SmallMultiple
<1>9. z = 0
  BY <1>5, <1>8
<1> QED
  BY <1>2, <1>6, <1>9

LEMMA NextPlace ==
  ASSUME NEW a \in Nat, NEW size \in Nat \ {0}
  PROVE  (a + 1) % size = ((a % size) + 1) % size
<1>1. PICK q \in Int : a = size * q + (a % size) /\ a % size \in 0..(size - 1)
  BY Division
<1>2. PICK m \in 0..(size - 1) : m = a % size
  BY <1>1
<1>3. PICK c \in Nat, n \in Nat, z \in Nat, o \in Int, t \in Int :
        c = a + 1 /\ n = m + 1 /\ z = 0 /\ o = 1 /\ t = q + 1
  OBVIOUS
<1>4. c % size = n % size
  <2>1. CASE n < size
    <3>1. n \in 0..(size - 1)
      BY <2>1
    <3>2. c = size * q + n
      BY <1>1, <1>2, <1>3
    <3>3. n = size * z + n
      BY <1>3
    <3>4. c % size = n
      BY <3>1, <3>2, SamePlace
    <3>5. n % size = n
      BY <3>1, <3>3, SamePlace
    <3> QED
      BY <3>4, <3>5
  <2>2. CASE n = size
    <3>1. z \in 0..(size - 1)
      BY <1>3
    <3>2. c = size * t + z
      BY <1>1, <1>2, <1>3, <2>2
    <3>3. n = size * o + z
      BY <1>3, <2>2
    <3>4. c % size = z
      BY <3>1, <3>2, SamePlace
    <3>5. n % size = z
      BY <3>1, <3>3, SamePlace
    <3> QED
      BY <3>4, <3>5
  <2> QED
    BY <1>3, <2>1, <2>2
<1> QED
  BY <1>2, <1>3, <1>4

LEMMA SameAfterRound ==
  ASSUME NEW a \in Nat, NEW size \in Nat \ {0}
  PROVE  (a + size) % size = a % size
<1>1. PICK q \in Int : a = size * q + (a % size) /\ a % size \in 0..(size - 1)
  BY Division
<1>2. PICK m \in 0..(size - 1), c \in Nat, t \in Int : m = a % size /\ c = a + size /\ t = q + 1
  BY <1>1
<1>3. c = size * t + m
  BY <1>1, <1>2
<1>4. c % size = m
  BY <1>3, SamePlace
<1> QED
  BY <1>2, <1>4

\* Two positions less than a ring apart have different places in it.
LEMMA DifferentPlaces ==
  ASSUME NEW a \in Nat, NEW b \in Nat, NEW size \in Nat \ {0}, a < b, b < a + size
  PROVE  a % size # b % size
<1> SUFFICES ASSUME a % size = b % size PROVE FALSE
  OBVIOUS
<1>1. PICK p \in Int : a = size * p + (a % size) /\ a % size \in 0..(size - 1)
  BY Division
<1>2. PICK q \in Int : b = size * q + (b % size)
  BY Division
<1>3. PICK m \in 0..(size - 1) : m = a % size /\ m = b % size
  BY <1>1
<1>4. PICK d \in Int : d = q - p
  OBVIOUS
<1>5. size * q = size * p + size * d
  BY <1>4
<1>6. PICK x \in Int, y \in Int, z \in Int : x = size * p /\ y = size * q /\ z = size * d
  OBVIOUS
<1>7. z = b - a
  BY <1>1, <1>2, <1>3, <1>5, <1>6
<1>8. z < size /\ 0 - size < z
  BY <1>7
<1>9. d = 0
  BY <1>6, <1>8, SmallMultiple
<1>10. z = 0
  BY <1>6, <1>9
<1> QED
  BY <1>7, <1>10

LEMMA TxPlaces ==
  /\ \A k \in Nat : TxPlace(k) \in Tx /\ NextTx(TxPlace(k)) = TxPlace(k + 1)
  /\ \A k \in Nat : TxPlace(k + NUM_TX_DESC) = TxPlace(k)
  /\ \A a, b \in Nat : a < b /\ b < a + NUM_TX_DESC => TxPlace(a) # TxPlace(b)
<1>1. NUM_TX_DESC \in Nat \ {0}
  BY Sizes
<1>2. \A k \in Nat : TxPlace(k) \in Tx
  BY <1>1, Division DEF TxPlace, Tx
<1>3. \A k \in Nat : NextTx(TxPlace(k)) = TxPlace(k + 1)
  BY <1>1, NextPlace DEF TxPlace, NextTx
<1>4. \A k \in Nat : TxPlace(k + NUM_TX_DESC) = TxPlace(k)
  BY <1>1, SameAfterRound DEF TxPlace
<1>5. \A a, b \in Nat : a < b /\ b < a + NUM_TX_DESC => TxPlace(a) # TxPlace(b)
  BY <1>1, DifferentPlaces DEF TxPlace
<1> QED
  BY <1>2, <1>3, <1>4, <1>5

LEMMA RxPlaces ==
  /\ \A k \in Nat : RxPlace(k) \in Rx /\ NextRx(RxPlace(k)) = RxPlace(k + 1)
  /\ \A k \in Nat : RxPlace(k + NUM_RX_DESC) = RxPlace(k)
  /\ \A a, b \in Nat : a < b /\ b < a + NUM_RX_DESC => RxPlace(a) # RxPlace(b)
<1>1. NUM_RX_DESC \in Nat \ {0}
  BY Sizes
<1>2. \A k \in Nat : RxPlace(k) \in Rx
  BY <1>1, Division DEF RxPlace, Rx
<1>3. \A k \in Nat : NextRx(RxPlace(k)) = RxPlace(k + 1)
  BY <1>1, NextPlace DEF RxPlace, NextRx
<1>4. \A k \in Nat : RxPlace(k + NUM_RX_DESC) = RxPlace(k)
  BY <1>1, SameAfterRound DEF RxPlace
<1>5. \A a, b \in Nat : a < b /\ b < a + NUM_RX_DESC => RxPlace(a) # RxPlace(b)
  BY <1>1, DifferentPlaces DEF RxPlace
<1> QED
  BY <1>2, <1>3, <1>4, <1>5
-----------------------------------------------------------------------------
\* The transmit ring

TxTypes ==
  /\ tx_status \in [Tx -> BOOLEAN] /\ tx_buffer \in [Tx -> Nat \cup {Nothing}]
  /\ Len(wire_out) \in Nat /\ Len(from_lwip) \in Nat /\ lost \in Nat
  /\ Filled \in Int /\ TxTail \in Int

LEMMA TxTyped ==
  ASSUME TypeOK
  PROVE  TxTypes
<1>1. Len(wire_out) \in Nat /\ Len(from_lwip) \in Nat /\ lost \in Nat
  BY DEF TypeOK, RingTypeOK
<1>2. Filled \in Int
  BY <1>1 DEF Filled
<1> QED
  BY <1>1, <1>2 DEF TypeOK, RingTypeOK, TxTypes, TxTail

LEMMA TxSame ==
  ASSUME TypeOK, TxInv,
         UNCHANGED <<from_lwip, lost, wire_out, TDH, tx_desc_tail, TDT, tx_status, tx_buffer,
                     output, out_packet>>,
         ns' = "output" <=> ns = "output"
  PROVE  TxInv'
<1>1. Filled' = Filled
  BY DEF Filled
<1>2. TxTail' = TxTail
  BY <1>1 DEF TxTail
<1> QED
  BY <1>1, <1>2 DEF TxInv

LEMMA TxSend ==
  ASSUME TypeOK, TxInv, card_send, UNCHANGED <<from_lwip, lost, output, ns, out_packet>>
  PROVE  TxInv' /\ wire_out' \in Seq(Nat)
<1> USE Sizes
<1>1. TxTypes
  BY TxTyped
<1>2. PICK w \in Nat, t \in Nat, f \in Nat : w = Len(wire_out) /\ t = TxTail /\ f = Filled /\ w <= t
  BY <1>1 DEF TxTypes, TxInv
<1>3. Filled' = f
  BY <1>2 DEF Filled
<1>4. TxTail' = t /\ t <= f
  BY <1>2, <1>3 DEF TxTail
<1>5. w < t
  BY <1>2 DEF TxInv, card_send
<1>6. w < f /\ f <= w + NUM_TX_DESC
  BY <1>2, <1>4, <1>5 DEF TxInv
<1>7. TDH = TxPlace(w) /\ tx_buffer[TDH] = w + 1 /\ TDH' = TxPlace(w + 1)
  <2>1. TDH = TxPlace(w) /\ TDH' = NextTx(TDH)
    BY <1>2 DEF TxInv, card_send
  <2>2. w \in w..(f - 1)
    BY <1>6
  <2>3. tx_buffer[TxPlace(w)] = w + 1
    BY <1>2, <2>2 DEF TxInv
  <2> QED
    BY <2>1, <2>3, TxPlaces
<1>8. wire_out' = Append(wire_out, w + 1) /\ wire_out \in Seq(Nat)
  BY <1>7 DEF card_send, TypeOK, RingTypeOK
<1>9. Len(wire_out') = w + 1 /\ \A i \in 1..(w + 1) : wire_out'[i] = i
  <2>1. \A i \in 1..w : wire_out[i] = i
    BY <1>2 DEF TxInv
  <2> QED
    BY <1>2, <1>8, <2>1
<1>10. \A k \in (w + 1)..(f - 1) : ~tx_status'[TxPlace(k)] /\ tx_buffer'[TxPlace(k)] = k + 1
  <2> SUFFICES ASSUME NEW k \in (w + 1)..(f - 1)
               PROVE  ~tx_status'[TxPlace(k)] /\ tx_buffer'[TxPlace(k)] = k + 1
    OBVIOUS
  <2>1. k \in Nat /\ k \in w..(f - 1) /\ w < k /\ k < w + NUM_TX_DESC
    BY <1>6
  <2>2. TxPlace(k) # TxPlace(w) /\ TxPlace(k) \in Tx /\ TxPlace(w) \in Tx
    BY <2>1, TxPlaces
  <2>3. tx_status' = [tx_status EXCEPT ![TxPlace(w)] = TRUE] /\ tx_buffer' = tx_buffer
    BY <1>7 DEF card_send
  <2>4. tx_status'[TxPlace(k)] = tx_status[TxPlace(k)]
    BY <1>1, <2>2, <2>3 DEF TxTypes
  <2>5. ~tx_status[TxPlace(k)] /\ tx_buffer[TxPlace(k)] = k + 1
    BY <1>2, <2>1 DEF TxInv
  <2> QED
    BY <2>3, <2>4, <2>5
<1>11. tx_desc_tail' = TxPlace(f) /\ TDT' = TxPlace(t)
  BY <1>2 DEF TxInv, card_send
<1>12. output' = "tx" => out_packet' = f + 1
  BY <1>2 DEF TxInv
<1>13. /\ \A i \in 1..Len(from_lwip') : from_lwip'[i] = i
       /\ w + 1 <= t /\ f <= (w + 1) + NUM_TX_DESC /\ w + 1 \in Nat
  BY <1>5, <1>6 DEF TxInv
<1>14. wire_out' \in Seq(Nat)
  BY <1>8
<1> QED
  BY <1>3, <1>4, <1>7, <1>9, <1>10, <1>11, <1>12, <1>13, <1>14 DEF TxInv

LEMMA TxFill ==
  ASSUME TypeOK, TxInv, output_tx
  PROVE  TxInv'
<1> USE Sizes
<1>1. TxTypes
  BY TxTyped
<1>2. PICK w \in Nat, f \in Nat : w = Len(wire_out) /\ f = Filled
  BY <1>1 DEF TxTypes, TxInv
<1>3. /\ output = "tx" /\ tx_fill(out_packet) /\ output' = "tx_tail" /\ ns' = ns
      /\ from_lwip' = from_lwip /\ wire_out' = wire_out /\ TDH' = TDH /\ TDT' = TDT
      /\ lost' = lost
  BY DEF output_tx, tx_fill, memory, history
<1>4. TxTail = f /\ w <= f /\ f <= w + NUM_TX_DESC /\ tx_desc_tail = TxPlace(f) /\ out_packet = f + 1
  BY <1>2, <1>3 DEF TxInv, TxTail
<1>5. Filled' = f + 1
  BY <1>1, <1>2, <1>3 DEF Filled, TxTypes
<1>6. TxTail' = f
  BY <1>3, <1>5 DEF TxTail
<1>7. f < w + NUM_TX_DESC
  <2> SUFFICES ASSUME f = w + NUM_TX_DESC PROVE FALSE
    BY <1>4
  <2>1. TxPlace(f) = TxPlace(w) /\ w \in w..(f - 1)
    BY TxPlaces
  <2>2. ~tx_status[TxPlace(w)]
    BY <1>2, <2>1 DEF TxInv
  <2> QED
    BY <1>3, <1>4, <2>1, <2>2 DEF tx_fill, tx_full
<1>8. tx_desc_tail' = TxPlace(f + 1)
  BY <1>3, <1>4, TxPlaces DEF tx_fill
<1>9. \A k \in w..f : ~tx_status'[TxPlace(k)] /\ tx_buffer'[TxPlace(k)] = k + 1
  <2> SUFFICES ASSUME NEW k \in w..f
               PROVE  ~tx_status'[TxPlace(k)] /\ tx_buffer'[TxPlace(k)] = k + 1
    OBVIOUS
  <2>1. TxPlace(k) \in Tx /\ TxPlace(f) \in Tx
    BY TxPlaces
  <2>2. /\ tx_status' = [tx_status EXCEPT ![TxPlace(f)] = FALSE]
        /\ tx_buffer' = [tx_buffer EXCEPT ![TxPlace(f)] = f + 1]
    BY <1>3, <1>4 DEF tx_fill
  <2>3. CASE k = f
    BY <1>1, <2>1, <2>2, <2>3 DEF TxTypes
  <2>4. CASE k < f
    <3>1. k \in w..(f - 1) /\ k \in Nat /\ f < k + NUM_TX_DESC
      BY <1>7, <2>4
    <3>2. TxPlace(k) # TxPlace(f)
      BY <2>4, <3>1, TxPlaces
    <3>3. ~tx_status[TxPlace(k)] /\ tx_buffer[TxPlace(k)] = k + 1
      BY <1>2, <3>1 DEF TxInv
    <3> QED
      BY <1>1, <2>1, <2>2, <3>2, <3>3 DEF TxTypes
  <2> QED
    BY <2>3, <2>4
<1>10. /\ \A i \in 1..Len(from_lwip') : from_lwip'[i] = i
       /\ \A i \in 1..Len(wire_out') : wire_out'[i] = i
       /\ Len(wire_out') = w /\ TDH' = TxPlace(w) /\ TDT' = TxPlace(f)
  BY <1>2, <1>3, <1>4 DEF TxInv
<1>11. f + 1 \in Nat /\ w <= f /\ f + 1 <= w + NUM_TX_DESC /\ w..((f + 1) - 1) = w..f
  BY <1>4, <1>7
<1> QED
  BY <1>3, <1>5, <1>6, <1>8, <1>9, <1>10, <1>11 DEF TxInv

LEMMA TxDone ==
  ASSUME TypeOK, TxInv, output_tx_tail
  PROVE  TxInv'
<1>1. /\ output = "tx_tail" /\ output' = "recv" /\ ns' = ns /\ TDT' = tx_desc_tail
      /\ UNCHANGED <<from_lwip, lost, wire_out, TDH, tx_desc_tail, tx_status, tx_buffer>>
  BY DEF output_tx_tail, tx_tail, memory, history
<1>2. TxTypes
  BY TxTyped
<1>3. Filled' = Filled
  BY <1>1 DEF Filled
<1>4. TxTail' = Filled /\ TxTail = Filled - 1
  BY <1>1, <1>3 DEF TxTail
<1>5. Len(wire_out') <= TxTail'
  BY <1>1, <1>2, <1>4 DEF TxInv, TxTypes
<1> QED
  BY <1>1, <1>3, <1>4, <1>5 DEF TxInv

LEMMA TxReceive ==
  ASSUME TypeOK, TxInv, output_recv
  PROVE  TxInv'
<1>1. /\ ns = "output" /\ output = "recv" /\ output' = "tx" /\ ns' = "run"
      /\ out_packet' = from_lwip[Len(from_lwip)]
      /\ UNCHANGED <<from_lwip, lost, wire_out, TDH, tx_desc_tail, TDT, tx_status, tx_buffer>>
  BY DEF output_recv, rings, tx_ring, history
<1>2. TxTypes
  BY TxTyped
<1>3. Filled' = Filled /\ Len(from_lwip) = Filled + 1
  <2>1. lost = 0
    BY <1>1 DEF TxInv
  <2> QED
    BY <1>1, <1>2, <2>1 DEF Filled, TxTypes
<1>4. TxTail' = TxTail
  BY <1>1, <1>3 DEF TxTail
<1>5. out_packet' = Filled + 1
  <2>1. Filled + 1 \in 1..Len(from_lwip)
    BY <1>3 DEF TxInv
  <2> QED
    BY <1>1, <1>3, <2>1 DEF TxInv
<1> QED
  BY <1>1, <1>3, <1>4, <1>5 DEF TxInv

LEMMA TxOutput ==
  ASSUME TypeOK, TxInv, NEW b \in Buffers, low_level_output(b)
  PROVE  TxInv'
<1>1. /\ ns = "run" /\ ns' = "output"
      /\ from_lwip' = Append(from_lwip, Len(from_lwip) + 1)
      /\ UNCHANGED <<lost, wire_out, TDH, tx_desc_tail, TDT, tx_status, tx_buffer, output, out_packet>>
  BY DEF low_level_output, InLwip, InThread, rings, tx_ring, memory
<1>2. TxTypes /\ from_lwip \in Seq(Nat)
  BY TxTyped DEF TypeOK
<1>3. Len(from_lwip') = Len(from_lwip) + 1 /\ \A i \in 1..Len(from_lwip') : from_lwip'[i] = i
  <2>1. \A i \in 1..Len(from_lwip) : from_lwip[i] = i
    BY DEF TxInv
  <2> QED
    BY <1>1, <1>2, <2>1
<1>4. Filled' = Filled
  BY <1>1, <1>2, <1>3 DEF Filled, TxTypes
<1>5. TxTail' = TxTail
  BY <1>1, <1>4 DEF TxTail
<1> QED
  BY <1>1, <1>3, <1>4, <1>5 DEF TxInv
-----------------------------------------------------------------------------
\* The receive ring

RxTypes ==
  /\ rx_status \in [Rx -> BOOLEAN] /\ rx_buffer \in [Rx -> Nat \cup {Nothing}]
  /\ Len(wire_in) \in Nat /\ Len(to_lwip) \in Nat /\ Waiting \in 0..1
  /\ Taken \in Nat /\ RxTail \in Nat

LEMMA RxTyped ==
  ASSUME TypeOK
  PROVE  RxTypes
<1>1. Len(wire_in) \in Nat /\ Len(to_lwip) \in Nat /\ Waiting \in 0..1
  BY DEF TypeOK, RingTypeOK, Waiting
<1>2. Taken \in Nat /\ (input = "rx_tail" => Taken >= 1)
  BY <1>1 DEF Taken, Holding
<1> QED
  BY <1>1, <1>2 DEF TypeOK, RingTypeOK, RxTypes, RxTail

RxUnchanged == UNCHANGED <<wire_in, RDH, RDT, rx_desc_tail, rx_status, rx_buffer>>

LEMMA RxSame ==
  ASSUME TypeOK, RxInv, RxUnchanged, Taken' = Taken,
         input' = "rx_tail" <=> input = "rx_tail",
         \A i \in 1..Len(to_lwip') : to_lwip'[i] = i
  PROVE  RxInv'
<1>1. RxTail' = RxTail
  BY DEF RxTail
<1> QED
  BY <1>1 DEF RxInv, RxUnchanged

LEMMA RxReceive ==
  ASSUME TypeOK, RxInv, card_receive, UNCHANGED <<to_lwip, input>>, Taken' = Taken
  PROVE  RxInv' /\ wire_in' \in Seq(Nat)
<1> USE Sizes
<1>1. RxTypes
  BY RxTyped
<1>2. PICK l \in Nat, t \in Nat, r \in Nat : l = Len(wire_in) /\ t = Taken /\ r = RxTail
  BY <1>1 DEF RxTypes
<1>3. Taken' = t
  BY <1>2
<1>4. RxTail' = r /\ r <= t
  BY <1>2, <1>3 DEF RxTail
<1>5. t <= l /\ l < r + NUM_RX_DESC /\ RDH = RxPlace(l + 1) /\ RDT = RxPlace(r)
  BY <1>2 DEF RxInv
<1>6. l + 1 < r + NUM_RX_DESC
  <2> SUFFICES ASSUME l + 1 = r + NUM_RX_DESC PROVE FALSE
    BY <1>5
  <2> QED
    BY <1>5, RxPlaces DEF card_receive
<1>7. wire_in' = Append(wire_in, l + 1) /\ wire_in \in Seq(Nat)
  BY <1>2 DEF card_receive, TypeOK, RingTypeOK
<1>8. wire_in' \in Seq(Nat) /\ Len(wire_in') = l + 1 /\ \A i \in 1..(l + 1) : wire_in'[i] = i
  <2>1. \A i \in 1..l : wire_in[i] = i
    BY <1>2 DEF RxInv
  <2> QED
    BY <1>2, <1>7, <2>1
<1>9. RxPlace(l + 1) \in Rx /\ NextRx(RxPlace(l + 1)) = RxPlace((l + 1) + 1)
  BY RxPlaces
<1>10. RDH' = RxPlace((l + 1) + 1) /\ rx_desc_tail' = RxPlace(t) /\ RDT' = RxPlace(r)
  BY <1>2, <1>5, <1>9 DEF RxInv, card_receive
<1>11. /\ rx_status' = [rx_status EXCEPT ![RxPlace(l + 1)] = TRUE]
       /\ rx_buffer' = [rx_buffer EXCEPT ![RxPlace(l + 1)] = l + 1]
  BY <1>2, <1>5 DEF card_receive
<1>12. \A i \in Rx : rx_status'[i] => \E k \in t..l : i = RxPlace(k + 1)
  <2> SUFFICES ASSUME NEW i \in Rx, rx_status'[i] PROVE \E k \in t..l : i = RxPlace(k + 1)
    OBVIOUS
  <2>1. CASE i = RxPlace(l + 1)
    BY <1>5, <2>1
  <2>2. CASE i # RxPlace(l + 1)
    <3>1. rx_status[i]
      BY <1>1, <1>11, <2>2 DEF RxTypes
    <3>2. PICK k \in t..(l - 1) : i = RxPlace(k + 1)
      BY <1>2, <3>1 DEF RxInv
    <3>3. k \in t..l
      OBVIOUS
    <3> QED
      BY <3>2, <3>3
  <2> QED
    BY <2>1, <2>2
<1>13. \A k \in t..l : rx_buffer'[RxPlace(k + 1)] = k + 1
  <2> SUFFICES ASSUME NEW k \in t..l PROVE rx_buffer'[RxPlace(k + 1)] = k + 1
    OBVIOUS
  <2>1. RxPlace(k + 1) \in Rx
    BY RxPlaces
  <2>2. CASE k = l
    BY <1>1, <1>9, <1>11, <2>2 DEF RxTypes
  <2>3. CASE k < l
    <3>1. k \in t..(l - 1) /\ k + 1 \in Nat /\ k + 1 < l + 1 /\ l + 1 < (k + 1) + NUM_RX_DESC
      BY <1>4, <1>6, <2>3
    <3>2. RxPlace(k + 1) # RxPlace(l + 1)
      BY <3>1, RxPlaces
    <3>3. rx_buffer[RxPlace(k + 1)] = k + 1
      BY <1>2, <3>1 DEF RxInv
    <3> QED
      BY <1>1, <1>11, <2>1, <3>2, <3>3 DEF RxTypes
  <2> QED
    BY <2>2, <2>3
<1>14. /\ \A i \in 1..Len(to_lwip') : to_lwip'[i] = i
       /\ t <= l + 1 /\ t..((l + 1) - 1) = t..l
  BY <1>5 DEF RxInv
<1>15. RxInv'
  BY <1>3, <1>4, <1>6, <1>8, <1>10, <1>12, <1>13, <1>14 DEF RxInv
<1> QED
  BY <1>8, <1>15

\* A packet that is ready is the next one.
LEMMA NextPacket ==
  ASSUME TypeOK, RxInv, rx_ready
  PROVE  /\ Taken < Len(wire_in) /\ rx_packet = Taken + 1
         /\ rx_next = RxPlace(Taken + 1) /\ rx_next \in Rx
<1> USE Sizes
<1>1. RxTypes
  BY RxTyped
<1>2. PICK l \in Nat, t \in Nat : l = Len(wire_in) /\ t = Taken
  BY <1>1 DEF RxTypes
<1>3. rx_next = RxPlace(t + 1) /\ rx_next \in Rx
  <2>1. rx_desc_tail = RxPlace(t) /\ NextRx(RxPlace(t)) = RxPlace(t + 1) /\ RxPlace(t + 1) \in Rx
    BY <1>2, RxPlaces DEF RxInv
  <2> QED
    BY <2>1 DEF rx_next
<1>4. PICK k \in t..(l - 1) : rx_next = RxPlace(k + 1)
  BY <1>2, <1>3 DEF RxInv, rx_ready
<1>5. t < l /\ t \in t..(l - 1)
  OBVIOUS
<1>6. rx_buffer[RxPlace(t + 1)] = t + 1
  BY <1>2, <1>5 DEF RxInv
<1> QED
  BY <1>2, <1>3, <1>5, <1>6 DEF rx_packet

LEMMA RxTake ==
  ASSUME TypeOK, RxInv, rx_take, input = "rx", input' = "rx_tail", Taken' = Taken + 1,
         to_lwip' = to_lwip
  PROVE  RxInv'
<1> USE Sizes
<1>1. RxTypes
  BY RxTyped
<1>2. PICK l \in Nat, t \in Nat : l = Len(wire_in) /\ t = Taken
  BY <1>1 DEF RxTypes
<1>3. /\ rx_desc_tail' = rx_next /\ rx_status' = [rx_status EXCEPT ![rx_next] = FALSE]
      /\ UNCHANGED <<wire_in, RDH, RDT, rx_buffer>>
  BY DEF rx_take
<1>4. t < l /\ rx_next = RxPlace(t + 1) /\ rx_next \in Rx
  BY <1>2, NextPacket DEF rx_take
<1>5. RxTail = t /\ RxTail' = t
  BY <1>2 DEF RxTail
<1>6. \A i \in Rx : rx_status'[i] => \E k \in (t + 1)..(l - 1) : i = RxPlace(k + 1)
  <2> SUFFICES ASSUME NEW i \in Rx, rx_status'[i]
               PROVE  \E k \in (t + 1)..(l - 1) : i = RxPlace(k + 1)
    OBVIOUS
  <2>1. i # RxPlace(t + 1) /\ rx_status[i]
    BY <1>1, <1>3, <1>4 DEF RxTypes
  <2>2. PICK k \in t..(l - 1) : i = RxPlace(k + 1)
    BY <1>2, <2>1 DEF RxInv
  <2>3. k # t
    BY <2>1, <2>2
  <2>4. k \in (t + 1)..(l - 1)
    BY <2>3
  <2> QED
    BY <2>2, <2>4
<1>7. \A k \in (t + 1)..(l - 1) : rx_buffer'[RxPlace(k + 1)] = k + 1
  <2> SUFFICES ASSUME NEW k \in (t + 1)..(l - 1) PROVE rx_buffer'[RxPlace(k + 1)] = k + 1
    OBVIOUS
  <2>1. k \in t..(l - 1)
    OBVIOUS
  <2> QED
    BY <1>2, <1>3, <2>1 DEF RxInv
<1>8. /\ \A i \in 1..Len(wire_in') : wire_in'[i] = i
      /\ \A i \in 1..Len(to_lwip') : to_lwip'[i] = i
      /\ Len(wire_in') = l /\ l < t + NUM_RX_DESC
      /\ RDH' = RxPlace(l + 1) /\ RDT' = RxPlace(t)
  BY <1>2, <1>3, <1>5 DEF RxInv
<1>9. Taken' = t + 1 /\ t + 1 <= l /\ rx_desc_tail' = RxPlace(t + 1)
  BY <1>2, <1>3, <1>4
<1> QED
  BY <1>5, <1>6, <1>7, <1>8, <1>9 DEF RxInv

LEMMA RxDone ==
  ASSUME TypeOK, RxInv, rx_tail, input = "rx_tail", input' = "send", Taken' = Taken,
         to_lwip' = to_lwip
  PROVE  RxInv'
<1> USE Sizes
<1>1. RxTypes
  BY RxTyped
<1>2. /\ RDT' = rx_desc_tail
      /\ UNCHANGED <<wire_in, RDH, rx_desc_tail, rx_buffer, rx_status>>
  BY DEF rx_tail
<1>3. RxTail' = Taken /\ RxTail = Taken - 1
  BY DEF RxTail
<1>4. Len(wire_in) < Taken + NUM_RX_DESC
  BY <1>1, <1>3 DEF RxInv, RxTypes
<1> QED
  BY <1>2, <1>3, <1>4 DEF RxInv
-----------------------------------------------------------------------------
\* The owners of the buffers

ThreadInv == OneRound /\ Owned /\ Balanced /\ Where

LEMMA BufferSets ==
  ASSUME TypeOK
  PROVE  /\ IsFiniteSet(buse) /\ Cardinality(buse) \in Nat
         /\ IsFiniteSet(AliveBuffers) /\ Cardinality(AliveBuffers) \in Nat
         /\ AliveBuffers \subseteq Buffers /\ strays \in Nat
<1>1. IsFiniteSet(Buffers)
  <2>1. 0 \in Int /\ QUEUE_SIZE - 1 \in Int
    BY Sizes
  <2> QED
    BY <2>1, FS_Interval DEF Buffers
<1>2. buse \subseteq Buffers /\ AliveBuffers \subseteq Buffers /\ strays \in Nat
  BY ServerAssumption DEF TypeOK, AliveBuffers
<1>3. IsFiniteSet(buse) /\ IsFiniteSet(AliveBuffers)
  BY <1>1, <1>2, FS_Subset
<1> QED
  BY <1>2, <1>3, FS_CardinalityType

AliveSame == \A t : Alive(t)' <=> Alive(t)

LEMMA SameAliveBuffers ==
  ASSUME AliveSame
  PROVE  AliveBuffers' = AliveBuffers
  BY DEF AliveBuffers, AliveSame, Buffers

\* The threads that are alive and the buffers in use stay.
LEMMA OwnersSame ==
  ASSUME TypeOK, ThreadInv, AliveSame, UNCHANGED <<buse, va, main, strays>>
  PROVE  Owned' /\ Balanced'
<1>1. Owned'
  BY DEF ThreadInv, Owned, AliveSame
<1>2. Balanced'
  BY SameAliveBuffers DEF ThreadInv, Balanced
<1> QED
  BY <1>1, <1>2

LEMMA ThreadsSame ==
  ASSUME TypeOK, ThreadInv, UNCHANGED <<cur_tc, thread_queue, begun, buse, va, main, strays>>
  PROVE  AliveSame /\ OneRound' /\ Owned' /\ Balanced'
<1>1. AliveSame
  BY SameRound DEF AliveSame
<1>2. OneRound'
  BY SameOneRound DEF ThreadInv
<1> QED
  BY <1>1, <1>2, OwnersSame

LEMMA ThreadsRotated ==
  ASSUME TypeOK, ThreadInv, Yield(thread_queue), begun' = begun,
         cur_tc \in begun \cup {Main}
  PROVE  AliveSame /\ OneRound' /\ cur_tc' \in Threads /\ thread_queue' \in Seq(Threads)
<1>1. Rotated
  BY YieldRotates
<1> QED
  BY <1>1, RotatedRound DEF ThreadInv, AliveSame, Rotated

\* serve() takes a buffer.
LEMMA BufferTaken ==
  ASSUME TypeOK, ThreadInv, AliveSame, main = "top", main' # "top", va' \notin buse,
         buse' = buse \cup {va'}, strays' = strays
  PROVE  Owned' /\ Balanced'
<1>1. Owned'
  BY DEF ThreadInv, Owned, AliveSame
<1>2. Cardinality(buse') = Cardinality(buse) + 1
  BY BufferSets, FS_AddElement
<1>3. Balanced'
  BY <1>2, SameAliveBuffers, BufferSets DEF ThreadInv, Balanced
<1> QED
  BY <1>1, <1>3

\* serve() gives its buffer back.
LEMMA BufferReturned ==
  ASSUME TypeOK, ThreadInv, AliveSame, main # "top", main' = "top",
         buse' = buse \ {va}, UNCHANGED <<va, strays>>
  PROVE  Owned' /\ Balanced'
<1>1. Owned'
  BY DEF ThreadInv, Owned, AliveSame
<1>2. va \in buse
  BY DEF ThreadInv, Owned
<1>3. Cardinality(buse') = Cardinality(buse) - 1
  BY <1>2, BufferSets, FS_RemoveElement
<1>4. Balanced'
  BY <1>3, SameAliveBuffers, BufferSets DEF ThreadInv, Balanced
<1> QED
  BY <1>1, <1>4

\* A message without a page: serve() forgets its buffer.
LEMMA BufferForgotten ==
  ASSUME TypeOK, ThreadInv, AliveSame, main # "top", main' = "top", strays' = strays + 1,
         UNCHANGED <<buse, va>>
  PROVE  Owned' /\ Balanced'
<1>1. Owned'
  BY DEF ThreadInv, Owned, AliveSame
<1>2. Balanced'
  BY SameAliveBuffers, BufferSets DEF ThreadInv, Balanced
<1> QED
  BY <1>1, <1>2

\* A new thread takes serve()'s buffer over.
LEMMA BufferHanded ==
  ASSUME TypeOK, ThreadInv, Create(va), main # "top", main' = "top", cur_tc = Main,
         UNCHANGED <<buse, va, strays, begun>>
  PROVE  /\ OneRound' /\ Owned' /\ Balanced' /\ ~Alive(va)
         /\ \A t : Alive(t)' <=> Alive(t) \/ t = va
         /\ cur_tc' \in Threads /\ thread_queue' \in Seq(Threads)
<1>1. va \in Buffers /\ ~Alive(va) /\ va \in buse
  BY DEF ThreadInv, Owned, TypeOK
<1>2. Joined(va)
  BY <1>1, CreateJoins
<1>3. OneRound' /\ \A t : Alive(t)' <=> Alive(t) \/ t = va
  BY <1>1, <1>2, JoinedRound DEF ThreadInv
<1>4. Owned'
  BY <1>1, <1>3 DEF ThreadInv, Owned
<1>5. AliveBuffers' = AliveBuffers \cup {va} /\ va \notin AliveBuffers
  BY <1>1, <1>3 DEF AliveBuffers, Buffers
<1>6. Cardinality(AliveBuffers') = Cardinality(AliveBuffers) + 1
  BY <1>5, BufferSets, FS_AddElement
<1>7. Balanced'
  BY <1>6, BufferSets DEF ThreadInv, Balanced
<1> QED
  BY <1>1, <1>2, <1>3, <1>4, <1>7 DEF Joined

\* A thread ends.
LEMMA ThreadEnded ==
  ASSUME TypeOK, ThreadInv, NEW b \in Buffers, cur_tc = b, thread_end(b)
  PROVE  /\ OneRound' /\ Owned' /\ Balanced'
         /\ \A t : Alive(t)' <=> Alive(t) /\ t # b
         /\ cur_tc' \in Threads /\ thread_queue' \in Seq(Threads)
<1>1. /\ buse' = buse \ {b} /\ begun' = begun \ {b} /\ Halt
      /\ UNCHANGED <<main, va, strays>>
  BY DEF thread_end
<1>2. cur_tc # Main
  BY Sizes
<1>3. Left
  <2>1. PICK i \in 1..Round : Turn(i) = Main
    BY DEF ThreadInv, OneRound, Alive
  <2>2. i # 1 /\ Round \in Nat
    BY <1>2, <2>1, RoundType
  <2>3. Round > 1
    BY <2>2
  <2> QED
    BY <1>1, <2>3, HaltLeaves
<1>4. OneRound' /\ \A t : Alive(t)' <=> Alive(t) /\ t # b
  BY <1>1, <1>2, <1>3, LeftRound DEF ThreadInv
<1>5. Alive(b)
  BY RoundType DEF Alive
<1>6. b \in buse /\ (main # "top" => b # va)
  BY <1>5 DEF ThreadInv, Owned
<1>7. Owned'
  BY <1>1, <1>4, <1>6 DEF ThreadInv, Owned
<1>8. AliveBuffers' = AliveBuffers \ {b} /\ b \in AliveBuffers
  BY <1>4, <1>5 DEF AliveBuffers, Buffers
<1>9. Cardinality(AliveBuffers') = Cardinality(AliveBuffers) - 1
  BY <1>8, BufferSets, FS_RemoveElement
<1>10. Cardinality(buse') = Cardinality(buse) - 1
  BY <1>1, <1>6, BufferSets, FS_RemoveElement
<1>11. Balanced'
  BY <1>1, <1>9, <1>10, BufferSets DEF ThreadInv, Balanced
<1> QED
  BY <1>3, <1>4, <1>7, <1>11 DEF Left
-----------------------------------------------------------------------------
\* The pages that carry received packets

FreshSame == \A b \in Buffers : Fresh(b)' <=> Fresh(b)

LEMMA FreshKept ==
  ASSUME AliveSame, UNCHANGED <<begun, request>>
  PROVE  FreshSame
  BY DEF FreshSame, AliveSame, Fresh

LEMMA WaitingKept ==
  ASSUME FreshSame
  PROVE  Waiting' = Waiting
<1>1. (\E b \in Buffers : Fresh(b)') <=> \E b \in Buffers : Fresh(b)
  BY DEF FreshSame
<1> QED
  BY <1>1 DEF Waiting, Buffers

LEMMA TakenKept ==
  ASSUME FreshSame, to_lwip' = to_lwip, Holding' <=> Holding
  PROVE  Taken' = Taken
  BY WaitingKept DEF Taken

RequestsKept ==
  \A b \in Buffers : req_page'[b] = req_page[b] \/ (req_page'[b] = NoPage /\ ~Fresh(b))

\* Nothing happens to the packets on their way in, but that a request buffer may
\* be emptied whose packet lwIP has.
LEMMA PacketsKept ==
  ASSUME TypeOK, RxInv, Carried, RxUnchanged, FreshSame,
         UNCHANGED <<to_lwip, input, content, input_page>>, RequestsKept
  PROVE  RxInv' /\ Carried'
<1>1. Holding' <=> Holding
  BY DEF Holding
<1>2. Taken' = Taken
  BY <1>1, TakenKept
<1>3. RxInv'
  <2>1. \A i \in 1..Len(to_lwip') : to_lwip'[i] = i
    BY DEF RxInv
  <2>2. input' = "rx_tail" <=> input = "rx_tail"
    OBVIOUS
  <2> QED
    BY <1>2, <2>1, <2>2, RxSame
<1>4. Holding' => content'[input_page'] = Taken'
  BY <1>1, <1>2 DEF Carried
<1>5. \A b \in Buffers : Fresh(b)' =>
        req_page'[b] \in Pages /\ content'[req_page'[b]] = Len(to_lwip') + 1
  BY DEF Carried, FreshSame, RequestsKept
<1>6. input' \notin {"alloc", "dead"} =>
        input_page' \in Pages /\ \A b \in Buffers : req_page'[b] # input_page'
  <2>1. NoPage \notin Pages
    BY ServerAssumption DEF Pages
  <2> QED
    BY <2>1 DEF Carried, RequestsKept
<1> QED
  BY <1>3, <1>4, <1>5, <1>6 DEF Carried, Buffers, Pages

\* There is always a page to take: QUEUE_SIZE + 1 are in use at most.
LEMMA PageToTake ==
  ASSUME TypeOK
  PROVE  sys_page_alloc \in FreePages /\ sys_page_alloc \in Pages
<1> USE Sizes
<1>1. PICK U : U = {input_page} \cup {req_page[b] : b \in Buffers}
  OBVIOUS
<1>2. PICK f : f = [i \in 0..QUEUE_SIZE |-> IF i = QUEUE_SIZE THEN input_page ELSE req_page[i]]
  OBVIOUS
<1>3. f \in Surjection(0..QUEUE_SIZE, U)
  <2>1. f \in [0..QUEUE_SIZE -> U]
    BY <1>1, <1>2 DEF Buffers
  <2>2. \A u \in U : \E i \in 0..QUEUE_SIZE : f[i] = u
    <3> SUFFICES ASSUME NEW u \in U PROVE \E i \in 0..QUEUE_SIZE : f[i] = u
      OBVIOUS
    <3>1. CASE u = input_page
      <4>1. QUEUE_SIZE \in 0..QUEUE_SIZE /\ f[QUEUE_SIZE] = u
        BY <1>2, <3>1
      <4> QED
        BY <4>1
    <3>2. CASE u # input_page
      <4>1. PICK b \in Buffers : u = req_page[b]
        BY <1>1, <3>2
      <4>2. b \in 0..QUEUE_SIZE /\ b # QUEUE_SIZE
        BY DEF Buffers
      <4> QED
        BY <1>2, <4>1, <4>2
    <3> QED
      BY <3>1, <3>2
  <2> QED
    BY <2>1, <2>2, Zenon DEF Surjection
<1>4. IsFiniteSet(0..QUEUE_SIZE) /\ Cardinality(0..QUEUE_SIZE) = QUEUE_SIZE + 1
  <2>1. 0 \in Int /\ QUEUE_SIZE \in Int /\ ~(0 > QUEUE_SIZE)
    OBVIOUS
  <2>2. IsFiniteSet(0..QUEUE_SIZE) /\ Cardinality(0..QUEUE_SIZE) = QUEUE_SIZE - 0 + 1
    BY <2>1, FS_Interval
  <2> QED
    BY <2>2
<1>5. IsFiniteSet(U) /\ Cardinality(U) <= QUEUE_SIZE + 1 /\ Cardinality(U) \in Nat
  BY <1>3, <1>4, FS_Surjection, FS_CardinalityType
<1>6. IsFiniteSet(Pages) /\ Cardinality(Pages) = QUEUE_SIZE + 2
  <2>1. PICK n \in Int : n = QUEUE_SIZE + 1
    OBVIOUS
  <2>2. 0 \in Int /\ ~(0 > n)
    BY <2>1
  <2>3. IsFiniteSet(0..n) /\ Cardinality(0..n) = n - 0 + 1
    BY <2>2, FS_Interval
  <2> QED
    BY <2>1, <2>3 DEF Pages
<1>7. FreePages # {}
  <2> SUFFICES ASSUME FreePages = {} PROVE FALSE
    OBVIOUS
  <2>1. Pages \subseteq U
    BY <1>1 DEF FreePages
  <2>2. Cardinality(Pages) <= Cardinality(U)
    BY <1>5, <2>1, FS_Subset
  <2> QED
    BY <1>5, <1>6, <2>2
<1>8. FreePages \subseteq Pages /\ Pages \subseteq Nat
  BY DEF FreePages, Pages
<1>9. Min(FreePages) \in FreePages
  BY <1>7, <1>8, MinIn
<1> QED
  BY <1>8, <1>9 DEF sys_page_alloc
-----------------------------------------------------------------------------
\* The steps of the card, of input() and of output()

LEMMA RingTypesKept ==
  ASSUME TypeOK, UNCHANGED rings
  PROVE  RingTypeOK'
  BY DEF TypeOK, RingTypeOK, rings, tx_ring, rx_ring

LEMMA PlaceAfter ==
  /\ \A i \in Tx : NextTx(i) \in Tx
  /\ \A i \in Rx : NextRx(i) \in Rx
<1>1. NUM_TX_DESC \in Nat \ {0} /\ NUM_RX_DESC \in Nat \ {0}
  BY Sizes
<1>2. \A a \in Nat : a % NUM_TX_DESC \in Tx /\ a % NUM_RX_DESC \in Rx
  BY <1>1, Division DEF Tx, Rx
<1>3. Tx \subseteq Nat /\ Rx \subseteq Nat
  BY DEF Tx, Rx
<1>4. \A i \in Tx : i + 1 \in Nat
  BY <1>3
<1>5. \A i \in Rx : i + 1 \in Nat
  BY <1>3
<1> QED
  BY <1>2, <1>4, <1>5 DEF NextTx, NextRx

\* What nobody but the card, input() and output() changes
Beside == <<ns, callers, server, threads, history>>

LEMMA BesideKept ==
  ASSUME NetInv, UNCHANGED Beside
  PROVE  ThreadInv' /\ FreshSame /\ Waiting' = Waiting
<1>1. UNCHANGED <<cur_tc, thread_queue, begun, buse, va, main, strays, ns, request>>
  BY DEF Beside, server, threads
<1>2. AliveSame /\ OneRound' /\ Owned' /\ Balanced'
  BY <1>1, ThreadsSame DEF NetInv, ThreadInv
<1>3. Where'
  BY <1>1 DEF NetInv, Where
<1>4. FreshSame
  BY <1>1, <1>2, FreshKept
<1> QED
  BY <1>2, <1>3, <1>4, WaitingKept DEF ThreadInv

LEMMA CardSendInv ==
  ASSUME NetInv, card_send, UNCHANGED <<input, output, memory, Beside>>
  PROVE  NetInv'
<1>1. TypeOK /\ TxInv /\ RxInv /\ Carried
  BY DEF NetInv
<1>2. UNCHANGED <<input, output, content, input_page, req_page, out_packet, ns, to_lwip, from_lwip, lost>>
  BY DEF memory, Beside, history
<1>3. TxInv' /\ wire_out' \in Seq(Nat)
  BY <1>1, <1>2, TxSend
<1>4. ThreadInv' /\ FreshSame
  BY BesideKept
<1>5. RxUnchanged
  BY DEF RxUnchanged, card_send, rx_ring
<1>6. RxInv' /\ Carried'
  <2>1. RequestsKept
    BY <1>2 DEF RequestsKept
  <2> QED
    BY <1>1, <1>2, <1>4, <1>5, <2>1, PacketsKept
<1>7. RingTypeOK'
  <2>1. RingTypeOK
    BY <1>1 DEF TypeOK
  <2>2. TDH' \in Tx
    BY <2>1, PlaceAfter DEF card_send, RingTypeOK
  <2>3. tx_status' \in [Tx -> BOOLEAN]
    BY <2>1 DEF card_send, RingTypeOK
  <2> QED
    BY <1>3, <2>1, <2>2, <2>3 DEF card_send, RingTypeOK, rx_ring
<1>8. TypeOK'
  BY <1>1, <1>7 DEF TypeOK, memory, Beside, callers, server, threads, history
<1> QED
  BY <1>3, <1>4, <1>6, <1>8 DEF NetInv, ThreadInv

LEMMA CardReceiveInv ==
  ASSUME NetInv, card_receive, UNCHANGED <<input, output, memory, Beside>>
  PROVE  NetInv'
<1>1. TypeOK /\ TxInv /\ RxInv /\ Carried
  BY DEF NetInv
<1>2. UNCHANGED <<input, output, content, input_page, req_page, out_packet, ns, to_lwip, from_lwip, lost>>
  BY DEF memory, Beside, history
<1>3. TxInv'
  BY <1>1, <1>2, TxSame DEF card_receive, tx_ring
<1>4. ThreadInv' /\ FreshSame
  BY BesideKept
<1>5. Taken' = Taken /\ (Holding' <=> Holding)
  BY <1>2, <1>4, TakenKept DEF Holding
<1>6. RxInv' /\ wire_in' \in Seq(Nat)
  BY <1>1, <1>2, <1>5, RxReceive
<1>7. Carried'
  BY <1>1, <1>2, <1>4, <1>5 DEF Carried, FreshSame
<1>8. RingTypeOK'
  <2>1. RingTypeOK
    BY <1>1 DEF TypeOK
  <2>2. RDH' \in Rx
    BY <2>1, PlaceAfter DEF card_receive, RingTypeOK
  <2>3. rx_status' \in [Rx -> BOOLEAN]
    BY <2>1 DEF card_receive, RingTypeOK
  <2>4. rx_buffer' \in [Rx -> Nat \cup {Nothing}]
    <3>1. Len(wire_in) + 1 \in Nat
      BY <2>1 DEF RingTypeOK
    <3> QED
      BY <2>1, <3>1 DEF card_receive, RingTypeOK
  <2> QED
    BY <1>6, <2>1, <2>2, <2>3, <2>4 DEF card_receive, RingTypeOK, tx_ring
<1>9. TypeOK'
  BY <1>1, <1>8 DEF TypeOK, memory, Beside, callers, server, threads, history
<1> QED
  BY <1>3, <1>4, <1>6, <1>7, <1>9 DEF NetInv, ThreadInv

LEMMA CardInv ==
  ASSUME NetInv, card
  PROVE  NetInv'
<1>1. UNCHANGED <<input, output, memory, Beside>>
  BY DEF card, Beside
<1> QED
  BY <1>1, CardSendInv, CardReceiveInv DEF card

LEMMA InputAllocInv ==
  ASSUME NetInv, input_alloc
  PROVE  NetInv'
<1>1. TypeOK /\ TxInv /\ RxInv /\ Carried
  BY DEF NetInv
<1>2. PICK p : p = sys_page_alloc
  OBVIOUS
<1>3. p \in FreePages /\ p \in Pages
  BY <1>1, <1>2, PageToTake
<1>4. /\ input = "alloc" /\ input' = "rx" /\ input_page' = p
      /\ content' = [content EXCEPT ![p] = Nothing]
      /\ UNCHANGED rings /\ UNCHANGED Beside /\ UNCHANGED <<output, req_page, out_packet>>
  BY <1>2 DEF input_alloc, Beside
<1>5. UNCHANGED <<ns, to_lwip, from_lwip, lost>>
  BY <1>4 DEF Beside, history
<1>6. TxInv'
  BY <1>1, <1>4, <1>5, TxSame DEF rings, tx_ring
<1>7. ThreadInv' /\ FreshSame
  BY <1>4, BesideKept
<1>8. ~Holding' /\ ~Holding
  BY <1>4 DEF Holding
<1>9. Taken' = Taken
  BY <1>5, <1>7, <1>8, TakenKept
<1>10. RxInv'
  <2>1. RxUnchanged
    BY <1>4 DEF rings, rx_ring, RxUnchanged
  <2>2. \A i \in 1..Len(to_lwip') : to_lwip'[i] = i
    BY <1>1, <1>5 DEF RxInv
  <2>3. input' = "rx_tail" <=> input = "rx_tail"
    BY <1>4
  <2> QED
    BY <1>1, <1>9, <2>1, <2>2, <2>3, RxSame
<1>11. Carried'
  <2>1. \A b \in Buffers : req_page[b] # p
    BY <1>3 DEF FreePages
  <2>2. \A q \in Pages : q # p => content'[q] = content[q]
    BY <1>1, <1>4 DEF TypeOK
  <2> QED
    BY <1>1, <1>3, <1>4, <1>5, <1>7, <1>8, <2>1, <2>2 DEF Carried, FreshSame
<1>12. TypeOK'
  <2>1. RingTypeOK'
    BY <1>1, <1>4, RingTypesKept
  <2>2. content' \in [Pages -> Nat \cup {Nothing}]
    BY <1>1, <1>4 DEF TypeOK
  <2> QED
    BY <1>1, <1>3, <1>4, <2>1, <2>2 DEF TypeOK, Beside, callers, server, threads, history
<1> QED
  BY <1>6, <1>7, <1>10, <1>11, <1>12 DEF NetInv, ThreadInv

LEMMA InputRxInv ==
  ASSUME NetInv, input_rx
  PROVE  NetInv'
<1>1. TypeOK /\ TxInv /\ RxInv /\ Carried
  BY DEF NetInv
<1>2. /\ input = "rx" /\ input' = "rx_tail" /\ rx_take
      /\ content' = [content EXCEPT ![input_page] = rx_packet]
      /\ UNCHANGED Beside /\ UNCHANGED <<output, input_page, req_page, out_packet>>
  BY DEF input_rx, Beside
<1>3. UNCHANGED <<ns, to_lwip, from_lwip, lost>>
  BY <1>2 DEF Beside, history
<1>4. rx_packet = Taken + 1 /\ rx_next \in Rx /\ Taken \in Nat
  BY <1>1, <1>2, NextPacket, RxTyped DEF rx_take, RxTypes
<1>5. TxInv'
  BY <1>1, <1>2, <1>3, TxSame DEF rx_take, tx_ring
<1>6. ThreadInv' /\ FreshSame /\ Waiting' = Waiting
  BY <1>2, BesideKept
<1>7. Taken' = Taken + 1 /\ Holding'
  <2>1. ~Holding /\ Holding'
    BY <1>2 DEF Holding
  <2>2. Len(to_lwip) \in Nat /\ Waiting \in 0..1
    BY <1>1, RxTyped DEF RxTypes
  <2> QED
    BY <1>3, <1>6, <2>1, <2>2 DEF Taken
<1>8. RxInv'
  BY <1>1, <1>2, <1>3, <1>7, RxTake
<1>9. input_page \in Pages /\ \A b \in Buffers : req_page[b] # input_page
  BY <1>1, <1>2 DEF Carried
<1>10. content' \in [Pages -> Nat \cup {Nothing}]
       /\ \A q \in Pages : content'[q] = IF q = input_page THEN Taken + 1 ELSE content[q]
  BY <1>1, <1>2, <1>4, <1>9 DEF TypeOK
<1>11. Carried'
  BY <1>1, <1>2, <1>3, <1>6, <1>7, <1>9, <1>10 DEF Carried, FreshSame
<1>12. TypeOK'
  <2>1. RingTypeOK
    BY <1>1 DEF TypeOK
  <2>2. rx_status' \in [Rx -> BOOLEAN]
    BY <1>2, <1>4, <2>1 DEF rx_take, RingTypeOK
  <2>3. RingTypeOK'
    BY <1>2, <1>4, <2>1, <2>2 DEF rx_take, RingTypeOK, tx_ring
  <2> QED
    BY <1>1, <1>2, <1>10, <2>3 DEF TypeOK, Beside, callers, server, threads, history
<1> QED
  BY <1>5, <1>6, <1>8, <1>11, <1>12 DEF NetInv, ThreadInv

LEMMA InputTailInv ==
  ASSUME NetInv, input_rx_tail
  PROVE  NetInv'
<1>1. TypeOK /\ TxInv /\ RxInv /\ Carried
  BY DEF NetInv
<1>2. /\ input = "rx_tail" /\ input' = "send" /\ rx_tail
      /\ UNCHANGED Beside /\ UNCHANGED <<output, content, input_page, req_page, out_packet>>
  BY DEF input_rx_tail, Beside, memory
<1>3. UNCHANGED <<ns, to_lwip, from_lwip, lost>>
  BY <1>2 DEF Beside, history
<1>4. TxInv'
  BY <1>1, <1>2, <1>3, TxSame DEF rx_tail, tx_ring
<1>5. ThreadInv' /\ FreshSame
  BY <1>2, BesideKept
<1>6. Holding' /\ Holding
  BY <1>2 DEF Holding
<1>7. Taken' = Taken
  BY <1>3, <1>5, <1>6, TakenKept
<1>8. RxInv'
  BY <1>1, <1>2, <1>3, <1>7, RxDone
<1>9. Carried'
  BY <1>1, <1>2, <1>3, <1>5, <1>6, <1>7 DEF Carried, FreshSame
<1>10. TypeOK'
  <2>1. RingTypeOK'
    BY <1>1, <1>2 DEF TypeOK, rx_tail, RingTypeOK, tx_ring
  <2> QED
    BY <1>1, <1>2, <2>1 DEF TypeOK, Beside, callers, server, threads, history
<1> QED
  BY <1>4, <1>5, <1>8, <1>9, <1>10 DEF NetInv, ThreadInv

LEMMA OutputTxInv ==
  ASSUME NetInv, output_tx
  PROVE  NetInv'
<1>1. TypeOK /\ TxInv /\ RxInv /\ Carried
  BY DEF NetInv
<1>2. /\ tx_fill(out_packet) /\ output' = "tx_tail" /\ UNCHANGED Beside
      /\ UNCHANGED <<input, content, input_page, req_page, out_packet>>
  BY DEF output_tx, Beside, memory
<1>3. TxInv'
  BY <1>1, TxFill
<1>4. ThreadInv' /\ FreshSame
  BY <1>2, BesideKept
<1>5. RxInv' /\ Carried'
  <2>1. RxUnchanged
    BY <1>2 DEF RxUnchanged, tx_fill, rx_ring
  <2>2. RequestsKept /\ to_lwip' = to_lwip
    BY <1>2 DEF RequestsKept, Beside, history
  <2> QED
    BY <1>1, <1>2, <1>4, <2>1, <2>2, PacketsKept
<1>6. RingTypeOK'
  <2>1. RingTypeOK
    BY <1>1 DEF TypeOK
  <2>2. tx_desc_tail' \in Tx
    BY <1>2, <2>1, PlaceAfter DEF tx_fill, RingTypeOK
  <2>3. tx_status' \in [Tx -> BOOLEAN]
    BY <1>2, <2>1 DEF tx_fill, RingTypeOK
  <2>4. tx_buffer' \in [Tx -> Nat \cup {Nothing}]
    BY <1>1, <1>2, <2>1 DEF TypeOK, tx_fill, RingTypeOK
  <2> QED
    BY <1>2, <2>1, <2>2, <2>3, <2>4 DEF tx_fill, RingTypeOK, rx_ring
<1>7. TypeOK'
  BY <1>1, <1>2, <1>6 DEF TypeOK, Beside, callers, server, threads, history
<1> QED
  BY <1>3, <1>4, <1>5, <1>7 DEF NetInv, ThreadInv

LEMMA OutputTailInv ==
  ASSUME NetInv, output_tx_tail
  PROVE  NetInv'
<1>1. TypeOK /\ TxInv /\ RxInv /\ Carried
  BY DEF NetInv
<1>2. /\ tx_tail /\ output' = "recv" /\ UNCHANGED Beside
      /\ UNCHANGED <<input, content, input_page, req_page, out_packet>>
  BY DEF output_tx_tail, Beside, memory
<1>3. TxInv'
  BY <1>1, TxDone
<1>4. ThreadInv' /\ FreshSame
  BY <1>2, BesideKept
<1>5. RxInv' /\ Carried'
  <2>1. RxUnchanged
    BY <1>2 DEF RxUnchanged, tx_tail, rx_ring
  <2>2. RequestsKept /\ to_lwip' = to_lwip
    BY <1>2 DEF RequestsKept, Beside, history
  <2> QED
    BY <1>1, <1>2, <1>4, <2>1, <2>2, PacketsKept
<1>6. RingTypeOK'
  BY <1>1, <1>2 DEF TypeOK, tx_tail, RingTypeOK, rx_ring
<1>7. TypeOK'
  BY <1>1, <1>2, <1>6 DEF TypeOK, Beside, callers, server, threads, history
<1> QED
  BY <1>3, <1>4, <1>5, <1>7 DEF NetInv, ThreadInv
-----------------------------------------------------------------------------
\* The steps of the server and of those that call it

\* The rings and the pages with packets stay, and so do the histories.
Quiet ==
  UNCHANGED <<rings, input, output, content, input_page, req_page, out_packet, to_lwip,
              from_lwip, lost>>

LEMMA QuietKept ==
  ASSUME NetInv, Quiet, FreshSame, ns' = "output" <=> ns = "output"
  PROVE  TxInv' /\ RxInv' /\ Carried' /\ RingTypeOK'
<1>1. TypeOK /\ TxInv /\ RxInv /\ Carried
  BY DEF NetInv
<1>2. TxInv'
  BY <1>1, TxSame DEF Quiet, rings, tx_ring
<1>3. RxInv' /\ Carried'
  <2>1. RxUnchanged
    BY DEF Quiet, RxUnchanged, rings, rx_ring
  <2>2. RequestsKept
    BY DEF Quiet, RequestsKept
  <2> QED
    BY <1>1, <2>1, <2>2, PacketsKept DEF Quiet
<1>4. RingTypeOK'
  BY <1>1, RingTypesKept DEF Quiet
<1> QED
  BY <1>2, <1>3, <1>4

LEMMA OutputFaultInv ==
  ASSUME NetInv, output_fault
  PROVE  NetInv'
<1>1. TypeOK /\ TxInv /\ RxInv /\ Carried
  BY DEF NetInv
<1>2. /\ output = "recv" /\ output' = "dead" /\ UNCHANGED Beside /\ UNCHANGED rings
      /\ UNCHANGED <<input, content, input_page, req_page, out_packet>>
  BY DEF output_fault, Beside, memory
<1>3. TxInv'
  <2>1. UNCHANGED <<from_lwip, lost, ns, wire_out, TDH, tx_desc_tail, TDT, tx_status, tx_buffer>>
    BY <1>2 DEF Beside, history, rings, tx_ring
  <2>2. Filled' = Filled
    BY <1>2, <2>1 DEF Filled
  <2>3. TxTail' = TxTail
    BY <1>2, <2>2 DEF TxTail
  <2> QED
    BY <1>1, <1>2, <2>1, <2>2, <2>3 DEF TxInv
<1>4. ThreadInv' /\ FreshSame
  BY <1>2, BesideKept
<1>5. RxInv' /\ Carried'
  <2>1. RxUnchanged
    BY <1>2 DEF RxUnchanged, rings, rx_ring
  <2>2. RequestsKept /\ to_lwip' = to_lwip
    BY <1>2 DEF RequestsKept, Beside, history
  <2> QED
    BY <1>1, <1>2, <1>4, <2>1, <2>2, PacketsKept
<1>6. RingTypeOK'
  BY <1>1, <1>2, RingTypesKept
<1>7. TypeOK'
  BY <1>1, <1>2, <1>6 DEF TypeOK, Beside, callers, server, threads, history
<1> QED
  BY <1>3, <1>4, <1>5, <1>7 DEF NetInv, ThreadInv

LEMMA OutputLostInv ==
  ASSUME NetInv, output_lost
  PROVE  NetInv'
<1>1. TypeOK /\ TxInv /\ RxInv /\ Carried /\ ThreadInv
  BY DEF NetInv, ThreadInv
<1>2. /\ ns = "output" /\ ns' = "run" /\ lost' = lost + 1
      /\ output \in {"dead", "recv"} /\ output' = "dead"
      /\ UNCHANGED rings /\ UNCHANGED <<input, callers, memory, server, threads, to_lwip,
                                        from_lwip>>
  BY DEF output_lost
<1>3. UNCHANGED <<cur_tc, thread_queue, begun, buse, va, main, strays, request, content,
                  input_page, req_page, out_packet>>
  BY <1>2 DEF server, threads, memory
<1>4. TxInv'
  <2>1. UNCHANGED <<from_lwip, wire_out, TDH, tx_desc_tail, TDT, tx_status, tx_buffer>>
    BY <1>2 DEF rings, tx_ring
  <2>2. TxTypes
    BY <1>1, TxTyped
  <2>3. Filled' = Filled
    BY <1>2, <2>1, <2>2 DEF Filled, TxTypes
  <2>4. TxTail' = TxTail
    BY <1>2, <2>3 DEF TxTail
  <2> QED
    BY <1>1, <1>2, <2>1, <2>3, <2>4 DEF TxInv
<1>5. AliveSame /\ OneRound' /\ Owned' /\ Balanced'
  BY <1>1, <1>3, ThreadsSame
<1>6. Where'
  BY <1>1, <1>2, <1>3 DEF ThreadInv, Where
<1>7. RxInv' /\ Carried'
  <2>1. RxUnchanged
    BY <1>2 DEF RxUnchanged, rings, rx_ring
  <2>2. RequestsKept
    BY <1>3 DEF RequestsKept
  <2>3. FreshSame
    BY <1>3, <1>5, FreshKept
  <2> QED
    BY <1>1, <1>2, <1>3, <2>1, <2>2, <2>3, PacketsKept
<1>8. TypeOK'
  <2>1. RingTypeOK'
    BY <1>1, <1>2, RingTypesKept
  <2>2. lost' \in Nat
    BY <1>1, <1>2 DEF TypeOK
  <2> QED
    BY <1>1, <1>2, <1>3, <2>1, <2>2 DEF TypeOK, callers, server, threads
<1> QED
  BY <1>4, <1>5, <1>6, <1>7, <1>8 DEF NetInv

LEMMA InputPanicInv ==
  ASSUME NetInv, input_panic
  PROVE  NetInv'
<1>1. TypeOK /\ TxInv /\ RxInv /\ Carried
  BY DEF NetInv
<1>2. /\ input = "alloc" /\ input' = "dead" /\ UNCHANGED Beside /\ UNCHANGED rings
      /\ UNCHANGED <<output, content, input_page, req_page, out_packet>>
  BY DEF input_panic, Beside, memory
<1>3. UNCHANGED <<ns, to_lwip, from_lwip, lost>>
  BY <1>2 DEF Beside, history
<1>4. TxInv'
  BY <1>1, <1>2, <1>3, TxSame DEF rings, tx_ring
<1>5. ThreadInv' /\ FreshSame
  BY <1>2, BesideKept
<1>6. ~Holding /\ ~Holding'
  BY <1>2 DEF Holding
<1>7. Taken' = Taken
  BY <1>3, <1>5, <1>6, TakenKept
<1>8. RxInv'
  <2>1. RxUnchanged
    BY <1>2 DEF RxUnchanged, rings, rx_ring
  <2>2. \A i \in 1..Len(to_lwip') : to_lwip'[i] = i
    BY <1>1, <1>3 DEF RxInv
  <2>3. input' = "rx_tail" <=> input = "rx_tail"
    BY <1>2
  <2> QED
    BY <1>1, <1>7, <2>1, <2>2, <2>3, RxSame
<1>9. Carried'
  <2>1. \A b \in Buffers : Fresh(b)' =>
          req_page'[b] \in Pages /\ content'[req_page'[b]] = Len(to_lwip') + 1
    BY <1>1, <1>2, <1>3, <1>5 DEF Carried, FreshSame
  <2> QED
    BY <1>2, <1>6, <2>1 DEF Carried, Buffers, Pages
<1>10. TypeOK'
  <2>1. RingTypeOK'
    BY <1>1, <1>2, RingTypesKept
  <2> QED
    BY <1>1, <1>2, <2>1 DEF TypeOK, Beside, callers, server, threads, history
<1> QED
  BY <1>4, <1>5, <1>8, <1>9, <1>10 DEF NetInv, ThreadInv

LEMMA OutputRecvInv ==
  ASSUME NetInv, output_recv
  PROVE  NetInv'
<1>1. TypeOK /\ TxInv /\ RxInv /\ Carried /\ ThreadInv
  BY DEF NetInv, ThreadInv
<1>2. /\ ns = "output" /\ ns' = "run" /\ output' = "tx"
      /\ out_packet' = from_lwip[Len(from_lwip)]
      /\ UNCHANGED rings /\ UNCHANGED <<input, callers, content, input_page, req_page, server,
                                        threads, history>>
  BY DEF output_recv
<1>3. UNCHANGED <<cur_tc, thread_queue, begun, buse, va, main, strays, request, to_lwip>>
  BY <1>2 DEF server, threads, history
<1>4. TxInv'
  BY <1>1, TxReceive
<1>5. AliveSame /\ OneRound' /\ Owned' /\ Balanced'
  BY <1>1, <1>3, ThreadsSame
<1>6. Where'
  BY <1>1, <1>2, <1>3 DEF ThreadInv, Where
<1>7. RxInv' /\ Carried'
  <2>1. RxUnchanged
    BY <1>2 DEF RxUnchanged, rings, rx_ring
  <2>2. RequestsKept
    BY <1>2 DEF RequestsKept
  <2>3. FreshSame
    BY <1>3, <1>5, FreshKept
  <2> QED
    BY <1>1, <1>2, <1>3, <2>1, <2>2, <2>3, PacketsKept
<1>8. TypeOK'
  <2>1. RingTypeOK'
    BY <1>1, <1>2, RingTypesKept
  <2>2. out_packet' \in Nat
    <3>0. lost = 0
      BY <1>1 DEF TxInv, output_recv
    <3>1. Len(from_lwip) \in Nat /\ Filled \in Nat /\ Len(from_lwip) = Filled + 1
      BY <1>1, <1>2, <3>0, TxTyped DEF TxTypes, TxInv, Filled, output_recv
    <3>2. Len(from_lwip) \in 1..Len(from_lwip)
      BY <3>1
    <3> QED
      BY <1>1, <1>2, <3>2 DEF TypeOK
  <2> QED
    BY <1>1, <1>2, <2>1, <2>2 DEF TypeOK, callers, server, threads, history
<1> QED
  BY <1>4, <1>5, <1>6, <1>7, <1>8 DEF NetInv

LEMMA CallInv ==
  ASSUME NetInv, NEW c \in Callers, call(c) \/ call_recv(c)
  PROVE  NetInv'
<1>1. TypeOK
  BY DEF NetInv
<1>2. /\ UNCHANGED <<rings, input, output, ns, memory, server, threads, history>>
      /\ caller' \in [Callers -> {"idle", "send", "sent", "recv"}]
  BY <1>1 DEF call, call_recv, TypeOK
<1>3. calls' \in 0..MaxCalls
  <2>1. CASE call(c)
    BY <1>1, <2>1, ServerAssumption DEF TypeOK, call
  <2>2. CASE call_recv(c)
    BY <1>1, <2>2 DEF TypeOK, call_recv
  <2> QED
    BY <2>1, <2>2
<1>4. UNCHANGED <<cur_tc, thread_queue, begun, buse, va, main, strays, ns, request>> /\ Quiet
  BY <1>2 DEF Quiet, memory, server, threads, history
<1>5. AliveSame /\ OneRound' /\ Owned' /\ Balanced'
  BY <1>1, <1>4, ThreadsSame DEF NetInv, ThreadInv
<1>6. Where'
  BY <1>4 DEF NetInv, Where
<1>7. FreshSame
  BY <1>4, <1>5, FreshKept
<1>8. TxInv' /\ RxInv' /\ Carried' /\ RingTypeOK'
  BY <1>4, <1>7, QuietKept
<1>9. TypeOK'
  BY <1>1, <1>2, <1>3, <1>8 DEF TypeOK, memory, server, threads, history
<1> QED
  BY <1>5, <1>6, <1>8, <1>9 DEF NetInv

\* The steps after which everything but ns is as before: the server panics, or
\* it stops to send a reply.
LEMMA StopInv ==
  ASSUME NetInv, Quiet, UNCHANGED <<callers, server, threads>>,
         ns = "run", ns' \in {"dead", "reply"}, ns' = "reply" => cur_tc \in begun
  PROVE  NetInv'
<1>1. TypeOK
  BY DEF NetInv
<1>2. UNCHANGED <<cur_tc, thread_queue, begun, buse, va, main, strays, request>>
  BY DEF server, threads
<1>3. AliveSame /\ OneRound' /\ Owned' /\ Balanced'
  BY <1>1, <1>2, ThreadsSame DEF NetInv, ThreadInv
<1>4. Where'
  BY <1>2 DEF NetInv, Where
<1>5. FreshSame
  BY <1>2, <1>3, FreshKept
<1>6. TxInv' /\ RxInv' /\ Carried' /\ RingTypeOK'
  <2>1. ns' = "output" <=> ns = "output"
    OBVIOUS
  <2> QED
    BY <1>5, <2>1, QuietKept
<1>7. TypeOK'
  BY <1>1, <1>6 DEF TypeOK, Quiet, callers, server, threads
<1> QED
  BY <1>3, <1>4, <1>6, <1>7 DEF NetInv

LEMMA PanicInv ==
  ASSUME NetInv, serve_panic
  PROVE  NetInv'
  BY StopInv DEF serve_panic, InMain, Quiet, memory, history

LEMMA ReplyInv ==
  ASSUME NetInv, NEW b \in Buffers, thread_reply(b)
  PROVE  NetInv'
  BY StopInv DEF thread_reply, InThread, Quiet, memory, history

LEMMA ThreadFaultInv ==
  ASSUME NetInv, NEW b \in Buffers, thread_fault(b) \/ low_level_panic(b)
  PROVE  NetInv'
<1>1. Quiet /\ UNCHANGED <<callers, server, threads>> /\ ns = "run" /\ ns' = "dead"
  BY DEF thread_fault, low_level_panic, InLwip, InThread, Quiet, memory, history
<1> QED
  BY <1>1, StopInv

LEMMA LowLevelOutputInv ==
  ASSUME NetInv, NEW b \in Buffers, low_level_output(b)
  PROVE  NetInv'
<1>1. TypeOK /\ TxInv /\ RxInv /\ Carried /\ ThreadInv
  BY DEF NetInv, ThreadInv
<1>2. /\ ns = "run" /\ ns' = "output" /\ cur_tc \in begun
      /\ from_lwip' = Append(from_lwip, Len(from_lwip) + 1)
      /\ UNCHANGED rings
      /\ UNCHANGED <<input, output, callers, memory, server, threads, to_lwip, lost>>
  BY DEF low_level_output, InLwip, InThread
<1>3. UNCHANGED <<cur_tc, thread_queue, begun, buse, va, main, strays, request, content,
                  input_page, req_page>>
  BY <1>2 DEF server, threads, memory
<1>4. TxInv'
  BY <1>1, TxOutput
<1>5. AliveSame /\ OneRound' /\ Owned' /\ Balanced'
  BY <1>1, <1>3, ThreadsSame
<1>6. Where'
  BY <1>1, <1>2, <1>3 DEF ThreadInv, Where
<1>7. RxInv' /\ Carried'
  <2>1. RxUnchanged
    BY <1>2 DEF RxUnchanged, rings, rx_ring
  <2>2. RequestsKept
    BY <1>3 DEF RequestsKept
  <2>3. FreshSame
    BY <1>3, <1>5, FreshKept
  <2> QED
    BY <1>1, <1>2, <1>3, <2>1, <2>2, <2>3, PacketsKept
<1>8. TypeOK'
  <2>1. RingTypeOK'
    BY <1>1, <1>2, RingTypesKept
  <2>2. from_lwip' \in Seq(Nat)
    <3>1. from_lwip \in Seq(Nat) /\ Len(from_lwip) + 1 \in Nat
      BY <1>1 DEF TypeOK
    <3> QED
      BY <1>2, <3>1
  <2> QED
    BY <1>1, <1>2, <2>1, <2>2 DEF TypeOK, callers, memory, server, threads
<1> QED
  BY <1>4, <1>5, <1>6, <1>7, <1>8 DEF NetInv

\* Another thread goes on: in serve_flush and thread_wait
LEMMA YieldInv ==
  ASSUME NetInv, Quiet, UNCHANGED <<ns, callers, server>>, Yield(thread_queue),
         ns = "run", cur_tc \in begun \cup {Main}
  PROVE  NetInv'
<1>1. TypeOK /\ ThreadInv
  BY DEF NetInv, ThreadInv
<1>2. UNCHANGED <<begun, buse, va, main, strays, request>>
  BY DEF server
<1>3. AliveSame /\ OneRound' /\ cur_tc' \in Threads /\ thread_queue' \in Seq(Threads)
  BY <1>1, <1>2, ThreadsRotated
<1>4. Owned' /\ Balanced'
  BY <1>1, <1>2, <1>3, OwnersSame
<1>5. Where'
  BY <1>2 DEF NetInv, Where
<1>6. FreshSame
  BY <1>2, <1>3, FreshKept
<1>7. TxInv' /\ RxInv' /\ Carried' /\ RingTypeOK'
  BY <1>6, QuietKept
<1>8. TypeOK'
  BY <1>1, <1>3, <1>7 DEF TypeOK, Quiet, callers, server
<1> QED
  BY <1>3, <1>4, <1>5, <1>7, <1>8 DEF NetInv

LEMMA FlushInv ==
  ASSUME NetInv, serve_flush
  PROVE  NetInv'
<1>1. Quiet /\ UNCHANGED <<ns, callers, server>> /\ Yield(thread_queue) /\ ns = "run" /\ cur_tc = Main
  BY DEF serve_flush, InMain, Quiet, memory, history
<1> QED
  BY <1>1, YieldInv

LEMMA WaitInv ==
  ASSUME NetInv, NEW b \in Buffers, thread_wait(b)
  PROVE  NetInv'
<1>1. /\ Quiet /\ UNCHANGED <<ns, callers, server>> /\ Yield(thread_queue) /\ ns = "run"
      /\ cur_tc \in begun
  BY DEF thread_wait, InLwip, InThread, Quiet, memory, history
<1> QED
  BY <1>1, YieldInv

LEMMA TimerSendInv ==
  ASSUME NetInv, timer_send
  PROVE  NetInv'
<1>1. TypeOK /\ ThreadInv
  BY DEF NetInv, ThreadInv
<1>2. /\ ns = "recv" /\ ns' = "run" /\ main' = "timer" /\ Yield(thread_queue) /\ Quiet
      /\ caller' = [caller EXCEPT ![Timer] = "sent"]
      /\ UNCHANGED <<calls, buse, va, env_ipc_perm, request, begun, strays>>
  BY DEF timer_send, Quiet, memory, history
<1>3. main = "recv" /\ cur_tc = Main
  BY <1>1, <1>2 DEF ThreadInv, Where
<1>4. AliveSame /\ OneRound' /\ cur_tc' \in Threads /\ thread_queue' \in Seq(Threads)
  BY <1>1, <1>2, <1>3, ThreadsRotated
<1>5. Owned'
  BY <1>1, <1>2, <1>3, <1>4 DEF ThreadInv, Owned, AliveSame
<1>6. Balanced'
  BY <1>1, <1>2, <1>3, <1>4, SameAliveBuffers DEF ThreadInv, Balanced
<1>7. Where'
  BY <1>2 DEF Where
<1>8. TxInv' /\ RxInv' /\ Carried' /\ RingTypeOK'
  <2>1. FreshSame
    BY <1>2, <1>4, FreshKept
  <2>2. ns' = "output" <=> ns = "output"
    BY <1>2
  <2> QED
    BY <1>2, <2>1, <2>2, QuietKept
<1>9. TypeOK'
  BY <1>1, <1>2, <1>4, <1>8 DEF TypeOK, Quiet
<1> QED
  BY <1>4, <1>5, <1>6, <1>7, <1>8, <1>9 DEF NetInv

LEMMA ServeRecvInv ==
  ASSUME NetInv, serve_recv
  PROVE  NetInv'
<1>1. TypeOK /\ ThreadInv
  BY DEF NetInv, ThreadInv
<1>2. va' \in Buffers /\ va' \notin buse
  <2>1. Buffers \ buse # {} /\ Buffers \ buse \subseteq Nat
    BY DEF serve_recv, Buffers
  <2>2. Min(Buffers \ buse) \in Buffers \ buse
    BY <2>1, MinIn
  <2> QED
    BY <2>2 DEF serve_recv, get_buffer
<1>3. /\ ns = "run" /\ cur_tc = Main /\ main = "top" /\ main' = "recv" /\ ns' = "recv"
      /\ buse' = buse \cup {va'} /\ Quiet
      /\ UNCHANGED <<callers, env_ipc_perm, request, begun, strays, cur_tc, thread_queue>>
  BY DEF serve_recv, InMain, Quiet, memory, history, threads
<1>4. AliveSame /\ OneRound'
  BY <1>1, <1>3, SameRound, SameOneRound DEF AliveSame, ThreadInv
<1>5. Owned' /\ Balanced'
  <2>1. main' # "top"
    BY <1>3
  <2> QED
    BY <1>1, <1>2, <1>3, <1>4, <2>1, BufferTaken
<1>6. Where'
  BY <1>3 DEF Where
<1>7. TxInv' /\ RxInv' /\ Carried' /\ RingTypeOK'
  <2>1. FreshSame
    BY <1>3, <1>4, FreshKept
  <2>2. ns' = "output" <=> ns = "output"
    BY <1>3
  <2> QED
    BY <1>3, <2>1, <2>2, QuietKept
<1>8. TypeOK'
  BY <1>1, <1>2, <1>3, <1>7 DEF TypeOK, Quiet, callers
<1> QED
  BY <1>4, <1>5, <1>6, <1>7, <1>8 DEF NetInv

LEMMA ProcessTimerInv ==
  ASSUME NetInv, process_timer
  PROVE  NetInv'
<1>1. TypeOK /\ ThreadInv
  BY DEF NetInv, ThreadInv
<1>2. /\ ns = "run" /\ cur_tc = Main /\ main = "timer" /\ main' = "top" /\ ns' = ns
      /\ caller' = [caller EXCEPT ![Timer] = "idle"]
      /\ buse' = buse \ {va} /\ Quiet
      /\ UNCHANGED <<calls, va, env_ipc_perm, request, begun, strays, cur_tc, thread_queue>>
  BY DEF process_timer, InMain, Quiet, memory, history, threads
<1>3. AliveSame /\ OneRound'
  BY <1>1, <1>2, SameRound, SameOneRound DEF AliveSame, ThreadInv
<1>4. Owned' /\ Balanced'
  <2>1. main # "top"
    BY <1>2
  <2> QED
    BY <1>1, <1>2, <1>3, <2>1, BufferReturned
<1>5. Where'
  BY <1>2 DEF Where
<1>6. TxInv' /\ RxInv' /\ Carried' /\ RingTypeOK'
  <2>1. FreshSame
    BY <1>2, <1>3, FreshKept
  <2>2. ns' = "output" <=> ns = "output"
    BY <1>2
  <2> QED
    BY <1>2, <2>1, <2>2, QuietKept
<1>7. TypeOK'
  BY <1>1, <1>2, <1>6 DEF TypeOK, Quiet
<1> QED
  BY <1>3, <1>4, <1>5, <1>6, <1>7 DEF NetInv

LEMMA StrayInv ==
  ASSUME NetInv, serve_stray
  PROVE  NetInv'
<1>1. TypeOK /\ ThreadInv
  BY DEF NetInv, ThreadInv
<1>2. /\ ns = "recv" /\ ns' = "run" /\ main' = "top" /\ strays' = strays + 1
      /\ strays < MaxStrays /\ Quiet
      /\ UNCHANGED <<callers, buse, va, env_ipc_perm, request, begun, cur_tc, thread_queue>>
  BY DEF serve_stray, Quiet, memory, history, threads
<1>3. main = "recv"
  BY <1>1, <1>2 DEF ThreadInv, Where
<1>4. AliveSame /\ OneRound'
  BY <1>1, <1>2, SameRound, SameOneRound DEF AliveSame, ThreadInv
<1>5. Owned' /\ Balanced'
  <2>1. main # "top"
    BY <1>3
  <2> QED
    BY <1>1, <1>2, <1>4, <2>1, BufferForgotten
<1>6. Where'
  BY <1>2 DEF Where
<1>7. TxInv' /\ RxInv' /\ Carried' /\ RingTypeOK'
  <2>1. FreshSame
    BY <1>2, <1>4, FreshKept
  <2>2. ns' = "output" <=> ns = "output"
    BY <1>2
  <2> QED
    BY <1>2, <2>1, <2>2, QuietKept
<1>8. TypeOK'
  <2>1. strays' \in 0..MaxStrays
    BY <1>1, <1>2, ServerAssumption DEF TypeOK
  <2> QED
    BY <1>1, <1>2, <1>7, <2>1 DEF TypeOK, Quiet, callers
<1> QED
  BY <1>4, <1>5, <1>6, <1>7, <1>8 DEF NetInv

LEMMA StrangerTimerInv ==
  ASSUME NetInv, stranger_timer
  PROVE  NetInv'
<1>1. TypeOK /\ ThreadInv
  BY DEF NetInv, ThreadInv
<1>2. /\ ns = "recv" /\ main' = "top" /\ ns' = "run"
      /\ caller' = [caller EXCEPT ![Stranger] = "idle"]
      /\ buse' = buse \ {va} /\ Quiet
      /\ UNCHANGED <<calls, va, env_ipc_perm, request, begun, strays, cur_tc, thread_queue>>
  BY DEF stranger_timer, Quiet, memory, history, threads
<1>3. AliveSame /\ OneRound'
  BY <1>1, <1>2, SameRound, SameOneRound DEF AliveSame, ThreadInv
<1>4. Owned' /\ Balanced'
  <2>1. main # "top"
    BY <1>1, <1>2 DEF ThreadInv, Where
  <2> QED
    BY <1>1, <1>2, <1>3, <2>1, BufferReturned
<1>5. Where'
  BY <1>2 DEF Where
<1>6. TxInv' /\ RxInv' /\ Carried' /\ RingTypeOK'
  <2>1. FreshSame
    BY <1>2, <1>3, FreshKept
  <2>2. ns' = "output" <=> ns = "output"
    BY <1>2
  <2> QED
    BY <1>2, <2>1, <2>2, QuietKept
<1>7. TypeOK'
  BY <1>1, <1>2, <1>6 DEF TypeOK, Quiet
<1> QED
  BY <1>3, <1>4, <1>5, <1>6, <1>7 DEF NetInv

\* While serve() runs, every other thread has begun.
LEMMA AllBegun ==
  ASSUME TypeOK, ThreadInv, cur_tc = Main
  PROVE  \A b \in Buffers : Alive(b) => b \in begun
<1> SUFFICES ASSUME NEW b \in Buffers, Alive(b), b \notin begun PROVE FALSE
  OBVIOUS
<1>1. Round \in Nat /\ 1 \in 1..Round /\ Turn(1) = Main
  BY RoundType
<1>2. PICK j \in 1..Round : Turn(j) = b
  BY DEF Alive
<1>3. j <= 1
  BY <1>1, <1>2 DEF ThreadInv, OneRound
<1>4. j = 1
  BY <1>1, <1>3
<1> QED
  BY <1>1, <1>2, <1>4, Sizes

\* A thread that has not begun is the only one.
LEMMA OneUnbegun ==
  ASSUME TypeOK, ThreadInv, NEW b \in Buffers, cur_tc = b, b \notin begun
  PROVE  \A x \in Buffers : Alive(x) /\ x \notin begun => x = b
<1> SUFFICES ASSUME NEW x \in Buffers, Alive(x), x \notin begun PROVE x = b
  OBVIOUS
<1>1. Round \in Nat /\ 1 \in 1..Round /\ Turn(1) = b
  BY RoundType
<1>2. PICK j \in 1..Round : Turn(j) = x
  BY DEF Alive
<1>3. b # Main /\ x # Main
  BY Sizes
<1>4. j = 1
  BY <1>1, <1>2, <1>3 DEF ThreadInv, OneRound
<1> QED
  BY <1>1, <1>2, <1>4

\* What serve_request does to the threads
LEMMA RequestThreads ==
  ASSUME NetInv, NEW r \in Requests, serve_request(r)
  PROVE  /\ ThreadInv' /\ cur_tc' \in Threads /\ thread_queue' \in Seq(Threads)
         /\ request' \in [Buffers -> Requests] /\ va \in Buffers
         /\ \A b \in Buffers : ~Fresh(b)
         /\ \A b \in Buffers : Fresh(b)' <=> b = va /\ r = "input"
<1>1. TypeOK /\ ThreadInv
  BY DEF NetInv, ThreadInv
<1>2. /\ ns = "recv" /\ ns' = "run" /\ main' = "top" /\ Create(va)
      /\ request' = [request EXCEPT ![va] = r]
      /\ UNCHANGED <<buse, va, begun, strays>>
  BY DEF serve_request
<1>3. main = "recv" /\ cur_tc = Main
  BY <1>1, <1>2 DEF ThreadInv, Where
<1>4. /\ OneRound' /\ Owned' /\ Balanced' /\ ~Alive(va)
      /\ \A t : Alive(t)' <=> Alive(t) \/ t = va
      /\ cur_tc' \in Threads /\ thread_queue' \in Seq(Threads)
  <2>1. main # "top"
    BY <1>3
  <2> QED
    BY <1>1, <1>2, <1>3, <2>1, BufferHanded
<1>5. Where'
  BY <1>2 DEF Where
<1>6. va \in Buffers /\ request' \in [Buffers -> Requests] /\ request'[va] = r
  BY <1>1, <1>2 DEF TypeOK
<1>7. \A b \in Buffers : Alive(b) => b \in begun
  BY <1>1, <1>3, AllBegun
<1>8. va \notin begun
  BY <1>1, <1>4 DEF ThreadInv, OneRound
<1>9. \A b \in Buffers : ~Fresh(b)
  BY <1>7 DEF Fresh
<1>10. ASSUME NEW b \in Buffers PROVE Fresh(b)' <=> b = va /\ r = "input"
  <2>1. Alive(b)' /\ b \notin begun' <=> b = va
    BY <1>2, <1>4, <1>7, <1>8
  <2> QED
    BY <1>6, <2>1 DEF Fresh
<1> QED
  BY <1>4, <1>5, <1>6, <1>9, <1>10 DEF ThreadInv

LEMMA InputSendInv ==
  ASSUME NetInv, input_send
  PROVE  NetInv'
<1>1. TypeOK /\ TxInv /\ RxInv /\ Carried
  BY DEF NetInv
<1>2. "input" \in Requests
  BY DEF Requests
<1>3. /\ input = "send" /\ input' = "alloc" /\ serve_request("input")
      /\ req_page' = [req_page EXCEPT ![va] = input_page]
      /\ ns = "recv" /\ ns' = "run" /\ main' = "top" /\ env_ipc_perm' = TRUE
      /\ UNCHANGED rings
      /\ UNCHANGED <<output, content, input_page, out_packet, calls, buse, va, begun, strays,
                     to_lwip, from_lwip, lost, caller>>
  BY DEF input_send, serve_request, history
<1>4. /\ ThreadInv' /\ cur_tc' \in Threads /\ thread_queue' \in Seq(Threads)
      /\ request' \in [Buffers -> Requests] /\ va \in Buffers
      /\ \A b \in Buffers : ~Fresh(b)
      /\ \A b \in Buffers : Fresh(b)' <=> b = va /\ "input" = "input"
  BY <1>2, <1>3, RequestThreads
<1>5. TxInv'
  BY <1>1, <1>3, TxSame DEF rings, tx_ring
<1>6. Len(to_lwip) \in Nat
  BY <1>1, RxTyped DEF RxTypes
<1>7. Taken = Len(to_lwip) + 1
  <2>1. Waiting = 0
    BY <1>4 DEF Waiting
  <2> QED
    BY <1>3, <1>6, <2>1 DEF Taken, Holding
<1>8. Taken' = Taken
  <2>1. Waiting' = 1
    <3>1. \E b \in Buffers : Fresh(b)'
      BY <1>4
    <3> QED
      BY <3>1 DEF Waiting, Buffers
  <2> QED
    BY <1>3, <1>6, <1>7, <2>1 DEF Taken, Holding
<1>9. RxInv'
  <2>1. RxUnchanged
    BY <1>3 DEF rings, rx_ring, RxUnchanged
  <2>2. \A i \in 1..Len(to_lwip') : to_lwip'[i] = i
    BY <1>1, <1>3 DEF RxInv
  <2>3. input' = "rx_tail" <=> input = "rx_tail"
    BY <1>3
  <2> QED
    BY <1>1, <1>8, <2>1, <2>2, <2>3, RxSame
<1>10. Carried'
  <2>1. input_page \in Pages /\ content[input_page] = Taken
    BY <1>1, <1>3 DEF Carried, Holding
  <2>2. req_page'[va] = input_page
    BY <1>1, <1>3, <1>4 DEF TypeOK
  <2>3. ~Holding'
    BY <1>3 DEF Holding
  <2>4. \A b \in Buffers : Fresh(b)' => b = va
    BY <1>4
  <2>5. \A b \in Buffers : Fresh(b)' =>
          req_page'[b] \in Pages /\ content'[req_page'[b]] = Len(to_lwip') + 1
    BY <1>3, <1>7, <2>1, <2>2, <2>4
  <2> QED
    BY <1>3, <2>3, <2>5 DEF Carried, Pages, Buffers
<1>11. TypeOK'
  <2>1. RingTypeOK'
    BY <1>1, <1>3, RingTypesKept
  <2>2. req_page' \in [Buffers -> Pages \cup {NoPage}]
    BY <1>1, <1>3 DEF TypeOK
  <2> QED
    BY <1>1, <1>3, <1>4, <2>1, <2>2 DEF TypeOK
<1> QED
  BY <1>4, <1>5, <1>9, <1>10, <1>11 DEF NetInv, ThreadInv

\* A request that carries no packet
LEMMA OtherRequestInv ==
  ASSUME NetInv, NEW c \in Requests, c # "input", serve_request(c),
         UNCHANGED <<input, req_page>>,
         caller' \in [Callers -> {"idle", "send", "sent", "recv"}]
  PROVE  NetInv'
<1>1. TypeOK
  BY DEF NetInv
<1>2. c \in Requests /\ c # "input"
  OBVIOUS
<1>3. /\ serve_request(c) /\ Quiet /\ ns = "recv" /\ ns' = "run" /\ main' = "top"
      /\ env_ipc_perm' = TRUE
      /\ UNCHANGED <<calls, buse, va, begun, strays>>
  BY DEF serve_request, Quiet, history
<1>4. /\ ThreadInv' /\ cur_tc' \in Threads /\ thread_queue' \in Seq(Threads)
      /\ request' \in [Buffers -> Requests] /\ va \in Buffers
      /\ \A b \in Buffers : ~Fresh(b)
      /\ \A b \in Buffers : Fresh(b)' <=> b = va /\ c = "input"
  BY <1>2, <1>3, RequestThreads
<1>5. TxInv' /\ RxInv' /\ Carried' /\ RingTypeOK'
  <2>1. FreshSame
    BY <1>2, <1>4 DEF FreshSame
  <2>2. ns' = "output" <=> ns = "output"
    BY <1>3
  <2> QED
    BY <1>3, <2>1, <2>2, QuietKept
<1>6. TypeOK'
  BY <1>1, <1>3, <1>4, <1>5 DEF TypeOK, Quiet
<1> QED
  BY <1>4, <1>5, <1>6 DEF NetInv, ThreadInv

LEMMA ClientSendInv ==
  ASSUME NetInv, NEW c \in Callers, client_send(c)
  PROVE  NetInv'
<1>1. c \in Requests /\ c # "input"
  BY ServerAssumption DEF Requests
<1>2. caller' \in [Callers -> {"idle", "send", "sent", "recv"}]
  BY DEF client_send, NetInv, TypeOK
<1> QED
  BY <1>1, <1>2, OtherRequestInv DEF client_send

LEMMA StraySendInv ==
  ASSUME NetInv, stray_send
  PROVE  NetInv'
<1>1. "stray" \in Requests /\ "stray" # "input"
  BY DEF Requests
<1>2. caller' \in [Callers -> {"idle", "send", "sent", "recv"}]
  BY DEF stray_send, NetInv, TypeOK
<1> QED
  BY <1>1, <1>2, OtherRequestInv DEF stray_send

LEMMA ThreadBeginInv ==
  ASSUME NetInv, NEW b \in Buffers, thread_begin(b)
  PROVE  NetInv'
<1>1. TypeOK /\ TxInv /\ RxInv /\ Carried /\ ThreadInv
  BY DEF NetInv, ThreadInv
<1>2. /\ ns = "run" /\ cur_tc = b /\ b \notin begun /\ begun' = begun \cup {b}
      /\ UNCHANGED rings
      /\ UNCHANGED <<input, output, ns, caller, calls, content, input_page, req_page, out_packet,
                     buse, main, va, env_ipc_perm, request, strays, cur_tc, thread_queue,
                     from_lwip, lost>>
  BY DEF thread_begin, InThread, callers, memory, threads
<1>3. AliveSame /\ OneRound'
  BY <1>1, <1>2, SameRound, BegunRound DEF AliveSame, ThreadInv
<1>4. Owned' /\ Balanced'
  BY <1>1, <1>2, <1>3, OwnersSame
<1>5. Where'
  BY <1>1, <1>2 DEF ThreadInv, Where
<1>6. TxInv'
  BY <1>1, <1>2, TxSame DEF rings, tx_ring
<1>7. \A x \in Buffers : Alive(x) /\ x \notin begun => x = b
  BY <1>1, <1>2, OneUnbegun
<1>8. \A x \in Buffers : ~Fresh(x)'
  BY <1>2, <1>3, <1>7 DEF Fresh, AliveSame
<1>9. Alive(b)
  BY <1>1, <1>2, RoundType DEF Alive
<1>10. Holding' <=> Holding
  BY <1>2 DEF Holding
<1>11. Len(to_lwip) \in Nat /\ to_lwip \in Seq(Nat \cup {Nothing})
  BY <1>1 DEF TypeOK
<1>12. RxUnchanged
  BY <1>2 DEF rings, rx_ring, RxUnchanged
<1>13. CASE request[b] = "input"
  <2>1. Fresh(b)
    BY <1>2, <1>9, <1>13 DEF Fresh
  <2>2. req_page[b] \in Pages /\ content[req_page[b]] = Len(to_lwip) + 1
    BY <1>1, <2>1 DEF Carried
  <2>3. to_lwip' = Append(to_lwip, Len(to_lwip) + 1)
    BY <1>13, <2>2 DEF thread_begin
  <2>4. /\ to_lwip' \in Seq(Nat \cup {Nothing}) /\ Len(to_lwip') = Len(to_lwip) + 1
        /\ \A i \in 1..Len(to_lwip') : to_lwip'[i] = i
    <3>1. \A i \in 1..Len(to_lwip) : to_lwip[i] = i
      BY <1>1 DEF RxInv
    <3>2. Len(to_lwip) + 1 \in Nat \cup {Nothing}
      BY <1>11
    <3> QED
      BY <1>11, <2>3, <3>1, <3>2
  <2>5. Taken' = Taken
    <3>1. Waiting = 1
      BY <2>1 DEF Waiting
    <3>2. Waiting' = 0
      BY <1>8 DEF Waiting, Buffers
    <3> QED
      BY <1>10, <1>11, <2>4, <3>1, <3>2 DEF Taken
  <2>6. RxInv'
    <3>1. input' = "rx_tail" <=> input = "rx_tail"
      BY <1>2
    <3> QED
      BY <1>1, <1>12, <2>4, <2>5, <3>1, RxSame
  <2>7. Carried'
    BY <1>1, <1>2, <1>8, <1>10, <2>5 DEF Carried, Pages, Buffers
  <2>8. TypeOK'
    <3>1. RingTypeOK'
      BY <1>1, <1>2, RingTypesKept
    <3> QED
      BY <1>1, <1>2, <2>4, <3>1 DEF TypeOK
  <2> QED
    BY <1>3, <1>4, <1>5, <1>6, <2>6, <2>7, <2>8 DEF NetInv
<1>14. CASE request[b] # "input"
  <2>1. to_lwip' = to_lwip
    BY <1>14 DEF thread_begin
  <2>2. \A x \in Buffers : ~Fresh(x)
    BY <1>7, <1>14 DEF Fresh
  <2>3. FreshSame
    BY <1>8, <2>2 DEF FreshSame
  <2>4. RxInv' /\ Carried'
    <3>1. RequestsKept
      BY <1>2 DEF RequestsKept
    <3> QED
      BY <1>1, <1>2, <1>12, <2>1, <2>3, <3>1, PacketsKept
  <2>5. TypeOK'
    <3>1. RingTypeOK'
      BY <1>1, <1>2, RingTypesKept
    <3> QED
      BY <1>1, <1>2, <2>1, <3>1 DEF TypeOK
  <2> QED
    BY <1>3, <1>4, <1>5, <1>6, <2>4, <2>5 DEF NetInv
<1> QED
  BY <1>13, <1>14

LEMMA ThreadEndInv ==
  ASSUME NetInv, NEW b \in Buffers, cur_tc = b, b \in begun, ns \in {"run", "reply"},
         thread_end(b), caller' \in [Callers -> {"idle", "send", "sent", "recv"}]
  PROVE  NetInv'
<1>1. TypeOK /\ TxInv /\ RxInv /\ Carried /\ ThreadInv
  BY DEF NetInv, ThreadInv
<1>2. /\ buse' = buse \ {b} /\ begun' = begun \ {b} /\ ns' = "run"
      /\ req_page' = [req_page EXCEPT ![b] = NoPage]
      /\ UNCHANGED rings
      /\ UNCHANGED <<input, output, calls, content, input_page, out_packet, main, va,
                     env_ipc_perm, request, strays, to_lwip, from_lwip, lost>>
  BY DEF thread_end, history
<1>3. /\ OneRound' /\ Owned' /\ Balanced'
      /\ \A t : Alive(t)' <=> Alive(t) /\ t # b
      /\ cur_tc' \in Threads /\ thread_queue' \in Seq(Threads)
  BY <1>1, ThreadEnded
<1>4. Where'
  <2>1. main # "recv"
    BY <1>1 DEF ThreadInv, Where
  <2> QED
    BY <1>2, <2>1 DEF Where
<1>5. TxInv'
  BY <1>1, <1>2, TxSame DEF rings, tx_ring
<1>6. FreshSame
  BY <1>2, <1>3 DEF FreshSame, Fresh
<1>7. RxInv' /\ Carried'
  <2>1. RxUnchanged
    BY <1>2 DEF rings, rx_ring, RxUnchanged
  <2>2. RequestsKept
    BY <1>1, <1>2 DEF TypeOK, RequestsKept, Fresh
  <2> QED
    BY <1>1, <1>2, <1>6, <2>1, <2>2, PacketsKept
<1>8. TypeOK'
  <2>1. RingTypeOK'
    BY <1>1, <1>2, RingTypesKept
  <2>2. req_page' \in [Buffers -> Pages \cup {NoPage}]
    BY <1>1, <1>2 DEF TypeOK
  <2> QED
    BY <1>1, <1>2, <1>3, <2>1, <2>2 DEF TypeOK
<1> QED
  BY <1>3, <1>4, <1>5, <1>7, <1>8 DEF NetInv

LEMMA InputDoneInv ==
  ASSUME NetInv, NEW b \in Buffers, input_done(b)
  PROVE  NetInv'
<1>1. cur_tc = b /\ b \in begun /\ ns = "run" /\ thread_end(b) /\ caller' = caller
  BY DEF input_done, InThread
<1>2. caller' \in [Callers -> {"idle", "send", "sent", "recv"}]
  BY <1>1 DEF NetInv, TypeOK
<1> QED
  BY <1>1, <1>2, ThreadEndInv

LEMMA ClientDoneInv ==
  ASSUME NetInv, NEW b \in Buffers, client_done(b)
  PROVE  NetInv'
<1>1. /\ cur_tc = b /\ ns = "reply" /\ thread_end(b)
      /\ caller' = [caller EXCEPT ![request[b]] = "idle"]
  BY DEF client_done
<1>2. caller' \in [Callers -> {"idle", "send", "sent", "recv"}]
  BY <1>1 DEF NetInv, TypeOK
<1>3. b \in begun
  BY <1>1 DEF NetInv, Where
<1> QED
  BY <1>1, <1>2, <1>3, ThreadEndInv
-----------------------------------------------------------------------------
\* The invariant holds

LEMMA InitInv ==
  ASSUME Init
  PROVE  NetInv
<1> USE Sizes
<1>1. TypeOK
  <2>1. RingTypeOK
    <3>1. 0 \in Tx /\ 0 \in Rx /\ 1 \in Rx
      BY DEF Tx, Rx
    <3>2. tx_status \in [Tx -> BOOLEAN] /\ rx_status \in [Rx -> BOOLEAN]
      BY Zenon DEF Init, RingInit
    <3>3. /\ tx_buffer \in [Tx -> Nat \cup {Nothing}] /\ rx_buffer \in [Rx -> Nat \cup {Nothing}]
          /\ wire_in \in Seq(Nat) /\ wire_out \in Seq(Nat)
      BY DEF Init, RingInit
    <3> QED
      BY <3>1, <3>2, <3>3 DEF Init, RingInit, RingTypeOK
  <2>2. 0 \in 0..MaxCalls /\ 0 \in 0..MaxStrays /\ 0 \in Buffers /\ "input" \in Requests
    BY ServerAssumption DEF Buffers, Requests
  <2>3. env_ipc_perm \in BOOLEAN
    BY DEF Init
  <2>4. /\ to_lwip \in Seq(Nat \cup {Nothing}) /\ from_lwip \in Seq(Nat)
        /\ thread_queue \in Seq(Threads) /\ cur_tc \in Threads
    BY DEF Init, Threads
  <2> QED
    BY <2>1, <2>2, <2>3, <2>4 DEF Init, TypeOK
<1>2. Round = 1 /\ \A i \in 1..1 : Turn(i) = Main
  BY DEF Init, Round, Turn
<1>3. \A t : Alive(t) <=> t = Main
  BY <1>2 DEF Alive
<1>4. OneRound
  BY <1>2, <1>3 DEF OneRound, Init
<1>5. Owned
  BY <1>3 DEF Owned, Init
<1>6. Balanced
  <2>1. AliveBuffers = {} /\ buse = {}
    BY <1>3 DEF AliveBuffers, Init
  <2>2. Cardinality({}) = 0
    BY FS_EmptySet
  <2> QED
    BY <2>1, <2>2 DEF Balanced, Init
<1>7. Where
  BY DEF Where, Init
<1>8. TxPlace(0) = 0 /\ RxPlace(0) = 0 /\ RxPlace(1) = 1
  BY DEF TxPlace, RxPlace
<1>9. Len(wire_in) = 0 /\ Len(wire_out) = 0 /\ Len(to_lwip) = 0 /\ Len(from_lwip) = 0
  BY DEF Init, RingInit
<1>10. TxInv
  <2>1. Filled = 0
    BY <1>9 DEF Filled, Init
  <2>2. TxTail = 0
    BY <2>1 DEF TxTail, Init
  <2> QED
    BY <1>8, <1>9, <2>1, <2>2 DEF TxInv, Init, RingInit
<1>11. \A b \in Buffers : ~Fresh(b)
  BY <1>3 DEF Fresh
<1>12. ~Holding
  BY DEF Holding, Init
<1>13. Taken = 0
  BY <1>9, <1>11, <1>12 DEF Taken, Waiting
<1>14. RxInv
  <2>1. RxTail = 0
    BY <1>13 DEF RxTail, Init
  <2>2. \A i \in Rx : ~rx_status[i]
    BY DEF Init, RingInit
  <2> QED
    BY <1>8, <1>9, <1>13, <2>1, <2>2 DEF RxInv, Init, RingInit
<1>15. Carried
  BY <1>11, <1>12 DEF Carried, Init
<1> QED
  BY <1>1, <1>4, <1>5, <1>6, <1>7, <1>10, <1>14, <1>15 DEF NetInv

LEMMA StutterInv ==
  ASSUME NetInv, UNCHANGED vars
  PROVE  NetInv'
<1>1. TypeOK
  BY DEF NetInv
<1>2. /\ UNCHANGED <<cur_tc, thread_queue, begun, buse, va, main, strays, ns, request>> /\ Quiet
      /\ UNCHANGED <<callers, env_ipc_perm>>
  BY DEF vars, Quiet, memory, server, threads, history
<1>3. AliveSame /\ OneRound' /\ Owned' /\ Balanced'
  BY <1>1, <1>2, ThreadsSame DEF NetInv, ThreadInv
<1>4. Where'
  BY <1>2 DEF NetInv, Where
<1>5. FreshSame
  BY <1>2, <1>3, FreshKept
<1>6. TxInv' /\ RxInv' /\ Carried' /\ RingTypeOK'
  BY <1>2, <1>5, QuietKept
<1>7. TypeOK'
  BY <1>1, <1>2, <1>6 DEF TypeOK, Quiet, callers
<1> QED
  BY <1>3, <1>4, <1>6, <1>7 DEF NetInv

LEMMA StepInv ==
  ASSUME NetInv, [Next]_vars
  PROVE  NetInv'
<1>1. CASE card
  BY <1>1, CardInv
<1>2. CASE InputStep
  BY <1>2, InputAllocInv, InputRxInv, InputTailInv, InputSendInv DEF InputStep
<1>3. CASE OutputStep
  BY <1>3, OutputTxInv, OutputTailInv, OutputRecvInv, OutputLostInv DEF OutputStep
<1>4. CASE serve_flush
  BY <1>4, FlushInv
<1>5. CASE ServeStep
  BY <1>5, ServeRecvInv, PanicInv, ProcessTimerInv DEF ServeStep
<1>6. CASE timer_send
  BY <1>6, TimerSendInv
<1>7. CASE serve_stray
  BY <1>7, StrayInv
<1>11. CASE input_panic
  BY <1>11, InputPanicInv
<1>12. CASE output_fault
  BY <1>12, OutputFaultInv
<1>13. CASE stray_send
  BY <1>13, StraySendInv
<1>14. CASE stranger_timer
  BY <1>14, StrangerTimerInv
<1>8. ASSUME NEW c \in Callers, call(c) \/ CallerStep(c) PROVE NetInv'
  BY <1>8, CallInv, ClientSendInv DEF CallerStep
<1>9. ASSUME NEW b \in Buffers, ThreadStep(b) \/ low_level_panic(b) PROVE NetInv'
  BY <1>9, ThreadBeginInv, ThreadFaultInv, WaitInv, LowLevelOutputInv, ReplyInv, InputDoneInv, ClientDoneInv
     DEF ThreadStep
<1>10. CASE UNCHANGED vars
  BY <1>10, StutterInv
<1> QED
  BY <1>1, <1>2, <1>3, <1>4, <1>5, <1>6, <1>7, <1>8, <1>9, <1>10,
     <1>11, <1>12, <1>13, <1>14 DEF Next

\* The invariant of the network path, whatever the sizes of the rings and the
\* number of request buffers: where each packet is, from the ring the card fills
\* to lwIP and back, and whose each request buffer is.
THEOREM NetInvariance == Spec => []NetInv
<1>1. Init => NetInv
  BY InitInv
<1>2. NetInv /\ [Next]_vars => NetInv'
  BY StepInv
<1> QED
  BY <1>1, <1>2, PTL DEF Spec

\* Every variable keeps its type: in particular no index leaves its ring, the
\* pool of pages is large enough for input(), and jif_input reads a page that
\* is there.
THEOREM TypeCorrect == Spec => []TypeOK
<1>1. NetInv => TypeOK
  BY DEF NetInv
<1> QED
  BY <1>1, NetInvariance, PTL

\* Two sequences that both count up from 1
LEMMA CountingPrefix ==
  ASSUME NEW S, NEW T, NEW s \in Seq(S), NEW t \in Seq(T), Len(s) <= Len(t),
         \A i \in 1..Len(s) : s[i] = i, \A i \in 1..Len(t) : t[i] = i
  PROVE  IsPrefix(s, t)
<1>1. Len(s) \in Nat /\ Len(t) \in Nat
  OBVIOUS
<1>2. SubSeq(t, 1, Len(s)) \in Seq(T) /\ Len(SubSeq(t, 1, Len(s))) = Len(s)
      /\ \A i \in 1..Len(s) : SubSeq(t, 1, Len(s))[i] = t[i]
  BY <1>1
<1>3. \A i \in 1..Len(s) : i \in 1..Len(t)
  BY <1>1
<1>4. \A i \in 1..Len(s) : SubSeq(t, 1, Len(s))[i] = s[i]
  BY <1>2, <1>3
<1>5. SubSeq(t, 1, Len(s)) = s
  BY <1>2, <1>4
<1> QED
  BY <1>5 DEF IsPrefix

\* Packets reach lwIP, and leave the machine, in order, once and unchanged
\* (InOrder): the driver and the card keep apart in both rings, input() never
\* receives into a page the server still reads, and a request's thread calls
\* jif_input before serve() takes the next request.
THEOREM PacketsInOrder == Spec => []InOrder
<1>1. NetInv => InOrder
  <2> SUFFICES ASSUME NetInv PROVE InOrder
    OBVIOUS
  <2>1. TypeOK /\ TxInv /\ RxInv
    BY DEF NetInv
  <2>2. /\ wire_in \in Seq(Nat) /\ wire_out \in Seq(Nat) /\ from_lwip \in Seq(Nat)
        /\ to_lwip \in Seq(Nat \cup {Nothing})
    BY <2>1 DEF TypeOK, RingTypeOK
  <2>3. Len(to_lwip) <= Len(wire_in)
    <3>1. Len(to_lwip) <= Taken
      BY <2>1, RxTyped DEF RxTypes, Taken
    <3> QED
      BY <2>1, <3>1, RxTyped DEF RxInv, RxTypes
  <2>4. Len(wire_out) <= Len(from_lwip)
    <3>1. TxTypes
      BY <2>1, TxTyped
    <3>2. TxTail <= Filled
      BY <3>1 DEF TxTypes, TxTail
    <3>3. Filled <= Len(from_lwip)
      <4>1. PICK n \in Nat : n = Len(from_lwip)
        BY <3>1 DEF TxTypes
      <4>2. PICK a \in 0..1, c \in 0..1 :
              a = (IF ns = "output" THEN 1 ELSE 0) /\ c = (IF output = "tx" THEN 1 ELSE 0)
        OBVIOUS
      <4>3. Filled = ((n - lost) - a) - c /\ lost \in Nat
        BY <3>1, <4>1, <4>2 DEF Filled, TxTypes
      <4> QED
        BY <4>1, <4>3
    <3> QED
      BY <2>1, <3>1, <3>2, <3>3 DEF TxInv, TxTypes
  <2>5. /\ \A i \in 1..Len(to_lwip) : to_lwip[i] = i
        /\ \A i \in 1..Len(wire_in) : wire_in[i] = i
    BY <2>1 DEF RxInv
  <2>6. /\ \A i \in 1..Len(wire_out) : wire_out[i] = i
        /\ \A i \in 1..Len(from_lwip) : from_lwip[i] = i
    BY <2>1 DEF TxInv
  <2>7. IsPrefix(to_lwip, wire_in)
    BY <2>2, <2>3, <2>5, CountingPrefix
  <2>8. IsPrefix(wire_out, from_lwip)
    BY <2>2, <2>4, <2>6, CountingPrefix
  <2> QED
    BY <2>7, <2>8 DEF InOrder
<1> QED
  BY <1>1, NetInvariance, PTL

\* A request buffer in use belongs to one thread, to serve() while it waits, or
\* to a message that came without a page (BufferOwners).
THEOREM BuffersHaveOwners == Spec => []BufferOwners
<1>1. NetInv => BufferOwners
  <2> SUFFICES ASSUME NetInv PROVE BufferOwners
    OBVIOUS
  <2>1. TypeOK /\ OneRound /\ Owned /\ Balanced
    BY DEF NetInv
  <2>2. PICK alive : alive = {t \in Threads : t = cur_tc \/ \E i \in 1..Len(thread_queue) :
                                                              thread_queue[i] = t}
    OBVIOUS
  <2>3. /\ Round \in Nat /\ Round = Len(thread_queue) + 1 /\ Len(thread_queue) \in Nat
        /\ \A i \in 1..Round : Turn(i) \in Threads
    BY <2>1, RoundType DEF Round, TypeOK
  <2>4. \A t : t \in alive <=> Alive(t)
    <3>1. ASSUME NEW t, t \in alive PROVE Alive(t)
      <4>1. CASE t = cur_tc
        <5>1. 1 \in 1..Round /\ Turn(1) = t
          BY <2>3, <4>1 DEF Turn
        <5> QED
          BY <5>1 DEF Alive
      <4>2. CASE t # cur_tc
        <5>1. PICK i \in 1..Len(thread_queue) : thread_queue[i] = t
          BY <2>2, <3>1, <4>2
        <5>2. i + 1 \in 1..Round /\ Turn(i + 1) = t
          BY <2>3, <5>1 DEF Turn
        <5> QED
          BY <5>2 DEF Alive
      <4> QED
        BY <4>1, <4>2
    <3>2. ASSUME NEW t, Alive(t) PROVE t \in alive
      <4>1. PICK i \in 1..Round : Turn(i) = t
        BY <3>2 DEF Alive
      <4>2. t \in Threads
        BY <2>3, <4>1
      <4>3. CASE i = 1
        BY <2>2, <4>1, <4>2, <4>3 DEF Turn
      <4>4. CASE i # 1
        <5>1. i - 1 \in 1..Len(thread_queue) /\ thread_queue[i - 1] = t
          BY <2>3, <4>1, <4>4 DEF Turn
        <5> QED
          BY <2>2, <4>2, <5>1
      <4> QED
        BY <4>3, <4>4
    <3> QED
      BY <3>1, <3>2
  <2>5. Len(thread_queue) + 1 = Cardinality(alive)
    <3>1. PICK f : f = [i \in 1..Round |-> Turn(i)]
      OBVIOUS
    <3>2. f \in Bijection(1..Round, alive)
      <4>1. f \in [1..Round -> alive]
        BY <2>4, <3>1 DEF Alive
      <4>2. \A i, j \in 1..Round : f[i] = f[j] => i = j
        BY <2>1, <3>1 DEF OneRound
      <4>3. \A t \in alive : \E i \in 1..Round : f[i] = t
        BY <2>4, <3>1 DEF Alive
      <4> QED
        BY <4>1, <4>2, <4>3, Zenon DEF Bijection, Injection, Surjection, IsInjective
    <3>3. IsFiniteSet(1..Round) /\ Cardinality(1..Round) = Round
      <4>1. 1 \in Int /\ Round \in Int /\ ~(1 > Round)
        BY <2>3
      <4>2. IsFiniteSet(1..Round) /\ Cardinality(1..Round) = Round - 1 + 1
        BY <4>1, FS_Interval
      <4> QED
        BY <2>3, <4>2
    <3>4. Cardinality(alive) = Cardinality(1..Round)
      <4>1. ExistsBijection(1..Round, alive)
        BY <3>2, Zenon DEF ExistsBijection
      <4> QED
        BY <3>3, <4>1, FS_Bijection
    <3> QED
      BY <2>3, <3>3, <3>4
  <2>6. alive \cap Buffers = AliveBuffers
    BY <2>4 DEF AliveBuffers
  <2>7. PICK waiting : waiting = IF main = "top" THEN {} ELSE {va}
    OBVIOUS
  <2>8. alive \cap Buffers \subseteq buse \ waiting /\ waiting \subseteq buse
    BY <2>1, <2>4, <2>7 DEF Owned
  <2>9. Cardinality(waiting) = IF main = "top" THEN 0 ELSE 1
    BY <2>7, FS_EmptySet, FS_Singleton
  <2>10. Cardinality(buse) = Cardinality(alive \cap Buffers) + Cardinality(waiting) + strays
    BY <2>1, <2>6, <2>9 DEF Balanced
  <2> QED
    BY <2>2, <2>5, <2>7, <2>8, <2>10 DEF BufferOwners
<1> QED
  BY <1>1, NetInvariance, PTL
==============================================================================
