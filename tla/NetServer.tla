------------------------------ MODULE NetServer -----------------------------
(***************************************************************************)
(* The path of packets through user space: the environments of net/input.c *)
(* and net/output.c between the driver (E1000) and the network server of   *)
(* net/serv.c, with its request buffers, its cooperative threads, its      *)
(* clients (lib/nsipc.c) and the clock of net/timer.c.                     *)
(*                                                                         *)
(* Messages are Rendezvous, which Ipc implements: ipc_send polls until the *)
(* receiver is in sys_ipc_recv, and the message is then taken whole.       *)
(* A thread runs until it calls thread_yield; an ipc_send or ipc_recv of   *)
(* any thread stops the whole server.  lwIP is external: a thread inside   *)
(* it sends packets, waits (thread_wait, which yields) and returns.        *)
(***************************************************************************)
EXTENDS E1000, FiniteSets, SequencesExt

CONSTANTS
  QUEUE_SIZE,
  Callers,      \* environments that send to the server and wait for its reply
  Timer,        \* the one of them that is net/timer.c
  Stranger,     \* and one whose requests the server does not know; the others
                \* are clients
  MaxCalls,     \* BOUND: requests of all callers
  MaxOut,       \* BOUND: packets lwIP sends
  MaxStrays,    \* BOUND: messages without a page
  NoPage

ASSUME ServerAssumption ==
  /\ {QUEUE_SIZE, MaxCalls, MaxOut, MaxStrays} \subseteq Nat
  /\ QUEUE_SIZE > 0 /\ {Timer, Stranger} \subseteq Callers /\ Timer # Stranger
  /\ "input" \notin Callers /\ "stray" \notin Callers /\ NoPage \notin Nat

Buffers == 0..(QUEUE_SIZE - 1)
Pages == 0..(QUEUE_SIZE + 1)     \* never more in use: see sys_page_alloc
Main == QUEUE_SIZE               \* the thread of serve()
Threads == Buffers \cup {Main}   \* a request's thread is named by its buffer
Requests == {"input", "stray"} \cup Callers

VARIABLES
  \* environments
  input,        \* "alloc", "rx", "rx_tail", "send", "dead": where input() is
  output,       \* "recv", "tx", "tx_tail", "dead": where output() is
  ns,           \* "run", "recv", "output", "reply", "dead": the server
  caller,       \* "idle", "send", "sent", "recv": each caller
  calls,        \* requests made so far
  \* memory
  content,      \* the packet in each physical page
  input_page,   \* the page at nsipcbuf in input's address space, or NoPage
  req_page,     \* the page at each request buffer of the server, or NoPage
  out_packet,   \* the packet in the page that output() received last
  \* the server
  buse,
  main,         \* "top", "recv", "timer": where serve() is
  va,           \* the buffer serve() uses
  env_ipc_perm, \* of the server: TRUE once a message came with a page
  request,      \* whose request each thread serves
  begun,        \* the threads that have called into lwIP
  cur_tc, thread_queue,
  strays,       \* messages that were left hanging
  to_lwip,      \* history: packets that jif_input gave to lwIP
  from_lwip,    \* history: packets that lwIP gave to low_level_output
  lost          \* history: how many of them went to a dead output()

threads == <<cur_tc, thread_queue>>
memory == <<content, input_page, req_page, out_packet>>
server == <<buse, main, va, env_ipc_perm, request, begun, strays>>
callers == <<caller, calls>>
history == <<to_lwip, from_lwip, lost>>
vars == <<rings, input, output, ns, callers, memory, server, threads, history>>

Init ==
  /\ RingInit
  /\ input = "alloc" /\ output = "recv" /\ ns = "run"
  /\ caller = [c \in Callers |-> "idle"] /\ calls = 0
  /\ content = [p \in Pages |-> Nothing]
  /\ input_page = NoPage /\ req_page = [b \in Buffers |-> NoPage]
  /\ out_packet = Nothing
  /\ buse = {} /\ main = "top" /\ va = 0 /\ env_ipc_perm = FALSE
  /\ request = [b \in Buffers |-> "input"] /\ begun = {}
  /\ cur_tc = Main /\ thread_queue = <<>>
  /\ strays = 0 /\ to_lwip = <<>> /\ from_lwip = <<>> /\ lost = 0
-----------------------------------------------------------------------------
(* net/input.c *)

FreePages == Pages \ ({input_page} \cup {req_page[b] : b \in Buffers})

\* Mutant: one page for all packets
sys_page_alloc_Once ==
  IF input_page = NoPage THEN Min(FreePages) ELSE input_page
\* sys_page_alloc at nsipcbuf: a page nobody has, in place of the old one
sys_page_alloc == Min(FreePages)

input_alloc ==
  /\ input = "alloc"
  /\ input_page' = sys_page_alloc
  /\ content' = [content EXCEPT ![sys_page_alloc] = Nothing]
  /\ input' = "rx"
  /\ UNCHANGED <<rings, output, ns, callers, req_page, out_packet, server,
                 threads, history>>

\* There is no page, and input() panics.
input_panic ==
  /\ input = "alloc"
  /\ input' = "dead"
  /\ UNCHANGED <<rings, output, ns, callers, memory, server, threads, history>>

\* sys_net_rx, until there is a packet
input_rx ==
  /\ input = "rx"
  /\ rx_take
  /\ content' = [content EXCEPT ![input_page] = rx_packet]
  /\ input' = "rx_tail"
  /\ UNCHANGED <<output, ns, callers, input_page, req_page, out_packet,
                 server, threads, history>>

input_rx_tail ==
  /\ input = "rx_tail"
  /\ rx_tail
  /\ input' = "send"
  /\ UNCHANGED <<output, ns, callers, memory, server, threads, history>>
-----------------------------------------------------------------------------
(* net/output.c *)

\* sys_net_tx, until there is a free descriptor
output_tx ==
  /\ output = "tx"
  /\ tx_fill(out_packet)
  /\ output' = "tx_tail"
  /\ UNCHANGED <<input, ns, callers, memory, server, threads, history>>

output_tx_tail ==
  /\ output = "tx_tail"
  /\ tx_tail
  /\ output' = "recv"
  /\ UNCHANGED <<input, ns, callers, memory, server, threads, history>>

\* A message from another environment.  One with an unknown code is dropped, and
\* so is one without a page if no page ever came, which is no step.  Once one
\* has come, env_ipc_perm keeps saying so, and an NSREQ_OUTPUT without a page
\* makes output() read where nothing is mapped.
output_fault ==
  /\ output = "recv" /\ out_packet # Nothing
  /\ output' = "dead"
  /\ UNCHANGED <<rings, input, ns, callers, memory, server, threads, history>>
-----------------------------------------------------------------------------
(* lib/nsipc.c and net/timer.c: a request, and the wait for its reply *)

call(c) ==
  /\ caller[c] = "idle" /\ calls < MaxCalls
  /\ caller' = [caller EXCEPT ![c] = "send"]
  /\ calls' = calls + 1
  /\ UNCHANGED <<rings, input, output, ns, memory, server, threads, history>>

call_recv(c) ==
  /\ caller[c] = "sent"
  /\ caller' = [caller EXCEPT ![c] = "recv"]
  /\ UNCHANGED <<rings, input, output, ns, calls, memory, server, threads,
                 history>>
-----------------------------------------------------------------------------
(* The threads: thread_create, thread_yield and thread_halt *)

\* thread_yield with q as the other threads: cur_tc goes behind them.
Yield(q) ==
  LET all == Append(q, cur_tc)
  IN  cur_tc' = Head(all) /\ thread_queue' = Tail(all)

\* thread_halt; main never halts, so there is another thread.
Halt == cur_tc' = Head(thread_queue) /\ thread_queue' = Tail(thread_queue)

\* Mutant: the new thread waits for serve() to yield another time
Create_NoYield(b) == cur_tc' = cur_tc /\ thread_queue' = Append(thread_queue, b)
\* thread_create and the thread_yield that follows it
Create(b) == Yield(Append(thread_queue, b))
-----------------------------------------------------------------------------
(* serve() *)

InMain(at) == ns = "run" /\ cur_tc = Main /\ main = at

\* Threads are woken and not yet run (their number is lwIP's business).
serve_flush ==
  /\ InMain("top") /\ thread_queue # <<>>
  /\ Yield(thread_queue)
  /\ UNCHANGED <<rings, input, output, ns, callers, memory, server, history>>

\* Mutant: the next buffer in turn, as if requests ended in order
get_buffer_Next == (va + 1) % QUEUE_SIZE
\* get_buffer: the first buffer not in use
get_buffer == Min(Buffers \ buse)

serve_recv ==
  /\ InMain("top") /\ Buffers \ buse # {}
  /\ va' = get_buffer
  /\ buse' = buse \cup {get_buffer}
  /\ main' = "recv" /\ ns' = "recv"
  /\ UNCHANGED <<rings, input, output, callers, memory, env_ipc_perm, request,
                 begun, strays, threads, history>>

\* "NS: buffer overflow"
serve_panic ==
  /\ InMain("top") /\ buse = Buffers
  /\ ns' = "dead"
  /\ UNCHANGED <<rings, input, output, callers, memory, server, threads, history>>

\* A request that comes with a page: a thread of its own serves it.
serve_request(r) ==
  /\ ns = "recv" /\ ns' = "run" /\ main' = "top"
  /\ env_ipc_perm' = TRUE
  /\ request' = [request EXCEPT ![va] = r]
  /\ Create(va)
  /\ UNCHANGED <<rings, output, content, input_page, out_packet, calls, buse,
                 va, begun, strays, history>>

\* ipc_send of input(), which maps its page at va, and of a client.  The
\* stranger's requests have unknown codes; they come with a page, or without
\* one when env_ipc_perm is set already.
input_send ==
  /\ input = "send"
  /\ serve_request("input")
  /\ req_page' = [req_page EXCEPT ![va] = input_page]
  /\ input' = "alloc"
  /\ UNCHANGED caller

client_send(c) ==
  /\ c # Timer /\ caller[c] = "send"
  /\ serve_request(c)
  /\ caller' = [caller EXCEPT ![c] = "sent"]
  /\ UNCHANGED <<input, req_page>>

\* NSREQ_TIMER: process_timer yields before it replies.
timer_send ==
  /\ ns = "recv" /\ caller[Timer] = "send"
  /\ caller' = [caller EXCEPT ![Timer] = "sent"]
  /\ ns' = "run" /\ main' = "timer"
  /\ Yield(thread_queue)
  /\ UNCHANGED <<rings, input, output, calls, memory, buse, va, env_ipc_perm,
                 request, begun, strays, history>>

\* NSREQ_TIMER from another environment: process_timer returns at once.
stranger_timer ==
  /\ ns = "recv" /\ caller[Stranger] = "send"
  /\ caller' = [caller EXCEPT ![Stranger] = "idle"]
  /\ buse' = buse \ {va}
  /\ ns' = "run" /\ main' = "top"
  /\ UNCHANGED <<rings, input, output, calls, memory, va, env_ipc_perm, request,
                 begun, strays, threads, history>>

process_timer ==
  /\ InMain("timer")
  /\ caller[Timer] = "recv"
  /\ caller' = [caller EXCEPT ![Timer] = "idle"]
  /\ buse' = buse \ {va}
  /\ main' = "top"
  /\ UNCHANGED <<rings, input, output, ns, calls, memory, va, env_ipc_perm,
                 request, begun, strays, threads, history>>

\* A message without a page: the request is left hanging, and its buffer in
\* use, if no page ever came.
serve_stray ==
  /\ ns = "recv" /\ ~env_ipc_perm /\ strays < MaxStrays
  /\ ns' = "run" /\ main' = "top"
  /\ strays' = strays + 1
  /\ UNCHANGED <<rings, input, output, callers, memory, buse, va, env_ipc_perm,
                 request, begun, threads, history>>

\* Afterwards env_ipc_perm keeps saying that one has come (PermIffPage of Ipc),
\* and says so of the first one too when there is no page table to map it: the
\* message is taken for a request.
stray_send ==
  /\ serve_request("stray")
  /\ UNCHANGED <<input, caller, req_page>>
-----------------------------------------------------------------------------
(* serve_thread(b) *)

InThread(b) == ns = "run" /\ cur_tc = b

\* The call into lwIP; for NSREQ_INPUT, jif_input copies the packet first (and
\* drops it if lwIP has no buffer left, which is not told apart here).  An
\* unknown code is the default case, which calls nothing.
thread_begin(b) ==
  /\ InThread(b) /\ b \notin begun /\ request[b] # "stray"
  /\ begun' = begun \cup {b}
  /\ to_lwip' = IF request[b] = "input"
                THEN Append(to_lwip, content[req_page[b]]) ELSE to_lwip
  /\ UNCHANGED <<rings, input, output, ns, callers, memory, buse, main, va,
                 env_ipc_perm, request, strays, threads, from_lwip, lost>>

\* A known code without a page: the thread reads an empty buffer.
thread_fault(b) ==
  /\ InThread(b) /\ request[b] = "stray"
  /\ ns' = "dead"
  /\ UNCHANGED <<rings, input, output, callers, memory, server, threads, history>>

InLwip(b) == InThread(b) /\ b \in begun /\ request[b] # Stranger

\* lwIP waits for something: sys_arch_sem_wait and thread_wait
thread_wait(b) ==
  /\ InLwip(b)
  /\ Yield(thread_queue)
  /\ UNCHANGED <<rings, input, output, ns, callers, memory, server, history>>

\* lwIP sends a packet: low_level_output copies it to a new page and sends it
\* to output(), which stops the server until output() receives again.
low_level_output(b) ==
  /\ InLwip(b)
  /\ Len(from_lwip) < MaxOut
  /\ from_lwip' = Append(from_lwip, Len(from_lwip) + 1)
  /\ ns' = "output"
  /\ UNCHANGED <<rings, input, output, callers, memory, server, threads,
                 to_lwip, lost>>

\* There is no page for the packet, or it is too large.
low_level_panic(b) ==
  /\ InLwip(b)
  /\ ns' = "dead"
  /\ UNCHANGED <<rings, input, output, callers, memory, server, threads, history>>

output_recv ==
  /\ ns = "output" /\ output = "recv"
  /\ out_packet' = from_lwip[Len(from_lwip)]
  /\ output' = "tx" /\ ns' = "run"
  /\ UNCHANGED <<rings, input, callers, content, input_page, req_page, server,
                 threads, history>>

\* ipc_send to an output() that is gone fails, which nobody looks at.  The first
\* page of all may not get mapped, for want of a page table: the message comes
\* through without it, and output() reads where nothing is.
output_lost ==
  /\ ns = "output"
  /\ output = "dead" \/ (output = "recv" /\ out_packet = Nothing)
  /\ lost' = lost + 1
  /\ ns' = "run" /\ output' = "dead"
  /\ UNCHANGED <<rings, input, callers, memory, server, threads, to_lwip, from_lwip>>

\* lwIP is done; whoever asked must be told, which stops the server until it
\* receives.  A client sends and receives, so it will; the stranger may not.
thread_reply(b) ==
  /\ InThread(b) /\ b \in begun /\ request[b] # "input"
  /\ ns' = "reply"
  /\ UNCHANGED <<rings, input, output, callers, memory, server, threads, history>>

thread_end(b) ==
  /\ buse' = buse \ {b}
  /\ req_page' = [req_page EXCEPT ![b] = NoPage]
  /\ begun' = begun \ {b}
  /\ Halt
  /\ ns' = "run"
  /\ UNCHANGED <<rings, input, output, calls, content, input_page, out_packet,
                 main, va, env_ipc_perm, request, strays, history>>

input_done(b) ==
  /\ InThread(b) /\ b \in begun /\ request[b] = "input"
  /\ thread_end(b)
  /\ UNCHANGED caller

client_done(b) ==
  /\ ns = "reply" /\ cur_tc = b
  /\ caller[request[b]] = "recv"
  /\ caller' = [caller EXCEPT ![request[b]] = "idle"]
  /\ thread_end(b)
-----------------------------------------------------------------------------
card ==
  /\ card_send \/ card_receive
  /\ UNCHANGED <<input, output, ns, callers, memory, server, threads, history>>

InputStep == input_alloc \/ input_rx \/ input_rx_tail \/ input_send
OutputStep == output_tx \/ output_tx_tail \/ output_recv \/ output_lost
CallerStep(c) == call_recv(c) \/ client_send(c)
ServeStep == serve_recv \/ serve_panic \/ process_timer
ThreadStep(b) ==
  \/ thread_begin(b) \/ thread_fault(b) \/ thread_wait(b) \/ low_level_output(b)
  \/ thread_reply(b) \/ input_done(b) \/ client_done(b)

Next ==
  \/ card \/ InputStep \/ OutputStep
  \/ serve_flush \/ ServeStep \/ timer_send
  \/ input_panic \/ output_fault \/ serve_stray \/ stray_send \/ stranger_timer
  \/ \E c \in Callers : call(c) \/ CallerStep(c)
  \/ \E b \in Buffers : ThreadStep(b) \/ low_level_panic(b)

Spec == Init /\ [][Next]_vars

\* The card works on; every environment that can run does so again and again
\* (RunnableRuns of Kernel), and a message gets through in the end
\* (ReceiverWoken of Ipc).  serve() goes on after at most 32 yields, hence the
\* strong fairness of its step; what lwIP waits for need not happen, and the
\* stranger need not receive.
FairSpec ==
  /\ Spec
  /\ WF_vars(card_send /\ card)
  /\ WF_vars(InputStep) /\ WF_vars(OutputStep)
  /\ WF_vars(timer_send)
  /\ \A c \in Callers \ {Stranger} : WF_vars(CallerStep(c))
  /\ SF_vars(ServeStep)
  /\ \A b \in Buffers : WF_vars(ThreadStep(b))
-----------------------------------------------------------------------------
TypeOK ==
  /\ RingTypeOK
  /\ input \in {"alloc", "rx", "rx_tail", "send", "dead"}
  /\ output \in {"recv", "tx", "tx_tail", "dead"}
  /\ ns \in {"run", "recv", "output", "reply", "dead"}
  /\ caller \in [Callers -> {"idle", "send", "sent", "recv"}]
  /\ calls \in 0..MaxCalls
  /\ content \in [Pages -> Nat \cup {Nothing}]
  /\ input_page \in Pages \cup {NoPage}
  /\ req_page \in [Buffers -> Pages \cup {NoPage}]
  /\ out_packet \in Nat \cup {Nothing}
  /\ buse \subseteq Buffers /\ begun \subseteq Buffers
  /\ main \in {"top", "recv", "timer"} /\ va \in Buffers
  /\ env_ipc_perm \in BOOLEAN
  /\ request \in [Buffers -> Requests]
  /\ cur_tc \in Threads /\ thread_queue \in Seq(Threads)
  /\ strays \in 0..MaxStrays
  /\ to_lwip \in Seq(Nat \cup {Nothing}) /\ from_lwip \in Seq(Nat)
  /\ lost \in Nat

\* Packets cross the machine in order, each once and unchanged, in spite of
\* the rings the card works on, the page that input() shares with the server
\* while it receives the next packet (net/input.c:15-17) and the threads: lwIP
\* has been given the first of those the card took in, and the card has sent
\* the first of those lwIP sent.
InOrder ==
  /\ IsPrefix(to_lwip, wire_in)
  /\ IsPrefix(wire_out, from_lwip)

\* A request buffer in use belongs to one request: to the thread that serves
\* it, to serve() itself while it waits with it, or to a message that came
\* without a page; so no request is mapped over one that is being served, and
\* only such messages lose buffers.
BufferOwners ==
  LET alive == {t \in Threads : t = cur_tc \/ \E i \in 1..Len(thread_queue) :
                                                 thread_queue[i] = t}
      waiting == IF main = "top" THEN {} ELSE {va}
  IN  /\ Len(thread_queue) + 1 = Cardinality(alive)
      /\ alive \cap Buffers \subseteq buse \ waiting
      /\ waiting \subseteq buse
      /\ Cardinality(buse) =
           Cardinality(alive \cap Buffers) + Cardinality(waiting) + strays

\* Every packet that the card took in reaches lwIP and every packet that lwIP
\* sends leaves the machine, unless the server has died (out of request
\* buffers, serv.c:63, out of pages, jif.c:85, or of a message without a page),
\* waits to reply to a stranger that does not receive (serv.c:248), or the
\* transmit ring has been filled to its last descriptor; or input() has
\* panicked (input.c:28), or output() has read where no page was
\* (output.c:49).  (Traffic is bounded here, so that all packets have arrived
\* when it stops.)
PacketsArrive ==
  LET hung == ns = "reply" /\ request[cur_tc] = Stranger /\ caller[Stranger] # "recv"
      stuck == ns = "dead" \/ hung \/ TxWedged
  IN  /\ []<>(to_lwip = wire_in \/ stuck \/ input = "dead")
      /\ []<>(wire_out = from_lwip \/ stuck \/ output = "dead")
=============================================================================
