--------------------------- MODULE NqPacketReader ---------------------------
(***************************************************************************)
(* The memory packets are read into (src/core/nq_packet_reader.h,          *)
(* nq_packet_reader.cpp).  Every worker of a server has a reader, whose    *)
(* slots recvmmsg fills, and passes a packet that is not its own on by     *)
(* pointer: the worker that processes it puts buffer and packet into the   *)
(* pools of its own reader (nq_dispatcher.h, nq_dispatcher.cpp,            *)
(* nq_worker.cpp).  A client has a reader too and pools nothing            *)
(* (nq_network_helper.cpp).                                                *)
(*                                                                         *)
(* A buffer, and the memory of a packet object, is a number, given out by  *)
(* new in turn.  A slot goes on pointing to the buffer of a packet that    *)
(* was handed over until the next Read.                                    *)
(***************************************************************************)
EXTENDS Naturals, Sequences, FiniteSets

CONSTANTS
  NumWorkers,   \* the workers of the server
  NumSlots,     \* kNumPacketsPerReadMmsgCall
  MaxMessages   \* bound: the messages that reach the sockets

ASSUME BoundsAssumption ==
  NumWorkers \in Nat \ {0} /\ NumSlots \in Nat \ {0} /\ MaxMessages \in Nat

Workers == 0 .. NumWorkers - 1
Slots == 1 .. NumSlots

VARIABLES
  multi,        \* MMSG_MORE: the platform has recvmmsg
  client,       \* whether this is the reader of a client; only reader 0 reads then
  slot,         \* packets_[i].buf of each reader
  last,         \* last_packets_read_, 0 also when recvmmsg failed
  batch,        \* of the messages read: where those still to be looked at are for
  buffer_pool,  \* buffer_pool_ of each reader, the top last
  packet_pool,  \* packet_pool_
  queue,        \* worker_queue_ of each worker: buffers and packet objects
  buffers,      \* buffers made so far
  objects,      \* packet objects made so far
  messages,     \* messages received so far
  dropped       \* the buffers and objects nobody has any more

vars == <<multi, client, slot, last, batch, buffer_pool, packet_pool, queue, buffers, objects,
          messages, dropped>>

\* Initialize: NewBuffer for every slot, when there are slots.
Init ==
  /\ multi \in BOOLEAN /\ client \in BOOLEAN
  /\ slot = [w \in Workers |-> [i \in Slots |-> IF multi THEN w * NumSlots + i ELSE 0]]
  /\ buffers = IF multi THEN NumWorkers * NumSlots ELSE 0
  /\ last = [w \in Workers |-> 0]
  /\ batch = [w \in Workers |-> << >>]
  /\ buffer_pool = [w \in Workers |-> << >>]
  /\ packet_pool = [w \in Workers |-> << >>]
  /\ queue = [w \in Workers |-> << >>]
  /\ objects = 0 /\ messages = 0
  /\ dropped = [buffers |-> {}, objects |-> {}]

\* What is left of a pool after n times top and pop, and what they gave,
\* with new when the pool was empty.
Popped(pool, n) == SubSeq(pool, 1, IF n < Len(pool) THEN Len(pool) - n ELSE 0)
Given(pool, i, made) == IF i <= Len(pool) THEN pool[Len(pool) - i + 1] ELSE made + i - Len(pool)
Made(pool, n, made) == IF n > Len(pool) THEN made + n - Len(pool) ELSE made

\* Where a message is for: it is not looked at (empty, or its header is not
\* as it should be), it has no connection id, or it is for a worker.
Skipped == NumWorkers
NoId == NumWorkers + 1
Destinations == Workers \cup {NoId, Skipped}

Reads(w) == batch[w] = << >> /\ (client => w = 0)

(***************************************************************************)
(* ReadPacketsMulti: new buffers for the slots used last time, recvmmsg,   *)
(* and then one message after the other.                                   *)
(***************************************************************************)
\* A faulty variant: the last slot that was used keeps its buffer.
ResetSlotsButLast(w) ==
  LET n == IF last[w] > 0 THEN last[w] - 1 ELSE 0 IN
    /\ slot' = [slot EXCEPT ![w] =
         [i \in Slots |-> IF i <= n THEN Given(buffer_pool[w], i, buffers) ELSE @[i]]]
    /\ buffer_pool' = [buffer_pool EXCEPT ![w] = Popped(@, n)]
    /\ buffers' = Made(buffer_pool[w], n, buffers)

ResetSlots(w) ==
  /\ slot' = [slot EXCEPT ![w] =
       [i \in Slots |-> IF i <= last[w] THEN Given(buffer_pool[w], i, buffers) ELSE @[i]]]
  /\ buffer_pool' = [buffer_pool EXCEPT ![w] = Popped(@, last[w])]
  /\ buffers' = Made(buffer_pool[w], last[w], buffers)

ReadPacketsMulti(w) ==
  /\ multi /\ Reads(w)
  /\ ResetSlots(w)
  /\ \E n \in 0 .. NumSlots :
       /\ messages + n <= MaxMessages
       /\ messages' = messages + n
       /\ last' = [last EXCEPT ![w] = n]
       /\ \E to \in [1 .. n -> Destinations] : batch' = [batch EXCEPT ![w] = to]
  /\ UNCHANGED <<multi, client, packet_pool, queue, objects, dropped>>

(***************************************************************************)
(* OnRecv of the dispatcher, or of the client: the packet in buffer b, for *)
(* d, gets an object.  Process of a worker pools both; a packet without an *)
(* id is forgotten, and so is every packet of a client.                    *)
(***************************************************************************)
OnRecv(w, b, d, pool) ==
  LET o == Given(packet_pool[w], 1, objects)
      popped == [packet_pool EXCEPT ![w] = Popped(@, 1)]
  IN  /\ objects' = Made(packet_pool[w], 1, objects)
      /\ \/ /\ client \/ d = NoId
            /\ dropped' = [buffers |-> dropped.buffers \cup {b}, objects |-> dropped.objects \cup {o}]
            /\ buffer_pool' = pool /\ packet_pool' = popped
            /\ UNCHANGED queue
         \/ /\ ~client /\ d = w
            /\ buffer_pool' = [pool EXCEPT ![w] = Append(@, b)]
            /\ packet_pool' = [popped EXCEPT ![w] = Append(@, o)]
            /\ UNCHANGED <<queue, dropped>>
         \/ /\ ~client /\ d \in Workers \ {w}
            /\ queue' = [queue EXCEPT ![d] = Append(@, [buffer |-> b, object |-> o])]
            /\ buffer_pool' = pool /\ packet_pool' = popped
            /\ UNCHANGED dropped

\* The slot of the next message of the batch.
NextSlot(w) == last[w] - Len(batch[w]) + 1

\* The next message is passed over: its buffer is forgotten with its slot.
Skips(w) ==
  /\ batch[w] # << >> /\ Head(batch[w]) = Skipped
  /\ batch' = [batch EXCEPT ![w] = Tail(@)]
  /\ dropped' = [dropped EXCEPT !.buffers = @ \cup {slot[w][NextSlot(w)]}]
  /\ UNCHANGED <<multi, client, slot, last, buffer_pool, packet_pool, queue, buffers, objects,
                 messages>>

Delivers(w) ==
  /\ batch[w] # << >> /\ Head(batch[w]) # Skipped
  /\ batch' = [batch EXCEPT ![w] = Tail(@)]
  /\ OnRecv(w, slot[w][NextSlot(w)], Head(batch[w]), buffer_pool)
  /\ UNCHANGED <<multi, client, slot, last, buffers, messages>>

(***************************************************************************)
(* ReadPackets, without recvmmsg: a buffer, which goes back to the pool    *)
(* when nothing was read, and one message.                                 *)
(***************************************************************************)
ReadFails(w) ==
  /\ ~multi /\ Reads(w)
  /\ buffer_pool' = [buffer_pool EXCEPT ![w] = Append(Popped(@, 1), Given(@, 1, buffers))]
  /\ buffers' = Made(buffer_pool[w], 1, buffers)
  /\ UNCHANGED <<multi, client, slot, last, batch, packet_pool, queue, objects, messages, dropped>>

ReadPackets(w) ==
  /\ ~multi /\ Reads(w) /\ messages < MaxMessages
  /\ messages' = messages + 1
  /\ buffers' = Made(buffer_pool[w], 1, buffers)
  /\ \E d \in Destinations \ {Skipped} :
       OnRecv(w, Given(buffer_pool[w], 1, buffers), d, [buffer_pool EXCEPT ![w] = Popped(@, 1)])
  /\ UNCHANGED <<multi, client, slot, last, batch>>

(***************************************************************************)
(* NqWorker::Run takes a packet another worker read.                       *)
(***************************************************************************)
Process(w) ==
  /\ batch[w] = << >> /\ queue[w] # << >>
  /\ queue' = [queue EXCEPT ![w] = Tail(@)]
  /\ buffer_pool' = [buffer_pool EXCEPT ![w] = Append(@, Head(queue[w]).buffer)]
  /\ packet_pool' = [packet_pool EXCEPT ![w] = Append(@, Head(queue[w]).object)]
  /\ UNCHANGED <<multi, client, slot, last, batch, buffers, objects, messages, dropped>>

Next ==
  \E w \in Workers :
    \/ ReadPacketsMulti(w) \/ Skips(w) \/ Delivers(w)
    \/ ReadFails(w) \/ ReadPackets(w) \/ Process(w)

Spec == Init /\ [][Next]_vars

(***************************************************************************)
(* Properties.                                                             *)
(***************************************************************************)
\* The slots whose buffer is not handed over yet: those recvmmsg has not used
\* since they were given one, and those of the batch.
Fresh(w) == {i \in Slots : i >= NextSlot(w)}

\* Where what the workers have, f, has an element that satisfies P.
At(place, f, P(_)) ==
  UNION {{<<place, w, i>> : i \in {j \in DOMAIN f[w] : P(f[w][j])}} : w \in Workers}

BufferHolders(b) ==
  {h \in At("slot", slot, LAMBDA x : x = b) : h[3] \in Fresh(h[2])}
  \cup At("pool", buffer_pool, LAMBDA x : x = b)
  \cup At("queue", queue, LAMBDA p : p.buffer = b)

ObjectHolders(o) ==
  At("pool", packet_pool, LAMBDA x : x = o) \cup At("queue", queue, LAMBDA p : p.object = o)

\* The memory of a packet is in one place, however many workers it goes
\* through: a buffer in a slot that recvmmsg will write to or has written to, a
\* queue, or one pool, and a packet object in a queue or one pool.  So no packet
\* is overwritten while a worker has it, and nothing is lost but for messages
\* that are passed over, have no id or reach a client (NewBuffer, NewPacket,
\* Pool, ReadPacketsMulti, NqDispatcher::Process).
EveryBufferOnce ==
  /\ \A b \in 1 .. buffers :
       Cardinality(BufferHolders(b)) = IF b \in dropped.buffers THEN 0 ELSE 1
  /\ \A o \in 1 .. objects :
       Cardinality(ObjectHolders(o)) = IF o \in dropped.objects THEN 0 ELSE 1
=============================================================================
