# Verification of naquid

naquid is a C++ library for RPC and streams over QUIC. This directory holds TLA+
models of its own code (`src/src/core`, `src/src/basis`, `src/src/nq.cpp`), TLC runs
that check them on small instances, and TLAPS proofs for every instance. The vendored
QUIC stack (`src/src/chromium`) and `src/ext` are outside; what the code relies on
from them is an environment step.

The models follow the release build, the default of `CMakeLists.txt`: `ASSERT` is
off, so a step goes on after a failed assertion. Where an assertion can fail, the
model records it in a variable (`broken`, `fault`) and a property speaks of it.

## The system

A **loop** (one thread) owns alarms, sockets and connections. Any thread may call the
C API (`nq.h`) with a *handle*, a pointer and a serial. Calls from other threads become
operations in the queue of **NqBoxer**, which the loop drains; a serial that no longer
matches makes the operation a no-op. `NqClientLoop::Poll` drains the queue, completes
name resolution, reads packets and fires alarms, in this order. A **client** connects,
reconnects and is finalized; its **stream manager** keeps the streams asked for while
there is no connection. A **stream** first sends the name of its protocol, then the
bytes of its **handler**: raw, records with a length, or RPC messages. A **server**
starts a number of **workers**, each a thread with a dispatcher per port; packets that
reach the wrong worker are queued to the one that owns the connection id. Sockets of
clients and of the **resolver** (c-ares) share one table of processors in the event loop.

| Part of the system | Source | Module |
|---|---|---|
| RPC requests, replies, timeouts | `nq_stream.{cpp,h}`, `id_factory.h` | `NqRpc`, `NqRpcProof` |
| Alarms of the loop | `nq_loop.{cpp,h}`, `nq_alarm.h` | `NqLoop`, `AlarmService`, `NqLoopProof` |
| Alarms of the user, queue, pool | `nq_alarm.{cpp,h}`, `nq_boxer.{cpp,h}`, `allocator.h` | `NqAlarm`, `NqAlarmProof` |
| Handles, mutexes, queued operations | `nq_unwrapper.h`, `nq_boxer.{cpp,h}`, `nq.cpp` | `NqHandle`, `HandleService`, `NqHandleProof` |
| Client connection | `nq_client.{cpp,h}`, `nq_client_loop.cpp` | `NqClient`, `NqClientProof` |
| Streams of a client | `nq_client.cpp` (`StreamManager`) | `NqStreamManager`, `NqResolverStreamsProof` |
| Name resolution, processors of sockets | `nq_async_resolver.{cpp,h}`, `basis/loop.h` | `NqResolver`, `NqResolverStreamsProof` |
| Establishing a stream, its payload | `nq_stream.cpp`, `handler_map.h` | `NqStream` |
| Header and length codec, framing | `header_codec.h`, `endian.h`, `nq_stream.cpp` | `NqCodec`, `NqFraming` |
| Server, workers, dispatcher | `nq_server.h`, `nq_worker.*`, `nq_dispatcher.*` | `NqServer`, `NqServerProof` |
| Memory of packets | `nq_packet_reader.{cpp,h}`, `nq_dispatcher.*` | `NqPacketReader`, `NqPacketReaderProof` |

## The modules

**NqRpc**: one RPC stream. `req` and the message map are `req_map_`, `msgid` the id
factory, `frame`/`running` the callback that is running. The user's callback is not
atomic: while it runs, `Call` and `CallWriteFails` may be taken, which is how a
callback re-enters the handler. `RecvReply` is the reply branch of `OnRecv`, `OnFire`
the timeout, `OnClose` ... `OnCloseReturns` the close with `Cleanup` in between, one
`GoAway` at a time. Replies come in any order, twice, or for a call long settled.

**NqLoop**: `alarm_map_` as numbered entries (`ptr`, `key`, `erased`), ordered by
deadline and then insertion, as a `std::multimap` is. `Poll` is split at every
callback: `PollFires` starts `OnFire`, and until `FireReturns` any alarm may be set or
cancelled. `ts` is the owner's view of its alarm. `StepBack` sets `gettimeofday` back.
In the behaviours where `delayed` is true callbacks set deadlines of the future only.
**AlarmService** is what owners count on: an alarm is due at a time or not at all, its
OnAlarm is invoked when it is due, one at a time, and not after it was cancelled. Whose
OnAlarm runs is part of what an owner sees (`running`, in `NqLoop` the entry `PollFires`
stands at), so that an entry fired early is no step of the service, not even a Cancel.

**NqAlarm**: alarm objects in pooled blocks, the queue of operations, `OnFire`, which
queues `Exec`, and `Exec`, which runs the callback and may delete the alarm. The times
of different alarms are taken to be different. Where `careful` is true callers leave
alone an alarm that may be firing or gone; it is chosen in `Init` and never changes. So
is `makers`: whether other threads make alarms too (`nq_stream_alarm`, `nq_rpc_alarm`). Their
`NewAlarm` is two steps, `AllocTop` and `AllocPop`, because the pool has no lock: what the
loop allocates or frees in between may be lost, or its block given out twice. A crash inside
the `std::stack` or the `std::map`, which ends the behaviour, is left out.

**NqClient**: an object is a record and a method an operator from record to record,
since the methods nest (`Disconnect` calls `OnClose`, which calls the user and may
schedule deletion). An action is one whole operation.

**NqStreamManager**: `entries_`, the streams of the current session, and a second
thread whose `nq_conn_stream` reads `connect_state_` in one step and emplaces its
entry in another (`InitStreamReads`, `InitStreamEmplaces`). In the behaviours where
`careful` is true that thread is absent, nobody asks for a stream while the client is
down, and `on_stream_open` does not fail.

**NqStream**: two ends, the bytes between them cut anywhere, the protocol each end runs,
and the messages it hands to the user. The payload is that of the protocol: an RPC
message with its header, a record with its length, or raw bytes, made and taken apart by
the operators of **NqFraming** with the codec of **NqCodec**, integers modulo a byte. The
byte is scaled: it has `Byte = 8` values in the runs, so that lengths of 4 and more take
two digits as 128 does in the code, and the types 4 to 7 stand for 128 to 255.

**NqHandle**: objects (clients, sessions, streams) in the blocks of a pool. A handle is the
block and the serial the object got there; the mutex belongs to the block and outlives the
object. A thread is in a stack of API calls (`frames`), each waiting for the mutex, holding
it before the check, or inside the code the macro guards; a validate callback may put
another call on top. The loop makes objects, closes them (`Close`, then `Invalidate`, which
waits for the mutex) and deletes them. `Post`, `LoopPosts` and `Take` are the operations of
`NqBoxer`; a `send` is taken with whatever its uninitialized pointer holds, and a pointer
to no block may crash the loop instead.
**HandleService** is what callers count on: a handle is valid from its making to its
revocation, is entered only while valid, and is not revoked while somebody is inside.

**NqResolver**: queries from `Resolve` to their callback, c-ares with its socket, and the
table of processors the loop finds the owner of an event in. `Sync` is the first part of
`NqAsyncResolver::Poll`, which brings `io_requests_` in line with the sockets c-ares has
open, and `StartFlies` to `StartEnds` its second, which goes over `queries_` while callbacks
may append to it. An append may reallocate the vector (`iter = "dangling"`), and then the
iterator reads freed memory: any query there was, deleted ones too, or nothing that can be
used (`StartCrashes`). Descriptor numbers are reused at once by whoever opens a socket.
c-ares is external and modelled from how it is called. What goes wrong in a behaviour
(`trouble`) is chosen in `Init`: nothing, lost answers, a new socket, an answer inside the
call, a hang-up.

**NqPacketReader**: buffers and packet objects as numbers, and where each one is: a slot of
`recvmmsg`, a pool, a queue between workers, or nowhere.

**NqServer**: threads with program counters (starter, joiner, stopper, workers), the
status word, and each worker's packet queue and sessions. A start blocks or returns at
once, and the join comes at any time, before the start too. A start that does not block
creates the shutdown thread in one step and stores it in `shutdown_thread_` in another
(`StoresStopper`), so a join that overtakes it finds nothing to join.

A definition whose comment starts with *A faulty variant* is not part of the model: it
is the definition below it with one plausible mistake, used to show that a property can
fail. `PROJECT.json` (`mutants`) says which property each one breaks.

The properties stand at the end of each module. Those that the code keeps only in some
circumstance name it as their first condition (`Unwrapped`, `back = 0`, `careful`,
`phase # "closed"`), so that one run has both the behaviours in which the circumstance
holds and those in which it ends. What the repository states and the code does not keep
has a heading of its own.

## The runs

Every `.cfg` belongs to the module `MC<name>` that extends the model.

| Run | What it shows | Bounds |
|---|---|---|
| `rpc` | no `on_reply` runs twice or after the close; until ids wrap, replies reach their own callers, no alarm or Request is left behind, every registered call is settled | 6 calls, ids 1 to 4: two calls meet a used id |
| `loop` | the iterator stays valid; until time is set back every alarm that is set has a live entry still to come; with deadlines of the future the multimap and Poll implement `AlarmService`, fairness included, and no entry is left behind | 2 alarms, 4 sets, times to 3, one step back |
| `alarm` | pool and registry are exact while only the loop makes alarms; a destroyed alarm stays silent in any case; with careful callers map and alarms agree and a set alarm runs | 2 blocks, 3 alarms (one block is used again), 4 calls, the alarms other threads make included |
| `client` | no block is freed or given out twice; callbacks come in order; the timer agrees with the state; a close finalizes, a wait to reconnect ends | 2 blocks, 2 clients, 3 calls; the second client may take the block of the first |
| `server` | one owner per connection, opened is closed, the server is deleted when nobody uses it but a `nq_server_start` that the join overtook, join returns | 2 workers, 3 connections (two of one worker), 2 packets, limit 2 |
| `streams` | closed for good; with careful callers entries point to live streams, opens and closes pair up, requests are served | 3 streams, 3 sessions |
| `stream` | both ends get the same protocol, and each message, record or run of bytes as it was sent, in order, whatever the pieces; in the end all of them | names of which one begins like the other, a name the peer does not know, 2 messages of every header form, lengths of one and two digits |
| `handle` | a call that passed its check works on a live object; a queued operation reaches the object of its handle or none, and none after the close; without nested calls nobody waits for ever; `HandleService` is implemented | 2 threads, 1 block, 2 objects one after the other, 3 calls |
| `resolver` | an event finds the processor of the descriptor's owner; not found means no address of either family; a query is in one place, as long as no callback inside `Poll` makes `queries_` move; without trouble it is answered | 2 queries, 2 descriptors |
| `reader` | every buffer and packet object is in one place, or among those forgotten at three known places | 2 workers, 2 slots, 4 messages |
| `streams_race` | **violated**: `AskedIsOpened` | 1 stream, 1 session |
| `framing_type` | **violated**: `PositiveTypeKept` | 1 message |

Why the bounds are enough to be interesting: each is the smallest number at which the
case a property is about happens. An id is given out again (`rpc`); two entries have one
key and an alarm is set, cancelled and set again in one pass (`loop`); a block holds a
second object while operations for the first are queued or a thread is inside a call on it
(`alarm`, `client`, `handle`); a packet reaches the worker that does not own it while that
worker is shutting down, two packets being one to open a session and one to meet it, and the
proofs speak of any number (`server`); a session ends and two more follow (`streams`); a
client gets the number of a socket c-ares just closed (`resolver`); a slot is used twice
(`reader`). The mutants show that each property is violated within its bounds once the
code is wrong.

`MCNqStream` also evaluates two assumptions about the codec over whole ranges: every
header with a type outside the folded ones, with ids at the edges of the widths, and
every length up to 300 is read back as it was written.

Deadlock is not checked: a stream that is closed, a client loop that is destroyed and a
server that was joined may stop, and the bounds stop the rest.

## Fairness

Fairness is on steps of the library's own threads, never on the network or the user, with
the exceptions named here.

- `NqRpc`: user callbacks return; an alarm that stays in the loop fires, since the loop is
  polled. Replies need not come.
- `NqLoop`: the loop goes on polling (`WF` of the steps of Poll) and time passes.
- `NqAlarm`, `NqClient`: the loop drains its queue and goes to the next part of its poll
  (`WF`); an alarm that is due again and again, between parts that cannot fire it, fires
  (`SF` of `OnFire`).
- `NqServer`: a thread that can run runs, and the user's `nq_server_start` proceeds.
  Clients and `nq_server_join` owe nothing.
- `NqStreamManager`: the loop drains its queue and a thread inside `nq_conn_stream` leaves
  it. The handshake may never be confirmed.
- `NqStream`: bytes that were written arrive (`WF` of `OnDataAvailable`), because QUIC
  retransmits.
- `NqHandle`: the loop goes on (`WF` of its steps), each thread runs, and callbacks return.
  A mutex needs no strong fairness: the calls are bounded, so it becomes free for good.
- `NqResolver`: `Poll` goes on, and answers arrive unless the trouble of the behaviour is
  that they do not.

## What is proved

The theorems hold for every value of the constants that the named assumptions allow
(`MaxCallsAssumption`, `MsgIdLimitAssumption`, `AlarmsAssumption`, `BoundsAssumption`):
any number of calls, ids, alarms, sets, clients, workers, connections and packets.

**NqRpcProof.** `TypeCorrect`, `CallbackAtMostOnce`, `SilentAfterClose` (of `on_reply`) from
the inductive invariant `IInv`. `AtMostOnce` is not inductive: that a reply, a timeout or a
go-away does not tell a caller again rests on how the state of a Request goes with the call
stack (`ReqInv`, `FrameInv`), on the Requests in the map being alive ahead of Cleanup's
iterator (`EntryAlive`, `Keyed`, `PhaseInv`), and on calls not yet issued having left no
trace (`Unissued`). `ReplyCorrelation`, `NoAlarmOutlivesStream` and `NoRequestLeak` need
`UniqueInv` besides, which holds until ids wrap: the id of a call is its number, and an
armed Request is in the map under it.

**NqLoopProof.** `TypeCorrect` and `IteratorStaysValid` from `IInv`, for any clock.
`AlarmNeverLost` and `CancelAssertHolds` from `KeepInv`: until time is set back, the
instant of the pass is not after now, and so whatever is set lands ahead of the iterator
or among equal keys behind it. `NoEntryDangles`, `NeverEarly` and `LoopImplementsService`
speak of what happens while `Reliable` holds (deadlines of the future, no step back) and
use `ExactInv`: marked entries are in the past of the pass, live entries ahead belong to
alarms set for that time, and an alarm has at most one entry on either side of the instant
of the pass. The last of these is what lets CancelAlarm mark the right entry, and with it
the entry Poll stands at is due when it fires, which is all the service allows. That its
owner may set or cancel alarms while it runs is `OwnersKeepRunning`.

**NqServerProof.** `TypeCorrect`, `DeletedUnused`, `SingleOwner` from `ThreadInv` (who holds
the mutex, what the status says of the stopper, the stopper of the workers and the joiner of
the stopper, or of the starter that has not stored it) and `RouteInv` (a session or a queued
packet is at the worker its connection id names). `ClosedOnce` (`OpenedIsClosed`) needs
`CloseInv` besides: only a worker inside its loop has sessions, a connection whose session
ended has been told on_close once, and one that was told on_open has a session or has ended.
It outlasts the shutdown because the server is no longer alive when a worker leaves its
loop, so that a hello taken from the queue afterwards is refused.

**NqClientProof.** `TypeCorrect`, `StateTellsConnection` (`ConnectedIsUp`) and
`MemoryFreedOnce` (`FreedOnce`) from `IInv`: at most one Finalize is queued for a block; a
block without a client is in the pool or has its Finalize queued, and one with a client has
neither; a Finalize is queued and carried out within one drain, and no DoReconnect is
queued while packets are read (`PhaseInv`). Methods nest, so each has a lemma that
says what it does to the record of the client (`DisconnectFacts`, `ReconnectFacts`,
`OnOpenFacts`, ...), and an action is its method, the block it is for and a change of the
queue. `CallbackOrder` (`CallbacksInOrder`) adds `OrderInv`: on_open is unanswered only
while the client is connected, and no DoReconnect is queued for such a client, because
handshakes are confirmed while packets are read and DoReconnect is carried out before.
`TimersAgree` (`TimerInStep`) adds `TimerInv`: an alarm and a DoReconnect are never both
pending for a client, at most one DoReconnect is, and it is for the client in its block.

**NqPacketReaderProof.** `MemoryInOnePlace` (`EveryBufferOnce`), for any number of workers,
slots and messages. The property counts places. `IInv` says where they are: the buffers
allocated so far are split between the slots that were not handed over, the pools and the
queues of the workers and what was dropped, no two of these share one, and none has one
twice (`Kept`, with `Split`); the same for packet objects. The lemmas follow a buffer from
place to place: out of a pool or new, out of a slot, into a queue, out of it, into a pool.

**NqHandleProof.** `TypeCorrect`, `InsideStaysAlive`, `OperationReachesItsObject`,
`NothingAfterClose` and `HandlesImplementService`, for every set of threads and blocks and
every depth of nested calls. `InsideAlive` is not inductive: `FrameInv` adds that every call
that does not wait holds the mutex of its block, and that a thread holds it for one call
only, so that `Invalidate`, which needs the mutex free, meets nobody inside; `PoolInv` that
the serial of a block is that of the object living there, until a stream is rejected.
`QueueInv` is for `NothingAfterClose`: an operation marked late has the close before it in
the queue, or the object is being closed, or its serial is gone and never comes back.

**NqResolverStreamsProof**, the first part. `ResolverTypes`, `EventsFindOwners`,
`NotFoundIsNotThere` and `QueryInOnePlace` for any queries and descriptors, from
`ResolverInv`. `TableInv` adds to `EventFindsOwner` that
c-ares owns its socket and nothing else, and that what the kernel watches is open; `WaitInv`
says where a query is at each point of `Poll`: what the iterator has passed is with c-ares,
what it has still to come to is not. For the queries ahead of the iterator this is claimed
only while the iterator is valid; it is not when c-ares answers inside its call and the
callback, or the retry for IPv6, makes the vector grow.

**NqResolverStreamsProof**, the second part, about `NqStreamManager`. `TypeCorrect`,
`EntriesLive`, `OpensAndClosesPair` and `NeverReopened` from the types, what a queued
OpenStream says of its entry (`QueueInv`), that indices not yet given out have left no trace
(`FreshInv`), that a closed stream has no entry and is not on its way to one (`ClosedInv`),
and what careful callers keep (`CarefulInv`).

**NqAlarmProof.** `TypeCorrect` and `DestroyedIsSilent` for all callers, from `SerialInv`: a
serial is in one block at most, and never again once its alarm is destroyed. This outlives
a corrupted pool. `PoolIsExact` is for alarms made by the thread of the loop only.
`MapStaysInStep` is about careful callers and uses `StepInv`: every queued operation is for
the alarm in its block, an Exec is alone and its alarm set without an entry, and a Finalize
is the last operation of its alarm.

Only model-checked:

- The liveness properties (`EveryCallSettled`, `SetRuns`, `CloseFinalizes`,
  `ReconnectHappens`, `JoinEnds`, `RequestServed`, `AllReceived`, `NobodyWaits`,
  `EveryQueryAnswered`) and the fairness part of `ImplementsService`: fairness and ENABLED
  are out of the prover's reach. `LoopImplementsService` is the safety part.
- `ReceivedIsSent` of `NqStream`. What the receiver parses out of the bytes is computed by
  recursion over them (`NqFraming`, `NqCodec`), and that it is what was written for every
  message needs induction over data, which is out of reach too. It is also not true of every
  record: a length cut between its bytes is misread (`RecordsSeparated` below).
- The codec assumptions of `MCNqStream`, over the ranges given above.

## Statements the code does not keep

The first two have a run. The others can be seen by checking the property in the run
named here, with the change given.

| Property | The repository says | What happens |
|---|---|---|
| `AskedIsOpened` | `nq.h:22` "indicate this call can be done concurrently, and works correctly", of `nq_conn_stream`; its own comment, `nq.h:398`, asks to "call from owner thread of it" | `nq_conn_stream` in another thread reads the state (`nq_client.cpp:272`), OnOpen goes over the entries, then the entry is made: it is never opened |
| `PositiveTypeKept` | `nq.h:456` "type should be positive" | types 128 to 255 are written in one byte and read as negative (`header_codec.h:54`): a request or a notification becomes a reply |
| `UnknownReplySettled` (`rpc`) | `nq_stream.cpp:367` "probably timedout. caller should already be received timeout error" | after a wrap an entry is overwritten (`:325`) and its caller was not told |
| `NoCancelInOnFire` (`rpc`) | `nq_alarm.h:19` "CAUTION: its generally unsafe that call NqLoop::CancelAlarm directly in OnFire callback," | a write that fails in the timeout callback closes the stream, and Cleanup cancels alarms (`nq_stream.h:253`); it also tells the caller a second time, the exception in `AtMostOnce` |
| `NoEarlyFire` without `Reliable` (`loop`, `StepsBack = 0`) | `quic_alarm.h:69-75`: fired if the deadline has been exceeded | set for now, cancelled and set for later in one callback: the first of two equal entries is marked and the other fires |
| `Kept` (`loop`) | `nq_loop.cpp:63` `ASSERT(false)` in CancelAlarm | after a step back an alarm behind the iterator is cleared (`:93`) while set |
| `ExecUnregistered` (`alarm`) | `nq_alarm.cpp:41` "here, alarm is already unregistered from NqLoop::alarm_map_" | a `nq_alarm_set` queued before Exec has put a new entry there |
| `StaleUseIgnored` (`alarm`) | `nq.h:519` "further use of nq_alarm_t is not possible (silently ignored)" | `nq_alarm_destroy` of such an alarm meets `ASSERT(false)` (`nq_boxer.h:301`) |
| `AlarmsMadeAnywhere` (`alarm`) | `nq.h:22`, of `nq_stream_alarm` (`:404`) and `nq_rpc_alarm` (`:446`) | `NewAlarm` runs in the caller's thread (`nq.cpp:352`) on a pool without a lock (`allocator.h:61-74`): two alarms get one block, or a block is lost |
| `OpenedTwice` (`client`) | `nq.h:127` "note that this usucally called twice to establish connection." | on_open is called when the handshake is confirmed, once (`nq_session.cpp:49`) |
| `FiresReconnecting` (`client`) | `nq_client.cpp:175` `ASSERT(connect_state_ == RECONNECTING)` | a close while waiting to reconnect leaves the alarm (`:238`), which fires for the finalized or the next client |
| `NothingAfterFinalize` (`client`) | `nq.h:137` "just after this callback is done, memory corresponding to the nq_conn_t, will be freed." | `Destroy` calls on_finalize, then closes the connection, which calls on_close (`nq_client.cpp:142-148`) |
| `GreedyRead` (`stream`) | `nq_stream.cpp:281` "greedy read and called back" | one record for each OnRecv (`:286`) |
| `RecordsSeparated` (`stream`, `Records <- LongRecords`) | `nq_stream.h:181` "A QUIC stream that separated with encoded length" | a length cut between its bytes is taken for a shorter one |
| `NeverDeadlock` (`server`, 1 worker) | `nq_server.h:113` "finailized should evaluated before first actual wait operation, so never deadlock." | a join before the start makes Start return at once; nobody calls Stop and the join waits for ever |
| `ShutdownThreadJoined` (`server`) | `nq_server.h:118` "ensure shutdown thread finished"; `nq.h:20` does not promise it for calls at the same time | a join at the same time as the start finds `shutdown_thread_` not yet stored (`:93`), does not join it and deletes the server it is stored into |
| `HardLimit` (`server`, limit 3, 4 connections and packets) | `nq.h:301` "if set to true, max_session_hint will be hard limit" | each worker keeps the limit for itself (`nq_dispatcher.cpp:133`) |
| `RefusedBeyondLimit` (`server`, limit 1) | `nq_dispatcher.cpp:134` "session count exceeds limit" | the session that asks is counted |
| `KnowsThread` (`server`) | `nq_unwrapper.h:91` "return nullptr; //avoid deadlock" | the dispatcher reads the thread id (`nq_dispatcher.cpp:31`) before the starter stored it (`nq_worker.h:32`) |
| `EntryLive` without `careful` (`streams`) | `nq.h:365` "it never destroy connection itself, but associated stream/rpc all destroyed." | an OpenStream taken after the connection ended makes streams in the closed session (`nq_client.cpp:275`) |
| `DeletedCleared` (`streams`) | `nq_stream.h:37` `ASSERT(stream_serial_.IsEmpty())` | a stream whose on_stream_open returned false is deleted with its serial (`nq_client.cpp:316`) |
| `OperatesSafely` (`handle`) | `nq.h:373` "to operate this conn safety on validation success." | `nq_on_conn_validate` runs with the mutex of the block held (`nq.cpp:274-282`); a call in it that unwraps the same handle waits for ever |
| `SendArrives` (`handle`, 1 thread, 1 object, 1 call) | `nq.h:414` "send arbiter byte array/arbiter object to stream peer." | the operation queued from another thread has no `target_ptr_` (`nq_boxer.h:139-147`): the loop reads the serial through whatever is there |
| `QueryTimesOut` (`resolver`) | `nq.h:230` "dns query timeout" | timeouts are looked at in `OnEvent` only (`nq_async_resolver.cpp:53`): a lost answer brings no event |
| `ResolvesAnswered` (`resolver`) | `nq.h:276` "work correctly" | a query asked by a callback inside `Poll`'s loop, or retried there for IPv6, is appended to `queries_` and cleared with it (`nq_async_resolver.cpp:141-153`) |
| `IterationValid` (`resolver`) | `nq.h:276` "work correctly" | the retry for IPv6 of a query that ends inside `Poll`'s loop, or a query its callback asks, makes `queries_` grow under the iterator (`nq_async_resolver.h:43`, `nq_async_resolver.cpp:141`) |
| `AddFindsNothing` (`resolver`) | `basis/loop.h:40` assertion of `Add` | a client gets the number of a socket c-ares closed since the last `Poll`: its entry is still in the table |

One more is below the models, which have no times for alarms of the user: `nq.h:517` says
"if you set next invocation timestamp value(>= input value)" the alarm runs again, and `Exec`
deletes it when the value is equal (`nq_alarm.cpp:47`).

## What is not modelled

- The vendored QUIC stack: loss, ordering and the handshake are environment steps.
- c-ares, epoll and kqueue: external, modelled from how the code uses them. c-ares has at
  most one socket in `NqResolver`; the servers it asks are not told apart.
- Streams that a server opens, and server-side answers to requests other than as framing.
- The growth of the table of processors (`basis/loop.h:93`) and of the thread-safe maps.
- Sockets, certificates, options, closures, logging, platform code: I/O or plain data.
- The representation of `QuicSmallMap`: a callback that opens streams while
  `RecoverOutgoingStreams` goes over the map is one step of the model. A write in
  `on_stream_open` that fails there and closes the connection during the iteration is left out.
- `on_notify` and `on_request` of an RPC stream, which are not followed past the close.

## How much of the code this is

naquid's own code, `src/src/core`, `src/src/basis` and `src/src/nq.cpp`, has about 8 100
lines; the map of `PROJECT.json` covers the parts of it that hold state. Everything else
under `src/`, by far the largest part, is the vendored QUIC stack and the libraries in
`src/ext`, which are used and not maintained here.

## Not composed yet

The components are checked each with the others as its environment. Two compositions
would say more: `NqRpc` over `AlarmService` in place of its own alarms, and `NqClient` with
`NqStreamManager`, so that the states of the connection are the client's.
