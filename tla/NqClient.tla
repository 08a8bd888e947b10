------------------------------ MODULE NqClient ------------------------------
(***************************************************************************)
(* The life of client connections (src/core/nq_client.cpp): NqClient       *)
(* objects in pooled memory, their connect_state_, the reconnection alarm, *)
(* and the operations that any thread queues by handle and the loop        *)
(* carries out (NqBoxer::InvokeConn), over NqClientLoop::Poll, which       *)
(* drains the queue, completes name resolution, reads packets and fires    *)
(* alarms, in this order.                                                  *)
(*                                                                         *)
(* Calls nest in this code: Disconnect closes the QUIC connection, which   *)
(* calls OnClose, which calls the user's on_close and may schedule the     *)
(* deletion.  So an object is a record, each method an operator from       *)
(* record to record, and an action applies what the methods nested in one  *)
(* operation do.                                                           *)
(***************************************************************************)
EXTENDS Naturals, Sequences

CONSTANTS
  NumBlocks,   \* the memory blocks of the pool
  MaxClients,  \* bound: the connections made, one serial each
  MaxOps       \* bound: the API calls

ASSUME BoundsAssumption ==
  NumBlocks \in Nat /\ MaxClients \in Nat /\ MaxOps \in Nat

Blocks == 1 .. NumBlocks
Serials == 1 .. MaxClients
Empty == 0         \* a cleared serial, and no block

VARIABLES
  pool,       \* pool_ of client_allocator, the top last
  made,       \* clients created so far
  block,      \* the block a handle (a serial) points to
  mem,        \* the client in each block
  queue,      \* the operations queued to the loop
  phase,      \* the part of NqClientLoop::Poll that runs
  calls,      \* API calls made so far
  closing,    \* the serials nq_conn_close was called for
  broken      \* what went wrong: an assertion, or a use of freed memory

vars == <<pool, made, block, mem, queue, phase, calls, closing, broken>>

ConnectState == {"DISCONNECT", "CONNECTING", "CONNECTED", "FINALIZED", "RECONNECTING"}

(* What a block holds.  up is connected() of QuicClientBase, ts is         *)
(* invocation_ts_ # 0, entry and orphans count the entries of the loop's   *)
(* alarm_map_ for the block, under invocation_ts_ and under other times.   *)
(* told is whether on_finalize was called, open counts the on_open calls   *)
(* not yet answered by on_close, and late is whether one of these was      *)
(* called after on_finalize.                                               *)
Fresh(n, orphans) ==
  [who |-> n, serial |-> Empty, state |-> "DISCONNECT", up |-> FALSE,
   ts |-> FALSE, entry |-> FALSE, orphans |-> orphans,
   told |-> FALSE, open |-> 0, late |-> FALSE]

Op(code, n, b) == [code |-> code, serial |-> n, ptr |-> b]

Init ==
  /\ pool = [i \in Blocks |-> i]
  /\ made = 0
  /\ block = [n \in Serials |-> Empty]
  /\ mem = [b \in Blocks |-> Fresh(Empty, 0)]
  /\ queue = << >>
  /\ phase = "drain"
  /\ calls = 0
  /\ closing = {}
  /\ broken = {}

----------------------------------------------------------------------------
(* Methods.  OnFinalize, RemoveClient and InvalidateSerial, which          *)
(* ScheduleDestroy and Destroy share.                                      *)
Retired(m) == [m EXCEPT !.told = TRUE, !.serial = Empty]

(* A faulty variant: the state changes and the alarm is not started.       *)
ArmedInState(m) == [m EXCEPT !.state = "RECONNECTING"]

(* NqAlarmBase::Start: whatever entry there was is replaced.               *)
Armed(m) == [m EXCEPT !.state = "RECONNECTING", !.ts = TRUE, !.entry = TRUE]

(* A faulty variant: connect_state_ is left as it is without reconnection. *)
OnCloseKeepsState(m, r) ==
  LET n == [m EXCEPT !.up = FALSE,
                     !.open = IF @ > 0 THEN @ - 1 ELSE 0,
                     !.late = @ \/ m.told]
  IN  IF m.state = "FINALIZED" THEN Retired(n)
      ELSE IF r > 0 \/ m.state = "RECONNECTING" THEN Armed(n)
      ELSE n

(* OnClose, called when the connection went down; on_close returned r.     *)
OnClose(m, r) ==
  LET n == [m EXCEPT !.up = FALSE,
                     !.open = IF @ > 0 THEN @ - 1 ELSE 0,
                     !.late = @ \/ m.told]
  IN  IF m.state = "FINALIZED" THEN Retired(n)
      ELSE IF r > 0 \/ m.state = "RECONNECTING" THEN Armed(n)
      ELSE [n EXCEPT !.state = "DISCONNECT"]

(* QuicClientBase::Disconnect.                                             *)
BaseDisconnect(m, r) == IF m.up THEN OnClose(m, r) ELSE m

(* A faulty variant: on_finalize is called before the connection closes.   *)
DisconnectTellsFirst(m, r) ==
  IF m.state = "FINALIZED" THEN m
  ELSE Retired(BaseDisconnect([m EXCEPT !.state = "FINALIZED", !.told = TRUE], r))

Disconnect(m, r) ==
  CASE m.state \in {"CONNECTING", "CONNECTED"} ->
         BaseDisconnect([m EXCEPT !.state = "FINALIZED"], r)
    [] m.state \in {"DISCONNECT", "RECONNECTING"} ->
         Retired([m EXCEPT !.state = "FINALIZED"])
    [] OTHER -> m

(* DoReconnect: a new session replaces the old one and starts the          *)
(* handshake; when its first packet cannot be written, OnClose runs before *)
(* StartConnect returns.                                                   *)
StartConnect(m, written, r) ==
  LET n == [m EXCEPT !.state = "CONNECTING", !.up = TRUE]
  IN  IF written THEN n ELSE OnClose(n, r)

Reconnect(m, written, r) ==
  CASE m.state \in {"CONNECTING", "CONNECTED"} ->
         BaseDisconnect([m EXCEPT !.state = "RECONNECTING"], r)
    [] m.state = "DISCONNECT" -> StartConnect(m, written, r)
    [] OTHER -> m

----------------------------------------------------------------------------
(* nq_conn_close, nq_conn_reset and a change of reachability only queue.   *)
Invoke(code, n) ==
  /\ phase # "closed"
  /\ calls < MaxOps
  /\ n <= made
  /\ queue' = Append(queue, Op(code, n, block[n]))
  /\ calls' = calls + 1
  /\ UNCHANGED <<pool, made, block, mem, phase, broken>>

nq_conn_close(n) ==
  /\ Invoke("Disconnect", n)
  /\ closing' = closing \cup {n}

nq_conn_reset(n) == Invoke("Reconnect", n) /\ UNCHANGED closing

nq_conn_reachability_change(n) == Invoke("Reachability", n) /\ UNCHANGED closing

----------------------------------------------------------------------------
(* The loop takes an operation; it is for the client in the block when the *)
(* serials agree.                                                          *)
Take(code) ==
  /\ phase = "drain"
  /\ queue # << >>
  /\ Head(queue).code = code
  /\ UNCHANGED <<made, block, phase, calls, closing, broken>>

Current == mem[Head(queue).ptr].serial = Head(queue).serial

Stale ==
  /\ \E code \in {"Disconnect", "Reconnect", "Reachability", "DoReconnect"} : Take(code)
  /\ ~Current
  /\ queue' = Tail(queue)
  /\ UNCHANGED <<pool, mem>>

(* A faulty variant: Finalize is queued before the serial is cleared.      *)
TakeDisconnectBySerial ==
  /\ Take("Disconnect") /\ Current
  /\ \E r \in {0, 1} :
       LET b == Head(queue).ptr
           m == Disconnect(mem[b], r)
       IN  /\ mem' = [mem EXCEPT ![b] = m]
           /\ queue' = IF m.serial = Empty
                       THEN Append(Tail(queue), Op("Finalize", mem[b].serial, b))
                       ELSE Tail(queue)
  /\ UNCHANGED pool

(* ScheduleDestroy queues Finalize, with the serial it has just cleared.   *)
TakeDisconnect ==
  /\ Take("Disconnect") /\ Current
  /\ \E r \in {0, 1} :
       LET b == Head(queue).ptr
           m == Disconnect(mem[b], r)
       IN  /\ mem' = [mem EXCEPT ![b] = m]
           /\ queue' = IF m.serial = Empty /\ mem[b].serial # Empty
                       THEN Append(Tail(queue), Op("Finalize", Empty, b))
                       ELSE Tail(queue)
  /\ UNCHANGED pool

TakeReconnect ==
  /\ Take("Reconnect") /\ Current
  /\ \E written \in BOOLEAN, r \in {0, 1} :
       mem' = [mem EXCEPT ![Head(queue).ptr] = Reconnect(@, written, r)]
  /\ queue' = Tail(queue)
  /\ UNCHANGED pool

(* OnReachabilityChange: nothing when the network went away or the socket  *)
(* could be migrated, which takes a connection; Reconnect otherwise.       *)
TakeReachability ==
  /\ Take("Reachability") /\ Current
  /\ \/ mem' = mem
     \/ \E written \in BOOLEAN, r \in {0, 1} :
          mem' = [mem EXCEPT ![Head(queue).ptr] = Reconnect(@, written, r)]
  /\ queue' = Tail(queue)
  /\ UNCHANGED pool

TakeDoReconnect ==
  /\ Take("DoReconnect") /\ Current
  /\ \E written \in BOOLEAN, r \in {0, 1} :
       mem' = [mem EXCEPT ![Head(queue).ptr] = StartConnect(@, written, r)]
  /\ queue' = Tail(queue)
  /\ UNCHANGED pool

(* Destroy: the object goes back to the pool, and with it invocation_ts_;  *)
(* an entry of the alarm_map_ stays.                                       *)
Deleted(m) == [m EXCEPT !.ts = FALSE, !.entry = FALSE,
                        !.orphans = IF m.entry THEN @ + 1 ELSE @]

TakeFinalize ==
  /\ Take("Finalize")
  /\ queue' = Tail(queue)
  /\ LET b == Head(queue).ptr IN
       IF Current
       THEN \E r \in {0, 1} :
              /\ mem' = [mem EXCEPT ![b] = Deleted(Retired(BaseDisconnect(Retired(@), r)))]
              /\ pool' = Append(pool, b)
       ELSE UNCHANGED <<mem, pool>>

----------------------------------------------------------------------------
(* A faulty variant: the block is used and stays on top of the pool.       *)
CreateOnTop ==
  /\ phase = "resolve"
  /\ made < MaxClients
  /\ pool # << >>
  /\ \E written \in BOOLEAN, r \in {0, 1} :
       LET b == pool[Len(pool)]
           m == StartConnect(Fresh(made + 1, mem[b].orphans), written, r)
       IN  /\ mem' = [mem EXCEPT ![b] = [m EXCEPT !.serial = made + 1]]
           /\ block' = [block EXCEPT ![made + 1] = b]
  /\ made' = made + 1
  /\ UNCHANGED <<pool, queue, phase, calls, closing, broken>>

(* Name resolution is over: NqClientLoop::Create.  StartConnect comes      *)
(* before InitSerial, so an early on_close is given an empty handle.       *)
Create ==
  /\ phase = "resolve"
  /\ made < MaxClients
  /\ pool # << >>
  /\ \E written \in BOOLEAN, r \in {0, 1} :
       LET b == pool[Len(pool)]
           m == StartConnect(Fresh(made + 1, mem[b].orphans), written, r)
       IN  /\ mem' = [mem EXCEPT ![b] = [m EXCEPT !.serial = made + 1]]
           /\ block' = [block EXCEPT ![made + 1] = b]
  /\ pool' = SubSeq(pool, 1, Len(pool) - 1)
  /\ made' = made + 1
  /\ UNCHANGED <<queue, phase, calls, closing, broken>>

(* The handshake is confirmed: OnOpen.  A write in the user's on_open may  *)
(* fail and close the connection, and OnOpen finds another state after it. *)
Opened(m) == [m EXCEPT !.open = @ + 1, !.late = @ \/ m.told]

OnOpen(b) ==
  /\ phase = "packets"
  /\ mem[b].up /\ mem[b].state = "CONNECTING"
  /\ \/ mem' = [mem EXCEPT ![b] = [Opened(@) EXCEPT !.state = "CONNECTED"]]
     \/ \E r \in {0, 1} : mem' = [mem EXCEPT ![b] = OnClose(Opened(@), r)]
  /\ UNCHANGED <<pool, made, block, queue, phase, calls, closing, broken>>

(* The peer, a timeout or a write error closes the connection.             *)
ConnectionCloses(b) ==
  /\ phase \in {"drain", "packets", "alarms"}
  /\ mem[b].up
  /\ \E r \in {0, 1} : mem' = [mem EXCEPT ![b] = OnClose(@, r)]
  /\ UNCHANGED <<pool, made, block, queue, phase, calls, closing, broken>>

(* The reconnection alarm: OnFire queues DoReconnect, clears               *)
(* invocation_ts_ and asserts that the client is waiting to reconnect.     *)
Asserted(b) == IF mem[b].state = "RECONNECTING" THEN broken ELSE broken \cup {"state"}

(* A faulty variant: invocation_ts_ is not cleared.                        *)
OnFireKeepsTime(b) ==
  /\ phase = "alarms"
  /\ mem[b].entry
  /\ mem' = [mem EXCEPT ![b] = [@ EXCEPT !.entry = FALSE]]
  /\ queue' = Append(queue, Op("DoReconnect", mem[b].serial, b))
  /\ broken' = Asserted(b)
  /\ UNCHANGED <<pool, made, block, phase, calls, closing>>

OnFire(b) ==
  /\ phase = "alarms"
  /\ mem[b].entry
  /\ mem' = [mem EXCEPT ![b] = [@ EXCEPT !.ts = FALSE, !.entry = FALSE]]
  /\ queue' = Append(queue, Op("DoReconnect", mem[b].serial, b))
  /\ broken' = Asserted(b)
  /\ UNCHANGED <<pool, made, block, phase, calls, closing>>

(* The same for an entry left behind: by the client in the block, by one   *)
(* that was deleted, or in memory that is free (undefined from then on).   *)
FiredLate(m) ==
  [m EXCEPT !.ts = FALSE, !.entry = FALSE,
            !.orphans = IF m.entry THEN m.orphans ELSE m.orphans - 1]

OnFireLeftover(b) ==
  /\ phase = "alarms"
  /\ mem[b].orphans > 0
  /\ IF mem[b].serial = Empty
     THEN /\ broken' = broken \cup {"freed"}
          /\ UNCHANGED <<mem, queue>>
     ELSE /\ broken' = Asserted(b)
          /\ queue' = Append(queue, Op("DoReconnect", mem[b].serial, b))
          /\ mem' = [mem EXCEPT ![b] = FiredLate(@)]
  /\ UNCHANGED <<pool, made, block, phase, calls, closing>>

----------------------------------------------------------------------------
(* The next part of NqClientLoop::Poll.                                    *)
NextPhase ==
  /\ \/ phase = "drain" /\ queue = << >> /\ phase' = "resolve"
     \/ phase = "resolve" /\ phase' = "packets"
     \/ phase = "packets" /\ phase' = "alarms"
     \/ phase = "alarms" /\ phase' = "drain"
  /\ UNCHANGED <<pool, made, block, mem, queue, calls, closing, broken>>

(* nq_client_destroy, between two polls: NqClientLoop::Close destroys      *)
(* every client of client_map_: OnFinalize, then ForceShutdown.            *)
Close ==
  /\ phase = "drain"
  /\ phase' = "closed"
  /\ \E r \in {0, 1} :
       mem' = [b \in Blocks |->
                 IF mem[b].serial # Empty
                 THEN Deleted(Retired(BaseDisconnect([mem[b] EXCEPT !.told = TRUE], r)))
                 ELSE mem[b]]
  /\ UNCHANGED <<pool, made, block, queue, calls, closing, broken>>

Drain ==
  \/ Stale \/ TakeDisconnect \/ TakeReconnect \/ TakeReachability
  \/ TakeDoReconnect \/ TakeFinalize

Next ==
  /\ "freed" \notin broken
  /\ \/ \E n \in Serials :
          nq_conn_close(n) \/ nq_conn_reset(n) \/ nq_conn_reachability_change(n)
     \/ Drain
     \/ Create
     \/ \E b \in Blocks : OnOpen(b) \/ ConnectionCloses(b) \/ OnFire(b) \/ OnFireLeftover(b)
     \/ NextPhase \/ Close

Spec == Init /\ [][Next]_vars

(* nq_client_poll is called again and again; an alarm that is due fires in *)
(* one of the polls.                                                       *)
FairSpec ==
  /\ Spec
  /\ WF_vars(Drain) /\ WF_vars(NextPhase)
  /\ \A b \in Blocks : SF_vars(OnFire(b))

----------------------------------------------------------------------------
(* The state keeps its types.                                              *)
TypeOK ==
  /\ pool \in Seq(Blocks)
  /\ made \in 0 .. MaxClients
  /\ block \in [Serials -> Blocks \cup {Empty}]
  /\ mem \in [Blocks -> [who : Serials \cup {Empty}, serial : Serials \cup {Empty},
                         state : ConnectState, up : BOOLEAN, ts : BOOLEAN,
                         entry : BOOLEAN, orphans : Nat, told : BOOLEAN,
                         open : Nat, late : BOOLEAN]]
  /\ phase \in {"drain", "resolve", "packets", "alarms", "closed"}
  /\ calls \in 0 .. MaxOps
  /\ closing \subseteq Serials
  /\ broken \subseteq {"state", "freed"}

(* A client has a connection exactly while it is connecting or connected,  *)
(* so Disconnect and Reconnect always get the OnClose they count on.       *)
ConnectedIsUp ==
  \A b \in Blocks : mem[b].up <=> mem[b].state \in {"CONNECTING", "CONNECTED"}

FreeBlocks == {pool[i] : i \in 1 .. Len(pool)}
Pending(code, b) == \E k \in 1 .. Len(queue) : queue[k].code = code /\ queue[k].ptr = b

(* Memory is freed once: a block is in the pool, or holds a client that is *)
(* alive, or one whose Finalize is queued, and only one of the three; and  *)
(* Finalize, which carries no serial, is queued once for a block.          *)
FreedOnce ==
  phase # "closed" =>
    /\ \A i, j \in 1 .. Len(pool) : pool[i] = pool[j] => i = j
    /\ \A b \in Blocks :
         /\ mem[b].serial # Empty => b \notin FreeBlocks /\ ~Pending("Finalize", b)
         /\ mem[b].serial = Empty => (b \in FreeBlocks <=> ~Pending("Finalize", b))
    /\ \A i, j \in 1 .. Len(queue) :
         queue[i].code = "Finalize" /\ queue[j] = queue[i] => i = j

(* Until the loop closes, every on_open is answered by on_close before the *)
(* next on_open and before on_finalize, and no callback of a connection    *)
(* follows its on_finalize, as long as no alarm left behind fired:         *)
(* Disconnect, OnClose and ScheduleDestroy, nested in one operation, call  *)
(* back in this order.  That on_open comes once is what the code does      *)
(* (nq_session.cpp line 49) and not what nq.h says: see OpenedTwice.       *)
CallbacksInOrder ==
  phase # "closed" /\ broken = {} =>
    \A b \in Blocks :
      /\ mem[b].open <= 1 /\ ~mem[b].late
      /\ mem[b].told => mem[b].open = 0

(* While no connection is closed for good, a client has an entry in the    *)
(* alarm_map_ exactly while its alarm is set, it waits to reconnect        *)
(* exactly while the alarm is set or DoReconnect is under way, and what    *)
(* OnFire asserts is so.                                                   *)
TimerInStep ==
  closing = {} /\ phase # "closed" =>
    /\ broken = {}
    /\ \A b \in Blocks :
         /\ mem[b].orphans = 0
         /\ mem[b].entry <=> mem[b].ts
         /\ (mem[b].state = "RECONNECTING") <=> (mem[b].ts \/ Pending("DoReconnect", b))

(* A connection that is closed by its handle is deleted, unless the loop   *)
(* closes or an alarm left behind fires.                                   *)
CloseFinalizes ==
  \A n \in Serials :
    (n \in closing) ~>
      \/ phase = "closed" \/ broken # {}
      \/ \E b \in Blocks : block[n] = b /\ (mem[b].who # n \/ b \in FreeBlocks)

(* A client that waits to reconnect has DoReconnect queued in the end, and *)
(* the loop carries it out, unless a connection or the loop is closed.     *)
ReconnectHappens ==
  \A b \in Blocks :
    /\ mem[b].state = "RECONNECTING" ~>
         (Pending("DoReconnect", b) \/ closing # {} \/ phase = "closed")
    /\ Pending("DoReconnect", b) ~>
         (~Pending("DoReconnect", b) \/ closing # {} \/ phase = "closed")

----------------------------------------------------------------------------
(* Statements of the repository that the code does not keep.               *)

(* What OnFire asserts (nq_client.cpp line 175): the alarm fires only      *)
(* while the client of the block waits to reconnect.                       *)
FiresReconnecting == "state" \notin broken

(* What nq.h line 127 says of on_open: it is "usucally called twice to     *)
(* establish connection".                                                  *)
OpenedTwice == \A b \in Blocks : mem[b].state = "CONNECTED" => mem[b].open = 2

(* What nq.h line 137 says of on_finalize: the memory is freed just after  *)
(* it, so no callback of the connection follows it, at the end of the loop *)
(* either.                                                                 *)
NothingAfterFinalize == \A b \in Blocks : ~mem[b].late
=============================================================================
