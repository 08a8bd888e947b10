---------------------------- MODULE NqClientProof ---------------------------
(***************************************************************************)
(* Proofs about client connections, for any pool, any number of clients    *)
(* and of calls.  Methods are operators on records, so what each does to   *)
(* the fields is a lemma, and an action is what its method does to the     *)
(* block it is for, with a change of the queue and of the pool.            *)
(***************************************************************************)
EXTENDS NqClient, Integers, TLAPS

Records == [who : Serials \cup {Empty}, serial : Serials \cup {Empty},
            state : ConnectState, up : BOOLEAN, ts : BOOLEAN,
            entry : BOOLEAN, orphans : Nat, told : BOOLEAN,
            open : Nat, late : BOOLEAN]
Codes == {"Disconnect", "Reconnect", "Reachability", "DoReconnect", "Finalize"}
Ops == [code : Codes, serial : Serials \cup {Empty}, ptr : Blocks]

(* What is queued: the operations, whether there is one of a code for a    *)
(* block, and that there is at most one.                                   *)
Elems(q) == {q[k] : k \in DOMAIN q}
Has(q, code, b) == \E o \in Elems(q) : o.code = code /\ o.ptr = b
Once(q, code) ==
  \A i, j \in DOMAIN q :
    q[i].code = code /\ q[j].code = code /\ q[i].ptr = q[j].ptr => i = j

(* Finalize alone carries no serial.                                       *)
QueueOK(q) ==
  /\ q \in Seq(Ops)
  /\ \A o \in Elems(q) : o.code = "Finalize" <=> o.serial = Empty
  /\ Once(q, "Finalize")

In(p, b) == \E i \in 1 .. Len(p) : p[i] = b
Distinct(p) == \A i, j \in 1 .. Len(p) : p[i] = p[j] => i = j
InPool(b) == In(pool, b)

(* A client is deleted in the part of Poll in which it is finalized, and   *)
(* DoReconnect is carried out before packets are read.                     *)
PhaseInv ==
  \A b \in Blocks :
    /\ Has(queue, "Finalize", b) => phase \in {"drain", "closed"}
    /\ Has(queue, "DoReconnect", b) => phase \in {"alarms", "drain", "closed"}

IsUp(m) == m.up <=> m.state \in {"CONNECTING", "CONNECTED"}

(* A client in a block, and where the block is when there is none.         *)
RecordInv(m) == IsUp(m) /\ (m.serial # Empty => m.state # "FINALIZED")

PlaceInv(b) ==
  /\ mem[b].serial = Empty => mem[b].state \in {"DISCONNECT", "FINALIZED"}
  /\ mem[b].serial # Empty => ~InPool(b) /\ ~Has(queue, "Finalize", b)
  /\ mem[b].serial = Empty => (InPool(b) <=> ~Has(queue, "Finalize", b))
  /\ InPool(b) => ~mem[b].entry

BlockInv == \A n \in Serials : n <= made => block[n] \in Blocks

IInv ==
  /\ TypeOK /\ QueueOK(queue) /\ PhaseInv /\ Distinct(pool) /\ BlockInv
  /\ \A b \in Blocks : RecordInv(mem[b])
  /\ phase # "closed" => \A b \in Blocks : PlaceInv(b)

(* While no assertion failed: the callbacks so far, and what DoReconnect   *)
(* will find.  A client opens only while packets are read, when no         *)
(* DoReconnect is queued, so DoReconnect never replaces an open session.   *)
OrderOK(m) ==
  /\ m.open \in {0, 1} /\ ~m.late
  /\ m.open = 1 => m.state = "CONNECTED"
  /\ m.serial # Empty => ~m.told

OrderInv ==
  phase # "closed" /\ broken = {} =>
    /\ \A b \in Blocks : OrderOK(mem[b])
    /\ \A o \in Elems(queue) :
         o.code = "DoReconnect" /\ mem[o.ptr].serial = o.serial => mem[o.ptr].open = 0

(* While nothing is closed for good: an alarm and a DoReconnect are never  *)
(* both pending for a client, and what is queued is for the client it was  *)
(* queued for.                                                             *)
TimerOK(m, pending) ==
  /\ m.orphans = 0
  /\ m.entry <=> m.ts
  /\ m.state = "RECONNECTING" <=> (m.ts \/ pending)
  /\ ~(m.ts /\ pending)

TimerInv ==
  closing = {} /\ phase # "closed" =>
    /\ broken = {}
    /\ Once(queue, "DoReconnect")
    /\ \A o \in Elems(queue) :
         /\ o.code \notin {"Disconnect", "Finalize"}
         /\ o.code = "DoReconnect" => mem[o.ptr].serial = o.serial
    /\ \A b \in Blocks : TimerOK(mem[b], Has(queue, "DoReconnect", b))

----------------------------------------------------------------------------
(* Queues.                                                                 *)
LEMMA AppendFacts ==
  ASSUME NEW q \in Seq(Ops), NEW o \in Ops
  PROVE  /\ Append(q, o) \in Seq(Ops)
         /\ Elems(Append(q, o)) = Elems(q) \cup {o}
<1>1. /\ Append(q, o) \in Seq(Ops) /\ Len(q) \in Nat
      /\ DOMAIN q = 1 .. Len(q) /\ DOMAIN Append(q, o) = 1 .. Len(q) + 1
      /\ \A k \in 1 .. Len(q) : Append(q, o)[k] = q[k]
      /\ Append(q, o)[Len(q) + 1] = o
  OBVIOUS
<1>2. ASSUME NEW p \in Elems(Append(q, o)) PROVE p \in Elems(q) \cup {o}
  BY <1>1, <1>2 DEF Elems
<1>3. ASSUME NEW p \in Elems(q) \cup {o} PROVE p \in Elems(Append(q, o))
  BY <1>1, <1>3 DEF Elems
<1> QED
  BY <1>1, <1>2, <1>3, Zenon

LEMMA OnceAppended ==
  ASSUME NEW q \in Seq(Ops), NEW o \in Ops, NEW code, Once(q, code),
         o.code = code => ~Has(q, code, o.ptr)
  PROVE  Once(Append(q, o), code)
<1>1. /\ Len(q) \in Nat
      /\ DOMAIN q = 1 .. Len(q) /\ DOMAIN Append(q, o) = 1 .. Len(q) + 1
      /\ \A k \in 1 .. Len(q) : Append(q, o)[k] = q[k]
      /\ Append(q, o)[Len(q) + 1] = o
  OBVIOUS
<1>2. \A k \in DOMAIN q : o.code = code /\ q[k].code = code => q[k].ptr # o.ptr
  BY Zenon DEF Has, Elems
<1> QED
  BY <1>1, <1>2 DEF Once

LEMMA TailFacts ==
  ASSUME NEW q \in Seq(Ops), q # << >>
  PROVE  /\ Tail(q) \in Seq(Ops) /\ Head(q) \in Ops /\ Head(q) \in Elems(q)
         /\ Elems(Tail(q)) \subseteq Elems(q)
         /\ \A p \in Elems(q) : p = Head(q) \/ p \in Elems(Tail(q))
<1>1. /\ Tail(q) \in Seq(Ops) /\ Len(q) \in Nat /\ Len(q) > 0
      /\ DOMAIN q = 1 .. Len(q) /\ DOMAIN Tail(q) = 1 .. Len(q) - 1
      /\ \A k \in 1 .. Len(q) - 1 : Tail(q)[k] = q[k + 1]
      /\ Head(q) = q[1] /\ Head(q) \in Ops
  OBVIOUS
<1>2. Head(q) \in Elems(q)
  BY <1>1 DEF Elems
<1>3. ASSUME NEW p \in Elems(Tail(q)) PROVE p \in Elems(q)
  BY <1>1, <1>3 DEF Elems
<1>4. ASSUME NEW p \in Elems(q), p # Head(q) PROVE p \in Elems(Tail(q))
  <2>1. PICK k \in 1 .. Len(q) : p = q[k]
    BY <1>1, Zenon DEF Elems
  <2>2. k - 1 \in 1 .. Len(q) - 1 /\ k = (k - 1) + 1
    BY <1>1, <1>4, <2>1
  <2>3. Tail(q)[k - 1] = q[k]
    BY <1>1, <2>2, Zenon
  <2> QED
    BY <1>1, <2>1, <2>2, <2>3, Zenon DEF Elems
<1> QED
  BY <1>1, <1>2, <1>3, <1>4, Zenon

LEMMA OnceTaken ==
  ASSUME NEW q \in Seq(Ops), q # << >>, NEW code, Once(q, code)
  PROVE  /\ Once(Tail(q), code)
         /\ Head(q).code = code => ~Has(Tail(q), code, Head(q).ptr)
<1>1. /\ Tail(q) \in Seq(Ops) /\ Len(q) \in Nat /\ Len(q) > 0
      /\ DOMAIN q = 1 .. Len(q) /\ DOMAIN Tail(q) = 1 .. Len(q) - 1
      /\ \A k \in 1 .. Len(q) - 1 : Tail(q)[k] = q[k + 1]
      /\ Head(q) = q[1]
  OBVIOUS
<1>2. Once(Tail(q), code)
  BY <1>1 DEF Once
<1>3. ASSUME Head(q).code = code, Has(Tail(q), code, Head(q).ptr) PROVE FALSE
  <2>1. PICK k \in 1 .. Len(q) - 1 : Tail(q)[k].code = code /\ Tail(q)[k].ptr = Head(q).ptr
    BY <1>1, <1>3, Zenon DEF Has, Elems
  <2>2. k + 1 \in 1 .. Len(q) /\ 1 \in 1 .. Len(q) /\ k + 1 # 1
    BY <1>1, <2>1
  <2> QED
    BY <1>1, <1>3, <2>1, <2>2, Zenon DEF Once
<1> QED
  BY <1>2, <1>3, Zenon

----------------------------------------------------------------------------
(* Methods.  What they have in common, and what each does to the fields.   *)
Keeps(m, n) == n \in Records /\ n.who = m.who /\ n.orphans = m.orphans
SameCalls(m, n) == n.open = m.open /\ n.late = m.late
SameTimer(m, n) == n.ts = m.ts /\ n.entry = m.entry
SameHandle(m, n) == n.serial = m.serial /\ n.told = m.told

IsRetired(m, n) ==
  /\ Keeps(m, n) /\ SameCalls(m, n) /\ SameTimer(m, n)
  /\ n.up = m.up /\ n.state = m.state /\ n.serial = Empty /\ n.told = TRUE

IsArmed(m, n) ==
  /\ Keeps(m, n) /\ SameCalls(m, n) /\ SameHandle(m, n)
  /\ n.up = m.up /\ n.state = "RECONNECTING" /\ n.ts = TRUE /\ n.entry = TRUE

IsIn(m, n, s) ==
  /\ Keeps(m, n) /\ SameCalls(m, n) /\ SameTimer(m, n) /\ SameHandle(m, n)
  /\ n.up = m.up /\ n.state = s

CallsClosed(m, n) ==
  /\ n.open = (IF m.open > 0 THEN m.open - 1 ELSE 0)
  /\ n.late = (m.late \/ m.told)

IsDown(m, n) ==
  /\ Keeps(m, n) /\ CallsClosed(m, n) /\ SameTimer(m, n) /\ SameHandle(m, n)
  /\ n.up = FALSE /\ n.state = m.state

(* OnClose of a client that goes on, waiting to reconnect or not, and of   *)
(* one that is to be deleted.                                              *)
IsClosed(m, n) ==
  /\ Keeps(m, n) /\ CallsClosed(m, n) /\ SameHandle(m, n) /\ n.up = FALSE
  /\ \/ n.state = "RECONNECTING" /\ n.ts = TRUE /\ n.entry = TRUE
     \/ n.state = "DISCONNECT" /\ m.state # "RECONNECTING" /\ SameTimer(m, n)

IsFinal(m, n) ==
  /\ Keeps(m, n) /\ CallsClosed(m, n) /\ SameTimer(m, n) /\ n.up = FALSE
  /\ n.state = "FINALIZED" /\ n.serial = Empty /\ n.told = TRUE

LEMMA RetiredFacts == ASSUME NEW m \in Records PROVE IsRetired(m, Retired(m))
BY Zenon DEF Retired, Records, IsRetired, Keeps, SameCalls, SameTimer

LEMMA ArmedFacts == ASSUME NEW m \in Records PROVE IsArmed(m, Armed(m))
BY Zenon DEF Armed, Records, ConnectState, IsArmed, Keeps, SameCalls, SameHandle

LEMMA StateFacts ==
  ASSUME NEW m \in Records, NEW s \in ConnectState
  PROVE  IsIn(m, [m EXCEPT !.state = s], s)
BY Zenon DEF Records, IsIn, Keeps, SameCalls, SameTimer, SameHandle

LEMMA DownFacts ==
  ASSUME NEW m \in Records
  PROVE  IsDown(m, [m EXCEPT !.up = FALSE,
                             !.open = IF @ > 0 THEN @ - 1 ELSE 0,
                             !.late = @ \/ m.told])
<1> DEFINE o == IF m.open > 0 THEN m.open - 1 ELSE 0
           l == m.late \/ m.told
           n == [m EXCEPT !.up = FALSE, !.open = o, !.late = l]
<1>1. o \in Nat
  BY DEF Records
<1>2. l \in BOOLEAN
  BY Zenon
<1> HIDE DEF o, l
<1>3. /\ Keeps(m, n) /\ SameTimer(m, n) /\ SameHandle(m, n)
      /\ n.open = o /\ n.late = l /\ n.up = FALSE /\ n.state = m.state
  BY <1>1, <1>2, Zenon DEF Records, Keeps, SameTimer, SameHandle
<1> QED
  BY <1>3, Zenon DEF o, l, IsDown, CallsClosed

LEMMA OnCloseFacts ==
  ASSUME NEW m \in Records, NEW r \in {0, 1}
  PROVE  /\ m.state = "FINALIZED" => IsFinal(m, OnClose(m, r))
         /\ m.state # "FINALIZED" => IsClosed(m, OnClose(m, r))
<1> DEFINE d == [m EXCEPT !.up = FALSE,
                          !.open = IF @ > 0 THEN @ - 1 ELSE 0,
                          !.late = @ \/ m.told]
<1>1. IsDown(m, d)
  BY DownFacts, Zenon
<1>2. OnClose(m, r) = IF m.state = "FINALIZED" THEN Retired(d)
                      ELSE IF r > 0 \/ m.state = "RECONNECTING" THEN Armed(d)
                      ELSE [d EXCEPT !.state = "DISCONNECT"]
  BY Zenon DEF OnClose
<1> HIDE DEF d
<1>3. CASE m.state = "FINALIZED"
  <2>1. IsRetired(d, OnClose(m, r))
    BY <1>1, <1>2, <1>3, RetiredFacts, Zenon DEF IsDown, Keeps
  <2> QED
    BY <1>1, <1>3, <2>1, Zenon
    DEF IsDown, IsRetired, IsFinal, Keeps, CallsClosed, SameCalls, SameTimer
<1>4. CASE m.state # "FINALIZED" /\ (r > 0 \/ m.state = "RECONNECTING")
  <2>1. IsArmed(d, OnClose(m, r))
    BY <1>1, <1>2, <1>4, ArmedFacts, Zenon DEF IsDown, Keeps
  <2> QED
    BY <1>1, <1>4, <2>1, Zenon
    DEF IsDown, IsArmed, IsClosed, Keeps, CallsClosed, SameCalls, SameHandle
<1>5. CASE m.state # "FINALIZED" /\ ~(r > 0 \/ m.state = "RECONNECTING")
  <2>1. "DISCONNECT" \in ConnectState
    BY Zenon DEF ConnectState
  <2>2. IsIn(d, OnClose(m, r), "DISCONNECT")
    BY <1>1, <1>2, <1>5, <2>1, StateFacts, Zenon DEF IsDown, Keeps
  <2> QED
    BY <1>1, <1>5, <2>2, Zenon
    DEF IsDown, IsIn, IsClosed, Keeps, CallsClosed, SameCalls, SameTimer, SameHandle
<1> QED
  BY <1>3, <1>4, <1>5, Zenon

(* Disconnect of a client that is not finalized finalizes it.              *)
IsDisconnected(m, n) ==
  /\ Keeps(m, n) /\ SameTimer(m, n) /\ n.up = FALSE
  /\ n.state = "FINALIZED" /\ n.serial = Empty /\ n.told = TRUE
  /\ IF m.up THEN CallsClosed(m, n) ELSE SameCalls(m, n)

LEMMA DisconnectFacts ==
  ASSUME NEW m \in Records, NEW r \in {0, 1}, IsUp(m), m.state # "FINALIZED"
  PROVE  IsDisconnected(m, Disconnect(m, r))
<1> DEFINE d == [m EXCEPT !.state = "FINALIZED"]
<1>1. IsIn(m, d, "FINALIZED")
  <2>1. "FINALIZED" \in ConnectState
    BY Zenon DEF ConnectState
  <2> QED
    BY <2>1, StateFacts, Zenon
<1>2. Disconnect(m, r) = IF m.up THEN OnClose(d, r) ELSE Retired(d)
  <2>1. m.state \in ConnectState /\ m.up \in BOOLEAN
    BY Zenon DEF Records
  <2>2. d.up = m.up
    BY <1>1, Zenon DEF IsIn
  <2> HIDE DEF d
  <2>3. CASE m.up
    <3>1. m.state \in {"CONNECTING", "CONNECTED"}
      BY <2>3, Zenon DEF IsUp
    <3>2. Disconnect(m, r) = BaseDisconnect(d, r)
      BY <3>1, Zenon DEF Disconnect, d
    <3> QED
      BY <2>2, <2>3, <3>2, Zenon DEF BaseDisconnect
  <2>4. CASE ~m.up
    <3>1. m.state \in {"DISCONNECT", "RECONNECTING"}
      BY <2>1, <2>4, Zenon DEF IsUp, ConnectState
    <3> QED
      BY <2>4, <3>1, Zenon DEF Disconnect, d
  <2> QED
    BY <2>3, <2>4, Zenon
<1> HIDE DEF d
<1>3. CASE m.up
  <2>1. IsFinal(d, Disconnect(m, r))
    BY <1>1, <1>2, <1>3, OnCloseFacts, Zenon DEF IsIn, Keeps
  <2> QED
    BY <1>1, <1>3, <2>1, Zenon
    DEF IsIn, IsFinal, IsDisconnected, Keeps, CallsClosed, SameCalls, SameTimer, SameHandle
<1>4. CASE ~m.up
  <2>1. IsRetired(d, Disconnect(m, r))
    BY <1>1, <1>2, <1>4, RetiredFacts, Zenon DEF IsIn, Keeps
  <2> QED
    BY <1>1, <1>4, <2>1
    DEF IsIn, IsRetired, IsDisconnected, Keeps, SameCalls, SameTimer
<1> QED
  BY <1>3, <1>4, Zenon

(* StartConnect leaves a client connecting, or closed at once.             *)
IsStarted(m, n) ==
  /\ Keeps(m, n) /\ SameHandle(m, n)
  /\ \/ n.up = TRUE /\ n.state = "CONNECTING" /\ SameCalls(m, n) /\ SameTimer(m, n)
     \/ /\ n.up = FALSE /\ CallsClosed(m, n)
        /\ \/ n.state = "RECONNECTING" /\ n.ts = TRUE /\ n.entry = TRUE
           \/ n.state = "DISCONNECT" /\ SameTimer(m, n)

LEMMA StartConnectFacts ==
  ASSUME NEW m \in Records, NEW written \in BOOLEAN, NEW r \in {0, 1}
  PROVE  IsStarted(m, StartConnect(m, written, r))
<1> DEFINE d == [m EXCEPT !.state = "CONNECTING", !.up = TRUE]
<1>1. /\ Keeps(m, d) /\ SameCalls(m, d) /\ SameTimer(m, d) /\ SameHandle(m, d)
      /\ d.up = TRUE /\ d.state = "CONNECTING"
  <2>1. "CONNECTING" \in ConnectState
    BY Zenon DEF ConnectState
  <2> QED
    BY <2>1, Zenon DEF Records, Keeps, SameCalls, SameTimer, SameHandle
<1>2. StartConnect(m, written, r) = IF written THEN d ELSE OnClose(d, r)
  BY Zenon DEF StartConnect
<1> HIDE DEF d
<1>3. CASE written
  BY <1>1, <1>2, <1>3, Zenon DEF IsStarted
<1>4. CASE ~written
  <2>1. IsClosed(d, StartConnect(m, written, r))
    <3>1. d.state # "FINALIZED"
      BY <1>1, Zenon
    <3> QED
      BY <1>1, <1>2, <1>4, <3>1, OnCloseFacts, Zenon DEF Keeps
  <2> QED
    BY <1>1, <2>1, Zenon
    DEF IsClosed, IsStarted, Keeps, CallsClosed, SameCalls, SameTimer, SameHandle
<1> QED
  BY <1>3, <1>4, Zenon

(* Reconnect starts the alarm of a client that has a connection, connects  *)
(* one that has none, and leaves one that waits alone.                     *)
IsReconnected(m, n) ==
  \/ /\ m.up /\ Keeps(m, n) /\ CallsClosed(m, n) /\ SameHandle(m, n) /\ n.up = FALSE
     /\ n.state = "RECONNECTING" /\ n.ts = TRUE /\ n.entry = TRUE
  \/ m.state = "DISCONNECT" /\ IsStarted(m, n)
  \/ m.state = "RECONNECTING" /\ n = m

LEMMA ReconnectFacts ==
  ASSUME NEW m \in Records, NEW written \in BOOLEAN, NEW r \in {0, 1},
         IsUp(m), m.state # "FINALIZED"
  PROVE  IsReconnected(m, Reconnect(m, written, r))
<1>1. m.state \in ConnectState
  BY Zenon DEF Records
<1>2. CASE m.state \in {"CONNECTING", "CONNECTED"}
  <2> DEFINE d == [m EXCEPT !.state = "RECONNECTING"]
  <2>1. IsIn(m, d, "RECONNECTING") /\ m.up
    <3>1. "RECONNECTING" \in ConnectState
      BY Zenon DEF ConnectState
    <3> QED
      BY <1>2, <3>1, StateFacts, Zenon DEF IsUp
  <2>2. Reconnect(m, written, r) = BaseDisconnect(d, r)
    BY <1>2, Zenon DEF Reconnect
  <2> HIDE DEF d
  <2>3. Reconnect(m, written, r) = OnClose(d, r) /\ d.state # "FINALIZED"
    BY <2>1, <2>2, Zenon DEF BaseDisconnect, IsIn
  <2>4. IsClosed(d, Reconnect(m, written, r))
    BY <2>1, <2>3, OnCloseFacts, Zenon DEF IsIn, Keeps
  <2> QED
    BY <2>1, <2>4, Zenon
    DEF IsIn, IsClosed, IsReconnected, Keeps, CallsClosed, SameCalls, SameTimer, SameHandle
<1>3. CASE m.state = "DISCONNECT"
  <2>1. Reconnect(m, written, r) = StartConnect(m, written, r)
    BY <1>3, Zenon DEF Reconnect
  <2> QED
    BY <1>3, <2>1, StartConnectFacts, Zenon DEF IsReconnected
<1>4. CASE m.state = "RECONNECTING"
  <2>1. Reconnect(m, written, r) = m
    BY <1>4, Zenon DEF Reconnect
  <2> QED
    BY <1>4, <2>1, Zenon DEF IsReconnected
<1> QED
  BY <1>1, <1>2, <1>3, <1>4, Zenon DEF ConnectState

IsOpened(m, n) ==
  /\ Keeps(m, n) /\ SameTimer(m, n) /\ SameHandle(m, n)
  /\ n.up = m.up /\ n.state = m.state
  /\ n.open = m.open + 1 /\ n.late = (m.late \/ m.told)

LEMMA OpenedFacts == ASSUME NEW m \in Records PROVE IsOpened(m, Opened(m))
<1>1. m.open + 1 \in Nat /\ (m.late \/ m.told) \in BOOLEAN
  BY DEF Records
<1> QED
  BY <1>1, Zenon DEF Opened, Records, IsOpened, Keeps, SameTimer, SameHandle

LEMMA DeletedFacts ==
  ASSUME NEW m \in Records
  PROVE  /\ Deleted(m) \in Records
         /\ Deleted(m).serial = m.serial /\ Deleted(m).state = m.state
         /\ Deleted(m).up = m.up /\ Deleted(m).told = m.told
         /\ Deleted(m).open = m.open /\ Deleted(m).late = m.late
         /\ Deleted(m).entry = FALSE
<1>1. (IF m.entry THEN m.orphans + 1 ELSE m.orphans) \in Nat
  BY DEF Records
<1> QED
  BY <1>1, Zenon DEF Deleted, Records

----------------------------------------------------------------------------
(* The queue and the pool in a step.                                       *)
LEMMA QueueAppend ==
  ASSUME NEW q, QueueOK(q), NEW o \in Ops, o.code = "Finalize" <=> o.serial = Empty,
         o.code = "Finalize" => ~Has(q, "Finalize", o.ptr)
  PROVE  /\ QueueOK(Append(q, o))
         /\ Elems(Append(q, o)) = Elems(q) \cup {o}
         /\ \A c, b : Has(Append(q, o), c, b) <=> Has(q, c, b) \/ (o.code = c /\ o.ptr = b)
<1>1. q \in Seq(Ops) /\ Once(q, "Finalize")
  BY Zenon DEF QueueOK
<1>2. Append(q, o) \in Seq(Ops) /\ Elems(Append(q, o)) = Elems(q) \cup {o}
  BY <1>1, AppendFacts, Zenon
<1>3. Once(Append(q, o), "Finalize")
  BY <1>1, OnceAppended, Zenon
<1>4. \A p \in Elems(Append(q, o)) : p.code = "Finalize" <=> p.serial = Empty
  BY <1>2, Zenon DEF QueueOK
<1>5. \A c, b : Has(Append(q, o), c, b) <=> Has(q, c, b) \/ (o.code = c /\ o.ptr = b)
  BY <1>2, Zenon DEF Has
<1> QED
  BY <1>2, <1>3, <1>4, <1>5, Zenon DEF QueueOK

LEMMA QueueTail ==
  ASSUME NEW q, QueueOK(q), q # << >>
  PROVE  /\ QueueOK(Tail(q)) /\ Head(q) \in Ops /\ Head(q) \in Elems(q)
         /\ Head(q).code = "Finalize" <=> Head(q).serial = Empty
         /\ Has(q, Head(q).code, Head(q).ptr)
         /\ Elems(Tail(q)) \subseteq Elems(q)
         /\ \A c, b : /\ Has(Tail(q), c, b) => Has(q, c, b)
                      /\ Has(q, c, b) => \/ Has(Tail(q), c, b)
                                         \/ Head(q).code = c /\ Head(q).ptr = b
         /\ Head(q).code = "Finalize" => ~Has(Tail(q), "Finalize", Head(q).ptr)
<1>1. q \in Seq(Ops) /\ Once(q, "Finalize")
  BY Zenon DEF QueueOK
<1>2. /\ Tail(q) \in Seq(Ops) /\ Head(q) \in Ops /\ Head(q) \in Elems(q)
      /\ Elems(Tail(q)) \subseteq Elems(q)
      /\ \A p \in Elems(q) : p = Head(q) \/ p \in Elems(Tail(q))
  BY <1>1, TailFacts, Zenon
<1>3. /\ Once(Tail(q), "Finalize")
      /\ Head(q).code = "Finalize" => ~Has(Tail(q), "Finalize", Head(q).ptr)
  BY <1>1, OnceTaken, Zenon
<1>4. \A p \in Elems(q) : p.code = "Finalize" <=> p.serial = Empty
  BY Zenon DEF QueueOK
<1>5. QueueOK(Tail(q))
  BY <1>2, <1>3, <1>4, Zenon DEF QueueOK
<1>6. ASSUME NEW c, NEW b
      PROVE  /\ Has(Tail(q), c, b) => Has(q, c, b)
             /\ Has(q, c, b) => \/ Has(Tail(q), c, b)
                                \/ Head(q).code = c /\ Head(q).ptr = b
  BY <1>2, Zenon DEF Has
<1>7. Has(q, Head(q).code, Head(q).ptr)
  BY <1>2, Zenon DEF Has
<1> QED
  BY <1>2, <1>3, <1>4, <1>5, <1>6, <1>7, Zenon

LEMMA ElemFacts ==
  ASSUME NEW q, QueueOK(q), NEW o \in Elems(q)
  PROVE  o \in Ops /\ o.ptr \in Blocks
<1>1. q \in Seq(Ops)
  BY Zenon DEF QueueOK
<1>2. PICK k \in DOMAIN q : o = q[k]
  BY Zenon DEF Elems
<1>3. o \in Ops
  BY <1>1, <1>2
<1> QED
  BY <1>3, Zenon DEF Ops

LEMMA PoolAppend ==
  ASSUME NEW p \in Seq(Blocks), Distinct(p), NEW b \in Blocks, ~In(p, b)
  PROVE  /\ Append(p, b) \in Seq(Blocks) /\ Distinct(Append(p, b))
         /\ \A c : In(Append(p, b), c) <=> In(p, c) \/ c = b
<1>1. /\ Append(p, b) \in Seq(Blocks) /\ Len(p) \in Nat /\ Len(Append(p, b)) = Len(p) + 1
      /\ \A k \in 1 .. Len(p) : Append(p, b)[k] = p[k]
      /\ Append(p, b)[Len(p) + 1] = b
  OBVIOUS
<1>2. Distinct(Append(p, b))
  BY <1>1 DEF Distinct, In
<1>3. ASSUME NEW c PROVE In(Append(p, b), c) <=> In(p, c) \/ c = b
  BY <1>1 DEF In
<1> QED
  BY <1>1, <1>2, <1>3, Zenon

LEMMA PopFacts ==
  ASSUME NEW p \in Seq(Blocks), p # << >>
  PROVE  /\ SubSeq(p, 1, Len(p) - 1) \in Seq(Blocks) /\ Len(p) \in Nat /\ Len(p) > 0
         /\ Len(SubSeq(p, 1, Len(p) - 1)) = Len(p) - 1
         /\ \A i \in 1 .. Len(p) - 1 : SubSeq(p, 1, Len(p) - 1)[i] = p[i]
<1>1. Len(p) \in Nat /\ Len(p) > 0 /\ \A i \in 1 .. Len(p) : p[i] \in Blocks
  OBVIOUS
<1>2. Len(p) - 1 \in Int /\ 1 \in Int /\ \A i \in 1 .. Len(p) - 1 : p[i] \in Blocks
  BY <1>1
<1>3. /\ SubSeq(p, 1, Len(p) - 1) \in Seq(Blocks)
      /\ Len(SubSeq(p, 1, Len(p) - 1)) = IF 1 <= Len(p) - 1 THEN Len(p) - 1 - 1 + 1 ELSE 0
      /\ \A i \in 1 .. Len(p) - 1 - 1 + 1 : SubSeq(p, 1, Len(p) - 1)[i] = p[1 + i - 1]
  BY <1>2
<1>4. Len(p) - 1 - 1 + 1 = Len(p) - 1 /\ \A i \in 1 .. Len(p) - 1 : 1 + i - 1 = i
  BY <1>1
<1> QED
  BY <1>1, <1>3, <1>4

LEMMA PoolPop ==
  ASSUME NEW p \in Seq(Blocks), Distinct(p), p # << >>
  PROVE  LET q == SubSeq(p, 1, Len(p) - 1)
             b == p[Len(p)]
         IN  /\ q \in Seq(Blocks) /\ Distinct(q) /\ b \in Blocks /\ In(p, b) /\ ~In(q, b)
             /\ \A c : In(p, c) <=> In(q, c) \/ c = b
<1> DEFINE q == SubSeq(p, 1, Len(p) - 1)
           b == p[Len(p)]
<1>1. /\ Len(p) \in Nat /\ Len(p) > 0 /\ q \in Seq(Blocks) /\ Len(q) = Len(p) - 1
      /\ \A k \in 1 .. Len(p) - 1 : q[k] = p[k]
  BY PopFacts, Zenon
<1>2. b \in Blocks /\ b = p[Len(p)]
  BY <1>1
<1> HIDE DEF q, b
<1>3. Distinct(q) /\ In(p, b) /\ ~In(q, b)
  BY <1>1, <1>2, SMTT(60) DEF Distinct, In
<1>4. ASSUME NEW c PROVE In(p, c) <=> In(q, c) \/ c = b
  BY <1>1, <1>2, SMTT(60) DEF In
<1> QED
  BY <1>1, <1>2, <1>3, <1>4, Zenon DEF q, b

----------------------------------------------------------------------------
(* Steps.  Most of them leave every client where it is: a block keeps its  *)
(* client or changes one that is alive, and no Finalize comes or goes.     *)
Stays(m, n) ==
  /\ n \in Records /\ IsUp(n)
  /\ m.serial # Empty /\ n.serial = m.serial /\ n.state # "FINALIZED"

Typed ==
  /\ made \in 0 .. MaxClients /\ block \in [Serials -> Blocks \cup {Empty}]
  /\ phase \in {"drain", "resolve", "packets", "alarms", "closed"}
  /\ calls \in 0 .. MaxOps /\ closing \subseteq Serials /\ broken \subseteq {"state", "freed"}

LEMMA Types == TypeOK <=> pool \in Seq(Blocks) /\ mem \in [Blocks -> Records] /\ Typed
BY Zenon DEF TypeOK, Typed, Records

LEMMA StepStays ==
  ASSUME IInv, phase # "closed", Typed',
         mem' \in [Blocks -> Records],
         \A b \in Blocks : mem'[b] = mem[b] \/ Stays(mem[b], mem'[b]),
         UNCHANGED <<pool, made, block, phase>>,
         QueueOK(queue'),
         \A b \in Blocks : Has(queue', "Finalize", b) <=> Has(queue, "Finalize", b),
         \A b \in Blocks : Has(queue', "DoReconnect", b) => phase \in {"alarms", "drain"}
  PROVE  IInv'
<1>1. TypeOK'
  <2>1. pool' \in Seq(Blocks)
    BY Zenon DEF IInv, TypeOK
  <2> QED
    BY <2>1, Zenon DEF TypeOK, Typed, Records
<1>2. PhaseInv'
  BY Zenon DEF IInv, PhaseInv
<1>3. Distinct(pool)' /\ BlockInv'
  BY Zenon DEF IInv, Distinct, BlockInv
<1>4. ASSUME NEW b \in Blocks PROVE RecordInv(mem[b])'
  BY Zenon DEF IInv, RecordInv, Stays
<1>5. ASSUME NEW b \in Blocks PROVE PlaceInv(b)'
  <2>1. PlaceInv(b) /\ (InPool(b)' <=> InPool(b))
    BY Zenon DEF IInv, InPool
  <2>2. CASE mem'[b] = mem[b]
    BY <2>1, <2>2, Zenon DEF PlaceInv
  <2>3. CASE Stays(mem[b], mem'[b])
    BY <2>1, <2>3, Zenon DEF PlaceInv, Stays
  <2> QED
    BY <2>2, <2>3, Zenon
<1> QED
  BY <1>1, <1>2, <1>3, <1>4, <1>5, Zenon DEF IInv

(* The operation taken, for the client in its block or not.                *)
LEMMA TakeFacts ==
  ASSUME IInv, NEW code, Take(code)
  PROVE  /\ QueueOK(Tail(queue)) /\ Head(queue) \in Ops /\ Head(queue) \in Elems(queue)
         /\ Head(queue).code = code /\ Head(queue).ptr \in Blocks
         /\ code = "Finalize" <=> Head(queue).serial = Empty
         /\ Has(queue, code, Head(queue).ptr)
         /\ Elems(Tail(queue)) \subseteq Elems(queue)
         /\ \A c, b : /\ Has(Tail(queue), c, b) => Has(queue, c, b)
                      /\ Has(queue, c, b) => \/ Has(Tail(queue), c, b)
                                             \/ code = c /\ Head(queue).ptr = b
         /\ code = "Finalize" => ~Has(Tail(queue), "Finalize", Head(queue).ptr)
         /\ phase = "drain" /\ phase' = "drain" /\ UNCHANGED <<made, block, calls, closing, broken>>
         /\ Typed'
<1>1. QueueOK(queue) /\ queue # << >> /\ Head(queue).code = code
  BY Zenon DEF IInv, Take
<1>2. phase = "drain" /\ phase' = "drain" /\ UNCHANGED <<made, block, calls, closing, broken>>
  BY Zenon DEF Take
<1>3. Typed'
  BY <1>2, Zenon DEF IInv, TypeOK, Typed
<1>4. Head(queue) \in Ops
  BY <1>1, QueueTail, Zenon
<1>5. Head(queue).ptr \in Blocks
  BY <1>4, Zenon DEF Ops
<1> QED
  BY <1>1, <1>2, <1>3, <1>4, <1>5, QueueTail, Zenon

LEMMA CurrentFacts ==
  ASSUME IInv, NEW code, Take(code), code # "Finalize", Current
  PROVE  LET m == mem[Head(queue).ptr]
         IN  m \in Records /\ m.serial # Empty /\ IsUp(m) /\ m.state # "FINALIZED"
<1>1. Head(queue).ptr \in Blocks /\ Head(queue).serial # Empty
  BY TakeFacts, Zenon
<1>2. mem[Head(queue).ptr].serial # Empty
  BY <1>1, Zenon DEF Current
<1> QED
  BY <1>1, <1>2, Types, Zenon DEF IInv, RecordInv

LEMMA ReconnectStays ==
  ASSUME NEW m \in Records, NEW n, IsUp(m), m.serial # Empty, m.state # "FINALIZED",
         IsReconnected(m, n) \/ IsStarted(m, n)
  PROVE  Stays(m, n)
<1>1. CASE IsStarted(m, n)
  BY <1>1, Zenon DEF IsStarted, Keeps, SameHandle, Stays, IsUp
<1>2. CASE IsReconnected(m, n) /\ ~IsStarted(m, n)
  BY <1>2, Zenon DEF IsReconnected, Keeps, SameHandle, Stays, IsUp
<1> QED
  BY <1>1, <1>2, Zenon

LEMMA ClosedStays ==
  ASSUME NEW m \in Records, NEW n, m.serial # Empty, IsClosed(m, n)
  PROVE  Stays(m, n)
BY Zenon DEF IsClosed, Keeps, SameHandle, Stays, IsUp

(* The client an operation is for changes, and stays.                      *)
LEMMA TakeStays ==
  ASSUME IInv, NEW code, Take(code), code # "Finalize", queue' = Tail(queue), pool' = pool,
         \/ mem' = mem
         \/ \E n : mem' = [mem EXCEPT ![Head(queue).ptr] = n] /\ Stays(mem[Head(queue).ptr], n)
  PROVE  IInv'
<1>1. /\ QueueOK(Tail(queue)) /\ Head(queue).ptr \in Blocks /\ Typed'
      /\ \A b : Has(Tail(queue), "Finalize", b) <=> Has(queue, "Finalize", b)
      /\ phase = "drain" /\ UNCHANGED <<phase, made, block>>
  BY TakeFacts, Zenon
<1>2. mem \in [Blocks -> Records]
  BY Types, Zenon DEF IInv
<1>3. /\ mem' \in [Blocks -> Records]
      /\ \A b \in Blocks : mem'[b] = mem[b] \/ Stays(mem[b], mem'[b])
  BY <1>1, <1>2, Zenon DEF Stays
<1> QED
  BY <1>1, <1>3, StepStays, Zenon

LEMMA StaleStep == ASSUME IInv, Stale PROVE IInv'
<1>1. PICK code \in {"Disconnect", "Reconnect", "Reachability", "DoReconnect"} : Take(code)
  BY Zenon DEF Stale
<1>2. code # "Finalize" /\ queue' = Tail(queue) /\ pool' = pool /\ mem' = mem
  BY Zenon DEF Stale
<1> QED
  BY <1>1, <1>2, TakeStays, Zenon

(* The records Reconnect and DoReconnect leave.                            *)
LEMMA TakeReconnectFacts ==
  ASSUME IInv, TakeReconnect \/ TakeReachability
  PROVE  LET b == Head(queue).ptr
         IN  \/ mem' = mem
             \/ \E n : mem' = [mem EXCEPT ![b] = n] /\ IsReconnected(mem[b], n)
<1> DEFINE b == Head(queue).ptr
<1>1. PICK code \in {"Reconnect", "Reachability"} : Take(code) /\ Current
  BY Zenon DEF TakeReconnect, TakeReachability
<1>2. mem[b] \in Records /\ IsUp(mem[b]) /\ mem[b].state # "FINALIZED"
  BY <1>1, CurrentFacts, Zenon
<1>3. SUFFICES ASSUME mem' # mem
               PROVE  \E n : mem' = [mem EXCEPT ![b] = n] /\ IsReconnected(mem[b], n)
  BY Zenon
<1>4. PICK written \in BOOLEAN, r \in {0, 1} :
        mem' = [mem EXCEPT ![b] = Reconnect(mem[b], written, r)]
  BY <1>3, Zenon DEF TakeReconnect, TakeReachability
<1>5. IsReconnected(mem[b], Reconnect(mem[b], written, r))
  BY <1>2, ReconnectFacts, Zenon
<1> QED
  BY <1>4, <1>5, Zenon

LEMMA TakeReconnectStep == ASSUME IInv, TakeReconnect \/ TakeReachability PROVE IInv'
<1> DEFINE b == Head(queue).ptr
<1>1. PICK code \in {"Reconnect", "Reachability"} : Take(code) /\ Current
  BY Zenon DEF TakeReconnect, TakeReachability
<1>2. code # "Finalize" /\ queue' = Tail(queue) /\ pool' = pool
  BY <1>1, Zenon DEF TakeReconnect, TakeReachability
<1>3. mem[b] \in Records /\ mem[b].serial # Empty /\ IsUp(mem[b]) /\ mem[b].state # "FINALIZED"
  BY <1>1, <1>2, CurrentFacts, Zenon
<1>4. mem' = mem \/ \E n : mem' = [mem EXCEPT ![b] = n] /\ Stays(mem[b], n)
  BY <1>3, TakeReconnectFacts, ReconnectStays, Zenon
<1> QED
  BY <1>1, <1>2, <1>4, TakeStays, Zenon

LEMMA TakeDoReconnectFacts ==
  ASSUME IInv, TakeDoReconnect
  PROVE  LET b == Head(queue).ptr
         IN  \E n : mem' = [mem EXCEPT ![b] = n] /\ IsStarted(mem[b], n)
<1> DEFINE b == Head(queue).ptr
<1>1. mem[b] \in Records
  BY CurrentFacts, Zenon DEF TakeDoReconnect
<1>2. PICK written \in BOOLEAN, r \in {0, 1} :
        mem' = [mem EXCEPT ![b] = StartConnect(mem[b], written, r)]
  BY Zenon DEF TakeDoReconnect
<1> QED
  BY <1>1, <1>2, StartConnectFacts, Zenon

LEMMA TakeDoReconnectStep == ASSUME IInv, TakeDoReconnect PROVE IInv'
<1> DEFINE b == Head(queue).ptr
<1>1. Take("DoReconnect") /\ Current /\ queue' = Tail(queue) /\ pool' = pool
  BY Zenon DEF TakeDoReconnect
<1>2. mem[b] \in Records /\ mem[b].serial # Empty /\ IsUp(mem[b]) /\ mem[b].state # "FINALIZED"
  BY <1>1, CurrentFacts, Zenon
<1>3. \E n : mem' = [mem EXCEPT ![b] = n] /\ Stays(mem[b], n)
  BY <1>2, TakeDoReconnectFacts, ReconnectStays, Zenon
<1> QED
  BY <1>1, <1>3, TakeStays, Zenon

(* Calls of the API queue an operation with the serial of a handle.        *)
LEMMA InvokeFacts ==
  ASSUME IInv, NEW code \in {"Disconnect", "Reconnect", "Reachability"}, NEW n \in Serials,
         Invoke(code, n), closing' \subseteq Serials
  PROVE  /\ QueueOK(queue')
         /\ Elems(queue') = Elems(queue) \cup {Op(code, n, block[n])}
         /\ block[n] \in Blocks
         /\ \A c \in {"Finalize", "DoReconnect"} : \A b : Has(queue', c, b) <=> Has(queue, c, b)
         /\ Typed' /\ phase # "closed" /\ UNCHANGED <<pool, made, block, mem, phase, broken>>
<1> DEFINE o == Op(code, n, block[n])
<1>1. /\ queue' = Append(queue, o) /\ calls' = calls + 1 /\ calls < MaxOps /\ phase # "closed"
      /\ n <= made /\ UNCHANGED <<pool, made, block, mem, phase, broken>>
  BY Zenon DEF Invoke
<1>2. block[n] \in Blocks
  BY <1>1, Zenon DEF IInv, BlockInv
<1>3. o \in Ops /\ o.code = code /\ o.serial = n
  BY <1>2, Zenon DEF Ops, Op, Codes
<1>4. n # Empty /\ code # "Finalize" /\ code # "DoReconnect"
  BY DEF Serials, Empty
<1>5. QueueOK(queue)
  BY Zenon DEF IInv
<1>6. Typed'
  BY <1>1, BoundsAssumption DEF IInv, TypeOK, Typed
<1> HIDE DEF o
<1>7. /\ QueueOK(queue') /\ Elems(queue') = Elems(queue) \cup {o}
      /\ \A c, b : Has(queue', c, b) <=> Has(queue, c, b) \/ (o.code = c /\ o.ptr = b)
  BY <1>1, <1>3, <1>4, <1>5, QueueAppend, Zenon
<1>8. \A c \in {"Finalize", "DoReconnect"} : \A b : Has(queue', c, b) <=> Has(queue, c, b)
  BY <1>3, <1>4, <1>7, Zenon
<1> QED
  BY <1>1, <1>2, <1>6, <1>7, <1>8, Zenon DEF o

LEMMA InvokeStep ==
  ASSUME IInv, NEW code \in {"Disconnect", "Reconnect", "Reachability"}, NEW n \in Serials,
         Invoke(code, n), closing' \subseteq Serials
  PROVE  IInv'
<1>1. /\ QueueOK(queue')
      /\ \A c \in {"Finalize", "DoReconnect"} : \A b : Has(queue', c, b) <=> Has(queue, c, b)
      /\ Typed' /\ phase # "closed" /\ UNCHANGED <<pool, made, block, mem, phase, broken>>
  BY InvokeFacts, Zenon
<1>2. mem' \in [Blocks -> Records]
  BY <1>1, Types, Zenon DEF IInv
<1>3. \A b \in Blocks : Has(queue', "DoReconnect", b) => phase \in {"alarms", "drain"}
  BY <1>1, Zenon DEF IInv, PhaseInv
<1> QED
  BY <1>1, <1>2, <1>3, StepStays, Zenon

(* A step of the loop that is for one block.                               *)
LEMMA BlockStays ==
  ASSUME IInv, NEW b \in Blocks, NEW n, mem' = [mem EXCEPT ![b] = n], Stays(mem[b], n),
         phase # "closed", UNCHANGED <<pool, made, block, queue, phase, calls, closing, broken>>
  PROVE  IInv'
<1>1. Typed' /\ mem \in [Blocks -> Records] /\ QueueOK(queue')
  BY Types, Zenon DEF IInv, TypeOK, Typed
<1>2. /\ mem' \in [Blocks -> Records]
      /\ \A c \in Blocks : mem'[c] = mem[c] \/ Stays(mem[c], mem'[c])
  BY <1>1, Zenon DEF Stays
<1>3. \A c \in Blocks : Has(queue', "DoReconnect", c) => phase \in {"alarms", "drain"}
  BY Zenon DEF IInv, PhaseInv
<1> QED
  BY <1>1, <1>2, <1>3, StepStays, Zenon

(* A client that has a connection is alive.                                *)
LEMMA UpFacts ==
  ASSUME IInv, NEW b \in Blocks, phase # "closed", mem[b].up
  PROVE  mem[b] \in Records /\ mem[b].serial # Empty /\ mem[b].state \in {"CONNECTING", "CONNECTED"}
<1>1. mem[b] \in Records /\ RecordInv(mem[b]) /\ PlaceInv(b)
  BY Types, Zenon DEF IInv
<1> QED
  BY <1>1, Zenon DEF RecordInv, IsUp, PlaceInv

LEMMA ConnectionClosesFacts ==
  ASSUME IInv, NEW b \in Blocks, ConnectionCloses(b)
  PROVE  \E n : mem' = [mem EXCEPT ![b] = n] /\ IsClosed(mem[b], n)
<1>1. mem[b].up /\ phase # "closed"
  BY Zenon DEF ConnectionCloses
<1>2. mem[b] \in Records /\ mem[b].state # "FINALIZED"
  BY <1>1, UpFacts, Zenon
<1>3. PICK r \in {0, 1} : mem' = [mem EXCEPT ![b] = OnClose(mem[b], r)]
  BY Zenon DEF ConnectionCloses
<1> QED
  BY <1>2, <1>3, OnCloseFacts, Zenon

LEMMA ConnectionClosesStep == ASSUME IInv, NEW b \in Blocks, ConnectionCloses(b) PROVE IInv'
<1>1. /\ mem[b].up /\ phase # "closed"
      /\ UNCHANGED <<pool, made, block, queue, phase, calls, closing, broken>>
  BY Zenon DEF ConnectionCloses
<1>2. mem[b] \in Records /\ mem[b].serial # Empty
  BY <1>1, UpFacts, Zenon
<1>3. \E n : mem' = [mem EXCEPT ![b] = n] /\ Stays(mem[b], n)
  BY <1>2, ConnectionClosesFacts, ClosedStays, Zenon
<1> QED
  BY <1>1, <1>3, BlockStays, Zenon

(* OnOpen leaves a client connected, or closed at once.                    *)
IsOnOpen(m, n) ==
  \/ /\ Keeps(m, n) /\ SameTimer(m, n) /\ SameHandle(m, n) /\ n.up = m.up
     /\ n.state = "CONNECTED" /\ n.open = m.open + 1 /\ n.late = (m.late \/ m.told)
  \/ /\ Keeps(m, n) /\ SameHandle(m, n) /\ n.up = FALSE
     /\ n.open = m.open /\ n.late = (m.late \/ m.told)
     /\ \/ n.state = "RECONNECTING" /\ n.ts = TRUE /\ n.entry = TRUE
        \/ n.state = "DISCONNECT" /\ SameTimer(m, n)

LEMMA OnOpenFacts ==
  ASSUME IInv, NEW b \in Blocks, OnOpen(b)
  PROVE  \E n : mem' = [mem EXCEPT ![b] = n] /\ IsOnOpen(mem[b], n)
<1> DEFINE m == mem[b]
           o == Opened(m)
<1>1. m.up /\ phase # "closed" /\ m.state = "CONNECTING"
  BY Zenon DEF OnOpen
<1>2. m \in Records
  BY <1>1, UpFacts, Zenon
<1>3. IsOpened(m, o) /\ o \in Records
  BY <1>2, OpenedFacts, Zenon DEF IsOpened, Keeps
<1>4. CASE mem' = [mem EXCEPT ![b] = [o EXCEPT !.state = "CONNECTED"]]
  <2> DEFINE n == [o EXCEPT !.state = "CONNECTED"]
  <2>1. "CONNECTED" \in ConnectState
    BY Zenon DEF ConnectState
  <2>2. IsIn(o, n, "CONNECTED")
    BY <1>3, <2>1, StateFacts, Zenon
  <2> HIDE DEF o, n
  <2>3. IsOnOpen(m, n)
    BY <1>3, <2>2, Zenon
    DEF IsOpened, IsIn, IsOnOpen, Keeps, SameCalls, SameTimer, SameHandle
  <2> QED
    BY <1>4, <2>3, Zenon DEF n
<1>5. CASE \E r \in {0, 1} : mem' = [mem EXCEPT ![b] = OnClose(o, r)]
  <2>1. PICK r \in {0, 1} : mem' = [mem EXCEPT ![b] = OnClose(o, r)]
    BY <1>5, Zenon
  <2> DEFINE n == OnClose(o, r)
  <2>2. o.state # "FINALIZED"
    BY <1>1, <1>3, Zenon DEF IsOpened
  <2>3. IsClosed(o, n)
    BY <1>3, <2>2, OnCloseFacts, Zenon
  <2>4. m.open \in Nat /\ m.late \in BOOLEAN /\ m.told \in BOOLEAN
    BY <1>2, Zenon DEF Records
  <2> HIDE DEF o, n
  <2>5. n.open = m.open
    BY <1>3, <2>3, <2>4 DEF IsOpened, IsClosed, CallsClosed
  <2>6. n.late = (m.late \/ m.told)
    BY <1>3, <2>3, <2>4, Zenon DEF IsOpened, IsClosed, CallsClosed, SameHandle
  <2>7. IsOnOpen(m, n)
    BY <1>3, <2>3, <2>5, <2>6, Zenon
    DEF IsOpened, IsClosed, IsOnOpen, Keeps, SameTimer, SameHandle
  <2> QED
    BY <2>1, <2>7, Zenon DEF n
<1> QED
  BY <1>4, <1>5, Zenon DEF OnOpen

LEMMA OnOpenStep == ASSUME IInv, NEW b \in Blocks, OnOpen(b) PROVE IInv'
<1>1. /\ mem[b].up /\ phase # "closed"
      /\ UNCHANGED <<pool, made, block, queue, phase, calls, closing, broken>>
  BY Zenon DEF OnOpen
<1>2. mem[b] \in Records /\ mem[b].serial # Empty
  BY <1>1, UpFacts, Zenon
<1>3. PICK n : mem' = [mem EXCEPT ![b] = n] /\ IsOnOpen(mem[b], n)
  BY OnOpenFacts, Zenon
<1>4. Stays(mem[b], n)
  BY <1>1, <1>2, <1>3, Zenon DEF IsOnOpen, Keeps, SameHandle, Stays, IsUp
<1> QED
  BY <1>1, <1>3, <1>4, BlockStays, Zenon

(* The alarm of a block fires: whoever set it, the client in the block is  *)
(* alive, or the step is the undefined one.                                *)
IsFired(m, n) ==
  /\ n \in Records /\ SameCalls(m, n) /\ SameHandle(m, n)
  /\ n.up = m.up /\ n.state = m.state /\ n.ts = FALSE /\ n.entry = FALSE

Fires(b) ==
  /\ phase = "alarms" /\ mem[b].serial # Empty
  /\ \E n : mem' = [mem EXCEPT ![b] = n] /\ IsFired(mem[b], n)
  /\ queue' = Append(queue, Op("DoReconnect", mem[b].serial, b))
  /\ broken' = Asserted(b)
  /\ UNCHANGED <<pool, made, block, phase, calls, closing>>

LEMMA FiredFacts ==
  ASSUME NEW m \in Records, NEW k \in Nat
  PROVE  /\ IsFired(m, [m EXCEPT !.ts = FALSE, !.entry = FALSE])
         /\ [m EXCEPT !.ts = FALSE, !.entry = FALSE].orphans = m.orphans
         /\ IsFired(m, [m EXCEPT !.ts = FALSE, !.entry = FALSE, !.orphans = k])
BY Zenon DEF Records, IsFired, SameCalls, SameHandle

LEMMA OnFireFires ==
  ASSUME IInv, NEW b \in Blocks, OnFire(b)
  PROVE  Fires(b) /\ \E n : /\ mem' = [mem EXCEPT ![b] = n] /\ IsFired(mem[b], n)
                            /\ n.orphans = mem[b].orphans
<1> DEFINE n == [mem[b] EXCEPT !.ts = FALSE, !.entry = FALSE]
<1>1. /\ phase = "alarms" /\ mem[b].entry /\ mem' = [mem EXCEPT ![b] = n]
      /\ queue' = Append(queue, Op("DoReconnect", mem[b].serial, b))
      /\ broken' = Asserted(b)
      /\ UNCHANGED <<pool, made, block, phase, calls, closing>>
  BY Zenon DEF OnFire
<1>2. mem[b] \in Records /\ PlaceInv(b) /\ ~Has(queue, "Finalize", b)
  BY <1>1, Types, Zenon DEF IInv, PhaseInv
<1>3. mem[b].serial # Empty
  BY <1>1, <1>2, Zenon DEF PlaceInv
<1>4. IsFired(mem[b], n) /\ n.orphans = mem[b].orphans
  BY <1>2, FiredFacts, Zenon
<1> QED
  BY <1>1, <1>3, <1>4, Zenon DEF Fires

LEMMA OnFireLeftoverFires ==
  ASSUME IInv, NEW b \in Blocks, OnFireLeftover(b), mem[b].serial # Empty
  PROVE  Fires(b)
<1> DEFINE k == IF mem[b].entry THEN mem[b].orphans ELSE mem[b].orphans - 1
           n == [mem[b] EXCEPT !.ts = FALSE, !.entry = FALSE, !.orphans = k]
<1>1. /\ phase = "alarms" /\ mem[b].orphans > 0
      /\ queue' = Append(queue, Op("DoReconnect", mem[b].serial, b))
      /\ broken' = Asserted(b) /\ mem' = [mem EXCEPT ![b] = n]
      /\ UNCHANGED <<pool, made, block, phase, calls, closing>>
  BY Zenon DEF OnFireLeftover, FiredLate
<1>2. mem[b] \in Records
  BY Types, Zenon DEF IInv
<1>3. k \in Nat
  BY <1>1, <1>2, SMTT(60) DEF Records
<1> HIDE DEF k
<1>4. IsFired(mem[b], n)
  BY <1>2, <1>3, FiredFacts, Zenon
<1> QED
  BY <1>1, <1>4, Zenon DEF Fires

LEMMA FiresFacts ==
  ASSUME IInv, NEW b \in Blocks, Fires(b)
  PROVE  LET o == Op("DoReconnect", mem[b].serial, b)
         IN  /\ QueueOK(queue') /\ o \in Ops
             /\ Elems(queue') = Elems(queue) \cup {o}
             /\ \A c, a : Has(queue', c, a) <=> Has(queue, c, a) \/ (c = "DoReconnect" /\ a = b)
<1> DEFINE o == Op("DoReconnect", mem[b].serial, b)
<1>1. mem[b].serial \in Serials \cup {Empty} /\ mem[b].serial # Empty
  BY Types, Zenon DEF IInv, Records, Fires
<1>2. o \in Ops /\ o.code = "DoReconnect" /\ o.ptr = b /\ o.serial # Empty
  BY <1>1, Zenon DEF Ops, Op, Codes
<1>3. queue' = Append(queue, o) /\ QueueOK(queue)
  BY Zenon DEF Fires, IInv
<1> HIDE DEF o
<1>4. /\ QueueOK(queue') /\ Elems(queue') = Elems(queue) \cup {o}
      /\ \A c, a : Has(queue', c, a) <=> Has(queue, c, a) \/ (o.code = c /\ o.ptr = a)
  BY <1>2, <1>3, QueueAppend, Zenon
<1> QED
  BY <1>2, <1>4, Zenon DEF o

LEMMA FiresStep == ASSUME IInv, NEW b \in Blocks, Fires(b) PROVE IInv'
<1>1. /\ QueueOK(queue')
      /\ \A c \in Blocks : Has(queue', "Finalize", c) <=> Has(queue, "Finalize", c)
  BY FiresFacts
<1>2. /\ phase = "alarms" /\ mem[b].serial # Empty /\ broken' = Asserted(b)
      /\ UNCHANGED <<pool, made, block, phase, calls, closing>>
  BY Zenon DEF Fires
<1>3. PICK n : mem' = [mem EXCEPT ![b] = n] /\ IsFired(mem[b], n)
  BY Zenon DEF Fires
<1>4. mem \in [Blocks -> Records] /\ RecordInv(mem[b])
  BY Types, Zenon DEF IInv
<1>5. Stays(mem[b], n)
  BY <1>2, <1>3, <1>4, Zenon DEF IsFired, SameHandle, Stays, RecordInv, IsUp
<1>6. /\ mem' \in [Blocks -> Records]
      /\ \A c \in Blocks : mem'[c] = mem[c] \/ Stays(mem[c], mem'[c])
  BY <1>3, <1>4, <1>5, Zenon DEF Stays
<1>7. Typed'
  BY <1>2, Zenon DEF IInv, TypeOK, Typed, Asserted
<1> QED
  BY <1>1, <1>2, <1>6, <1>7, StepStays, Zenon

LEMMA OnFireLeftoverStep == ASSUME IInv, NEW b \in Blocks, OnFireLeftover(b) PROVE IInv'
<1>1. CASE mem[b].serial # Empty
  BY <1>1, OnFireLeftoverFires, FiresStep, Zenon
<1>2. CASE mem[b].serial = Empty
  <2>1. /\ phase = "alarms" /\ broken' = broken \cup {"freed"}
        /\ UNCHANGED <<pool, made, block, mem, queue, phase, calls, closing>>
    BY <1>2, Zenon DEF OnFireLeftover
  <2>2. Typed' /\ mem' \in [Blocks -> Records] /\ QueueOK(queue')
    BY <2>1, Types, Zenon DEF IInv, TypeOK, Typed
  <2> QED
    BY <2>1, <2>2, StepStays, Zenon
<1> QED
  BY <1>1, <1>2, Zenon

----------------------------------------------------------------------------
(* The other steps give memory out, or take it back.                       *)
LEMMA PlacedElse ==
  ASSUME IInv, phase # "closed", NEW b \in Blocks, NEW c \in Blocks, c # b,
         NEW n, mem' = [mem EXCEPT ![b] = n],
         InPool(c)' <=> InPool(c), Has(queue', "Finalize", c) <=> Has(queue, "Finalize", c)
  PROVE  PlaceInv(c)' /\ RecordInv(mem[c])'
<1>1. mem'[c] = mem[c] /\ PlaceInv(c) /\ RecordInv(mem[c])
  BY Types, Zenon DEF IInv
<1> QED
  BY <1>1, Zenon DEF PlaceInv

LEMMA TakeDisconnectFacts ==
  ASSUME IInv, TakeDisconnect
  PROVE  LET b == Head(queue).ptr
         IN  /\ \E n : mem' = [mem EXCEPT ![b] = n] /\ IsDisconnected(mem[b], n)
             /\ queue' = Append(Tail(queue), Op("Finalize", Empty, b))
<1> DEFINE b == Head(queue).ptr
<1>1. Take("Disconnect") /\ Current
  BY Zenon DEF TakeDisconnect
<1>2. mem[b] \in Records /\ mem[b].serial # Empty /\ IsUp(mem[b]) /\ mem[b].state # "FINALIZED"
  BY <1>1, CurrentFacts, Zenon
<1>3. PICK r \in {0, 1} :
        /\ mem' = [mem EXCEPT ![b] = Disconnect(mem[b], r)]
        /\ queue' = IF Disconnect(mem[b], r).serial = Empty /\ mem[b].serial # Empty
                    THEN Append(Tail(queue), Op("Finalize", Empty, b))
                    ELSE Tail(queue)
  BY Zenon DEF TakeDisconnect
<1>4. IsDisconnected(mem[b], Disconnect(mem[b], r))
  BY <1>2, DisconnectFacts, Zenon
<1>5. Disconnect(mem[b], r).serial = Empty
  BY <1>4, Zenon DEF IsDisconnected
<1> QED
  BY <1>2, <1>3, <1>4, <1>5, Zenon

LEMMA TakeDisconnectQueue ==
  ASSUME IInv, TakeDisconnect
  PROVE  LET b == Head(queue).ptr
         IN  /\ QueueOK(queue')
             /\ Elems(queue') = Elems(Tail(queue)) \cup {Op("Finalize", Empty, b)}
             /\ \A c, a : Has(queue', c, a) <=> \/ Has(Tail(queue), c, a)
                                                \/ c = "Finalize" /\ a = b
             /\ \A a : Has(queue', "Finalize", a) <=> Has(queue, "Finalize", a) \/ a = b
<1> DEFINE b == Head(queue).ptr
           o == Op("Finalize", Empty, b)
<1>1. Take("Disconnect") /\ Current /\ queue' = Append(Tail(queue), o)
  BY TakeDisconnectFacts, Zenon DEF TakeDisconnect
<1>2. /\ QueueOK(Tail(queue)) /\ b \in Blocks
      /\ \A a : Has(Tail(queue), "Finalize", a) <=> Has(queue, "Finalize", a)
  BY <1>1, TakeFacts
<1>3. ~Has(queue, "Finalize", b)
  <2>1. mem[b].serial # Empty /\ PlaceInv(b)
    BY <1>1, <1>2, CurrentFacts, Zenon DEF IInv, Take
  <2> QED
    BY <2>1, Zenon DEF PlaceInv
<1>4. o \in Ops /\ o.code = "Finalize" /\ o.serial = Empty /\ o.ptr = b
  BY <1>2, Zenon DEF Ops, Op, Codes
<1> HIDE DEF b
<1>5. o = Op("Finalize", Empty, b)
  BY Zenon
<1> HIDE DEF o
<1>6. /\ QueueOK(queue') /\ Elems(queue') = Elems(Tail(queue)) \cup {o}
      /\ \A c, a : Has(queue', c, a) <=> Has(Tail(queue), c, a) \/ (o.code = c /\ o.ptr = a)
  BY <1>1, <1>2, <1>3, <1>4, QueueAppend, Zenon
<1>7. \A c, a : Has(queue', c, a) <=> Has(Tail(queue), c, a) \/ (c = "Finalize" /\ a = b)
  BY <1>4, <1>6, Zenon
<1> QED
  BY <1>2, <1>5, <1>6, <1>7, Zenon DEF b

LEMMA TakeDisconnectStep == ASSUME IInv, TakeDisconnect PROVE IInv'
<1>1. Take("Disconnect") /\ Current /\ pool' = pool
  BY Zenon DEF TakeDisconnect
<1>0. PICK b \in Blocks : b = Head(queue).ptr
  BY <1>1, TakeFacts, Zenon
<1>2. /\ b \in Blocks /\ Typed' /\ phase = "drain" /\ UNCHANGED <<phase, made, block>>
      /\ \A c, a : Has(Tail(queue), c, a) => Has(queue, c, a)
  BY <1>0, <1>1, TakeFacts, Zenon
<1>3. mem[b].serial # Empty
  BY <1>0, <1>1, CurrentFacts, Zenon
<1>4. PICK n : mem' = [mem EXCEPT ![b] = n] /\ IsDisconnected(mem[b], n)
  BY <1>0, TakeDisconnectFacts, Zenon
<1>5. /\ QueueOK(queue')
      /\ \A a : Has(queue', "Finalize", a) <=> Has(queue, "Finalize", a) \/ a = b
  BY <1>0, TakeDisconnectQueue, Zenon
<1>6. mem \in [Blocks -> Records] /\ n \in Records
  BY <1>4, Types, Zenon DEF IInv, IsDisconnected, Keeps
<1>7. TypeOK'
  <2>1. mem' \in [Blocks -> Records] /\ pool' \in Seq(Blocks)
    BY <1>1, <1>4, <1>6, Zenon DEF IInv, TypeOK
  <2> QED
    BY <1>2, <2>1, Zenon DEF TypeOK, Typed, Records
<1>8. PhaseInv' /\ Distinct(pool)' /\ BlockInv'
  BY <1>1, <1>2, ZenonT(60) DEF IInv, PhaseInv, Distinct, BlockInv
<1>9. ASSUME NEW c \in Blocks PROVE PlaceInv(c)' /\ RecordInv(mem[c])'
  <2>1. InPool(c)' <=> InPool(c)
    BY <1>1, Zenon DEF InPool
  <2>2. CASE c # b
    BY <1>2, <1>4, <1>5, <2>1, <2>2, PlacedElse, Zenon
  <2>3. CASE c = b
    <3>1. mem'[b] = n /\ PlaceInv(b)
      BY <1>2, <1>4, <1>6, Zenon DEF IInv
    <3> QED
      BY <1>3, <1>4, <1>5, <2>1, <2>3, <3>1, Zenon DEF PlaceInv, RecordInv, IsUp, IsDisconnected
  <2> QED
    BY <2>2, <2>3, Zenon
<1> QED
  BY <1>5, <1>7, <1>8, <1>9, Zenon DEF IInv

(* Finalize finds the client it was queued for, closed, and its block goes *)
(* back to the pool.                                                       *)
IsDeleted(m, n) ==
  /\ n \in Records /\ n.serial = Empty /\ n.up = FALSE /\ n.state = m.state
  /\ n.entry = FALSE /\ n.open = m.open /\ n.late = m.late

LEMMA TakeFinalizeFacts ==
  ASSUME IInv, TakeFinalize
  PROVE  LET b == Head(queue).ptr
         IN  /\ mem[b].serial = Empty /\ ~InPool(b) /\ pool' = Append(pool, b)
             /\ \E n : mem' = [mem EXCEPT ![b] = n] /\ IsDeleted(mem[b], n)
<1> DEFINE b == Head(queue).ptr
           m == mem[b]
<1>1. Take("Finalize")
  BY Zenon DEF TakeFinalize
<1>2. b \in Blocks /\ Head(queue).serial = Empty /\ Has(queue, "Finalize", b) /\ phase = "drain"
  BY <1>1, TakeFacts, Zenon
<1>3. m \in Records /\ PlaceInv(b) /\ RecordInv(m)
  BY <1>2, Types, Zenon DEF IInv
<1>4. m.serial = Empty /\ ~InPool(b) /\ m.up = FALSE
  <2>1. m.serial = Empty /\ ~InPool(b) /\ m.state \in {"DISCONNECT", "FINALIZED"}
    BY <1>2, <1>3, Zenon DEF PlaceInv
  <2> QED
    BY <1>3, <2>1, Zenon DEF RecordInv, IsUp, Records
<1>5. Current
  BY <1>2, <1>4, Zenon DEF Current
<1>6. PICK r \in {0, 1} :
        /\ mem' = [mem EXCEPT ![b] = Deleted(Retired(BaseDisconnect(Retired(m), r)))]
        /\ pool' = Append(pool, b)
  BY <1>5, Zenon DEF TakeFinalize
<1> DEFINE d == Retired(m)
           e == Retired(d)
<1>7. IsRetired(m, d)
  BY <1>3, RetiredFacts, Zenon
<1>8. IsRetired(d, e)
  BY <1>7, RetiredFacts, Zenon DEF IsRetired, Keeps
<1>9. BaseDisconnect(d, r) = d
  BY <1>4, <1>7, Zenon DEF BaseDisconnect, IsRetired
<1> HIDE DEF d
<1>10. e \in Records
  BY <1>8, Zenon DEF IsRetired, Keeps
<1> HIDE DEF e
<1>11. IsDeleted(m, Deleted(e))
  BY <1>4, <1>7, <1>8, <1>10, DeletedFacts, ZenonT(60) DEF IsRetired, IsDeleted, SameCalls
<1> QED
  BY <1>4, <1>6, <1>9, <1>11, Zenon DEF d, e

LEMMA TakeFinalizeStep == ASSUME IInv, TakeFinalize PROVE IInv'
<1>1. Take("Finalize") /\ queue' = Tail(queue)
  BY Zenon DEF TakeFinalize
<1>0. PICK b \in Blocks : b = Head(queue).ptr
  BY <1>1, TakeFacts, Zenon
<1>2. /\ b \in Blocks /\ Typed' /\ phase = "drain" /\ UNCHANGED <<phase, made, block>>
      /\ QueueOK(Tail(queue)) /\ ~Has(Tail(queue), "Finalize", b)
      /\ \A c, a : Has(Tail(queue), c, a) => Has(queue, c, a)
      /\ \A a : Has(queue, "Finalize", a) => Has(Tail(queue), "Finalize", a) \/ a = b
  BY <1>0, <1>1, TakeFacts, Zenon
<1>3. /\ mem[b].serial = Empty /\ ~InPool(b) /\ pool' = Append(pool, b)
      /\ \E n : mem' = [mem EXCEPT ![b] = n] /\ IsDeleted(mem[b], n)
  BY <1>0, TakeFinalizeFacts, Zenon
<1>4. PICK n : mem' = [mem EXCEPT ![b] = n] /\ IsDeleted(mem[b], n)
  BY <1>3, Zenon
<1>5. /\ pool \in Seq(Blocks) /\ Distinct(pool) /\ ~In(pool, b)
      /\ mem \in [Blocks -> Records] /\ n \in Records
  BY <1>3, <1>4, Types, Zenon DEF IInv, IsDeleted, InPool
<1>6. /\ pool' \in Seq(Blocks) /\ Distinct(pool') /\ \A c : In(pool', c) <=> InPool(c) \/ c = b
  BY <1>2, <1>3, <1>5, PoolAppend, Zenon DEF InPool
<1>7. TypeOK'
  <2>1. mem' \in [Blocks -> Records]
    BY <1>4, <1>5, Zenon
  <2> QED
    BY <1>2, <1>6, <2>1, Zenon DEF TypeOK, Typed, Records
<1>8. PhaseInv' /\ BlockInv'
  BY <1>1, <1>2, Zenon DEF IInv, PhaseInv, BlockInv
<1>9. ASSUME NEW c \in Blocks PROVE PlaceInv(c)' /\ RecordInv(mem[c])'
  <2>1. CASE c # b
    <3>1. InPool(c)' <=> InPool(c)
      BY <1>6, <2>1, Zenon DEF InPool
    <3>2. Has(queue', "Finalize", c) <=> Has(queue, "Finalize", c)
      BY <1>1, <1>2, <2>1, Zenon
    <3> QED
      BY <1>2, <1>4, <2>1, <3>1, <3>2, PlacedElse, Zenon
  <2>2. CASE c = b
    <3>1. mem'[b] = n /\ PlaceInv(b)
      BY <1>2, <1>4, <1>5, Zenon DEF IInv
    <3>2. InPool(b)' /\ ~Has(queue', "Finalize", b)
      BY <1>1, <1>2, <1>6, Zenon DEF InPool
    <3>3. n.serial = Empty /\ n.state \in {"DISCONNECT", "FINALIZED"} /\ ~n.entry /\ ~n.up
      BY <1>3, <1>4, <3>1, Zenon DEF PlaceInv, IsDeleted
    <3>4. PlaceInv(b)'
      BY <3>1, <3>2, <3>3, Zenon DEF PlaceInv
    <3>5. RecordInv(n)
      BY <3>3, Zenon DEF RecordInv, IsUp
    <3> QED
      BY <2>2, <3>1, <3>4, <3>5, Zenon
  <2> QED
    BY <2>1, <2>2, Zenon
<1> QED
  BY <1>1, <1>2, <1>6, <1>7, <1>8, <1>9, Zenon DEF IInv

(* Create takes the block from the top of the pool.                        *)
IsCreated(m, n, serial) ==
  /\ n \in Records /\ n.serial = serial /\ n.told = FALSE /\ n.open = 0 /\ n.late = FALSE
  /\ n.orphans = m.orphans
  /\ \/ n.up = TRUE /\ n.state = "CONNECTING" /\ n.ts = FALSE /\ n.entry = FALSE
     \/ n.up = FALSE /\ n.state = "RECONNECTING" /\ n.ts = TRUE /\ n.entry = TRUE
     \/ n.up = FALSE /\ n.state = "DISCONNECT" /\ n.ts = FALSE /\ n.entry = FALSE

LEMMA CreatedUp ==
  ASSUME NEW m, NEW n, NEW serial, IsCreated(m, n, serial)
  PROVE  n.serial = serial /\ IsUp(n) /\ n.state # "FINALIZED"
BY Zenon DEF IsCreated, IsUp

LEMMA CreateFacts ==
  ASSUME IInv, Create
  PROVE  \E b \in Blocks :
           /\ In(pool, b) /\ pool' \in Seq(Blocks) /\ Distinct(pool') /\ ~In(pool', b)
           /\ \A c : In(pool, c) <=> In(pool', c) \/ c = b
           /\ made + 1 \in Serials /\ block' = [block EXCEPT ![made + 1] = b]
           /\ \E n : mem' = [mem EXCEPT ![b] = n] /\ IsCreated(mem[b], n, made + 1)
<1>1. pool \in Seq(Blocks) /\ Distinct(pool) /\ pool # << >> /\ mem \in [Blocks -> Records]
  BY Types, Zenon DEF IInv, Create
<1>2. pool' = SubSeq(pool, 1, Len(pool) - 1)
  BY Zenon DEF Create
<1>0. PICK b : b = pool[Len(pool)]
  BY Zenon
<1> DEFINE f == Fresh(made + 1, mem[b].orphans)
<1>3. /\ pool' \in Seq(Blocks) /\ Distinct(pool') /\ b \in Blocks /\ In(pool, b) /\ ~In(pool', b)
      /\ \A c : In(pool, c) <=> In(pool', c) \/ c = b
  BY <1>0, <1>1, <1>2, PoolPop, Zenon
<1>4. made + 1 \in Serials
  BY BoundsAssumption, SMTT(60) DEF IInv, TypeOK, Create, Serials
<1>5. PICK written \in BOOLEAN, r \in {0, 1} :
        /\ mem' = [mem EXCEPT ![b] = [StartConnect(f, written, r) EXCEPT !.serial = made + 1]]
        /\ block' = [block EXCEPT ![made + 1] = b]
  BY <1>0, Zenon DEF Create
<1>6. mem[b].orphans \in Nat
  BY <1>1, <1>3, Zenon DEF Records
<1>7. /\ f \in Records /\ f.told = FALSE /\ f.open = 0 /\ f.late = FALSE
      /\ f.ts = FALSE /\ f.entry = FALSE /\ f.orphans = mem[b].orphans
  BY <1>4, <1>6, Zenon DEF Fresh, Records, ConnectState, Empty
<1> HIDE DEF f
<1> DEFINE m == StartConnect(f, written, r)
           n == [m EXCEPT !.serial = made + 1]
<1>8. IsStarted(f, m)
  BY <1>7, StartConnectFacts, Zenon
<1> HIDE DEF m
<1>9. m \in Records
  BY <1>8, Zenon DEF IsStarted, Keeps
<1>10. /\ n \in Records /\ n.serial = made + 1 /\ n.told = m.told /\ n.open = m.open
       /\ n.late = m.late /\ n.orphans = m.orphans /\ n.up = m.up /\ n.state = m.state
       /\ n.ts = m.ts /\ n.entry = m.entry
  BY <1>4, <1>9, Zenon DEF Records
<1> HIDE DEF n
<1>11. m.open = 0 /\ m.late = FALSE
  <2>1. m.open = 0
    BY <1>7, <1>8, SMTT(60) DEF IsStarted, CallsClosed, SameCalls
  <2>2. m.late = FALSE
    BY <1>7, <1>8, Zenon DEF IsStarted, CallsClosed, SameCalls
  <2> QED
    BY <2>1, <2>2, Zenon
<1>12. m.told = FALSE /\ m.orphans = mem[b].orphans
  BY <1>7, <1>8, Zenon DEF IsStarted, Keeps, SameHandle
<1>13. \/ m.up = TRUE /\ m.state = "CONNECTING" /\ m.ts = FALSE /\ m.entry = FALSE
       \/ m.up = FALSE /\ m.state = "RECONNECTING" /\ m.ts = TRUE /\ m.entry = TRUE
       \/ m.up = FALSE /\ m.state = "DISCONNECT" /\ m.ts = FALSE /\ m.entry = FALSE
  BY <1>7, <1>8, Zenon DEF IsStarted, SameTimer
<1>14. IsCreated(mem[b], n, made + 1)
  BY <1>10, <1>11, <1>12, <1>13, Zenon DEF IsCreated
<1> QED
  BY <1>3, <1>4, <1>5, <1>14, Zenon DEF f, m, n

LEMMA CreateStep == ASSUME IInv, Create PROVE IInv'
<1>1. PICK b \in Blocks :
      /\ In(pool, b) /\ pool' \in Seq(Blocks) /\ Distinct(pool') /\ ~In(pool', b)
      /\ \A c : In(pool, c) <=> In(pool', c) \/ c = b
      /\ made + 1 \in Serials /\ block' = [block EXCEPT ![made + 1] = b]
      /\ \E n : mem' = [mem EXCEPT ![b] = n] /\ IsCreated(mem[b], n, made + 1)
  BY CreateFacts, Zenon
<1>2. phase = "resolve" /\ made' = made + 1 /\ UNCHANGED <<queue, phase, calls, closing, broken>>
  BY Zenon DEF Create
<1>3. PICK n : mem' = [mem EXCEPT ![b] = n] /\ IsCreated(mem[b], n, made + 1)
  BY <1>1, Zenon
<1>4. mem \in [Blocks -> Records] /\ n \in Records /\ Typed
  BY <1>3, Types, Zenon DEF IInv, IsCreated
<1>5. TypeOK'
  <2>1. mem' \in [Blocks -> Records]
    BY <1>3, <1>4, Zenon
  <2>2. Typed'
    BY <1>1, <1>2, <1>4, SMTT(60) DEF Typed, Serials
  <2> QED
    BY <1>1, <2>1, <2>2, Zenon DEF TypeOK, Typed, Records
<1>6. BlockInv'
  <2>1. block \in [Serials -> Blocks \cup {Empty}] /\ made \in Nat
    BY <1>4, SMTT(60) DEF Typed
  <2> QED
    BY <1>1, <1>2, <2>1, SMTT(60) DEF IInv, BlockInv, Serials
<1>7. QueueOK(queue') /\ PhaseInv'
  BY <1>2, Zenon DEF IInv, PhaseInv
<1>8. ASSUME NEW c \in Blocks PROVE PlaceInv(c)' /\ RecordInv(mem[c])'
  <2>1. CASE c # b
    <3>1. InPool(c)' <=> InPool(c)
      BY <1>1, <2>1, Zenon DEF InPool
    <3> QED
      BY <1>1, <1>2, <1>3, <2>1, <3>1, PlacedElse, Zenon
  <2>2. CASE c = b
    <3>1. mem'[b] = n /\ PlaceInv(b)
      BY <1>1, <1>2, <1>3, <1>4, Zenon DEF IInv
    <3>2. ~Has(queue', "Finalize", b) /\ ~InPool(b)' /\ made + 1 # Empty
      BY <1>1, <1>2, SMTT(60) DEF IInv, PhaseInv, InPool, Empty, Serials
    <3>3. n.serial # Empty /\ IsUp(n) /\ n.state # "FINALIZED"
      BY <1>3, <3>2, CreatedUp, Zenon
    <3> QED
      BY <2>2, <3>1, <3>2, <3>3, Zenon DEF PlaceInv, RecordInv
  <2> QED
    BY <2>1, <2>2, Zenon
<1> QED
  BY <1>1, <1>5, <1>6, <1>7, <1>8, Zenon DEF IInv

LEMMA NextPhaseStep == ASSUME IInv, NextPhase PROVE IInv'
<1>1. /\ phase \in {"drain", "resolve", "packets", "alarms"}
      /\ phase' \in {"drain", "resolve", "packets", "alarms"}
      /\ phase = "drain" => queue = << >>
      /\ phase # "drain" => phase' = "drain" \/ phase \in {"resolve", "packets"}
      /\ phase' = "drain" => phase = "alarms"
      /\ UNCHANGED <<pool, made, block, mem, queue, calls, closing, broken>>
  BY Zenon DEF NextPhase
<1>2. queue = << >> => \A c, b : ~Has(queue, c, b)
  BY DEF Has, Elems
<1>3. PhaseInv'
  <2> SUFFICES ASSUME NEW b \in Blocks
               PROVE  /\ Has(queue, "Finalize", b) => phase' \in {"drain", "closed"}
                      /\ Has(queue, "DoReconnect", b) => phase' \in {"alarms", "drain", "closed"}
    BY <1>1, Zenon DEF PhaseInv
  <2>1. /\ Has(queue, "Finalize", b) => phase \in {"drain", "closed"}
        /\ Has(queue, "DoReconnect", b) => phase \in {"alarms", "drain", "closed"}
    BY Zenon DEF IInv, PhaseInv
  <2> QED
    BY <1>1, <1>2, <2>1, Zenon
<1>4. TypeOK'
  BY <1>1, Zenon DEF IInv, TypeOK
<1>5. QueueOK(queue') /\ Distinct(pool') /\ BlockInv'
  BY <1>1, Zenon DEF IInv, BlockInv
<1>6. \A b \in Blocks : PlaceInv(b)' /\ RecordInv(mem[b])'
  BY <1>1, Zenon DEF IInv, PlaceInv, InPool
<1> QED
  BY <1>3, <1>4, <1>5, <1>6, Zenon DEF IInv

(* What the end of the loop leaves of a client.                            *)
LEMMA ShutFacts ==
  ASSUME NEW m \in Records, NEW r \in {0, 1}, IsUp(m), m.state # "FINALIZED"
  PROVE  LET n == Deleted(Retired(BaseDisconnect([m EXCEPT !.told = TRUE], r)))
         IN  n \in Records /\ n.serial = Empty /\ IsUp(n)
<1> DEFINE t == [m EXCEPT !.told = TRUE]
           d == BaseDisconnect(t, r)
           e == Retired(d)
           n == Deleted(e)
<1>1. t \in Records /\ t.up = m.up /\ t.state = m.state
  BY Zenon DEF Records
<1>2. d = IF t.up THEN OnClose(t, r) ELSE t
  BY Zenon DEF BaseDisconnect
<1> HIDE DEF t
<1>3. t.up => IsClosed(t, OnClose(t, r))
  BY <1>1, OnCloseFacts, Zenon
<1> HIDE DEF d
<1>4. d \in Records /\ IsUp(d)
  <2>1. CASE t.up
    BY <1>2, <1>3, <2>1, Zenon DEF IsClosed, Keeps, IsUp
  <2>2. CASE ~t.up
    BY <1>1, <1>2, <2>2, Zenon DEF IsUp
  <2> QED
    BY <2>1, <2>2, Zenon
<1>5. IsRetired(d, e)
  BY <1>4, RetiredFacts, Zenon
<1> HIDE DEF e
<1>6. e \in Records /\ e.serial = Empty /\ e.up = d.up /\ e.state = d.state
  BY <1>5, Zenon DEF IsRetired, Keeps
<1>7. n \in Records /\ n.serial = Empty /\ n.up = d.up /\ n.state = d.state
  BY <1>6, DeletedFacts, Zenon
<1> HIDE DEF n
<1>8. n \in Records /\ n.serial = Empty /\ IsUp(n)
  BY <1>4, <1>7, Zenon DEF IsUp
<1> QED
  BY <1>8, Zenon DEF n, e, d, t

LEMMA CloseStep == ASSUME IInv, Close PROVE IInv'
<1>1. /\ phase = "drain" /\ phase' = "closed"
      /\ UNCHANGED <<pool, made, block, queue, calls, closing, broken>>
  BY Zenon DEF Close
<1>2. PICK r \in {0, 1} :
        mem' = [b \in Blocks |->
                  IF mem[b].serial # Empty
                  THEN Deleted(Retired(BaseDisconnect([mem[b] EXCEPT !.told = TRUE], r)))
                  ELSE mem[b]]
  BY Zenon DEF Close
<1>3. ASSUME NEW b \in Blocks PROVE mem'[b] \in Records /\ RecordInv(mem'[b])
  <2>1. mem[b] \in Records /\ RecordInv(mem[b])
    BY Types, Zenon DEF IInv
  <2>2. CASE mem[b].serial # Empty
    <3>1. mem'[b] = Deleted(Retired(BaseDisconnect([mem[b] EXCEPT !.told = TRUE], r)))
      BY <1>2, <2>2, Zenon
    <3>2. mem'[b] \in Records /\ mem'[b].serial = Empty /\ IsUp(mem'[b])
      BY <2>1, <2>2, <3>1, ShutFacts DEF RecordInv
    <3> QED
      BY <3>2, Zenon DEF RecordInv
  <2>3. CASE mem[b].serial = Empty
    <3>1. mem'[b] = mem[b]
      BY <1>2, <2>3, Zenon
    <3> QED
      BY <2>1, <3>1, Zenon
  <2> QED
    BY <2>2, <2>3, Zenon
<1>4. mem' \in [Blocks -> Records]
  <2>1. mem' = [b \in Blocks |-> mem'[b]]
    BY <1>2, Zenon
  <2> QED
    BY <1>3, <2>1, Zenon
<1>5. TypeOK'
  <2>1. Typed' /\ pool' \in Seq(Blocks)
    BY <1>1, Zenon DEF IInv, TypeOK, Typed
  <2> QED
    BY <1>4, <2>1, Zenon DEF TypeOK, Typed, Records
<1>6. QueueOK(queue') /\ Distinct(pool') /\ BlockInv' /\ PhaseInv'
  BY <1>1, Zenon DEF IInv, BlockInv, PhaseInv
<1> QED
  BY <1>1, <1>3, <1>5, <1>6, Zenon DEF IInv

LEMMA InitInv == Init => IInv
<1> SUFFICES ASSUME Init PROVE IInv
  BY ZenonT(60)
<1>1. Fresh(Empty, 0) \in Records /\ IsUp(Fresh(Empty, 0)) /\ Fresh(Empty, 0).serial = Empty
      /\ Fresh(Empty, 0).state = "DISCONNECT" /\ Fresh(Empty, 0).entry = FALSE
  BY Zenon DEF Fresh, Records, ConnectState, IsUp
<1>2. \A b \in Blocks : mem[b] = Fresh(Empty, 0)
  BY Zenon DEF Init
<1>3. mem \in [Blocks -> Records]
  BY <1>1, Zenon DEF Init
<1>4. pool \in Seq(Blocks) /\ Len(pool) = NumBlocks /\ \A i \in Blocks : pool[i] = i
  BY BoundsAssumption DEF Init, Blocks
<1>5. Typed
  BY BoundsAssumption DEF Init, Typed
<1>6. TypeOK
  BY <1>3, <1>4, <1>5, Types, Zenon
<1>7. QueueOK(queue) /\ \A c, b : ~Has(queue, c, b)
  BY DEF Init, QueueOK, Elems, Once, Has
<1>8. \A b \in Blocks : InPool(b)
  BY <1>4, Zenon DEF InPool, In, Blocks
<1>9. Distinct(pool)
  BY <1>4, Zenon DEF Distinct, Blocks
<1>10. BlockInv
  BY DEF Init, BlockInv, Serials
<1>11. \A b \in Blocks : PlaceInv(b) /\ RecordInv(mem[b])
  BY <1>1, <1>2, <1>7, <1>8, Zenon DEF PlaceInv, RecordInv
<1>12. PhaseInv
  BY <1>7, Zenon DEF PhaseInv
<1> QED
  BY <1>6, <1>7, <1>9, <1>10, <1>11, <1>12, Zenon DEF IInv

LEMMA NextInv == IInv /\ [Next]_vars => IInv'
<1> SUFFICES ASSUME IInv, [Next]_vars PROVE IInv'
  BY Zenon
<1>1. CASE UNCHANGED vars
  BY <1>1, Zenon DEF vars, IInv, TypeOK, QueueOK, PhaseInv, BlockInv, PlaceInv, InPool, RecordInv
<1>2. ASSUME NEW n \in Serials,
             nq_conn_close(n) \/ nq_conn_reset(n) \/ nq_conn_reachability_change(n)
      PROVE  IInv'
  <2>1. closing \subseteq Serials
    BY Zenon DEF IInv, TypeOK
  <2>2. PICK code \in {"Disconnect", "Reconnect", "Reachability"} :
          Invoke(code, n) /\ closing' \subseteq Serials
    BY <1>2, <2>1, Zenon DEF nq_conn_close, nq_conn_reset, nq_conn_reachability_change
  <2> QED
    BY <2>2, InvokeStep, Zenon
<1>3. CASE Drain
  BY <1>3, StaleStep, TakeDisconnectStep, TakeReconnectStep, TakeDoReconnectStep,
     TakeFinalizeStep, Zenon DEF Drain
<1>4. ASSUME NEW b \in Blocks, OnOpen(b) \/ ConnectionCloses(b) \/ OnFire(b) \/ OnFireLeftover(b)
      PROVE  IInv'
  BY <1>4, OnOpenStep, ConnectionClosesStep, OnFireFires, FiresStep, OnFireLeftoverStep, Zenon
<1> QED
  BY <1>1, <1>2, <1>3, <1>4, CreateStep, NextPhaseStep, CloseStep, Zenon DEF Next

----------------------------------------------------------------------------
(* The variables keep their types, whatever is called and closed.          *)
THEOREM TypeCorrect == Spec => []TypeOK
<1>1. IInv => TypeOK
  BY Zenon DEF IInv
<1> QED
  BY <1>1, InitInv, NextInv, PTL DEF Spec

(* A client has a connection exactly while it is connecting or connected:  *)
(* Disconnect and Reconnect, which ask connect_state_ and then close the   *)
(* QUIC connection, always get their OnClose.                              *)
THEOREM StateTellsConnection == Spec => []ConnectedIsUp
<1>1. IInv => ConnectedIsUp
  BY Zenon DEF IInv, RecordInv, IsUp, ConnectedIsUp
<1> QED
  BY <1>1, InitInv, NextInv, PTL DEF Spec

LEMMA HasIsPending ==
  ASSUME NEW c, NEW b, QueueOK(queue)
  PROVE  Pending(c, b) <=> Has(queue, c, b)
<1>1. DOMAIN queue = 1 .. Len(queue)
  BY DEF QueueOK
<1> QED
  BY <1>1, Zenon DEF Pending, Has, Elems

(* A block is in the pool, holds a client that is alive, or waits for the  *)
(* one Finalize that is queued for it: ScheduleDestroy clears the serial   *)
(* in the step that queues Finalize, and Destroy frees in the step that    *)
(* takes it.                                                               *)
THEOREM MemoryFreedOnce == Spec => []FreedOnce
<1>1. ASSUME IInv PROVE FreedOnce
  <2> SUFFICES ASSUME phase # "closed"
               PROVE  /\ \A i, j \in 1 .. Len(pool) : pool[i] = pool[j] => i = j
                      /\ \A b \in Blocks :
                           /\ mem[b].serial # Empty =>
                                b \notin FreeBlocks /\ ~Pending("Finalize", b)
                           /\ mem[b].serial = Empty =>
                                (b \in FreeBlocks <=> ~Pending("Finalize", b))
                      /\ \A i, j \in 1 .. Len(queue) :
                           queue[i].code = "Finalize" /\ queue[j] = queue[i] => i = j
    BY Zenon DEF FreedOnce
  <2>1. \A i, j \in 1 .. Len(pool) : pool[i] = pool[j] => i = j
    BY <1>1, Zenon DEF IInv, Distinct
  <2>2. QueueOK(queue) /\ DOMAIN queue = 1 .. Len(queue)
    BY <1>1, SMTT(60) DEF IInv, QueueOK
  <2>3. ASSUME NEW b \in Blocks
        PROVE  /\ mem[b].serial # Empty => b \notin FreeBlocks /\ ~Pending("Finalize", b)
               /\ mem[b].serial = Empty => (b \in FreeBlocks <=> ~Pending("Finalize", b))
    <3>1. Pending("Finalize", b) <=> Has(queue, "Finalize", b)
      BY <2>2, HasIsPending, Zenon
    <3>2. b \in FreeBlocks <=> InPool(b)
      BY Zenon DEF FreeBlocks, InPool, In
    <3> QED
      BY <1>1, <3>1, <3>2, Zenon DEF IInv, PlaceInv
  <2>4. \A i, j \in 1 .. Len(queue) : queue[i].code = "Finalize" /\ queue[j] = queue[i] => i = j
    BY <2>2, Zenon DEF QueueOK, Once
  <2> QED
    BY <2>1, <2>3, <2>4, Zenon
<1>2. IInv => FreedOnce
  BY <1>1, Zenon
<1> QED
  BY <1>2, InitInv, NextInv, PTL DEF Spec

----------------------------------------------------------------------------
(* The callbacks.  What a method does to a client that was called back in  *)
(* order so far.                                                           *)
LEMMA OrderClosed ==
  ASSUME NEW m \in Records, NEW n, OrderOK(m), m.serial # Empty, IsClosed(m, n)
  PROVE  OrderOK(n) /\ n.open = 0
<1>1. n.open = 0
  BY DEF OrderOK, IsClosed, CallsClosed
<1>2. ~n.late /\ ~n.told
  BY Zenon DEF OrderOK, IsClosed, CallsClosed, SameHandle
<1> QED
  BY <1>1, <1>2 DEF OrderOK

LEMMA OrderStarted ==
  ASSUME NEW m \in Records, NEW n, OrderOK(m), m.serial # Empty, m.open = 0, IsStarted(m, n)
  PROVE  OrderOK(n) /\ n.open = 0
<1>1. n.open = 0
  BY DEF IsStarted, CallsClosed, SameCalls
<1>2. ~n.late /\ ~n.told
  BY Zenon DEF OrderOK, IsStarted, CallsClosed, SameCalls, SameHandle
<1> QED
  BY <1>1, <1>2 DEF OrderOK

LEMMA OrderReconnected ==
  ASSUME NEW m \in Records, NEW n, OrderOK(m), m.serial # Empty, IsReconnected(m, n)
  PROVE  OrderOK(n) /\ n.open = 0
<1>1. m.state \in {"DISCONNECT", "RECONNECTING"} => m.open = 0
  BY Zenon DEF OrderOK
<1>2. CASE m.state = "DISCONNECT" /\ IsStarted(m, n)
  BY <1>1, <1>2, OrderStarted, Zenon
<1>3. CASE m.state = "RECONNECTING" /\ n = m
  BY <1>1, <1>3, Zenon
<1>4. CASE CallsClosed(m, n) /\ SameHandle(m, n)
  <2>1. n.open = 0
    BY <1>4 DEF OrderOK, CallsClosed
  <2>2. ~n.late /\ ~n.told
    BY <1>4, Zenon DEF OrderOK, CallsClosed, SameHandle
  <2> QED
    BY <2>1, <2>2 DEF OrderOK
<1> QED
  BY <1>2, <1>3, <1>4, Zenon DEF IsReconnected

LEMMA OrderDisconnected ==
  ASSUME NEW m \in Records, NEW n, OrderOK(m), m.serial # Empty, IsUp(m), IsDisconnected(m, n)
  PROVE  OrderOK(n) /\ n.open = 0
<1>1. ~m.up => m.open = 0
  BY Zenon DEF OrderOK, IsUp
<1>2. n.open = 0
  BY <1>1 DEF OrderOK, IsDisconnected, CallsClosed, SameCalls
<1>3. ~n.late /\ n.serial = Empty
  BY Zenon DEF OrderOK, IsDisconnected, CallsClosed, SameCalls
<1> QED
  BY <1>2, <1>3 DEF OrderOK

(* OnOpen alone leaves a session open, while packets are read.             *)
LEMMA OrderOnOpen ==
  ASSUME NEW m \in Records, NEW n, OrderOK(m), m.serial # Empty, m.state = "CONNECTING",
         IsOnOpen(m, n)
  PROVE  OrderOK(n)
<1>1. m.open = 0
  BY Zenon DEF OrderOK
<1>2. ~n.late /\ ~n.told
  BY Zenon DEF OrderOK, IsOnOpen, SameHandle
<1>3. n.open = 0 \/ (n.open = 1 /\ n.state = "CONNECTED")
  BY <1>1 DEF IsOnOpen
<1> QED
  BY <1>2, <1>3, Zenon DEF OrderOK

(* A step that is for one block keeps the order of the callbacks.          *)
LEMMA OrderStep ==
  ASSUME IInv, OrderInv, phase # "closed", broken = {}, NEW b \in Blocks, NEW n,
         mem' = [mem EXCEPT ![b] = n], OrderOK(n), QueueOK(queue'),
         \A o \in Elems(queue') : o.code = "DoReconnect" => o \in Elems(queue) \/ o.ptr = b,
         n.open = 0 \/ \A o \in Elems(queue') : o.code # "DoReconnect"
  PROVE  OrderInv'
<1>1. mem \in [Blocks -> Records]
  BY Types, Zenon DEF IInv
<1>2. mem'[b] = n /\ \A c \in Blocks : c # b => mem'[c] = mem[c]
  BY <1>1, Zenon
<1>3. \A c \in Blocks : OrderOK(mem'[c])
  BY <1>2, Zenon DEF OrderInv
<1>4. ASSUME NEW o \in Elems(queue'), o.code = "DoReconnect", mem'[o.ptr].serial = o.serial
      PROVE  mem'[o.ptr].open = 0
  <2>1. o.ptr \in Blocks
    BY <1>4, ElemFacts, Zenon
  <2>2. CASE o.ptr = b
    BY <1>2, <1>4, <2>2, Zenon
  <2>3. CASE o.ptr # b
    <3>1. o \in Elems(queue) /\ mem'[o.ptr] = mem[o.ptr]
      BY <1>2, <1>4, <2>1, <2>3, Zenon
    <3> QED
      BY <1>4, <3>1, ZenonT(60) DEF OrderInv
  <2> QED
    BY <2>2, <2>3, Zenon
<1>5. /\ \A c \in Blocks : OrderOK(mem'[c])
      /\ \A o \in Elems(queue') :
           o.code = "DoReconnect" /\ mem'[o.ptr].serial = o.serial => mem'[o.ptr].open = 0
  BY <1>3, <1>4, Zenon
<1> QED
  BY <1>5, Zenon DEF OrderInv

(* A step that changes no client, and queues no DoReconnect.               *)
LEMMA OrderSame ==
  ASSUME OrderInv, (phase # "closed" /\ broken = {}) \/ phase' = "closed" \/ broken' # {},
         mem' = mem, \A o \in Elems(queue') : o.code = "DoReconnect" => o \in Elems(queue)
  PROVE  OrderInv'
<1>1. CASE phase' = "closed" \/ broken' # {}
  BY <1>1, Zenon DEF OrderInv
<1>2. CASE phase # "closed" /\ broken = {}
  <2>1. /\ \A c \in Blocks : OrderOK(mem'[c])
        /\ \A o \in Elems(queue') :
             o.code = "DoReconnect" /\ mem'[o.ptr].serial = o.serial => mem'[o.ptr].open = 0
    BY <1>2, Zenon DEF OrderInv
  <2> QED
    BY <2>1, Zenon DEF OrderInv
<1> QED
  BY <1>1, <1>2, Zenon

LEMMA OrderDrain == ASSUME IInv, OrderInv, Drain, broken = {} PROVE OrderInv'
<1>1. PICK code \in Codes : Take(code) /\ Head(queue).code = code
  BY ZenonT(60) DEF Drain, Stale, TakeDisconnect, TakeReconnect, TakeReachability, TakeDoReconnect,
         TakeFinalize, Take, Codes
<1>2. PICK b \in Blocks : b = Head(queue).ptr
  BY <1>1, TakeFacts, Zenon
<1>3. /\ phase = "drain" /\ broken' = broken /\ QueueOK(Tail(queue))
      /\ Elems(Tail(queue)) \subseteq Elems(queue) /\ Head(queue) \in Elems(queue)
  BY <1>1, TakeFacts, Zenon
<1>4. mem[b] \in Records /\ OrderOK(mem[b]) /\ PlaceInv(b)
  BY <1>3, Types, Zenon DEF IInv, OrderInv
<1>5. ASSUME Current, code # "Finalize"
      PROVE  mem[b].serial # Empty /\ IsUp(mem[b]) /\ mem[b].state # "FINALIZED"
  BY <1>1, <1>2, <1>5, CurrentFacts, Zenon
<1>6. CASE Stale
  BY <1>3, <1>6, OrderSame, Zenon DEF Stale
<1>7. CASE TakeReconnect \/ TakeReachability
  <2>1. Current /\ code # "Finalize" /\ queue' = Tail(queue)
    BY <1>1, <1>7, Zenon DEF TakeReconnect, TakeReachability, Take
  <2>2. mem' = mem \/ \E n : mem' = [mem EXCEPT ![b] = n] /\ IsReconnected(mem[b], n)
    BY <1>2, <1>7, TakeReconnectFacts, Zenon
  <2>3. CASE mem' = mem
    BY <1>3, <2>1, <2>3, OrderSame, Zenon
  <2>4. ASSUME NEW n, mem' = [mem EXCEPT ![b] = n], IsReconnected(mem[b], n) PROVE OrderInv'
    <3>1. OrderOK(n) /\ n.open = 0
      BY <1>4, <1>5, <2>1, <2>4, OrderReconnected, Zenon
    <3> QED
      BY <1>3, <2>1, <2>4, <3>1, OrderStep, Zenon
  <2> QED
    BY <2>2, <2>3, <2>4, Zenon
<1>8. CASE TakeDoReconnect
  <2>1. Current /\ code = "DoReconnect" /\ queue' = Tail(queue)
    BY <1>1, <1>8, Zenon DEF TakeDoReconnect, Take
  <2>2. PICK n : mem' = [mem EXCEPT ![b] = n] /\ IsStarted(mem[b], n)
    BY <1>2, <1>8, TakeDoReconnectFacts, Zenon
  <2>3. mem[b].open = 0
    BY <1>1, <1>2, <1>3, <2>1, Zenon DEF OrderInv, Current
  <2>4. OrderOK(n) /\ n.open = 0
    BY <1>4, <1>5, <2>1, <2>2, <2>3, OrderStarted, Zenon
  <2> QED
    BY <1>3, <2>1, <2>2, <2>4, OrderStep, Zenon
<1>9. CASE TakeDisconnect
  <2>1. Current /\ code = "Disconnect"
    BY <1>1, <1>9, Zenon DEF TakeDisconnect, Take
  <2>2. PICK n : mem' = [mem EXCEPT ![b] = n] /\ IsDisconnected(mem[b], n)
    BY <1>2, <1>9, TakeDisconnectFacts, Zenon
  <2>3. /\ QueueOK(queue') /\ Elems(queue') = Elems(Tail(queue)) \cup {Op("Finalize", Empty, b)}
    BY <1>2, <1>9, TakeDisconnectQueue, Zenon
  <2>4. \A o \in Elems(queue') : o.code = "DoReconnect" => o \in Elems(queue)
    BY <1>3, <2>3, SMTT(60) DEF Op
  <2>5. OrderOK(n) /\ n.open = 0
    BY <1>4, <1>5, <2>1, <2>2, OrderDisconnected, Zenon
  <2> QED
    BY <1>3, <2>2, <2>3, <2>4, <2>5, OrderStep, Zenon
<1>10. CASE TakeFinalize
  <2>1. queue' = Tail(queue)
    BY <1>10, Zenon DEF TakeFinalize
  <2>2. mem[b].serial = Empty
    BY <1>2, <1>10, TakeFinalizeFacts, Zenon
  <2>3. PICK n : mem' = [mem EXCEPT ![b] = n] /\ IsDeleted(mem[b], n)
    BY <1>2, <1>10, TakeFinalizeFacts, Zenon
  <2>4. OrderOK(n) /\ n.open = 0
    BY <1>4, <2>2, <2>3, Zenon DEF OrderOK, PlaceInv, IsDeleted
  <2> QED
    BY <1>3, <2>1, <2>3, <2>4, OrderStep, Zenon
<1> QED
  BY <1>6, <1>7, <1>8, <1>9, <1>10, Zenon DEF Drain

LEMMA OrderPackets ==
  ASSUME IInv, OrderInv, broken = {}, NEW b \in Blocks, OnOpen(b) \/ ConnectionCloses(b)
  PROVE  OrderInv'
<1>1. /\ phase # "closed" /\ mem[b].up /\ queue' = queue
      /\ OnOpen(b) => phase = "packets" /\ mem[b].state = "CONNECTING"
  BY Zenon DEF OnOpen, ConnectionCloses
<1>2. /\ mem[b] \in Records /\ OrderOK(mem[b]) /\ mem[b].serial # Empty /\ QueueOK(queue')
  BY <1>1, Types, UpFacts, Zenon DEF IInv, OrderInv
<1>3. CASE ConnectionCloses(b)
  <2>1. PICK n : mem' = [mem EXCEPT ![b] = n] /\ IsClosed(mem[b], n)
    BY <1>3, ConnectionClosesFacts, Zenon
  <2>2. OrderOK(n) /\ n.open = 0
    BY <1>2, <2>1, OrderClosed, Zenon
  <2> QED
    BY <1>1, <1>2, <2>1, <2>2, OrderStep, Zenon
<1>4. CASE OnOpen(b)
  <2>1. PICK n : mem' = [mem EXCEPT ![b] = n] /\ IsOnOpen(mem[b], n)
    BY <1>4, OnOpenFacts, Zenon
  <2>2. OrderOK(n)
    BY <1>1, <1>2, <1>4, <2>1, OrderOnOpen, Zenon
  <2>3. ASSUME NEW o \in Elems(queue) PROVE o.code # "DoReconnect"
    <3>1. o.ptr \in Blocks
      BY <2>3, ElemFacts, Zenon DEF IInv
    <3>2. ~Has(queue, "DoReconnect", o.ptr)
      BY <1>1, <1>4, <3>1, Zenon DEF IInv, PhaseInv
    <3> QED
      BY <2>3, <3>2, Zenon DEF Has
  <2>4. \A o \in Elems(queue') : o.code # "DoReconnect"
    BY <1>1, <2>3, Zenon
  <2> QED
    BY <1>1, <1>2, <2>1, <2>2, <2>4, OrderStep, Zenon
<1> QED
  BY <1>3, <1>4, Zenon

(* A client that waits to reconnect has no open session.                   *)
LEMMA OrderFires ==
  ASSUME IInv, OrderInv, broken = {}, broken' = {}, NEW b \in Blocks, Fires(b)
  PROVE  OrderInv'
<1>1. phase # "closed" /\ mem[b].state = "RECONNECTING"
  BY Zenon DEF Fires, Asserted
<1>2. mem[b] \in Records /\ OrderOK(mem[b])
  BY <1>1, Types, Zenon DEF IInv, OrderInv
<1>3. PICK n : mem' = [mem EXCEPT ![b] = n] /\ IsFired(mem[b], n)
  BY Zenon DEF Fires
<1>4. n.open = 0 /\ n.late = mem[b].late /\ n.told = mem[b].told /\ n.serial = mem[b].serial
  BY <1>1, <1>2, <1>3, Zenon DEF OrderOK, IsFired, SameCalls, SameHandle
<1>5. OrderOK(n)
  BY <1>2, <1>4 DEF OrderOK
<1>6. /\ QueueOK(queue')
      /\ Elems(queue') = Elems(queue) \cup {Op("DoReconnect", mem[b].serial, b)}
  BY FiresFacts, Zenon
<1>7. \A o \in Elems(queue') : o.code = "DoReconnect" => o \in Elems(queue) \/ o.ptr = b
  BY <1>6 DEF Op
<1> QED
  BY <1>1, <1>3, <1>4, <1>5, <1>6, <1>7, OrderStep, Zenon

LEMMA OrderNext == ASSUME IInv, OrderInv, [Next]_vars PROVE OrderInv'
<1>1. broken \subseteq broken'
  BY Zenon DEF Next, vars, nq_conn_close, nq_conn_reset, nq_conn_reachability_change, Invoke,
         Drain, Stale, TakeDisconnect, TakeReconnect, TakeReachability, TakeDoReconnect,
         TakeFinalize, Take, Create, OnOpen, ConnectionCloses, OnFire, OnFireLeftover,
         Asserted, NextPhase, Close
<1>2. CASE broken' # {}
  BY <1>2, Zenon DEF OrderInv
<1>3. CASE broken' = {}
  <2>1. broken = {}
    BY <1>1, <1>3, Zenon
  <2>2. CASE \E n \in Serials :
               nq_conn_close(n) \/ nq_conn_reset(n) \/ nq_conn_reachability_change(n)
    <3>1. PICK n \in Serials, code \in {"Disconnect", "Reconnect", "Reachability"} :
            Invoke(code, n) /\ closing' \subseteq Serials
      BY <2>2, Types, Zenon DEF nq_conn_close, nq_conn_reset, nq_conn_reachability_change,
         IInv, Typed
    <3>2. /\ Elems(queue') = Elems(queue) \cup {Op(code, n, block[n])}
          /\ mem' = mem /\ phase # "closed"
      BY <3>1, InvokeFacts, Zenon
    <3>3. \A o \in Elems(queue') : o.code = "DoReconnect" => o \in Elems(queue)
      BY <3>2, SMTT(60) DEF Op
    <3> QED
      BY <2>1, <3>2, <3>3, OrderSame, Zenon
  <2>3. CASE Drain
    BY <2>1, <2>3, OrderDrain, Zenon
  <2>4. CASE Create
    <3>1. PICK b \in Blocks : \E n : mem' = [mem EXCEPT ![b] = n] /\ IsCreated(mem[b], n, made + 1)
      BY <2>4, CreateFacts, Zenon
    <3>2. PICK n : mem' = [mem EXCEPT ![b] = n] /\ IsCreated(mem[b], n, made + 1)
      BY <3>1, Zenon
    <3>3. OrderOK(n) /\ n.open = 0
      BY <3>2 DEF IsCreated, OrderOK
    <3>4. phase # "closed" /\ queue' = queue /\ QueueOK(queue')
      BY <2>4, Zenon DEF Create, IInv
    <3> QED
      BY <2>1, <3>2, <3>3, <3>4, OrderStep, Zenon
  <2>5. ASSUME NEW b \in Blocks, OnOpen(b) \/ ConnectionCloses(b) PROVE OrderInv'
    BY <2>1, <2>5, OrderPackets, Zenon
  <2>6. ASSUME NEW b \in Blocks, OnFire(b) \/ OnFireLeftover(b) PROVE OrderInv'
    <3>1. mem[b].serial = Empty => ~OnFireLeftover(b)
      BY <1>3, Zenon DEF OnFireLeftover
    <3>2. Fires(b)
      BY <2>6, <3>1, OnFireFires, OnFireLeftoverFires, Zenon
    <3> QED
      BY <1>3, <2>1, <3>2, OrderFires, Zenon
  <2>7. CASE NextPhase \/ UNCHANGED vars
    <3>1. mem' = mem /\ queue' = queue /\ (phase # "closed" \/ phase' = "closed")
      BY <2>7, Zenon DEF NextPhase, vars
    <3> QED
      BY <2>1, <3>1, OrderSame, Zenon
  <2>8. CASE Close
    BY <2>8, Zenon DEF Close, OrderInv
  <2> QED
    BY <2>2, <2>3, <2>4, <2>5, <2>6, <2>7, <2>8, Zenon DEF Next
<1> QED
  BY <1>2, <1>3, Zenon

LEMMA OrderInit == ASSUME Init PROVE OrderInv
<1>1. queue = << >> /\ Elems(queue) = {}
  BY DEF Init, Elems
<1>2. \A b \in Blocks : mem[b] = Fresh(Empty, 0)
  BY Zenon DEF Init
<1>3. OrderOK(Fresh(Empty, 0))
  BY DEF OrderOK, Fresh
<1> QED
  BY <1>1, <1>2, <1>3, Zenon DEF OrderInv

(* Every on_open is answered by on_close before the next on_open and       *)
(* before on_finalize, and nothing is called after it, until the loop      *)
(* closes or an alarm left behind fires.                                   *)
THEOREM CallbackOrder == Spec => []CallbacksInOrder
<1>1. Init => IInv /\ OrderInv
  BY InitInv, OrderInit, Zenon
<1>2. IInv /\ OrderInv /\ [Next]_vars => (IInv /\ OrderInv)'
  BY NextInv, OrderNext, Zenon
<1>3. IInv /\ OrderInv => CallbacksInOrder
  <2> SUFFICES ASSUME IInv, OrderInv, phase # "closed", broken = {}, NEW b \in Blocks
               PROVE  /\ mem[b].open <= 1 /\ ~mem[b].late
                      /\ mem[b].told => mem[b].open = 0
    BY Zenon DEF CallbacksInOrder
  <2>1. OrderOK(mem[b]) /\ PlaceInv(b)
    BY Zenon DEF OrderInv, IInv
  <2>2. mem[b].open \in {0, 1} /\ ~mem[b].late
    BY <2>1, Zenon DEF OrderOK
  <2>3. mem[b].open = 1 => mem[b].serial # Empty
    BY <2>1, Zenon DEF OrderOK, PlaceInv
  <2>4. mem[b].serial # Empty => ~mem[b].told
    BY <2>1, Zenon DEF OrderOK
  <2> QED
    BY <2>2, <2>3, <2>4
<1> QED
  BY <1>1, <1>2, <1>3, PTL DEF Spec

----------------------------------------------------------------------------
(* The alarm and DoReconnect, as each method leaves them.                  *)
LEMMA TimerQuiet ==
  ASSUME NEW m, NEW p, TimerOK(m, p), m.state # "RECONNECTING"
  PROVE  ~m.ts /\ ~m.entry /\ ~p /\ m.orphans = 0
BY Zenon DEF TimerOK

LEMMA TimerSet ==
  ASSUME NEW m, NEW n, NEW p, m.orphans = 0, ~p, Keeps(m, n),
         n.state = "RECONNECTING" /\ n.ts = TRUE /\ n.entry = TRUE
  PROVE  TimerOK(n, p)
BY Zenon DEF TimerOK, Keeps

LEMMA TimerUnset ==
  ASSUME NEW m, NEW n, NEW p, m.orphans = 0, ~p, Keeps(m, n), ~m.ts, ~m.entry,
         SameTimer(m, n), n.state # "RECONNECTING"
  PROVE  TimerOK(n, p)
<1>1. ~n.ts /\ ~n.entry /\ n.orphans = 0
  BY Zenon DEF Keeps, SameTimer
<1> QED
  BY <1>1, Zenon DEF TimerOK

LEMMA TimerClosed ==
  ASSUME NEW m, NEW n, NEW p, TimerOK(m, p), m.state # "RECONNECTING", IsClosed(m, n)
  PROVE  TimerOK(n, p)
<1>1. ~m.ts /\ ~m.entry /\ ~p /\ m.orphans = 0 /\ Keeps(m, n)
  BY TimerQuiet, Zenon DEF IsClosed
<1>2. CASE n.state = "RECONNECTING" /\ n.ts = TRUE /\ n.entry = TRUE
  BY <1>1, <1>2, Zenon DEF TimerOK, Keeps
<1>3. CASE n.state = "DISCONNECT" /\ SameTimer(m, n)
  BY <1>1, <1>3, TimerUnset
<1> QED
  BY <1>2, <1>3, Zenon DEF IsClosed

(* DoReconnect is carried out: it is not queued any more.                  *)
LEMMA TimerStarted ==
  ASSUME NEW m, NEW n, ~m.ts, ~m.entry, m.orphans = 0, IsStarted(m, n)
  PROVE  TimerOK(n, FALSE)
<1>1. CASE n.state = "RECONNECTING" /\ n.ts = TRUE /\ n.entry = TRUE
  BY <1>1, TimerSet, Zenon DEF IsStarted
<1>2. CASE n.state \in {"CONNECTING", "DISCONNECT"} /\ SameTimer(m, n)
  BY <1>2, TimerUnset, Zenon DEF IsStarted
<1> QED
  BY <1>1, <1>2, Zenon DEF IsStarted

LEMMA TimerReconnected ==
  ASSUME NEW m, NEW n, NEW p, TimerOK(m, p), p \in BOOLEAN, IsUp(m), IsReconnected(m, n)
  PROVE  TimerOK(n, p)
<1>1. CASE m.up /\ Keeps(m, n) /\ n.state = "RECONNECTING" /\ n.ts = TRUE /\ n.entry = TRUE
  <2>1. m.state # "RECONNECTING"
    BY <1>1, Zenon DEF IsUp
  <2>2. ~p /\ m.orphans = 0
    BY <2>1, TimerQuiet, Zenon
  <2> QED
    BY <1>1, <2>2, TimerSet, Zenon
<1>2. CASE m.state = "DISCONNECT" /\ IsStarted(m, n)
  <2>1. ~m.ts /\ ~m.entry /\ ~p /\ m.orphans = 0
    BY <1>2, TimerQuiet, Zenon
  <2>2. p = FALSE
    BY <2>1, Zenon
  <2> QED
    BY <1>2, <2>1, <2>2, TimerStarted, Zenon
<1>3. CASE n = m
  BY <1>3, Zenon
<1> QED
  BY <1>1, <1>2, <1>3, Zenon DEF IsReconnected

LEMMA TimerOnOpen ==
  ASSUME NEW m, NEW n, NEW p, TimerOK(m, p), m.state = "CONNECTING", IsOnOpen(m, n)
  PROVE  TimerOK(n, p)
<1>1. ~m.ts /\ ~m.entry /\ ~p /\ m.orphans = 0 /\ Keeps(m, n)
  BY TimerQuiet, Zenon DEF IsOnOpen
<1>2. CASE n.state = "RECONNECTING" /\ n.ts = TRUE /\ n.entry = TRUE
  BY <1>1, <1>2, Zenon DEF TimerOK, Keeps
<1>3. CASE n.state \in {"CONNECTED", "DISCONNECT"} /\ SameTimer(m, n)
  BY <1>1, <1>3, TimerUnset
<1> QED
  BY <1>2, <1>3, Zenon DEF IsOnOpen

(* A step that is for one block keeps the alarms in step.                  *)
LEMMA TimerStep ==
  ASSUME IInv, TimerInv, closing = {}, phase # "closed", broken' = {}, NEW b \in Blocks, NEW n,
         mem' = [mem EXCEPT ![b] = n], QueueOK(queue'), Once(queue', "DoReconnect"),
         \A o \in Elems(queue') :
           o \in Elems(queue) \/ (o.code = "DoReconnect" /\ o.ptr = b /\ o.serial = n.serial),
         n.serial = mem[b].serial \/ ~Has(queue', "DoReconnect", b),
         \A c \in Blocks :
           c # b => (Has(queue', "DoReconnect", c) <=> Has(queue, "DoReconnect", c)),
         TimerOK(n, Has(queue', "DoReconnect", b))
  PROVE  TimerInv'
<1>1. mem \in [Blocks -> Records]
  BY Types, Zenon DEF IInv
<1>2. mem'[b] = n /\ \A c \in Blocks : c # b => mem'[c] = mem[c]
  BY <1>1, Zenon
<1>3. ASSUME NEW c \in Blocks PROVE TimerOK(mem'[c], Has(queue', "DoReconnect", c))
  <2>1. CASE c = b
    BY <1>2, <2>1, ZenonT(60)
  <2>2. CASE c # b
    <3>1. mem'[c] = mem[c] /\ (Has(queue', "DoReconnect", c) <=> Has(queue, "DoReconnect", c))
      BY <1>2, <2>2, Zenon
    <3>2. TimerOK(mem[c], Has(queue, "DoReconnect", c))
      BY Zenon DEF TimerInv
    <3> QED
      BY <3>1, <3>2, Zenon DEF TimerOK
  <2> QED
    BY <2>1, <2>2, Zenon
<1>4. ASSUME NEW o \in Elems(queue')
      PROVE  /\ o.code \notin {"Disconnect", "Finalize"}
             /\ o.code = "DoReconnect" => mem'[o.ptr].serial = o.serial
  <2>1. o.ptr \in Blocks
    BY <1>4, ElemFacts, Zenon
  <2>2. CASE o.code = "DoReconnect" /\ o.ptr = b /\ o.serial = n.serial
    BY <1>2, <2>2, Zenon
  <2>3. CASE o \in Elems(queue)
    <3>1. /\ o.code \notin {"Disconnect", "Finalize"}
          /\ o.code = "DoReconnect" => mem[o.ptr].serial = o.serial
      BY <2>3, ZenonT(60) DEF TimerInv
    <3>2. o.code = "DoReconnect" /\ o.ptr = b => Has(queue', "DoReconnect", b)
      BY <1>4, Zenon DEF Has
    <3> QED
      BY <1>2, <2>1, <3>1, <3>2, Zenon
  <2> QED
    BY <1>4, <2>2, <2>3, Zenon
<1>5. /\ broken' = {} /\ Once(queue', "DoReconnect")
      /\ \A o \in Elems(queue') :
           /\ o.code \notin {"Disconnect", "Finalize"}
           /\ o.code = "DoReconnect" => mem'[o.ptr].serial = o.serial
      /\ \A c \in Blocks : TimerOK(mem'[c], Has(queue', "DoReconnect", c))
  BY <1>3, <1>4, Zenon
<1> QED
  BY <1>5, Zenon DEF TimerInv

(* A step of one block that leaves the queue as it is.                     *)
LEMMA TimerMethod ==
  ASSUME IInv, TimerInv, closing = {}, phase # "closed", NEW b \in Blocks, NEW n,
         mem' = [mem EXCEPT ![b] = n], UNCHANGED <<queue, broken>>, n.serial = mem[b].serial,
         TimerOK(n, Has(queue, "DoReconnect", b))
  PROVE  TimerInv'
<1>1. broken' = {} /\ QueueOK(queue') /\ Once(queue', "DoReconnect")
  BY ZenonT(60) DEF TimerInv, IInv
<1>2. \A c \in Blocks : Has(queue', "DoReconnect", c) <=> Has(queue, "DoReconnect", c)
  BY Zenon
<1>3. TimerOK(n, Has(queue', "DoReconnect", b))
  BY Zenon
<1> QED
  BY <1>1, <1>2, <1>3, TimerStep, Zenon

(* A step that changes no client and none of the DoReconnect queued.       *)
LEMMA TimerSame ==
  ASSUME TimerInv, closing = {}, phase # "closed", UNCHANGED <<mem, broken>>,
         Once(queue', "DoReconnect"),
         \A o \in Elems(queue') : o \in Elems(queue) \/ o.code \in {"Reconnect", "Reachability"},
         \A c \in Blocks : Has(queue', "DoReconnect", c) <=> Has(queue, "DoReconnect", c)
  PROVE  TimerInv'
<1>1. broken' = {}
  BY ZenonT(60) DEF TimerInv
<1>2. ASSUME NEW c \in Blocks PROVE TimerOK(mem'[c], Has(queue', "DoReconnect", c))
  <2>1. TimerOK(mem[c], Has(queue, "DoReconnect", c))
    BY Zenon DEF TimerInv
  <2> QED
    BY <2>1, Zenon DEF TimerOK
<1>3. \A o \in Elems(queue') :
        /\ o.code \notin {"Disconnect", "Finalize"}
        /\ o.code = "DoReconnect" => mem'[o.ptr].serial = o.serial
  BY Zenon DEF TimerInv
<1> QED
  BY <1>1, <1>2, <1>3, Zenon DEF TimerInv

LEMMA TimerDrain == ASSUME IInv, TimerInv, Drain, closing = {} PROVE TimerInv'
<1>1. PICK code \in Codes : Take(code) /\ Head(queue).code = code
  BY ZenonT(60) DEF Drain, Stale, TakeDisconnect, TakeReconnect, TakeReachability, TakeDoReconnect,
         TakeFinalize, Take, Codes
<1>2. PICK b \in Blocks : b = Head(queue).ptr
  BY <1>1, TakeFacts, Zenon
<1>3. /\ phase = "drain" /\ broken' = broken /\ QueueOK(Tail(queue))
      /\ Elems(Tail(queue)) \subseteq Elems(queue) /\ Head(queue) \in Elems(queue)
  BY <1>1, TakeFacts, Zenon
<1>4. \A c \in Blocks : /\ Has(Tail(queue), "DoReconnect", c) => Has(queue, "DoReconnect", c)
                        /\ Has(queue, "DoReconnect", c) => \/ Has(Tail(queue), "DoReconnect", c)
                                                           \/ code = "DoReconnect" /\ b = c
  BY <1>1, <1>2, TakeFacts, Zenon
<1>5. /\ broken = {} /\ code \notin {"Disconnect", "Finalize"}
      /\ code = "DoReconnect" => Current
      /\ TimerOK(mem[b], Has(queue, "DoReconnect", b))
  BY <1>1, <1>2, <1>3, Zenon DEF TimerInv, Current
<1>6. /\ Once(Tail(queue), "DoReconnect")
      /\ code = "DoReconnect" => ~Has(Tail(queue), "DoReconnect", b)
  <2>1. queue \in Seq(Ops) /\ queue # << >> /\ Once(queue, "DoReconnect")
    BY <1>1, <1>3, ZenonT(60) DEF IInv, QueueOK, Take, TimerInv
  <2> QED
    BY <1>1, <1>2, <2>1, OnceTaken, ZenonT(60)
<1>7. CASE Stale
  <2>1. code # "DoReconnect" /\ queue' = Tail(queue) /\ mem' = mem
    BY <1>5, <1>7, ZenonT(60) DEF Stale
  <2>2. \A c \in Blocks : Has(queue', "DoReconnect", c) <=> Has(queue, "DoReconnect", c)
    BY <1>4, <2>1, Zenon
  <2> QED
    BY <1>3, <1>6, <2>1, <2>2, TimerSame, ZenonT(60)
<1>8. CASE TakeReconnect \/ TakeReachability
  <2>1. Current /\ code \notin {"Finalize", "DoReconnect"} /\ queue' = Tail(queue)
    BY <1>1, <1>8, Zenon DEF TakeReconnect, TakeReachability, Take
  <2>2. \A c \in Blocks : Has(queue', "DoReconnect", c) <=> Has(queue, "DoReconnect", c)
    BY <1>4, <2>1, Zenon
  <2>3. mem' = mem \/ \E n : mem' = [mem EXCEPT ![b] = n] /\ IsReconnected(mem[b], n)
    BY <1>2, <1>8, TakeReconnectFacts, Zenon
  <2>4. CASE mem' = mem
    BY <1>3, <1>6, <2>1, <2>2, <2>4, TimerSame, ZenonT(60)
  <2>5. ASSUME NEW n, mem' = [mem EXCEPT ![b] = n], IsReconnected(mem[b], n) PROVE TimerInv'
    <3>1. IsUp(mem[b])
      BY <1>1, <1>2, <2>1, CurrentFacts, ZenonT(60)
    <3>2. Has(queue, "DoReconnect", b) \in BOOLEAN
      BY ZenonT(60) DEF Has
    <3>3. TimerOK(n, Has(queue, "DoReconnect", b))
      BY <1>5, <2>5, <3>1, <3>2, TimerReconnected, Zenon
    <3>4. TimerOK(n, Has(queue', "DoReconnect", b))
      BY <2>2, <3>3, ZenonT(60) DEF TimerOK
    <3>5. n.serial = mem[b].serial
      BY <2>5, Zenon DEF IsReconnected, IsStarted, SameHandle
    <3> QED
      BY <1>3, <1>5, <1>6, <2>1, <2>2, <2>5, <3>4, <3>5, TimerStep, Zenon
  <2> QED
    BY <2>3, <2>4, <2>5, Zenon
<1>9. CASE TakeDoReconnect
  <2>1. code = "DoReconnect" /\ queue' = Tail(queue)
    BY <1>1, <1>9, ZenonT(60) DEF TakeDoReconnect, Take
  <2>2. PICK n : mem' = [mem EXCEPT ![b] = n] /\ IsStarted(mem[b], n)
    BY <1>2, <1>9, TakeDoReconnectFacts, Zenon
  <2>3. Has(queue, "DoReconnect", b)
    BY <1>1, <1>2, <2>1, TakeFacts, ZenonT(60)
  <2>4. ~mem[b].ts /\ ~mem[b].entry /\ mem[b].orphans = 0
    BY <1>5, <2>3, ZenonT(60) DEF TimerOK
  <2>5. TimerOK(n, FALSE)
    BY <2>2, <2>4, TimerStarted, ZenonT(60)
  <2>6. TimerOK(n, Has(queue', "DoReconnect", b))
    BY <1>6, <2>1, <2>5, ZenonT(60) DEF TimerOK
  <2>7. \A c \in Blocks : c # b => (Has(queue', "DoReconnect", c) <=> Has(queue, "DoReconnect", c))
    BY <1>4, <2>1, Zenon
  <2>8. n.serial = mem[b].serial
    BY <2>2, ZenonT(60) DEF IsStarted, SameHandle
  <2> QED
    BY <1>3, <1>5, <1>6, <2>1, <2>2, <2>6, <2>7, <2>8, TimerStep, Zenon
<1>10. ~TakeDisconnect /\ ~TakeFinalize
  BY <1>1, <1>5, Zenon DEF TakeDisconnect, TakeFinalize, Take
<1> QED
  BY <1>7, <1>8, <1>9, <1>10, Zenon DEF Drain

LEMMA TimerPackets ==
  ASSUME IInv, TimerInv, closing = {}, NEW b \in Blocks, OnOpen(b) \/ ConnectionCloses(b)
  PROVE  TimerInv'
<1>1. /\ phase # "closed" /\ mem[b].up /\ UNCHANGED <<queue, broken>>
      /\ OnOpen(b) => mem[b].state = "CONNECTING"
  BY Zenon DEF OnOpen, ConnectionCloses
<1>2. mem[b].state # "RECONNECTING" /\ TimerOK(mem[b], Has(queue, "DoReconnect", b))
  BY <1>1, UpFacts, Zenon DEF TimerInv
<1>3. CASE ConnectionCloses(b)
  <2>1. PICK n : mem' = [mem EXCEPT ![b] = n] /\ IsClosed(mem[b], n)
    BY <1>3, ConnectionClosesFacts, Zenon
  <2>2. TimerOK(n, Has(queue, "DoReconnect", b))
    BY <1>2, <2>1, TimerClosed, Zenon
  <2>3. n.serial = mem[b].serial
    BY <2>1, ZenonT(60) DEF IsClosed, SameHandle
  <2> QED
    BY <1>1, <2>1, <2>2, <2>3, TimerMethod, Zenon
<1>4. CASE OnOpen(b)
  <2>1. PICK n : mem' = [mem EXCEPT ![b] = n] /\ IsOnOpen(mem[b], n)
    BY <1>4, OnOpenFacts, Zenon
  <2>2. TimerOK(n, Has(queue, "DoReconnect", b))
    BY <1>1, <1>2, <1>4, <2>1, TimerOnOpen, Zenon
  <2>3. n.serial = mem[b].serial
    BY <2>1, ZenonT(60) DEF IsOnOpen, SameHandle
  <2> QED
    BY <1>1, <2>1, <2>2, <2>3, TimerMethod, Zenon
<1> QED
  BY <1>3, <1>4, Zenon

(* The alarm of a client that waits to reconnect; there is no other.       *)
LEMMA TimerFires ==
  ASSUME IInv, TimerInv, closing = {}, NEW b \in Blocks, OnFire(b)
  PROVE  TimerInv'
<1>1. phase # "closed" /\ mem[b].entry
  BY ZenonT(60) DEF OnFire
<1>2. /\ TimerOK(mem[b], Has(queue, "DoReconnect", b)) /\ broken = {}
      /\ Once(queue, "DoReconnect")
  BY <1>1, Zenon DEF TimerInv
<1>3. /\ mem[b].state = "RECONNECTING" /\ ~Has(queue, "DoReconnect", b)
      /\ mem[b].orphans = 0
  BY <1>1, <1>2, Zenon DEF TimerOK
<1>4. Fires(b) /\ \E n : /\ mem' = [mem EXCEPT ![b] = n] /\ IsFired(mem[b], n)
                         /\ n.orphans = mem[b].orphans
  BY OnFireFires, Zenon
<1>5. PICK n : /\ mem' = [mem EXCEPT ![b] = n] /\ IsFired(mem[b], n)
               /\ n.orphans = mem[b].orphans
  BY <1>4, ZenonT(60)
<1>6. broken' = {} /\ queue' = Append(queue, Op("DoReconnect", mem[b].serial, b))
  BY <1>2, <1>3, <1>4, Zenon DEF Fires, Asserted
<1>7. /\ QueueOK(queue') /\ Op("DoReconnect", mem[b].serial, b) \in Ops
      /\ Elems(queue') = Elems(queue) \cup {Op("DoReconnect", mem[b].serial, b)}
      /\ \A a \in Blocks :
           Has(queue', "DoReconnect", a) <=> Has(queue, "DoReconnect", a) \/ a = b
  BY <1>4, FiresFacts, ZenonT(60)
<1>8. n.serial = mem[b].serial
  BY <1>5, Zenon DEF IsFired, SameHandle
<1>9. Once(queue', "DoReconnect")
  <2>1. queue \in Seq(Ops)
    BY ZenonT(60) DEF IInv, QueueOK
  <2>2. Op("DoReconnect", mem[b].serial, b).ptr = b
    BY Zenon DEF Op
  <2> QED
    BY <1>2, <1>3, <1>6, <1>7, <2>1, <2>2, OnceAppended, ZenonT(60)
<1>10. \A o \in Elems(queue') :
         o \in Elems(queue) \/ (o.code = "DoReconnect" /\ o.ptr = b /\ o.serial = n.serial)
  BY <1>7, <1>8 DEF Op
<1>11. ~n.ts /\ ~n.entry /\ n.state = "RECONNECTING" /\ n.orphans = 0
  BY <1>3, <1>5, Zenon DEF IsFired
<1>12. Has(queue', "DoReconnect", b)
  BY <1>7, Zenon
<1>13. TimerOK(n, Has(queue', "DoReconnect", b))
  BY <1>11, <1>12, Zenon DEF TimerOK
<1>14. \A c \in Blocks : c # b => (Has(queue', "DoReconnect", c) <=> Has(queue, "DoReconnect", c))
  BY <1>7, Zenon
<1>15. phase # "closed" /\ broken' = {} /\ QueueOK(queue') /\ mem' = [mem EXCEPT ![b] = n]
  BY <1>1, <1>5, <1>6, <1>7, Zenon
<1> QED
  BY <1>8, <1>9, <1>10, <1>13, <1>14, <1>15, TimerStep, ZenonT(60)

LEMMA TimerCreate == ASSUME IInv, TimerInv, closing = {}, Create PROVE TimerInv'
<1>1. phase = "resolve" /\ UNCHANGED <<queue, broken>>
  BY Zenon DEF Create
<1>2. PICK b \in Blocks : \E n : mem' = [mem EXCEPT ![b] = n] /\ IsCreated(mem[b], n, made + 1)
  BY CreateFacts, Zenon
<1>3. PICK n : mem' = [mem EXCEPT ![b] = n] /\ IsCreated(mem[b], n, made + 1)
  BY <1>2, ZenonT(60)
<1>4. ~Has(queue, "DoReconnect", b)
  BY <1>1, Zenon DEF IInv, PhaseInv
<1>5. TimerOK(mem[b], Has(queue, "DoReconnect", b)) /\ broken = {} /\ Once(queue, "DoReconnect")
  BY <1>1, Zenon DEF TimerInv
<1>6. n.orphans = 0
  BY <1>3, <1>5, Zenon DEF IsCreated, TimerOK
<1>7. TimerOK(n, Has(queue, "DoReconnect", b))
  BY <1>3, <1>4, <1>6, Zenon DEF IsCreated, TimerOK
<1>8. /\ broken' = {} /\ QueueOK(queue') /\ Once(queue', "DoReconnect")
      /\ ~Has(queue', "DoReconnect", b) /\ TimerOK(n, Has(queue', "DoReconnect", b))
      /\ \A c \in Blocks : Has(queue', "DoReconnect", c) <=> Has(queue, "DoReconnect", c)
      /\ Elems(queue') = Elems(queue)
  BY <1>1, <1>4, <1>5, <1>7, ZenonT(60) DEF IInv
<1> QED
  BY <1>1, <1>3, <1>8, TimerStep, ZenonT(60)

(* nq_conn_reset and a change of reachability queue no DoReconnect.        *)
LEMMA TimerInvoke ==
  ASSUME IInv, TimerInv, closing = {}, NEW n \in Serials,
         nq_conn_reset(n) \/ nq_conn_reachability_change(n)
  PROVE  TimerInv'
<1>1. PICK code \in {"Reconnect", "Reachability"} : Invoke(code, n) /\ closing' \subseteq Serials
  BY Zenon DEF nq_conn_reset, nq_conn_reachability_change
<1>2. /\ Elems(queue') = Elems(queue) \cup {Op(code, n, block[n])}
      /\ block[n] \in Blocks /\ phase # "closed" /\ UNCHANGED <<mem, broken>>
      /\ \A b \in Blocks : Has(queue', "DoReconnect", b) <=> Has(queue, "DoReconnect", b)
  BY <1>1, InvokeFacts, Zenon
<1>3. \A o \in Elems(queue') : o \in Elems(queue) \/ o.code \in {"Reconnect", "Reachability"}
  BY <1>2, SMTT(60) DEF Op
<1>4. Once(queue', "DoReconnect")
  <2>1. queue \in Seq(Ops) /\ Once(queue, "DoReconnect")
    BY <1>2, ZenonT(60) DEF IInv, QueueOK, TimerInv
  <2>2. Op(code, n, block[n]) \in Ops /\ Op(code, n, block[n]).code # "DoReconnect"
    BY <1>2, Zenon DEF Op, Ops, Codes
  <2>3. queue' = Append(queue, Op(code, n, block[n]))
    BY <1>1, Zenon DEF Invoke
  <2> QED
    BY <2>1, <2>2, <2>3, OnceAppended, Zenon
<1> QED
  BY <1>2, <1>3, <1>4, TimerSame, ZenonT(60)

LEMMA TimerNext == ASSUME IInv, TimerInv, [Next]_vars PROVE TimerInv'
<1>1. closing \subseteq closing'
  BY ZenonT(60) DEF Next, vars, nq_conn_close, nq_conn_reset, nq_conn_reachability_change, Invoke,
         Drain, Stale, TakeDisconnect, TakeReconnect, TakeReachability, TakeDoReconnect,
         TakeFinalize, Take, Create, OnOpen, ConnectionCloses, OnFire, OnFireLeftover,
         NextPhase, Close
<1>2. CASE closing' # {}
  BY <1>2, Zenon DEF TimerInv
<1>3. CASE closing' = {}
  <2>1. closing = {}
    BY <1>1, <1>3, ZenonT(60)
  <2>2. ASSUME NEW n \in Serials,
               nq_conn_close(n) \/ nq_conn_reset(n) \/ nq_conn_reachability_change(n)
        PROVE  TimerInv'
    BY <1>3, <2>1, <2>2, TimerInvoke, Zenon DEF nq_conn_close
  <2>3. CASE Drain
    BY <2>1, <2>3, TimerDrain, Zenon
  <2>4. CASE Create
    BY <2>1, <2>4, TimerCreate, Zenon
  <2>5. ASSUME NEW b \in Blocks, OnOpen(b) \/ ConnectionCloses(b) PROVE TimerInv'
    BY <2>1, <2>5, TimerPackets, Zenon
  <2>6. ASSUME NEW b \in Blocks, OnFire(b) \/ OnFireLeftover(b) PROVE TimerInv'
    <3>1. ~OnFireLeftover(b)
      BY <2>1, SMTT(60) DEF OnFireLeftover, TimerInv, TimerOK
    <3> QED
      BY <2>1, <2>6, <3>1, TimerFires, Zenon
  <2>7. CASE NextPhase \/ UNCHANGED vars
    <3>1. UNCHANGED <<mem, queue, broken>> /\ (phase = "closed" => phase' = "closed")
      BY <2>7, Zenon DEF NextPhase, vars
    <3>2. CASE phase = "closed"
      BY <3>1, <3>2, Zenon DEF TimerInv
    <3>3. CASE phase # "closed"
      <4>1. Once(queue', "DoReconnect")
        BY <2>1, <3>1, <3>3, ZenonT(60) DEF TimerInv
      <4> QED
        BY <2>1, <3>1, <3>3, <4>1, TimerSame, Zenon
    <3> QED
      BY <3>2, <3>3, Zenon
  <2>8. CASE Close
    BY <2>8, Zenon DEF Close, TimerInv
  <2> QED
    BY <2>2, <2>3, <2>4, <2>5, <2>6, <2>7, <2>8, Zenon DEF Next
<1> QED
  BY <1>2, <1>3, Zenon

LEMMA TimerInit == ASSUME Init PROVE TimerInv
<1>1. queue = << >> /\ Elems(queue) = {} /\ broken = {}
  BY DEF Init, Elems
<1>2. \A b \in Blocks : mem[b] = Fresh(Empty, 0) /\ ~Has(queue, "DoReconnect", b)
  BY <1>1, Zenon DEF Init, Has
<1>3. ASSUME NEW b \in Blocks PROVE TimerOK(mem[b], Has(queue, "DoReconnect", b))
  <2>1. TimerOK(Fresh(Empty, 0), FALSE)
    BY Zenon DEF TimerOK, Fresh
  <2>2. mem[b] = Fresh(Empty, 0) /\ ~Has(queue, "DoReconnect", b)
    BY <1>2, Zenon
  <2> QED
    BY <2>1, <2>2, Zenon DEF TimerOK
<1>4. Once(queue, "DoReconnect")
  BY <1>1, SMTT(60) DEF Once
<1> QED
  BY <1>1, <1>3, <1>4, Zenon DEF TimerInv

(* While no connection is closed for good, the alarm_map_, invocation_ts_  *)
(* and connect_state_ agree, and what OnFire asserts holds: an alarm and   *)
(* the DoReconnect it queues are never both pending.                       *)
THEOREM TimersAgree == Spec => []TimerInStep
<1>1. Init => IInv /\ TimerInv
  BY InitInv, TimerInit, Zenon
<1>2. IInv /\ TimerInv /\ [Next]_vars => (IInv /\ TimerInv)'
  BY NextInv, TimerNext, Zenon
<1>3. IInv /\ TimerInv => TimerInStep
  <2> SUFFICES ASSUME IInv, TimerInv, phase # "closed", closing = {}
               PROVE  /\ broken = {}
                      /\ \A b \in Blocks :
                           /\ mem[b].orphans = 0
                           /\ mem[b].entry <=> mem[b].ts
                           /\ (mem[b].state = "RECONNECTING") <=>
                                (mem[b].ts \/ Pending("DoReconnect", b))
    BY Zenon DEF TimerInStep
  <2>1. ASSUME NEW b \in Blocks
        PROVE  /\ mem[b].orphans = 0
               /\ mem[b].entry <=> mem[b].ts
               /\ (mem[b].state = "RECONNECTING") <=> (mem[b].ts \/ Pending("DoReconnect", b))
    <3>1. TimerOK(mem[b], Has(queue, "DoReconnect", b))
      BY Zenon DEF TimerInv
    <3>2. Pending("DoReconnect", b) <=> Has(queue, "DoReconnect", b)
      BY HasIsPending, Zenon DEF IInv
    <3> QED
      BY <3>1, <3>2, Zenon DEF TimerOK
  <2>2. broken = {}
    BY Zenon DEF TimerInv
  <2> QED
    BY <2>1, <2>2, Zenon
<1> QED
  BY <1>1, <1>2, <1>3, PTL DEF Spec
=============================================================================
