--------------------------- MODULE NqStreamManager --------------------------
(***************************************************************************)
(* The streams of a client connection (NqClient::StreamManager): the       *)
(* entries nq_conn_stream makes, before or after the connection is up, the *)
(* streams the loop opens for them, and what the end of a connection and   *)
(* the next session do to both (src/core/nq_client.cpp, nq_client.h,       *)
(* nq_client_session.cpp, nq_session.cpp).                                 *)
(*                                                                         *)
(* A stream index is used once, so the stream of an entry is named by the  *)
(* index.  The client is the one of NqClient with what its streams see:    *)
(* it is connecting, connected or down.                                    *)
(***************************************************************************)
EXTENDS Naturals, Sequences, FiniteSets

CONSTANTS
  MaxStreams,    \* bound: stream indices given out
  MaxSessions    \* bound: sessions, one per connection attempt

ASSUME BoundsAssumption == MaxStreams \in Nat /\ MaxSessions \in Nat \ {0}

Indices == 1 .. MaxStreams

VARIABLES
  careful,   \* whether nq_conn_stream is called in the thread of the loop only, and
             \* not while the client is down, and on_stream_open returns true
  state,     \* connect_state_: CONNECTING, CONNECTED, or DOWN for the others
  session,   \* which session nq_session() is; a closed one stays until the next
  made,      \* stream indices given out so far
  entries,   \* entries_: no entry, one that only has a name, one with a stream
  incoming,  \* the indices of the streams the server opened
  stream,    \* of an index: the session that owns its stream, and its life
  queue,     \* the operations queued to the loop
  reader,    \* what InitStream read of connect_state_ in the other thread
  opens,     \* how many times on_stream_open ran for an index
  closes,    \* and on_stream_close
  broken     \* the assertions that failed

vars == <<careful, state, session, made, entries, incoming, stream, queue, reader, opens,
          closes, broken>>

Init ==
  /\ careful \in BOOLEAN
  /\ state = "CONNECTING" /\ session = 1
  /\ made = 0
  /\ entries = [i \in Indices |-> "absent"]
  /\ incoming = {}
  /\ stream = [i \in Indices |-> [owner |-> 0, life |-> "none"]]
  /\ queue = << >>
  /\ reader = "idle"
  /\ opens = [i \in Indices |-> 0] /\ closes = [i \in Indices |-> 0]
  /\ broken = {}

(***************************************************************************)
(* nq_conn_stream: InitStream reads connect_state_, OnOutgoingOpen makes   *)
(* the entry and, when the client was connected, asks the loop to open it. *)
(* In the thread of the loop nothing comes between the two.                *)
(***************************************************************************)
MayOpen == made < MaxStreams /\ (careful => state # "DOWN")

OnOutgoingOpen(connected) ==
  /\ made' = made + 1
  /\ entries' = [entries EXCEPT ![made + 1] = "named"]
  /\ queue' = IF connected THEN Append(queue, "OpenStream") ELSE queue

InitStream ==
  /\ MayOpen
  /\ OnOutgoingOpen(state = "CONNECTED")
  /\ UNCHANGED <<careful, state, session, incoming, stream, reader, opens, closes, broken>>

InitStreamReads ==
  /\ ~careful /\ MayOpen /\ reader = "idle"
  /\ reader' = IF state = "CONNECTED" THEN "connected" ELSE "not"
  /\ UNCHANGED <<careful, state, session, made, entries, incoming, stream, queue, opens, closes,
                 broken>>

InitStreamEmplaces ==
  /\ reader # "idle" /\ made < MaxStreams
  /\ OnOutgoingOpen(reader = "connected")
  /\ reader' = "idle"
  /\ UNCHANGED <<careful, state, session, incoming, stream, opens, closes, broken>>

(***************************************************************************)
(* RecoverOutgoingStreams in session g: every entry that has a name and no *)
(* stream gets one, whose on_stream_open runs; the stream of an entry that *)
(* has one is asked again and says that it is open.  A stream whose        *)
(* on_stream_open returns false is deleted, although the session owns it   *)
(* and its serial is set; its entry keeps the name.                        *)
(***************************************************************************)
Fresh == {i \in Indices : entries[i] = "named"}
Stale == {i \in Indices : entries[i] = "open" /\ i \notin incoming /\ stream[i].life = "freed"}

RecoverOutgoingStreams ==
  \E failed \in SUBSET Fresh :
    /\ careful => failed = {}
    /\ entries' = [i \in Indices |-> IF i \in Fresh \ failed THEN "open" ELSE entries[i]]
    /\ stream' = [i \in Indices |->
         IF i \in Fresh
         THEN [owner |-> session, life |-> IF i \in failed THEN "freed" ELSE "open"]
         ELSE stream[i]]
    /\ opens' = [i \in Indices |-> IF i \in Fresh THEN opens[i] + 1 ELSE opens[i]]
    /\ broken' = broken \cup (IF failed # {} THEN {"deleted with serial"} ELSE {})
                        \cup (IF Stale # {} THEN {"used after free"} ELSE {})

TakeOpenStream ==
  /\ queue # << >> /\ Head(queue) = "OpenStream"
  /\ queue' = Tail(queue)
  /\ RecoverOutgoingStreams
  /\ UNCHANGED <<careful, state, session, made, incoming, reader, closes>>

\* A faulty variant: only the first session opens the streams.
OnOpenFirst ==
  /\ state = "CONNECTING"
  /\ state' = "CONNECTED"
  /\ IF session = 1 THEN RecoverOutgoingStreams ELSE UNCHANGED <<entries, stream, opens, broken>>
  /\ UNCHANGED <<careful, session, made, incoming, queue, reader, closes>>

\* NqClient::OnOpen, when the handshake is confirmed.
OnOpen ==
  /\ state = "CONNECTING"
  /\ state' = "CONNECTED"
  /\ RecoverOutgoingStreams
  /\ UNCHANGED <<careful, session, made, incoming, queue, reader, closes>>

\* The server opens a stream: CreateIncomingDynamicStream, OnIncomingOpen.
\* It has no handler until its name has come (NqStream::OnDataAvailable).
OnIncomingOpen ==
  /\ state = "CONNECTED" /\ made < MaxStreams
  /\ made' = made + 1
  /\ entries' = [entries EXCEPT ![made + 1] = "open"]
  /\ stream' = [stream EXCEPT ![made + 1] = [owner |-> session, life |-> "open"]]
  /\ incoming' = incoming \cup {made + 1}
  /\ UNCHANGED <<careful, state, session, queue, reader, opens, closes, broken>>

Open(i) == stream[i].owner = session /\ stream[i].life = "open"

OpenHandler(i) ==
  /\ state = "CONNECTED" /\ i \in incoming /\ Open(i) /\ opens[i] = 0
  /\ opens' = [opens EXCEPT ![i] = 1]
  /\ UNCHANGED <<careful, state, session, made, entries, incoming, stream, queue, reader, closes,
                 broken>>

\* Streams close: on_stream_close runs for those that have a handler.
StreamClosed(closing) ==
  /\ stream' = [i \in Indices |-> IF i \in closing THEN [stream[i] EXCEPT !.life = "closed"]
                                                   ELSE stream[i]]
  /\ closes' = [i \in Indices |->
                  closes[i] + (IF i \in closing /\ opens[i] > 0 THEN 1 ELSE 0)]

\* A faulty variant: the entry is not erased.
OnCloseKeepsEntry(i) ==
  /\ state = "CONNECTED" /\ Open(i)
  /\ StreamClosed({i})
  /\ UNCHANGED <<careful, state, session, made, entries, incoming, queue, reader, opens, broken>>

\* A faulty variant: the entry forgets its stream and is kept.
OnCloseClearsStream(i) ==
  /\ state = "CONNECTED" /\ Open(i)
  /\ StreamClosed({i})
  /\ entries' = [entries EXCEPT ![i] = IF i \in incoming THEN "absent" ELSE "named"]
  /\ UNCHANGED <<careful, state, session, made, incoming, queue, reader, opens, broken>>

\* NqClientStream::OnClose: on_stream_close, then the entry is erased.
OnClose(i) ==
  /\ state = "CONNECTED" /\ Open(i)
  /\ StreamClosed({i})
  /\ entries' = [entries EXCEPT ![i] = "absent"]
  /\ UNCHANGED <<careful, state, session, made, incoming, queue, reader, opens, broken>>

\* A faulty variant: the streams are not closed.
ConnectionClosesQuietly ==
  /\ state \in {"CONNECTING", "CONNECTED"}
  /\ state' = "DOWN"
  /\ entries' = [i \in Indices |-> "absent"]
  /\ UNCHANGED <<careful, session, made, incoming, stream, queue, reader, opens, closes, broken>>

(***************************************************************************)
(* The connection ends: the session closes its streams, then the client    *)
(* clears the entries (NqSession::OnConnectionClosed, NqClient::OnClose).  *)
(* The closed session stays until the client connects again, which deletes *)
(* it with the streams it still has, telling nobody.                       *)
(***************************************************************************)
ConnectionCloses ==
  /\ state \in {"CONNECTING", "CONNECTED"}
  /\ state' = "DOWN"
  /\ StreamClosed({i \in Indices : Open(i)})
  /\ entries' = [i \in Indices |-> "absent"]
  /\ UNCHANGED <<careful, session, made, incoming, queue, reader, opens, broken>>

\* The reconnection alarm, or nq_conn_reset, queues the reconnection.
Reconnect ==
  /\ state = "DOWN" /\ session < MaxSessions
  /\ \A k \in 1 .. Len(queue) : queue[k] # "DoReconnect"
  /\ queue' = Append(queue, "DoReconnect")
  /\ UNCHANGED <<careful, state, session, made, entries, incoming, stream, reader, opens, closes,
                 broken>>

TakeDoReconnect ==
  /\ queue # << >> /\ Head(queue) = "DoReconnect"
  /\ queue' = Tail(queue)
  /\ state' = "CONNECTING"
  /\ session' = session + 1
  /\ stream' = [i \in Indices |-> IF stream[i].owner = session
                                  THEN [stream[i] EXCEPT !.life = "freed"] ELSE stream[i]]
  /\ UNCHANGED <<careful, made, entries, incoming, reader, opens, closes, broken>>

Loop == TakeOpenStream \/ TakeDoReconnect

Next ==
  \/ InitStream \/ InitStreamReads \/ InitStreamEmplaces
  \/ Loop \/ OnOpen \/ OnIncomingOpen \/ ConnectionCloses \/ Reconnect
  \/ \E i \in Indices : OpenHandler(i) \/ OnClose(i)

Spec == Init /\ [][Next]_vars

\* The loop drains its queue and a call of nq_conn_stream ends; nothing makes
\* the peer answer or the connection last.
FairSpec == Spec /\ WF_vars(Loop) /\ WF_vars(InitStreamEmplaces)

(***************************************************************************)
(* Properties.                                                             *)
(***************************************************************************)
\* The variables keep their types.
TypeOK ==
  /\ careful \in BOOLEAN /\ state \in {"CONNECTING", "CONNECTED", "DOWN"}
  /\ session \in 1 .. MaxSessions /\ made \in 0 .. MaxStreams
  /\ entries \in [Indices -> {"absent", "named", "open"}]
  /\ incoming \subseteq Indices
  /\ stream \in [Indices -> [owner : 0 .. MaxSessions,
                             life : {"none", "open", "closed", "freed"}]]
  /\ queue \in Seq({"OpenStream", "DoReconnect"})
  /\ reader \in {"idle", "connected", "not"}
  /\ opens \in [Indices -> Nat] /\ closes \in [Indices -> Nat]
  /\ broken \subseteq {"deleted with serial", "used after free"}

\* When callers are careful, the stream of an entry is an open stream of the
\* present session, so that FindOrCreateStream and RecoverOutgoingStreams touch
\* no stream that is gone.
EntryLive == careful => \A i \in Indices : entries[i] = "open" => Open(i)

\* When callers are careful, on_stream_open runs once for a stream, although
\* every OpenStream operation and every OnOpen go over all the entries, and by
\* the time its connection has ended on_stream_close has run as often.
OpenClosePaired ==
  careful => \A i \in Indices :
    /\ opens[i] <= 1 /\ closes[i] <= opens[i]
    /\ state = "DOWN" => closes[i] = opens[i]

\* Once on_stream_close has run for a stream, nothing opens it again: not a
\* reconnection, not the opening of another stream, not a call from another
\* thread (StreamManager::OnClose, RecoverOutgoingStreams).
ClosedForGood ==
  [][\A i \in Indices : closes[i] > 0 => opens'[i] = opens[i] /\ closes'[i] = closes[i]]_vars

\* When callers are careful, a stream asked for is opened while the connection
\* is up, whether it was asked for before OnOpen or after (InitStream,
\* OnOutgoingOpen, OnOpen).
RequestServed ==
  \A i \in Indices :
    (careful /\ entries[i] = "named" /\ state = "CONNECTED") ~> (entries[i] # "named")

(***************************************************************************)
(* Statements of the repository that the code does not keep.               *)
(***************************************************************************)
\* What nq.h line 22 says of nq_conn_stream, which is NQAPI_THREADSAFE ("can be
\* done concurrently, and works correctly"): on_stream_open runs for a stream
\* asked for, in whichever thread, while the connection is up.
AskedIsOpened ==
  \A i \in Indices :
    (entries[i] = "named" /\ state = "CONNECTED") ~> (entries[i] # "named" \/ opens[i] > 0)

\* A stream is deleted with its serial cleared (~NqStream).
DeletedCleared == "deleted with serial" \notin broken

=============================================================================
