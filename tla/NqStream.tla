------------------------------ MODULE NqStream ------------------------------
(***************************************************************************)
(* How a stream is established: the side that opens it writes the name of  *)
(* the protocol, ended by a zero byte, in front of the first bytes it      *)
(* sends, and the other side reads bytes until it has the name, opens the  *)
(* handler registered for it and hands it what follows; in raw mode there  *)
(* is no name (src/core/nq_stream.h, nq_stream.cpp).  The handlers find    *)
(* the messages in the bytes (NqFraming).  The bytes of a direction come   *)
(* in order and in pieces of any size, as a QUIC stream gives them; a      *)
(* piece is a block of the regions OnDataAvailable reads.                  *)
(***************************************************************************)
EXTENDS NqFraming

CONSTANTS
  Names,        \* the names a stream may be opened with
  Known,        \* those the peer has a handler for (HandlerMap)
  RpcNames,     \* those whose handler is for RPC
  Spelling,     \* the bytes of a name, without its end
  Messages,     \* the messages the user may send on an RPC stream
  Records,      \* and on another stream
  MaxMessages   \* bound: the messages sent, on both sides together

ASSUME StreamAssumption ==
  /\ Known \subseteq Names /\ RpcNames \subseteq Names
  /\ Spelling \in [Names -> Seq(1 .. Byte - 1)]
  /\ \A m \in Messages \cup Records : m.len \in Nat /\ m.fill \in 0 .. Byte - 1
  /\ MaxMessages \in Nat

NameBytes(n) == Append(Spelling[n], 0)

Sides == {"opener", "peer"}
Other(x) == IF x = "opener" THEN "peer" ELSE "opener"
NoHandler == "none"

VARIABLES
  raw,          \* whether both sides have a raw handler
  name,         \* the name the stream was opened with
  handler,      \* handler_ of each side: none, raw, or the protocol it is for
  buffer,       \* buffer_ of each side
  proto_sent,   \* proto_sent_
  established,  \* established_
  parse,        \* parse_buffer_ of the handler of each side
  wire,         \* bytes written by a side and not yet read by the other
  sent,         \* messages the user of a side sent
  got,          \* callbacks the handler of a side made
  closed,       \* the stream was closed
  broken        \* by a handler that could not read what it got

vars == <<raw, name, handler, buffer, proto_sent, established, parse, wire, sent, got,
          closed, broken>>

Init ==
  /\ raw \in BOOLEAN
  /\ name \in Names
  /\ handler = [x \in Sides |-> NoHandler]
  /\ buffer = [x \in Sides |-> << >>]
  /\ proto_sent = [x \in Sides |-> FALSE]
  /\ established = [x \in Sides |-> FALSE]
  /\ parse = [x \in Sides |-> << >>]
  /\ wire = [x \in Sides |-> << >>]
  /\ sent = [x \in Sides |-> << >>] /\ got = [x \in Sides |-> << >>]
  /\ closed = FALSE /\ broken = FALSE

KindOf(h) == IF h = "raw" THEN "raw" ELSE IF h \in RpcNames THEN "rpc" ELSE "simple"

\* TryOpenRawHandler, when there is a raw handler.
OpensRaw(x) ==
  /\ handler' = [handler EXCEPT ![x] = "raw"]
  /\ proto_sent' = [proto_sent EXCEPT ![x] = TRUE]
  /\ established' = [established EXCEPT ![x] = TRUE]
  /\ UNCHANGED buffer

\* OpenHandler of the opening side.  When on_stream_open returns false, ok,
\* the caller closes the stream.
OpenHandler(ok) ==
  /\ handler["opener"] = NoHandler /\ ~closed
  /\ closed' = ~ok
  /\ IF raw
     THEN OpensRaw("opener")
     ELSE /\ handler' = [handler EXCEPT !["opener"] = name]
          /\ buffer' = [buffer EXCEPT !["opener"] = IF ok THEN NameBytes(name) ELSE << >>]
          /\ UNCHANGED <<proto_sent, established>>
  /\ UNCHANGED <<raw, name, parse, wire, sent, got, broken>>

\* WriteBytes: the name goes first, once.
SendHandshake(x) == IF proto_sent[x] THEN << >> ELSE buffer[x]

WriteBytes(x, bytes) ==
  /\ wire' = [wire EXCEPT ![x] = @ \o SendHandshake(x) \o bytes]
  /\ proto_sent' = [proto_sent EXCEPT ![x] = TRUE]

Send(x, m) ==
  /\ handler[x] # NoHandler /\ ~closed
  /\ Len(sent["opener"]) + Len(sent["peer"]) < MaxMessages
  /\ m \in (IF KindOf(handler[x]) = "rpc" THEN Messages ELSE Records)
  /\ WriteBytes(x, Frame(KindOf(handler[x]), m))
  /\ sent' = [sent EXCEPT ![x] = Append(@, m)]
  /\ UNCHANGED <<raw, name, handler, buffer, established, parse, got, closed, broken>>

(***************************************************************************)
(* OnDataAvailable of side x with a block of k bytes to read.              *)
(***************************************************************************)
Read(x, k) == wire' = [wire EXCEPT ![Other(x)] = SubSeq(@, k + 1, Len(@))]
Piece(x, k) == SubSeq(wire[Other(x)], 1, k)

\* OnRecv of the handler h of side x; it may disconnect the stream.
OnRecv(x, h, bytes) ==
  \E r \in {HandlerOnRecv(KindOf(h), parse[x], bytes)} :
    /\ got' = [got EXCEPT ![x] = @ \o r.calls]
    /\ parse' = [parse EXCEPT ![x] = r.rest]
    /\ broken' = r.broken
    /\ closed' = r.broken

\* The opening side, and any side that is established.
RecvEstablished(x, k) ==
  /\ established[x] \/ x = "opener"
  /\ Read(x, k)
  /\ OnRecv(x, handler[x], Piece(x, k))
  /\ established' = [established EXCEPT ![x] = TRUE]
  /\ UNCHANGED <<raw, name, handler, buffer, proto_sent, sent>>

\* The first bytes at a peer in raw mode.
RecvOpensRaw(x, k, ok) ==
  /\ ~established[x] /\ x = "peer" /\ raw
  /\ OpensRaw(x)
  /\ \/ ok /\ Read(x, k) /\ OnRecv(x, "raw", Piece(x, k))
     \/ ~ok /\ closed' = TRUE /\ UNCHANGED <<wire, got, parse, broken>>
  /\ UNCHANGED <<raw, name, sent>>

\* Where the name ends in a piece, if it does.
EndOfName(s) == {i \in 1 .. Len(s) : s[i] = 0 /\ \A j \in 1 .. i - 1 : s[j] # 0}

\* Bytes of the name without its end are kept.
RecvName(x, k) ==
  /\ ~established[x] /\ x = "peer" /\ ~raw
  /\ EndOfName(Piece(x, k)) = {}
  /\ Read(x, k)
  /\ buffer' = [buffer EXCEPT ![x] = @ \o Piece(x, k)]
  /\ UNCHANGED <<raw, name, handler, proto_sent, established, parse, sent, got, closed, broken>>

\* OpenHandler of the peer: the handlers registered under the name that was read.
FoundHandler(s) == {n \in Known : NameBytes(n) = s}

\* A faulty variant: what follows the name is lost.
OpensDropsRest(x, k, i, n) ==
  /\ Read(x, k)
  /\ handler' = [handler EXCEPT ![x] = n]
  /\ established' = [established EXCEPT ![x] = TRUE]
  /\ UNCHANGED <<got, parse, closed, broken>>

\* The name is complete up to byte i of the piece: its handler opens, and
\* receives what is left; or the stream is closed.
Opens(x, k, i, n) ==
  /\ Read(x, k)
  /\ handler' = [handler EXCEPT ![x] = n]
  /\ established' = [established EXCEPT ![x] = TRUE]
  /\ \/ k > i /\ OnRecv(x, n, SubSeq(Piece(x, k), i + 1, k))
     \/ k = i /\ UNCHANGED <<got, parse, closed, broken>>

Refuses(x, found) ==
  /\ closed' = TRUE
  /\ \/ found = {} /\ UNCHANGED handler
     \/ \E n \in found : handler' = [handler EXCEPT ![x] = n]
  /\ UNCHANGED <<wire, got, parse, broken, established>>

set_proto_sent(x) == proto_sent' = [proto_sent EXCEPT ![x] = TRUE]

RecvEndOfName(x, k, ok) ==
  /\ ~established[x] /\ x = "peer" /\ ~raw
  /\ set_proto_sent(x)
  /\ \E i \in EndOfName(Piece(x, k)) :
       LET whole == buffer[x] \o SubSeq(Piece(x, k), 1, i)
       IN  /\ buffer' = [buffer EXCEPT ![x] = whole]
           /\ \/ ok /\ \E n \in FoundHandler(whole) : Opens(x, k, i, n)
              \/ (~ok \/ FoundHandler(whole) = {}) /\ Refuses(x, FoundHandler(whole))
  /\ UNCHANGED <<raw, name, sent>>

\* NqStream::Disconnect, a reset of the peer or the end of the connection.
Disconnect ==
  /\ ~closed /\ handler["opener"] # NoHandler
  /\ closed' = TRUE
  /\ UNCHANGED <<raw, name, handler, buffer, proto_sent, established, parse, wire, sent, got,
                 broken>>

OnDataAvailable ==
  /\ ~closed
  /\ \E x \in Sides : \E k \in 1 .. Len(wire[Other(x)]) :
       \/ RecvEstablished(x, k) \/ RecvName(x, k)
       \/ \E ok \in BOOLEAN : RecvOpensRaw(x, k, ok) \/ RecvEndOfName(x, k, ok)

Next ==
  \/ OnDataAvailable \/ Disconnect
  \/ \E ok \in BOOLEAN : OpenHandler(ok)
  \/ \E x \in Sides, m \in Messages \cup Records : Send(x, m)

Spec == Init /\ [][Next]_vars

\* QUIC retransmits: what was written reaches the other side.
FairSpec == Spec /\ WF_vars(OnDataAvailable)

(***************************************************************************)
(* Properties.                                                             *)
(***************************************************************************)
\* The callbacks the messages of the other side should lead to.
ExpectedAt(x) ==
  FlattenSeq([i \in 1 .. Len(sent[Other(x)]) |->
                Expected(KindOf(handler[Other(x)]), sent[Other(x)][i])])

\* The handler of either side makes the callbacks of the messages the user of
\* the other side sent, in order, without the name and without loss, however
\* the bytes are cut into pieces and although the messages may contain zeros;
\* no handler takes what it gets for broken; the handler the peer opens is the
\* one of the name the stream was opened with, or the raw one; and once an RPC
\* handler has had the last byte of a message the callback was made: nothing
\* waits in parse_buffer_ for bytes of a later message (OnDataAvailable,
\* OpenHandler, OnRecv).
ReceivedIsSent ==
  /\ ~broken
  /\ handler["peer"] \in {NoHandler, IF raw THEN "raw" ELSE name}
  /\ \A x \in Sides :
       /\ IsPrefix(got[x], ExpectedAt(x))
       /\ established[x] /\ KindOf(handler[x]) = "rpc" /\ wire[Other(x)] = << >>
            => got[x] = ExpectedAt(x)

\* The side that did not open the stream never writes a name of its own
\* (set_proto_sent before OpenHandler), so the two directions cannot both wait
\* to be established: what was sent is received, or the stream is closed.  A
\* simple handler may leave records in parse_buffer_.
AllReceived ==
  \A x \in Sides :
    (sent[Other(x)] # << >>) ~>
      (closed \/ (wire[Other(x)] = << >> /\ (name \in RpcNames \/ raw => got[x] = ExpectedAt(x))))

----------------------------------------------------------------------------
(* Statements of the repository that the code does not keep.               *)

(* What the table in OnRecv and nq.h line 456 ("type should be positive")  *)
(* say: a message sent with a positive type comes out as one.              *)
PositiveTypeKept ==
  \A x \in Sides : KindOf(handler[x]) = "rpc" =>
    \A i \in 1 .. Len(got[x]) : got[x][i].cb \in {"request", "notify"}

(* What line 281 of nq_stream.cpp says of OnRecv ("greedy read and called  *)
(* back"): it leaves no complete record in the buffer.                     *)
GreedyRead ==
  \A x \in Sides : KindOf(handler[x]) = "simple" =>
    LET l == DecodeLength(parse[x])
    IN  l.ofs = 0 \/ l.len = 0 \/ l.ofs + l.len > Len(parse[x])

(* What nq_stream.h line 181 says of NqSimpleStreamHandler ("separated     *)
(* with encoded length"): the records found are the records sent.          *)
RecordsSeparated ==
  \A x \in Sides : KindOf(handler[x]) = "simple" => IsPrefix(got[x], ExpectedAt(x))
=============================================================================
