----------------------------- MODULE NqFraming ------------------------------
(***************************************************************************)
(* Records and RPC messages over a stream (src/core/nq_stream.cpp): what   *)
(* the handlers write for them, and what OnRecv of a handler finds in its  *)
(* parse_buffer_ when more bytes come, in pieces cut anywhere.             *)
(***************************************************************************)
EXTENDS NqCodec

CONSTANT LenBuffLen      \* len_buff_len, 8 in the code

ASSUME LenBuffAssumption == LenBuffLen \in Nat

(* NqRawStreamHandler, NqSimpleRPCStreamHandler, NqSimpleStreamHandler.    *)
Kinds == {"raw", "rpc", "simple"}

----------------------------------------------------------------------------
(* A message has a type, a msgid, a length, and the byte it is filled      *)
(* with; of a record, only the length and that byte count.  What is        *)
(* written for it: SendCommon, Notify and Reply; in raw mode, what the     *)
(* user's writer gives.                                                    *)
Frame(kind, m) ==
  (IF kind = "rpc" THEN EncodeHeader(m.type, m.msgid) ELSE << >>)
    \o (IF kind = "raw" THEN << >> ELSE EncodeLength[m.len])
    \o [i \in 1 .. m.len |-> m.fill]

(* Which callback a message is for; a reply is looked up in req_map_.      *)
Callback(type, msgid) ==
  CASE msgid # 0 /\ type <= 0 -> "reply"
    [] msgid # 0 /\ type > 0  -> "request"
    [] msgid = 0 /\ type > 0  -> "notify"
    [] OTHER                  -> "assert"

(* A faulty variant: the payload need not be all there.                    *)
ParsedEarly(buf) ==
  IF Len(buf) < HeaderBytes(buf) THEN [size |-> 0]
  ELSE LET h == DecodeHeader(buf)
           hlen == HeaderBytes(buf)
           l == DecodeLength(SubSeq(buf, hlen + 1, Len(buf)))
       IN  IF l.ofs = 0 THEN [size |-> 0]
           ELSE [size |-> hlen + l.ofs + l.len,
                 call |-> [cb |-> Callback(h.type, h.msgid), type |-> h.type,
                           msgid |-> h.msgid, len |-> l.len]]

(* The first message in a buffer, if it is all there.  A header that is    *)
(* not all there leaves read_ofs beyond plen, whatever follows is read.    *)
Parsed(buf) ==
  IF Len(buf) < HeaderBytes(buf) THEN [size |-> 0]
  ELSE LET h == DecodeHeader(buf)
           hlen == HeaderBytes(buf)
           l == DecodeLength(SubSeq(buf, hlen + 1, Len(buf)))
       IN  IF l.ofs = 0 \/ hlen + l.ofs + l.len > Len(buf) THEN [size |-> 0]
           ELSE [size |-> hlen + l.ofs + l.len,
                 call |-> [cb |-> Callback(h.type, h.msgid), type |-> h.type,
                           msgid |-> h.msgid, len |-> l.len]]

(* The loop of NqSimpleRPCStreamHandler::OnRecv: callbacks, and the rest.  *)
ParseLoop[buf \in Seq(0 .. Byte - 1)] ==
  IF buf = << >> \/ Parsed(buf).size = 0 THEN [calls |-> << >>, rest |-> buf]
  ELSE LET p == Parsed(buf)
           more == ParseLoop[SubSeq(buf, p.size + 1, Len(buf))]
       IN  [calls |-> <<p.call>> \o more.calls, rest |-> more.rest]

(* OnRecv gives the callbacks made, the new parse_buffer_, and whether     *)
(* the handler disconnects.                                                *)
Received(calls, rest, broken) == [calls |-> calls, rest |-> rest, broken |-> broken]

RpcOnRecv(buf) == Received(ParseLoop[buf].calls, ParseLoop[buf].rest, FALSE)

(* NqSimpleStreamHandler::OnRecv: at most one record for each call, and    *)
(* the length is used without a look at whether it was all there.          *)
SimpleOnRecv(buf) ==
  LET l == DecodeLength(buf)
  IN  IF l.len > 0 /\ l.len + l.ofs <= Len(buf)
      THEN Received(<<[cb |-> "record", len |-> l.len]>>,
                    SubSeq(buf, l.len + l.ofs + 1, Len(buf)), FALSE)
      ELSE Received(<< >>, buf, l.len = 0 /\ Len(buf) > LenBuffLen)

(* The user's reader gets the bytes as they come.                          *)
RawOnRecv(chunk) ==
  Received([i \in 1 .. Len(chunk) |-> [cb |-> "byte", val |-> chunk[i]]], << >>, FALSE)

HandlerOnRecv(kind, buf, chunk) ==
  CASE kind = "rpc"    -> RpcOnRecv(buf \o chunk)
    [] kind = "simple" -> SimpleOnRecv(buf \o chunk)
    [] kind = "raw"    -> RawOnRecv(chunk)

----------------------------------------------------------------------------
(* The callbacks a message should lead to: for RPC what the table in       *)
(* OnRecv (nq_stream.cpp lines 350 to 354) says of its type and id.        *)
Expected(kind, m) ==
  CASE kind = "rpc"    -> <<[cb |-> Callback(m.type, m.msgid), type |-> m.type,
                             msgid |-> m.msgid, len |-> m.len]>>
    [] kind = "simple" -> <<[cb |-> "record", len |-> m.len]>>
    [] kind = "raw"    -> [i \in 1 .. m.len |-> [cb |-> "byte", val |-> m.fill]]
=============================================================================
