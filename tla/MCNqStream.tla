----------------------------- MODULE MCNqStream -----------------------------
(* NqStream for TLC, with bytes of three bits: digits 0 .. 3, types -32 to *)
(* 31, ids to 4095.                                                        *)
EXTENDS NqStream

Message(type, msgid, len, fill) ==
  [type |-> type, msgid |-> msgid, len |-> len, fill |-> fill]

(* Names of which one begins like the other, and one nobody knows.         *)
TwoNames == [n \in {"rpc", "chat", "gone"} |->
               CASE n = "rpc" -> <<1>> [] n = "chat" -> <<1, 2>> [] n = "gone" -> <<2>>]

OneName == [n \in {"rpc"} |-> <<1>>]

(* Every form of header with lengths of one and two digits.                *)
RpcMessages ==
  {Message(1, 0, 0, 0), Message(3, 5, 3, 7), Message(20, 64, 5, 4), Message(-3, 70, 1, 2),
   Message(0, 63, 4, 0)}

(* Every type whose low byte keeps its sign or that takes two bytes.       *)
KeptTypes == (-32 .. 31) \ ((4 .. 7) \cup (-8 .. -5))

(* A header read back is the header written, for these types and ids about *)
(* the widths; so is a length (HeaderCodec, LengthCodec).                  *)
ASSUME HeaderRoundTrip ==
  \A t \in KeptTypes, i \in {0, 1, 8, 63, 64, 511, 512, 4095} :
    LET h == EncodeHeader(t, i)
    IN  /\ HeaderBytes(h) = Len(h)
        /\ DecodeHeader(h) = [type |-> t, msgid |-> i]

ASSUME LengthRoundTrip ==
  \A n \in 0 .. 300 :
    DecodeLength(EncodeLength[n] \o <<0, Digit>>) = [ofs |-> Len(EncodeLength[n]), len |-> n]

PositiveMessages == {Message(t, i, 0, 0) : t \in 1 .. 31, i \in {0, 1}}

ShortRecords == {Message(0, 0, n, f) : n \in 1 .. 3, f \in {0, 4, 7}}
LongRecords == {Message(0, 0, n, 0) : n \in 1 .. 5}
=============================================================================
