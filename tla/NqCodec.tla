------------------------------ MODULE NqCodec -------------------------------
(***************************************************************************)
(* The wire format of records and RPC messages (src/basis/header_codec.h): *)
(* LengthCodec writes a length in 7 bit digits, the lowest first and the   *)
(* last one marked; HeaderCodec writes a flag byte, the type in one or two *)
(* bytes and the message id in none, two or four.  Byte is the number of   *)
(* values of a byte, 256 in the code; a smaller one makes every case       *)
(* happen among a few numbers.                                             *)
(***************************************************************************)
EXTENDS Integers, Sequences, SequencesExt

CONSTANT Byte

ASSUME ByteAssumption == Byte \in Nat /\ Byte >= 8 /\ Byte % 2 = 0

Digit == Byte \div 2         \* 0x80: the values of a digit, and the mark

(* LengthCodec::Encode.                                                    *)
EncodeLength[n \in Nat] ==
  IF n < Digit THEN <<n + Digit>> ELSE <<n % Digit>> \o EncodeLength[n \div Digit]

(* LengthCodec::Decode: the bytes read and the length, or 0 bytes when no  *)
(* byte is marked; psz_decoded then has the sum of the digits so far.      *)
DecodeLength(buf) ==
  LET marked == {i \in 1 .. Len(buf) : buf[i] >= Digit}
      last == IF marked = {} THEN Len(buf)
              ELSE CHOOSE i \in marked : \A j \in marked : i <= j
  IN  [ofs |-> IF marked = {} THEN 0 ELSE last,
       len |-> FoldRight(LAMBDA d, sum : (d % Digit) + Digit * sum, SubSeq(buf, 1, last), 0)]

----------------------------------------------------------------------------
MSGID_2BYTE == 1
MSGID_4BYTE == 2
TYPE_1BYTE == 4

(* The bytes of a number, the highest first, and back.                     *)
Bytes(n, width) == [i \in 1 .. width |-> (n \div (Byte ^ (width - i))) % Byte]
FromBytes(s) == FoldLeft(LAMBDA n, b : n * Byte + b, 0, s)

(* The value of a signed integer of that many bytes.                       *)
Signed(n, width) == IF n >= (Byte ^ width) \div 2 THEN n - Byte ^ width ELSE n

(* HeaderCodec::Encode: one byte for the type when the high byte is all    *)
(* zeros or all ones.                                                      *)
EncodeHeader(type, msgid) ==
  LET raw == type % (Byte ^ 2)
      short == (raw \div Byte) \in {0, Byte - 1}
      flags == (IF short THEN TYPE_1BYTE ELSE 0)
                 + (IF msgid >= Byte ^ 2 THEN MSGID_4BYTE
                    ELSE IF msgid # 0 THEN MSGID_2BYTE ELSE 0)
  IN  <<flags>>
        \o (IF short THEN <<raw % Byte>> ELSE Bytes(raw, 2))
        \o (IF msgid >= Byte ^ 2 THEN Bytes(msgid, 4)
            ELSE IF msgid # 0 THEN Bytes(msgid, 2) ELSE << >>)

TypeBytes(flags) == IF flags >= TYPE_1BYTE THEN 1 ELSE 2
MsgidBytes(flags) ==
  LET f == flags % TYPE_1BYTE IN
  IF f >= MSGID_4BYTE THEN 4 ELSE IF f = MSGID_2BYTE THEN 2 ELSE 0

(* HeaderCodec::Decode of a buffer that holds the whole header.            *)
HeaderBytes(buf) == 1 + TypeBytes(buf[1]) + MsgidBytes(buf[1])

DecodeHeader(buf) ==
  LET t == TypeBytes(buf[1])
  IN  [type |-> Signed(FromBytes(SubSeq(buf, 2, 1 + t)), t),
       msgid |-> FromBytes(SubSeq(buf, 2 + t, HeaderBytes(buf)))]
=============================================================================
