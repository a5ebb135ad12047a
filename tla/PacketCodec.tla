----------------------------- MODULE PacketCodec ----------------------------
(***************************************************************************)
(* protocol.js: packets as the bytes that travel, a type, two big-endian   *)
(* words of four bytes and a payload.                                      *)
(*                                                                         *)
(* Byte, the number of values of a byte, is 256 in the code; a smaller one *)
(* keeps the words, and where they wrap, within reach of TLC.  Texts and   *)
(* JSON appear as the bytes of their UTF-8 form.                           *)
(***************************************************************************)
EXTENDS Integers, Sequences

CONSTANT Byte

ASSUME CodecAssumption == Byte \in Nat /\ Byte > 7

Types == 1..7
CHAT == 1
FILE_META == 2
FILE_CHUNK == 3
FILE_ACK == 4
FILE_CANCEL == 5
PING == 6
PONG == 7

HeaderSize == 9
WordSize == Byte * Byte * Byte * Byte

(* setUint32: a number of any size or sign, cut to four bytes.             *)
SetUint32(n) ==
    LET n1 == n \div Byte
        n2 == n1 \div Byte
        n3 == n2 \div Byte
    IN  <<n3 % Byte, n2 % Byte, n1 % Byte, n % Byte>>
GetUint32(b, i) ==
    ((b[i] * Byte + b[i + 1]) * Byte + b[i + 2]) * Byte + b[i + 3]

(* "& 0xFFFFFFFF": a word with a sign.                                     *)
ToInt32(n) ==
    LET w == n % WordSize IN IF 2 * w >= WordSize THEN w - WordSize ELSE w

Encode(type, fileId, seqOrLen, payload) ==
    <<type>> \o SetUint32(fileId) \o SetUint32(seqOrLen) \o payload

EncodeChat(text) == Encode(CHAT, 0, Len(text), text)
EncodeFileMeta(fileId, json) == Encode(FILE_META, fileId, Len(json), json)
EncodeFileChunk(fileId, index, data) == Encode(FILE_CHUNK, fileId, index, data)
EncodeFileAck(fileId, index) == Encode(FILE_ACK, fileId, index, <<>>)
EncodeFileCancel(fileId) == Encode(FILE_CANCEL, fileId, 0, <<>>)
EncodePing(timestamp) == Encode(PING, 0, ToInt32(timestamp), <<>>)
EncodePong(timestamp) == Encode(PONG, 0, ToInt32(timestamp), <<>>)

(* Faulty variant: the payload is taken from the last byte of the header.  *)
PayloadEarly(b) == SubSeq(b, HeaderSize, Len(b))
PayloadOf(b) == SubSeq(b, HeaderSize + 1, Len(b))

(* decode throws when the header is not complete.                          *)
Decodable(b) == Len(b) >= HeaderSize
Decode(b) ==
    [type |-> b[1], fileId |-> GetUint32(b, 2), seqOrLen |-> GetUint32(b, 6),
     payload |-> PayloadOf(b)]
=============================================================================
