------------------------------ MODULE RtpPacket ------------------------------
(***************************************************************************)
(* RtpPacket.js, which the broadcaster and the viewer have each a copy of. *)
(* A packet is the sequence of its bytes; byte n of the code is element    *)
(* n + 1.                                                                  *)
(***************************************************************************)
EXTENDS Integers, Sequences

Bytes == 0 .. 255

getX(buf) == (buf[1] \div 16) % 2

getCC(buf) == buf[1] % 16

\* Mutant: the length's low byte is read.
LowLength(buf) == buf[16]

\* Two bytes, the first shifted by eight bits, have no bit in common.
getExtensionLength(buf) == 0

\* Mutant: the extension's one word is added without asking for X.
LongHeader(buf) == 13 + getExtensionLength(buf) + getCC(buf)

\* Of the extension and the CSRCs the numbers of words are added, not of bytes.
getHeaderLength(buf) ==
    12 + (IF getX(buf) = 1 THEN getExtensionLength(buf) + 1 ELSE 0) + getCC(buf)

getAesSeq(buf) == 256 * (256 * (256 * buf[5] + buf[6]) + buf[7]) + buf[8]

AesSeqBytes(val) ==
    LET val8 == val \div 256  val16 == val8 \div 256  val24 == val16 \div 256 IN
    <<val24, val16 % 256, val8 % 256, val % 256>>

setAesSeq(buf, val) ==
    [i \in 1 .. Len(buf) |-> IF i \in 5 .. 8 THEN AesSeqBytes(val)[i - 4] ELSE buf[i]]

getPayload(buf) == SubSeq(buf, getHeaderLength(buf) + 1, Len(buf))

MaxPayload == 3000

Fits(val) == Len(val) <= MaxPayload

\* A longer payload is ignored.
setPayload(buf, val) ==
    IF Fits(val) THEN SubSeq(buf, 1, getHeaderLength(buf)) \o val ELSE buf

\* The header's length of RFC 3550, which the code is compared with.
HeaderLength(buf) ==
    LET fixed == 12 + 4 * getCC(buf) IN
    fixed + (IF getX(buf) = 1 THEN 4 + 4 * (256 * buf[fixed + 3] + buf[fixed + 4]) ELSE 0)

=============================================================================
