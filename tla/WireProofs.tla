----------------------------- MODULE WireProofs -----------------------------
(***************************************************************************)
(* A channel has six ports, enough for the video and the keys of three     *)
(* consecutive providers: with no more of them no port is ever shared,     *)
(* however many channels there are, and VLC gets what ffmpeg sent for the  *)
(* channel, whatever the packets, their number of keys and the cipher.     *)
(***************************************************************************)
EXTENDS Wire, SequenceTheorems, TLAPS

-----------------------------------------------------------------------------
(* Ports *)

\* Two different streams of providers 1 to 3 differ in their ports: modulo 2 a
\* port tells video from keys, and the rest tells provider and channel.
LEMMA StreamsApart ==
    ASSUME NEW c1 \in Nat, NEW c2 \in Nat, NEW s1 \in 1 .. 3, NEW s2 \in 1 .. 3,
           <<c1, s1>> # <<c2, s2>>
    PROVE  StreamPorts(c1, s1) \cap StreamPorts(c2, s2) = {}
<1> DEFINE v1 == getVideoPortById(c1, s1)
           v2 == getVideoPortById(c2, s2)
<1>1. v1 # v2
  <2>1. CASE c1 = c2
    BY <2>1 DEF getVideoPortById
  <2>2. CASE c1 > c2
    BY <2>2 DEF getVideoPortById
  <2>3. CASE c1 < c2
    BY <2>3 DEF getVideoPortById
  <2>4. QED
    BY <2>1, <2>2, <2>3
<1>2. v1 + 1 # v2 /\ v1 # v2 + 1
  BY DEF getVideoPortById
<1>3. /\ StreamPorts(c1, s1) = {v1, v1 + 1}
      /\ StreamPorts(c2, s2) = {v2, v2 + 1}
  BY DEF StreamPorts, getVideoPortById, getKeyPortById
<1>4. v1 \in Nat /\ v2 \in Nat
  BY DEF getVideoPortById
<1> HIDE DEF v1, v2
<1>5. QED
  BY <1>1, <1>2, <1>3, <1>4

\* So a video port belongs to one stream.
LEMMA OneStream ==
    ASSUME NEW c1 \in Nat, NEW c2 \in Nat, NEW s1 \in 1 .. 3, NEW s2 \in 1 .. 3,
           getVideoPortById(c1, s1) = getVideoPortById(c2, s2)
    PROVE  c1 = c2 /\ s1 = s2
BY StreamsApart DEF StreamPorts

\* With SERVER_IDs from 1 to 3 no two streams on air share a port, for any set
\* of channels.
THEOREM PortsKeptApart ==
    ASSUME ServerIds \subseteq 1 .. 3
    PROVE  Spec => []NoPortShared
<1> DEFINE OnAirKnown == onAir \subseteq ChannelIds
<1>1. Init => OnAirKnown
  BY DEF Init
<1>2. OnAirKnown /\ [Next]_vars => OnAirKnown'
  BY DEF Next, vars, Broadcast, Stop, ChangeKey, OnFfmpegMessage, OnVideoMessage, Gone
<1>3. OnAirKnown => NoPortShared
  BY StreamsApart, WireAssumption DEF NoPortShared
<1> HIDE DEF OnAirKnown
<1>4. QED
  BY <1>1, <1>2, <1>3, PTL DEF Spec

-----------------------------------------------------------------------------
(* Packets *)

\* A packet of a header and m bytes of payload, and such a payload.
IsPacket(buf, h, m) ==
    /\ buf \in Seq(Int) /\ h \in Int /\ h >= 12 /\ m \in Nat
    /\ Len(buf) = h + m /\ getHeaderLength(buf) = h

IsPayload(val, m) == val \in Seq(Int) /\ Len(val) = m

\* Where the header length puts the payload.
LEMMA GetPayload ==
    ASSUME NEW buf, NEW h, NEW m, IsPacket(buf, h, m)
    PROVE  /\ IsPayload(getPayload(buf), m)
           /\ \A j \in 1 .. m : getPayload(buf)[j] = buf[h + j]
<1>1. getPayload(buf) = SubSeq(buf, h + 1, Len(buf))
  BY DEF getPayload, IsPacket
<1>2. buf \in Seq(Int) /\ h \in Int /\ h >= 12 /\ m \in Nat /\ Len(buf) = h + m
  BY DEF IsPacket
<1>3. /\ SubSeq(buf, h + 1, Len(buf)) \in Seq(Int)
      /\ Len(SubSeq(buf, h + 1, Len(buf))) = m
      /\ \A j \in 1 .. m : SubSeq(buf, h + 1, Len(buf))[j] = buf[h + j]
  BY <1>2
<1>4. QED
  BY <1>1, <1>3, Zenon DEF IsPayload

\* The beginning of a sequence.
LEMMA Prefix ==
    ASSUME NEW buf \in Seq(Int), NEW h \in Int, h >= 12, h <= Len(buf)
    PROVE  /\ SubSeq(buf, 1, h) \in Seq(Int)
           /\ Len(SubSeq(buf, 1, h)) = h
           /\ \A i \in 1 .. h : SubSeq(buf, 1, h)[i] = buf[i]
<1> DEFINE head == SubSeq(buf, 1, h)
<1>1. Len(buf) \in Nat /\ \A i \in 1 .. h : buf[i] \in Int
  BY LenProperties, ElementOfSeq
<1>2. /\ head \in Seq(Int) /\ Len(head) = IF 1 <= h THEN h - 1 + 1 ELSE 0
      /\ \A i \in 1 .. h - 1 + 1 : head[i] = buf[1 + i - 1]
  BY <1>1, SubSeqProperties
<1> HIDE DEF head
<1>3. head \in Seq(Int) /\ Len(head) = h /\ \A i \in 1 .. h : head[i] = buf[i]
  BY <1>2
<1>4. QED
  BY <1>3 DEF head

\* The packet new is buf with val for its payload.
IsSpliced(new, buf, val, h, m) ==
    /\ new \in Seq(Int) /\ Len(new) = Len(buf)
    /\ \A i \in 1 .. h : new[i] = buf[i]
    /\ \A j \in 1 .. m : new[h + j] = val[j]

\* A payload of the same length replaces the old one, if it is not ignored.
LEMMA SetPayload ==
    ASSUME NEW buf, NEW h, NEW m, NEW val,
           IsPacket(buf, h, m), IsPayload(val, m), Fits(val)
    PROVE  IsSpliced(setPayload(buf, val), buf, val, h, m)
<1> DEFINE head == SubSeq(buf, 1, h)
           spliced == head \o val
<1>1. /\ buf \in Seq(Int) /\ h \in Int /\ h >= 12 /\ m \in Nat
      /\ Len(buf) = h + m /\ h <= Len(buf)
      /\ val \in Seq(Int) /\ Len(val) = m
  BY DEF IsPacket, IsPayload
<1>2. head \in Seq(Int) /\ Len(head) = h /\ \A i \in 1 .. h : head[i] = buf[i]
  BY <1>1, Prefix
<1>3. setPayload(buf, val) = spliced
  BY DEF setPayload, IsPacket
<1> HIDE DEF head
<1>4. /\ spliced \in Seq(Int) /\ Len(spliced) = Len(head) + Len(val)
      /\ \A i \in 1 .. Len(head) + Len(val) :
            spliced[i] = IF i <= Len(head) THEN head[i] ELSE val[i - Len(head)]
  BY <1>1, <1>2, ConcatProperties
<1> HIDE DEF spliced
<1>5. Len(head) = h
  BY <1>2
<1>6. ASSUME NEW i \in 1 .. h
      PROVE  spliced[i] = buf[i]
  <2>1. i \in 1 .. Len(head) + Len(val) /\ i <= Len(head)
    BY <1>1, <1>5
  <2>2. spliced[i] = head[i]
    BY <1>4, <2>1, Zenon
  <2>3. QED
    BY <1>2, <2>2, Zenon
<1>7. ASSUME NEW j \in 1 .. m
      PROVE  spliced[h + j] = val[j]
  <2> DEFINE i == h + j
  <2>1. /\ i \in 1 .. Len(head) + Len(val) /\ ~ i <= Len(head)
        /\ i - Len(head) = j
    BY <1>1, <1>5
  <2> HIDE DEF i
  <2>2. spliced[i] = val[i - Len(head)]
    BY <1>4, <2>1, Zenon
  <2>3. QED
    BY <2>1, <2>2, Zenon DEF i
<1>8. spliced \in Seq(Int) /\ Len(spliced) = Len(buf)
  BY <1>1, <1>4, <1>5
<1>9. QED
  BY <1>3, <1>6, <1>7, <1>8, Zenon DEF IsSpliced

\* The header length depends on the first byte only, and is never below 12.
LEMMA HeaderLengths ==
    ASSUME NEW buf, NEW other, buf[1] = other[1], buf[1] \in Bytes
    PROVE  /\ getHeaderLength(buf) = getHeaderLength(other)
           /\ getHeaderLength(buf) \in Int /\ getHeaderLength(buf) >= 12
<1>1. getX(buf) = getX(other) /\ getCC(buf) = getCC(other)
  BY DEF getX, getCC
<1>2. getCC(buf) \in Int /\ getCC(buf) >= 0
  BY DEF getCC, Bytes
<1>3. QED
  BY <1>1, <1>2 DEF getHeaderLength, getExtensionLength

\* A packet that is long enough for its CSRCs and its extension's length.
HoldsHeader(msg) == Len(msg) >= 12 + 4 * getCC(msg) + (IF getX(msg) = 1 THEN 4 ELSE 0)

\* The code's header length is never above RFC 3550's.
LEMMA ShortHeader ==
    ASSUME NEW msg \in Messages, HoldsHeader(msg)
    PROVE  HeaderLength(msg) \in Int /\ getHeaderLength(msg) <= HeaderLength(msg)
<1> DEFINE cc == getCC(msg)
           x == getX(msg)
<1>1. Len(msg) \in Nat /\ Len(msg) >= 12 /\ \A i \in 1 .. Len(msg) : msg[i] \in Bytes
  <2>1. msg \in Seq(Bytes) /\ Len(msg) >= 12
    BY WireAssumption
  <2>2. QED
    BY <2>1, ElementOfSeq, LenProperties
<1>2. cc \in Nat
  <2>1. msg[1] \in Bytes
    BY <1>1
  <2>2. QED
    BY <2>1 DEF getCC, Bytes
<1>3. getHeaderLength(msg) = 12 + (IF x = 1 THEN 1 ELSE 0) + cc
  BY DEF getHeaderLength, getExtensionLength
<1> DEFINE fixed == 12 + 4 * cc
<1>4. x = 1 => msg[fixed + 3] \in Bytes /\ msg[fixed + 4] \in Bytes
  <2>1. x = 1 => fixed + 3 \in 1 .. Len(msg) /\ fixed + 4 \in 1 .. Len(msg)
    BY <1>1, <1>2 DEF HoldsHeader
  <2>2. QED
    BY <1>1, <2>1, Zenon
<1>5. HeaderLength(msg)
        = fixed + (IF x = 1 THEN 4 + 4 * (256 * msg[fixed + 3] + msg[fixed + 4]) ELSE 0)
  BY DEF HeaderLength
<1> HIDE DEF cc, x, fixed
<1>6. fixed \in Nat /\ fixed = 12 + 4 * cc
  BY <1>2 DEF fixed
<1>7. CASE x = 1
  <2> DEFINE high == msg[fixed + 3]
             low == msg[fixed + 4]
  <2>1. high \in Nat /\ low \in Nat
    <3>1. Bytes \subseteq Nat
      BY DEF Bytes
    <3>2. QED
      BY <1>4, <1>7, <3>1, Zenon
  <2> HIDE DEF high, low
  <2>2. HeaderLength(msg) = fixed + (4 + 4 * (256 * high + low))
    BY <1>5, <1>7 DEF high, low
  <2>3. QED
    BY <1>2, <1>3, <1>6, <1>7, <2>1, <2>2
<1>8. CASE x # 1
  <2>1. HeaderLength(msg) = fixed + 0 /\ getHeaderLength(msg) = 12 + 0 + cc
    BY <1>3, <1>5, <1>8
  <2>2. QED
    BY <1>2, <1>6, <2>1
<1>9. QED
  BY <1>7, <1>8

\* A number and its lowest byte.
LEMMA LowByte ==
    ASSUME NEW k \in Nat
    PROVE  k = 256 * (k \div 256) + (k % 256) /\ k \div 256 \in Nat /\ k % 256 \in Nat
OBVIOUS

\* The four bytes of the timestamp hold every id.
LEMMA AesSeqRead ==
    ASSUME NEW k \in Nat, NEW buf \in Seq(Int),
           \A i \in 5 .. 8 : buf[i] = AesSeqBytes(k)[i - 4]
    PROVE  getAesSeq(buf) = k
<1> DEFINE k8 == k \div 256
           k16 == k8 \div 256
           k24 == k16 \div 256
<1>1. /\ buf[5] = k24 /\ buf[6] = k16 % 256
      /\ buf[7] = k8 % 256 /\ buf[8] = k % 256
  <2>1. AesSeqBytes(k) = <<k24, k16 % 256, k8 % 256, k % 256>>
    BY DEF AesSeqBytes
  <2> HIDE DEF k8, k16, k24
  <2>2. QED
    BY <2>1
<1> DEFINE r == k % 256
           r8 == k8 % 256
           r16 == k16 % 256
<1>2. k = 256 * k8 + r /\ k8 \in Nat /\ r \in Nat
  BY LowByte
<1> HIDE DEF k8
<1>3. k8 = 256 * k16 + r8 /\ k16 \in Nat /\ r8 \in Nat
  BY <1>2, LowByte
<1> HIDE DEF k16
<1>4. k16 = 256 * k24 + r16 /\ k24 \in Nat /\ r16 \in Nat
  BY <1>3, LowByte
<1>5. getAesSeq(buf) = 256 * (256 * (256 * k24 + r16) + r8) + r
  BY <1>1 DEF getAesSeq
<1> HIDE DEF k24, r, r8, r16
<1>6. QED
  BY <1>2, <1>3, <1>4, <1>5

\* A byte encrypted and decrypted.
LEMMA ByteRestored ==
    ASSUME NEW b \in Bytes, NEW k \in Bytes
    PROVE  DecryptByte(EncryptByte(b, k), k) = b
<1>1. CASE b + k < 256
  BY <1>1 DEF Bytes, EncryptByte, DecryptByte
<1>2. CASE b + k >= 256
  BY <1>2 DEF Bytes, EncryptByte, DecryptByte
<1>3. QED
  BY <1>1, <1>2 DEF Bytes

\* The cipher keeps lengths.
LEMMA Ciphers ==
    ASSUME NEW n \in Nat, n <= Mtu, NEW s \in [1 .. Mtu -> Bytes],
           NEW p \in Seq(Int), Len(p) = n
    PROVE  /\ Encrypted(s, p) \in Seq(Int) /\ Len(Encrypted(s, p)) = n
           /\ \A i \in 1 .. n : Encrypted(s, p)[i] = EncryptByte(p[i], s[i])
           /\ Decrypted(s, p) \in Seq(Int) /\ Len(Decrypted(s, p)) = n
           /\ \A i \in 1 .. n : Decrypted(s, p)[i] = DecryptByte(p[i], s[i])
<1>1. \A i \in 1 .. n : p[i] \in Int /\ s[i] \in Int
  <2>1. \A i \in 1 .. n : p[i] \in Int
    BY ElementOfSeq
  <2>2. \A i \in 1 .. n : i \in 1 .. Mtu
    BY WireAssumption
  <2>3. \A i \in 1 .. n : s[i] \in Bytes
    BY <2>2
  <2>4. Bytes \subseteq Int
    BY DEF Bytes
  <2>5. QED
    BY <2>1, <2>3, <2>4, Zenon
<1>2. /\ Encrypted(s, p) = [i \in 1 .. n |-> EncryptByte(p[i], s[i])]
      /\ Decrypted(s, p) = [i \in 1 .. n |-> DecryptByte(p[i], s[i])]
  BY DEF Encrypted, Decrypted
<1>3. \A i \in 1 .. n : EncryptByte(p[i], s[i]) \in Int /\ DecryptByte(p[i], s[i]) \in Int
  BY <1>1 DEF EncryptByte, DecryptByte
<1>4. QED
  BY <1>2, <1>3

\* The packet with the id in place of its timestamp.
LEMMA SetAesSeq ==
    ASSUME NEW k \in Nat, NEW msg \in Seq(Int), Len(msg) >= 12
    PROVE  /\ setAesSeq(msg, k) \in Seq(Int) /\ Len(setAesSeq(msg, k)) = Len(msg)
           /\ \A i \in 1 .. Len(msg) : i \notin 5 .. 8 => setAesSeq(msg, k)[i] = msg[i]
           /\ \A i \in 5 .. 8 : setAesSeq(msg, k)[i] = AesSeqBytes(k)[i - 4]
<1>1. \A i \in 5 .. 8 : AesSeqBytes(k)[i - 4] \in Int
  BY DEF AesSeqBytes
<1>2. \A i \in 1 .. Len(msg) : msg[i] \in Int
  BY ElementOfSeq
<1> DEFINE byte(i) == IF i \in 5 .. 8 THEN AesSeqBytes(k)[i - 4] ELSE msg[i]
<1>3. setAesSeq(msg, k) = [i \in 1 .. Len(msg) |-> byte(i)]
  BY DEF setAesSeq
<1>4. \A i \in 5 .. 8 : byte(i) = AesSeqBytes(k)[i - 4]
  OBVIOUS
<1>5. \A i \in 1 .. Len(msg) : i \notin 5 .. 8 => byte(i) = msg[i]
  OBVIOUS
<1>6. \A i \in 1 .. Len(msg) : byte(i) \in Int
  BY <1>1, <1>2, <1>4, <1>5, Zenon
<1> HIDE DEF byte
<1>7. /\ setAesSeq(msg, k) \in Seq(Int) /\ Len(setAesSeq(msg, k)) = Len(msg)
      /\ \A i \in 1 .. Len(msg) : setAesSeq(msg, k)[i] = byte(i)
  BY <1>3, <1>6
<1>8. \A i \in 5 .. 8 : i \in 1 .. Len(msg)
  OBVIOUS
<1>9. QED
  BY <1>4, <1>5, <1>7, <1>8, Zenon

\* What becomes of the packet msg under the key k: b, which has the id, the same
\* header and the payload encrypted under s, unless it is longer than setPayload
\* allows.
IsSent(b, msg, k, s, h, m) ==
    /\ IsPacket(b, h, m) /\ Len(msg) = h + m /\ m <= Mtu
    /\ getAesSeq(b) = k
    /\ \A i \in 1 .. h : i \notin 5 .. 8 => b[i] = msg[i]
    /\ \A j \in 1 .. m : msg[h + j] \in Bytes /\ s[j] \in Bytes
    /\ m <= MaxPayload => \A j \in 1 .. m : b[h + j] = EncryptByte(msg[h + j], s[j])
    /\ ~ m <= MaxPayload => \A j \in 1 .. m : b[h + j] = msg[h + j]

\* The broadcaster sends what IsSent says.
LEMMA SentPacket ==
    ASSUME NEW c \in ChannelIds, NEW k \in KeyIds, NEW msg \in Messages
    PROVE  IsSent(Sent(c, k, msg), msg, k, Keystreams[c][k],
                  getHeaderLength(msg), Len(msg) - getHeaderLength(msg))
<1> DEFINE n == Len(msg)
           h == getHeaderLength(msg)
           m == n - h
           s == Keystreams[c][k]
           r == setAesSeq(msg, k)
           p == getPayload(r)
           e == Encrypted(s, p)
           b == setPayload(r, e)
<1>1. /\ msg \in Seq(Int) /\ n \in Nat /\ n >= 12 /\ n <= Mtu /\ n >= h
      /\ \A i \in 1 .. n : msg[i] \in Bytes
  <2>1. msg \in Seq(Bytes) /\ n <= Mtu /\ n >= 12 /\ n >= h
    BY WireAssumption
  <2>2. \A i \in 1 .. n : msg[i] \in Bytes
    BY <2>1, ElementOfSeq
  <2>3. msg \in Seq(Int) /\ n \in Nat
    <3>1. n \in Nat /\ msg \in [1 .. n -> Bytes]
      BY <2>1, LenProperties
    <3> HIDE DEF n
    <3>2. \A i \in 1 .. n : msg[i] \in Int
      <4>1. \A i \in 1 .. n : msg[i] \in Bytes
        BY <2>2 DEF n
      <4>2. QED
        BY <4>1 DEF Bytes
    <3>3. msg = [i \in 1 .. n |-> msg[i]]
      BY <3>1, Zenon
    <3>4. [i \in 1 .. n |-> msg[i]] \in Seq(Int)
      BY <3>1, <3>2
    <3>5. QED
      BY <3>1, <3>3, <3>4, Zenon
  <2>4. QED
    BY <2>1, <2>2, <2>3, Zenon
<1>2. k \in Nat
  BY DEF KeyIds
<1>3. Mtu \in Nat /\ s \in [1 .. Mtu -> Bytes]
  BY WireAssumption
<1> HIDE DEF n, s
<1>4. h \in Int /\ h >= 12 /\ msg[1] \in Bytes
  BY <1>1, HeaderLengths
<1>5. /\ r \in Seq(Int) /\ Len(r) = n
      /\ \A i \in 1 .. n : i \notin 5 .. 8 => r[i] = msg[i]
      /\ \A i \in 5 .. 8 : r[i] = AesSeqBytes(k)[i - 4]
  BY <1>1, <1>2, SetAesSeq DEF n
<1> HIDE DEF r
<1>6. r[1] = msg[1] /\ getHeaderLength(r) = h
  <2>1. r[1] = msg[1]
    BY <1>1, <1>5
  <2>2. QED
    BY <1>4, <2>1, HeaderLengths
<1>split. m \in Nat /\ n = h + m
  BY <1>1, <1>4
<1> HIDE DEF h, m
<1>7. /\ p \in Seq(Int) /\ Len(p) = m
      /\ \A j \in 1 .. m : p[j] = r[h + j]
  <2>1. IsPacket(r, h, m)
    BY <1>split, <1>4, <1>5, <1>6 DEF IsPacket
  <2>2. QED
    BY <2>1, GetPayload DEF IsPayload
<1> HIDE DEF p
<1>8. \A j \in 1 .. m : s[j] \in Bytes /\ s[j] \in Int
  <2>1. ASSUME NEW j \in 1 .. m
        PROVE  s[j] \in Bytes
    <3>1. j \in 1 .. Mtu
      BY <1>split, <1>1, <1>3, <1>4
    <3>2. QED
      BY <1>3, <3>1
  <2>2. QED
    BY <2>1 DEF Bytes
<1>9. m <= Mtu
  BY <1>split, <1>1, <1>3, <1>4
<1>10. /\ e \in Seq(Int) /\ Len(e) = m
       /\ \A j \in 1 .. m : e[j] = EncryptByte(p[j], s[j])
  BY <1>split, <1>3, <1>7, <1>9, Ciphers, Zenon
<1> HIDE DEF e
<1>11. /\ b \in Seq(Int) /\ Len(b) = n
       /\ \A i \in 1 .. h : b[i] = r[i]
       /\ Fits(e) => \A j \in 1 .. m : b[h + j] = e[j]
       /\ ~ Fits(e) => b = r
  <2>1. CASE Fits(e)
    <3> HIDE DEF b
    <3>1. /\ b \in Seq(Int) /\ Len(b) = n
          /\ \A i \in 1 .. h : b[i] = r[i]
          /\ \A j \in 1 .. m : b[h + j] = e[j]
      <4>1. IsPacket(r, h, m) /\ IsPayload(e, m)
        BY <1>split, <1>4, <1>5, <1>6, <1>10 DEF IsPacket, IsPayload
      <4>2. b = setPayload(r, e) /\ Len(r) = n
        BY <1>5, Zenon DEF b
      <4>3. IsSpliced(setPayload(r, e), r, e, h, m)
        BY <2>1, <4>1, SetPayload, Zenon
      <4>4. QED
        BY <4>2, <4>3 DEF IsSpliced
    <3>2. QED
      BY <2>1, <3>1, Zenon
  <2>2. CASE ~ Fits(e)
    BY <1>5, <2>2, Zenon DEF setPayload
  <2>3. QED
    BY <2>1, <2>2, Zenon
<1> HIDE DEF b
<1>12. getHeaderLength(b) = h /\ getAesSeq(b) = k
  <2>1. \A i \in 1 .. 12 : i \in 1 .. h
    BY <1>4
  <2>2. 1 \in 1 .. 12 /\ \A i \in 5 .. 8 : i \in 1 .. 12
    OBVIOUS
  <2>3. b[1] = msg[1]
    BY <1>6, <1>11, <2>1, <2>2, Zenon
  <2>4. \A i \in 5 .. 8 : b[i] = AesSeqBytes(k)[i - 4]
    BY <1>5, <1>11, <2>1, <2>2, Zenon
  <2>5. getHeaderLength(b) = h
    BY <1>4, <2>3, HeaderLengths DEF h
  <2>6. getAesSeq(b) = k
    BY <1>2, <1>11, <2>4, AesSeqRead
  <2>7. QED
    BY <2>5, <2>6
<1>13. ASSUME NEW j \in 1 .. m
       PROVE  r[h + j] = msg[h + j] /\ msg[h + j] \in Bytes
  <2>1. h + j \in 1 .. n /\ h + j \notin 5 .. 8
    BY <1>split, <1>4
  <2>2. QED
    BY <1>1, <1>5, <2>1, Zenon
<1>14. ASSUME NEW i \in 1 .. h, i \notin 5 .. 8
       PROVE  b[i] = msg[i]
  <2>1. i \in 1 .. n
    BY <1>split, <1>4
  <2>2. QED
    BY <1>5, <1>11, <1>14, <2>1, Zenon
<1>15. m <= MaxPayload => \A j \in 1 .. m : b[h + j] = EncryptByte(msg[h + j], s[j])
  <2>1. m <= MaxPayload => Fits(e)
    BY <1>10 DEF Fits, MaxPayload
  <2>2. QED
    BY <1>7, <1>10, <1>11, <1>13, <2>1, Zenon
<1>16. ~ m <= MaxPayload => \A j \in 1 .. m : b[h + j] = msg[h + j]
  <2>1. ~ m <= MaxPayload => ~ Fits(e)
    BY <1>split, <1>10 DEF Fits, MaxPayload
  <2>2. QED
    BY <1>11, <1>13, <2>1, Zenon
<1>17. IsPacket(b, h, m)
  BY <1>split, <1>4, <1>11, <1>12 DEF IsPacket
<1>18. IsSent(b, msg, k, s, h, m)
  BY <1>split, <1>8, <1>9, <1>12, <1>13, <1>14, <1>15, <1>16, <1>17, Zenon DEF IsSent, n
<1>19. Sent(c, k, msg) = b
  BY DEF Sent, b, e, p, r, s
<1>20. QED
  BY <1>18, <1>19 DEF h, m, n, s

\* VLC gets a packet as ffmpeg sent it, but for the timestamp.
LEMMA Restored ==
    ASSUME NEW c \in ChannelIds, NEW k \in KeyIds, NEW msg \in Messages
    PROVE  /\ Len(Received(c, Sent(c, k, msg))) = Len(msg)
           /\ \A i \in 1 .. Len(msg) :
                 i \notin 5 .. 8 => Received(c, Sent(c, k, msg))[i] = msg[i]
<1> DEFINE h == getHeaderLength(msg)
           m == Len(msg) - h
           s == Keystreams[c][k]
           b == Sent(c, k, msg)
           q == getPayload(b)
           d == Decrypted(s, q)
           f == setPayload(b, d)
<1>1. IsSent(b, msg, k, s, h, m)
  BY SentPacket
<1>2. s \in [1 .. Mtu -> Bytes]
  BY WireAssumption
<1>3. Received(c, b) = f
  BY <1>1 DEF Received, IsSent
<1> HIDE DEF b, s, h, m
<1>4. /\ IsPacket(b, h, m) /\ m \in Nat /\ m <= Mtu /\ h \in Int /\ h >= 12
      /\ Len(msg) = h + m /\ Len(b) = Len(msg)
  BY <1>1 DEF IsSent, IsPacket
<1>5. IsPayload(q, m) /\ \A j \in 1 .. m : q[j] = b[h + j]
  BY <1>4, GetPayload, Zenon
<1> HIDE DEF q
<1>6. /\ IsPayload(d, m)
      /\ \A j \in 1 .. m : d[j] = DecryptByte(q[j], s[j])
  BY <1>2, <1>4, <1>5, Ciphers, Zenon DEF IsPayload
<1> HIDE DEF d, f
<1>7. CASE m <= MaxPayload
  <2>1. Fits(d)
    BY <1>6, <1>7 DEF Fits, MaxPayload, IsPayload
  <2>2. IsSpliced(setPayload(b, d), b, d, h, m)
    BY <1>4, <1>6, <2>1, SetPayload, Zenon
  <2>3. /\ Len(f) = Len(msg) /\ \A i \in 1 .. h : f[i] = b[i]
        /\ \A j \in 1 .. m : f[h + j] = d[j]
    BY <1>4, <2>2 DEF IsSpliced, f
  <2>4. ASSUME NEW j \in 1 .. m
        PROVE  f[h + j] = msg[h + j]
    <3>1. msg[h + j] \in Bytes /\ s[j] \in Bytes
      BY <1>1, Zenon DEF IsSent
    <3>2. f[h + j] = DecryptByte(EncryptByte(msg[h + j], s[j]), s[j])
      <4>1. b[h + j] = EncryptByte(msg[h + j], s[j])
        BY <1>1, <1>7, Zenon DEF IsSent
      <4>2. QED
        BY <1>5, <1>6, <2>3, <4>1, Zenon
    <3>3. QED
      BY <3>1, <3>2, ByteRestored, Zenon
  <2>5. ASSUME NEW i \in 1 .. Len(msg), i \notin 5 .. 8
        PROVE  f[i] = msg[i]
    <3>1. CASE i \in 1 .. h
      BY <1>1, <2>3, <2>5, <3>1, Zenon DEF IsSent
    <3>2. CASE i \notin 1 .. h
      <4>1. i - h \in 1 .. m /\ i = h + (i - h)
        BY <1>4, <3>2
      <4>2. QED
        BY <2>4, <4>1, Zenon
    <3>3. QED
      BY <3>1, <3>2
  <2>6. QED
    BY <1>3, <2>3, <2>5, Zenon DEF b
<1>8. CASE ~ m <= MaxPayload
  <2>1. f = b
    BY <1>6, <1>8 DEF f, setPayload, Fits, IsPayload
  <2>2. ASSUME NEW i \in 1 .. Len(msg), i \notin 5 .. 8
        PROVE  b[i] = msg[i]
    <3>1. CASE i \in 1 .. h
      BY <1>1, <2>2, <3>1, Zenon DEF IsSent
    <3>2. CASE i \notin 1 .. h
      <4>1. i - h \in 1 .. m /\ i = h + (i - h)
        BY <1>4, <3>2
      <4>2. QED
        BY <1>1, <1>8, <4>1, Zenon DEF IsSent
    <3>3. QED
      BY <3>1, <3>2
  <2>3. QED
    BY <1>3, <1>4, <2>1, <2>2, Zenon DEF b
<1>9. QED
  BY <1>4, <1>7, <1>8

-----------------------------------------------------------------------------
(* The stream of a datagram: its port and what it carries. *)

Carried(d) ==
    /\ d.channel \in ChannelIds /\ d.server \in ServerIds
    /\ d.key \in KeyIds /\ d.msg \in Messages
    /\ d.port = getVideoPortById(d.channel, d.server)
    /\ d.buf = Sent(d.channel, d.key, d.msg)

\* The inductive invariant: datagrams carry what they should where they should,
\* and VLC has got nothing else.
IInv ==
    /\ aesSeq \in [ChannelIds -> KeyIds]
    /\ \A d \in datagrams : Carried(d)
    /\ ForwardedIntact

\* A viewer only gets datagrams of its own channel, and restores them.
LEMMA OnVideoMessageIntact ==
    ASSUME ServerIds \subseteq 1 .. 3, NEW d, Carried(d), NEW viewer \in Viewers,
           d.port = getVideoPortById(viewer[1], viewer[2])
    PROVE  /\ d.channel = viewer[1]
           /\ Len(Received(viewer[1], d.buf)) = Len(d.msg)
           /\ \A i \in 1 .. Len(d.msg) :
                 i \notin 5 .. 8 => Received(viewer[1], d.buf)[i] = d.msg[i]
<1>1. d.channel = viewer[1]
  <2>1. viewer[1] \in Nat /\ viewer[2] \in 1 .. 3
    <3>1. viewer[1] \in ChannelIds /\ viewer[2] \in ServerIds
      BY DEF Viewers
    <3>2. QED
      BY <3>1, WireAssumption, Zenon
  <2>2. d.channel \in Nat /\ d.server \in 1 .. 3
    BY WireAssumption, Zenon DEF Carried
  <2>3. getVideoPortById(d.channel, d.server) = getVideoPortById(viewer[1], viewer[2])
    BY Zenon DEF Carried
  <2>4. d.channel = viewer[1] /\ d.server = viewer[2]
    BY <2>1, <2>2, <2>3, OneStream, SMT
  <2>5. QED
    BY <2>4
<1>2. QED
  BY <1>1, Restored DEF Carried

\* IInv holds initially.
LEMMA IInvInit == Init => IInv
BY WireAssumption DEF Init, IInv, ForwardedIntact, KeyIds

\* IInv is inductive.
LEMMA IInvStep ==
    ASSUME ServerIds \subseteq 1 .. 3, IInv, [Next]_vars
    PROVE  IInv'
<1> USE DEF IInv
<1>1. ASSUME NEW c \in ChannelIds, Broadcast(c)
      PROVE  IInv'
  <2>1. 0 \in KeyIds
    BY WireAssumption DEF KeyIds
  <2>2. aesSeq' \in [ChannelIds -> KeyIds]
    BY <1>1, <2>1 DEF Broadcast
  <2>3. QED
    BY <1>1, <2>2 DEF Broadcast, ForwardedIntact
<1>2. ASSUME NEW c \in ChannelIds, Stop(c)
      PROVE  IInv'
  BY <1>2 DEF Stop, ForwardedIntact
<1>3. ASSUME NEW c \in ChannelIds, ChangeKey(c)
      PROVE  IInv'
  <2>1. (aesSeq[c] + 1) % NumKeys \in KeyIds
    BY WireAssumption DEF KeyIds
  <2>2. aesSeq' \in [ChannelIds -> KeyIds]
    BY <1>3, <2>1 DEF ChangeKey
  <2>3. QED
    BY <1>3, <2>2 DEF ChangeKey, ForwardedIntact
<1>4. ASSUME NEW c \in ChannelIds, NEW msg \in Messages, OnFfmpegMessage(c, msg)
      PROVE  IInv'
  <2>1. ASSUME NEW d \in datagrams'
        PROVE  Carried(d)
    <3>1. CASE d \in datagrams
      BY <3>1
    <3>2. CASE d \notin datagrams
      <4>1. PICK s \in ServerIds :
               d = [port |-> getVideoPortById(c, s), buf |-> Sent(c, aesSeq[c], msg),
                    channel |-> c, server |-> s, key |-> aesSeq[c], msg |-> msg]
        BY <1>4, <2>1, <3>2 DEF OnFfmpegMessage
      <4>2. aesSeq[c] \in KeyIds
        OBVIOUS
      <4>3. QED
        BY <4>1, <4>2 DEF Carried
    <3>3. QED
      BY <3>1, <3>2
  <2>2. UNCHANGED <<aesSeq, forwarded>>
    BY <1>4 DEF OnFfmpegMessage
  <2>3. QED
    BY <2>1, <2>2 DEF ForwardedIntact
<1>5. ASSUME NEW d \in datagrams, Gone(d)
      PROVE  IInv'
  BY <1>5 DEF Gone, ForwardedIntact
<1>6. ASSUME NEW d \in datagrams, NEW viewer \in Viewers, OnVideoMessage(viewer, d)
      PROVE  IInv'
  <2>1. /\ d.channel = viewer[1]
        /\ Len(Received(viewer[1], d.buf)) = Len(d.msg)
        /\ \A i \in 1 .. Len(d.msg) :
              i \notin 5 .. 8 => Received(viewer[1], d.buf)[i] = d.msg[i]
    <3>1. Carried(d)
      OBVIOUS
    <3>2. d.port = getVideoPortById(viewer[1], viewer[2])
      BY <1>6 DEF OnVideoMessage
    <3>3. QED
      BY <3>1, <3>2, OnVideoMessageIntact, Zenon
  <2>2. forwarded' = [viewer |-> viewer, buf |-> Received(viewer[1], d.buf), of |-> d]
    BY <1>6 DEF OnVideoMessage
  <2>3. /\ forwarded'.viewer = viewer /\ forwarded'.of = d
        /\ forwarded'.buf = Received(viewer[1], d.buf)
    BY <2>2
  <2>4. ForwardedIntact'
    BY <2>1, <2>3, Zenon DEF ForwardedIntact
  <2>5. UNCHANGED <<aesSeq, datagrams>>
    BY <1>6 DEF OnVideoMessage
  <2>6. QED
    BY <2>4, <2>5
<1>7. CASE UNCHANGED vars
  BY <1>7 DEF vars, ForwardedIntact
<1>8. QED
  BY <1>1, <1>2, <1>3, <1>4, <1>5, <1>6, <1>7 DEF Next

\* With SERVER_IDs from 1 to 3, VLC gets the packets of the viewer's channel as
\* ffmpeg sent them, for every set of packets, number of keys and cipher stream.
THEOREM ForwardedAsSent ==
    ASSUME ServerIds \subseteq 1 .. 3
    PROVE  Spec => []ForwardedIntact
<1>1. Init => IInv
  BY IInvInit
<1>2. IInv /\ [Next]_vars => IInv'
  BY IInvStep
<1>3. IInv => ForwardedIntact
  BY DEF IInv
<1>4. QED
  BY <1>1, <1>2, <1>3, PTL DEF Spec

\* With packets of at most 3000 bytes that are as long as their headers ask for,
\* no byte of the video goes out in clear.
THEOREM NothingInClear ==
    ASSUME Mtu <= MaxPayload, ServerIds \subseteq 1 .. 3,
           \A msg \in Messages : HoldsHeader(msg)
    PROVE  Spec => []PayloadEncrypted
<1>1. ASSUME NEW d \in datagrams, Carried(d)
      PROVE  \A i \in HeaderLength(d.msg) + 1 .. Len(d.msg) :
                /\ i > getHeaderLength(d.msg)
                /\ d.buf[i] = EncryptByte(d.msg[i],
                      Keystreams[d.channel][d.key][i - getHeaderLength(d.msg)])
  <2> DEFINE msg == d.msg
             h == getHeaderLength(msg)
             m == Len(msg) - h
             s == Keystreams[d.channel][d.key]
  <2>1. IsSent(d.buf, msg, d.key, s, h, m)
    BY <1>1, SentPacket DEF Carried
  <2>2. h <= HeaderLength(msg) /\ HeaderLength(msg) \in Int
    BY <1>1, ShortHeader DEF Carried
  <2> HIDE DEF h, m, s
  <2>3. /\ h \in Int /\ h >= 12 /\ m \in Nat /\ m <= MaxPayload /\ Len(msg) = h + m
    BY <2>1, WireAssumption DEF IsSent, IsPacket, MaxPayload
  <2>4. ASSUME NEW i \in HeaderLength(msg) + 1 .. Len(msg)
        PROVE  i > h /\ d.buf[i] = EncryptByte(msg[i], s[i - h])
    <3>1. i > h /\ i - h \in 1 .. m /\ i = h + (i - h)
      BY <2>2, <2>3
    <3>2. d.buf[h + (i - h)] = EncryptByte(msg[h + (i - h)], s[i - h])
      BY <2>1, <2>3, <3>1, Zenon DEF IsSent
    <3>3. QED
      BY <3>1, <3>2
  <2>5. QED
    BY <2>4 DEF h, s
<1>2. Init => IInv
  BY IInvInit
<1>3. IInv /\ [Next]_vars => IInv'
  BY IInvStep
<1>4. IInv => PayloadEncrypted
  BY <1>1 DEF IInv, PayloadEncrypted
<1>5. QED
  BY <1>2, <1>3, <1>4, PTL DEF Spec

=============================================================================
