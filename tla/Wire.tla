-------------------------------- MODULE Wire --------------------------------
(***************************************************************************)
(* What becomes of the video's packets between ffmpeg and VLC.  The        *)
(* broadcaster of each channel on air writes the id of the key in use over *)
(* a packet's timestamp, encrypts what RtpPacket takes for the payload and *)
(* sends the result to a port per provider.  The broadcast addresses of    *)
(* two providers may be one (configs.js), so the ports alone keep the      *)
(* streams apart.  A viewer decrypts under its channel's key of the        *)
(* packet's id and forwards the packet; that it has this key, or ignores   *)
(* the packet, is KeyDistribution's matter.                                *)
(***************************************************************************)
EXTENDS Ports, RtpPacket, FiniteSets

CONSTANTS
    ChannelIds,     \* channels that may be broadcast
    ServerIds,      \* SERVER_ID of the enabled providers
    NumKeys,        \* NUM_OF_AES_KEYS
    Mtu,            \* bound on a packet's length
    Messages,       \* packets ffmpeg may send
    Keystreams,     \* aes-128-ctr's bytes, by channel and id of the key
    None,
    MaxDatagrams    \* bound on datagrams under way

KeyIds == 0 .. NumKeys - 1
Viewers == ChannelIds \X ServerIds

ASSUME WireAssumption ==
    /\ ChannelIds \subseteq Nat /\ ServerIds \subseteq Nat
    /\ {NumKeys, Mtu, MaxDatagrams} \subseteq Nat /\ NumKeys > 0
    /\ NumKeys \div (256 * 256 * 256) < 128     \* getAesSeq shifts signed integers
    /\ \A m \in Messages : /\ m \in Seq(Bytes) /\ Len(m) <= Mtu
                           /\ Len(m) >= 12 /\ Len(m) >= getHeaderLength(m)
    /\ Keystreams \in [ChannelIds -> [KeyIds -> [1 .. Mtu -> Bytes]]]

VARIABLES
    onAir,          \* the channels that are broadcast now
    aesSeq,         \* the id of the key in use, by channel
    datagrams,      \* video datagrams under way, with what ffmpeg had sent
    forwarded       \* what a viewer sent to VLC last

vars == <<onAir, aesSeq, datagrams, forwarded>>

Init ==
    /\ onAir = {}
    /\ aesSeq = [c \in ChannelIds |-> 0]
    /\ datagrams = {}
    /\ forwarded = None

EncryptByte(byte, by) == (byte + by) % 256
DecryptByte(byte, by) == (byte + 256 - by) % 256

\* crypto restarts the stream with every packet.
Encrypted(stream, bytes) == [i \in 1 .. Len(bytes) |-> EncryptByte(bytes[i], stream[i])]
Decrypted(stream, bytes) == [i \in 1 .. Len(bytes) |-> DecryptByte(bytes[i], stream[i])]

-----------------------------------------------------------------------------
\* A broadcaster's setup for a channel, and the end of its program.
Broadcast(c) ==
    /\ c \notin onAir /\ onAir' = onAir \cup {c}
    /\ aesSeq' = [aesSeq EXCEPT ![c] = 0]
    /\ UNCHANGED <<datagrams, forwarded>>

Stop(c) ==
    /\ c \in onAir /\ onAir' = onAir \ {c}
    /\ UNCHANGED <<aesSeq, datagrams, forwarded>>

\* The rest of changeKey is Broadcaster's.
ChangeKey(c) ==
    /\ c \in onAir
    /\ aesSeq' = [aesSeq EXCEPT ![c] = (@ + 1) % NumKeys]
    /\ UNCHANGED <<onAir, datagrams, forwarded>>

Sent(c, keyId, msg) ==
    LET rtpPacket == setAesSeq(msg, keyId) IN
    setPayload(rtpPacket, Encrypted(Keystreams[c][keyId], getPayload(rtpPacket)))

OnFfmpegMessage(c, msg) ==
    /\ c \in onAir
    /\ Cardinality(datagrams) + Cardinality(ServerIds) <= MaxDatagrams
    /\ datagrams' = datagrams \cup
            {[port |-> getVideoPortById(c, s), buf |-> Sent(c, aesSeq[c], msg),
              channel |-> c, server |-> s, key |-> aesSeq[c], msg |-> msg] : s \in ServerIds}
    /\ UNCHANGED <<onAir, aesSeq, forwarded>>

Received(c, buf) ==
    setPayload(buf, Decrypted(Keystreams[c][getAesSeq(buf)], getPayload(buf)))

\* A broadcast reaches all who listen, so the datagram stays.
OnVideoMessage(viewer, d) ==
    /\ d.port = getVideoPortById(viewer[1], viewer[2])
    /\ forwarded' = [viewer |-> viewer, buf |-> Received(viewer[1], d.buf), of |-> d]
    /\ UNCHANGED <<onAir, aesSeq, datagrams>>

\* The datagram has reached everybody, or is lost.
Gone(d) ==
    /\ datagrams' = datagrams \ {d}
    /\ UNCHANGED <<onAir, aesSeq, forwarded>>

Next ==
    \/ \E c \in ChannelIds :
          \/ Broadcast(c) \/ Stop(c) \/ ChangeKey(c)
          \/ \E msg \in Messages : OnFfmpegMessage(c, msg)
    \/ \E d \in datagrams : Gone(d) \/ \E viewer \in Viewers : OnVideoMessage(viewer, d)

Spec == Init /\ [][Next]_vars

-----------------------------------------------------------------------------
(***************************************************************************)
(* database.js:5: "no two channels can send video to same ports (by        *)
(* implementation of function)."  The streams on air have no port in       *)
(* common, whichever two channels and providers they are of.               *)
(***************************************************************************)
NoPortShared ==
    \A c1, c2 \in onAir, s1, s2 \in ServerIds :
        <<c1, s1>> # <<c2, s2>> => StreamPorts(c1, s1) \cap StreamPorts(c2, s2) = {}

(***************************************************************************)
(* VLC gets packets of the viewer's own channel as ffmpeg sent them, but   *)
(* for the four bytes of the timestamp.  Both ends compute the payload's   *)
(* place from bytes that are never encrypted: the extension's length,      *)
(* which is read from encrypted bytes, always comes out as 0.              *)
(***************************************************************************)
ForwardedIntact ==
    forwarded # None =>
        LET buf == forwarded.buf  msg == forwarded.of.msg IN
        /\ forwarded.of.channel = forwarded.viewer[1]
        /\ Len(buf) = Len(msg)
        /\ \A i \in 1 .. Len(msg) : i \notin 5 .. 8 => buf[i] = msg[i]

(***************************************************************************)
(* No byte of the video goes out in clear: however wrong the code's header *)
(* length is for packets with CSRCs or an extension, it is never too long. *)
(***************************************************************************)
PayloadEncrypted ==
    \A d \in datagrams : \A i \in HeaderLength(d.msg) + 1 .. Len(d.msg) :
        /\ i > getHeaderLength(d.msg)
        /\ d.buf[i] = EncryptByte(d.msg[i],
                                  Keystreams[d.channel][d.key][i - getHeaderLength(d.msg)])

=============================================================================
