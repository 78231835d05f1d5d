----------------------------- MODULE PacketCodec -----------------------------
(***************************************************************************)
(* The bytes of a packet: the mesh packet with its path and payload, the   *)
(* group data in the payload, and the application packet in that.  The     *)
(* state is a buffer that grows byte by byte: the definitions are checked  *)
(* for every buffer of a bounded length.                                   *)
(***************************************************************************)
EXTENDS Naturals, Sequences, SequencesExt

CONSTANTS
    Byte,           \* the bytes a buffer is filled with
    MaxPath,        \* SLE_TEAM_MAX_PATH_SIZE
    MaxPayload,     \* SLE_TEAM_MAX_PAYLOAD_SIZE
    MaxLen          \* bound on the buffer: a link's lengths have 16 bits

ASSUME CodecAssumption ==
    /\ Byte \subseteq 0 .. 255 /\ MaxPath \in Nat /\ MaxPayload \in 13 .. 65535
    /\ MaxLen \in Nat /\ MaxLen =< 65535

VARIABLE buf

TransportFlood == 0
Flood == 1
Direct == 2
TransportDirect == 3
GroupData == 6
AppHeader == 10
Wrapper == 3
MaxPacket == 1 + 4 + 1 + MaxPath + MaxPayload

Fail(ret) == [ret |-> ret]
From(b, n) == SubSeq(b, n, Len(b))

U16(b, i) == b[i] + 256 * b[i + 1]
PutU16(v) == <<v % 256, (v \div 256) % 256>>

HasCodes(route) == route \in {TransportFlood, TransportDirect}
-----------------------------------------------------------------------------
MakeHeader(p) == 64 * (p.version % 4) + 4 * (p.type % 16) + (p.route % 4)
MakePathLength(hops, size) == 64 * (size - 1) + hops

(* sle_team_encode_mesh_packet                                              *)
EncodeMesh(p) ==
    LET codes == IF p.codes = << >> THEN << >> ELSE PutU16(p.codes[1]) \o PutU16(p.codes[2])
        bytes == <<MakeHeader(p)>> \o codes
                 \o <<MakePathLength(p.hops, IF p.size = 0 THEN 1 ELSE p.size)>> \o p.path \o p.payload
    IN  IF Len(p.payload) > MaxPayload \/ p.size > 3 \/ p.hops > 63 \/ Len(p.path) > MaxPath
          THEN Fail("ARG")
        ELSE IF MaxPacket < Len(bytes) THEN Fail("BUF")
        ELSE [ret |-> "OK", bytes |-> bytes]

(* What follows the path is cast to 16 bits (sle_team_packet.c:163), which  *)
(* cuts nothing off a length that a link reports in 16 bits.                *)
TooLong(b, at, path) == path > MaxPath \/ Len(b) < at + path \/ Len(b) - at - path > MaxPayload

(* sle_team_decode_mesh_packet; at is the place of the path's length.       *)
DecodeMesh(b) ==
    IF Len(b) < 2 THEN Fail("ARG")
    ELSE LET route == b[1] % 4
             at == IF HasCodes(route) THEN 6 ELSE 2
         IN  IF Len(b) < at THEN Fail("FORMAT")
             ELSE LET hops == b[at] % 64
                      size == b[at] \div 64 + 1
                      path == hops * size
                  IN  IF size > 3 THEN Fail("UNSUPPORTED")
                      ELSE IF TooLong(b, at, path) THEN Fail("FORMAT")
                      ELSE [ret |-> "OK",
                            packet |-> [version |-> b[1] \div 64, type |-> (b[1] \div 4) % 16, route |-> route,
                                        codes |-> IF HasCodes(route) THEN <<U16(b, 2), U16(b, 4)>> ELSE << >>,
                                        hops |-> hops, size |-> size,
                                        path |-> SubSeq(b, at + 1, at + path),
                                        payload |-> From(b, at + path + 1)]]

(* sle_team_wrap_mesh_group_data and sle_team_unwrap_mesh_group_data; the   *)
(* cipher's two bytes are zero.                                             *)
Wrap(hash, app, route) ==
    IF Len(app) + Wrapper > MaxPayload THEN Fail("BUF")
    ELSE [ret |-> "OK",
          packet |-> [version |-> 0, type |-> GroupData, route |-> route,
                      codes |-> IF HasCodes(route) THEN <<0, 0>> ELSE << >>,
                      hops |-> 0, size |-> 1, path |-> << >>, payload |-> <<hash, 0, 0>> \o app]]

Unwrap(p) ==
    IF p.type # GroupData \/ Len(p.payload) < Wrapper THEN Fail("FORMAT")
    ELSE [ret |-> "OK", hash |-> p.payload[1], app |-> From(p.payload, Wrapper + 1)]
-----------------------------------------------------------------------------
(* sle_team_encode_app_packet and sle_team_decode_app_packet                *)
EncodeApp(a) ==
    IF MaxPayload < AppHeader + Len(a.body) THEN Fail("BUF")
    ELSE [ret |-> "OK",
          bytes |-> <<a.kind, a.flags>> \o PutU16(a.seq) \o <<a.team, a.src, a.dst, a.ttl>>
                    \o PutU16(Len(a.body)) \o a.body]

BodyIsShorter(b) == Len(b) > AppHeader + U16(b, 9)
BodyFits(b) == Len(b) >= AppHeader + U16(b, 9)

DecodeApp(b) ==
    IF Len(b) < AppHeader THEN Fail("ARG")
    ELSE IF ~BodyFits(b) THEN Fail("FORMAT")
    ELSE [ret |-> "OK",
          packet |-> [kind |-> b[1], flags |-> b[2], seq |-> U16(b, 3), team |-> b[5], src |-> b[6],
                      dst |-> b[7], ttl |-> b[8], body |-> SubSeq(b, AppHeader + 1, AppHeader + U16(b, 9))]]

(* sle_team_send_app after sle_team_send_encoded_packet, and the way back   *)
(* at the start of sle_team_node_on_packet.                                 *)
Sent(a, hash) ==
    LET app == EncodeApp(a)
        mesh == IF app.ret # "OK" THEN app ELSE Wrap(hash, app.bytes, IF a.dst = 255 THEN Flood ELSE Direct)
    IN  IF mesh.ret # "OK" THEN mesh ELSE EncodeMesh(mesh.packet)

Received(b, hash) ==
    LET mesh == DecodeMesh(b)
        group == IF mesh.ret # "OK" THEN mesh ELSE Unwrap(mesh.packet)
    IN  IF group.ret # "OK" THEN group
        ELSE IF group.hash # hash THEN Fail("UNSUPPORTED") ELSE DecodeApp(group.app)
-----------------------------------------------------------------------------
CodecInit == buf = << >>
CodecNext == Len(buf) < MaxLen /\ \E b \in Byte : buf' = Append(buf, b)
CodecSpec == CodecInit /\ [][CodecNext]_buf
-----------------------------------------------------------------------------
(* An accepted buffer leaves no room to overrun: its path and payload fit   *)
(* the packet's arrays, and no byte of it is out of a byte's range.         *)
DecodedFits ==
    LET d == DecodeMesh(buf) IN
    d.ret = "OK" => /\ Len(d.packet.path) =< MaxPath /\ Len(d.packet.payload) =< MaxPayload
                    /\ d.packet.size * d.packet.hops = Len(d.packet.path)

(* A mesh packet is no other packet's bytes: what is decoded is encoded to  *)
(* the buffer it came from, with transport codes and path.                  *)
MeshInverse ==
    LET d == DecodeMesh(buf) IN d.ret = "OK" => EncodeMesh(d.packet) = [ret |-> "OK", bytes |-> buf]

(* An application packet's body ends in its buffer, and what is decoded is  *)
(* encoded to the buffer's start; one too long to be sent is refused.       *)
AppInverse ==
    LET d == DecodeApp(buf) IN
    d.ret = "OK" =>
      /\ AppHeader + Len(d.packet.body) =< Len(buf)
      /\ IF AppHeader + Len(d.packet.body) =< MaxPayload
           THEN EncodeApp(d.packet).ret = "OK" /\ IsPrefix(EncodeApp(d.packet).bytes, buf)
         ELSE EncodeApp(d.packet).ret = "BUF"

(* What a node sends is what the next hears, whatever the kind and the      *)
(* sequence number and however long the body, up to the longest that fits;  *)
(* a longer one is refused by the sender.                                   *)
ComesBack(a, hash) ==
    IF Len(a.body) + AppHeader + Wrapper =< MaxPayload
      THEN /\ Sent(a, hash).ret = "OK"
           /\ Received(Sent(a, hash).bytes, hash) = [ret |-> "OK", packet |-> a]
    ELSE Sent(a, hash).ret = "BUF"

Probe(seq, dst) ==
    [kind |-> Head(buf), flags |-> 0, seq |-> seq, team |-> 1, src |-> 7, dst |-> dst,
     ttl |-> 3, body |-> Tail(buf)]

SentIsHeard ==
    buf # << >> => \A seq \in {255, 65280}, dst \in {1, 255} : ComesBack(Probe(seq, dst), 9)

(* Encoding and decoding are each other's inverse, in both layers, and stay *)
(* within their buffers.                                                    *)
CodecInverse == DecodedFits /\ MeshInverse /\ AppInverse /\ SentIsHeard
=============================================================================
