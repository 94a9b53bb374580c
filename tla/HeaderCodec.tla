---------------------------- MODULE HeaderCodec ----------------------------
(***************************************************************************)
(* How a session of the TUN client tells the server its destination.  On a *)
(* fresh connection two headers of the connect request name it             *)
(* (argo/dialer.go, server/cfd/stream.go); on a pooled one the client puts *)
(* a binary header in front of the first message (argoConn in              *)
(* client/tun/proxy/argo.go), which the server takes off again (Decode in  *)
(* server/cfd/packet.go).                                                  *)
(*                                                                         *)
(* Bytes are numbers below 256, messages sequences of bytes.  An address   *)
(* in text form is its brackets, address and port.                         *)
(***************************************************************************)
EXTENDS Naturals, Sequences

ICMP == 1
TCP  == 6
UDP  == 17

Byte == 0..255
Port == 0..65535

\* Network.String and Packet.protocol.
protocol(n) ==
    CASE n = ICMP -> "icmp" [] n = TCP -> "tcp" [] n = UDP -> "udp" [] OTHER -> ""

\* What the server is asked to dial.
Target(network, brackets, ip, port) ==
    [network |-> network, brackets |-> brackets, ip |-> ip, port |-> port]

NoTarget == Target("", FALSE, <<>>, 0)

\* Forward-Proto and Forward-Dest of a connect request; netip writes an IPv6
\* address in brackets.
header(m) == Target(protocol(m.Network), Len(m.DstIP) = 16, m.DstIP, m.DstPort)

-----------------------------------------------------------------------------
(* The client's side: argoConn *)

PutUint16(n) == <<n \div 256, n % 256>>

\* Faulty variant: the port in little-endian order.
parseHeaderSwapped(m) ==
    <<m.IPVersion, m.Network>> \o m.DstIP \o <<m.DstPort % 256, m.DstPort \div 256>>

\* Version, protocol, address and port: 8 bytes for IPv4, 20 for IPv6.
parseHeader(m) == <<m.IPVersion, m.Network>> \o m.DstIP \o PutUint16(m.DstPort)

addHeader(h, p) == h \o p

-----------------------------------------------------------------------------
(* The server's side: Decode *)

Invalid == [ok |-> FALSE]

Uint16(data, offset) == data[offset + 1] * 256 + data[offset + 2]

\* What remains after the address, from the given offset of data on.
DecodePort(data, offset) ==
    IF Len(data) < offset + 4
      THEN Invalid                               \* "missing port fields"
      ELSE [ok |-> TRUE, IPVersion |-> data[1], Protocol |-> data[2],
            DestIP |-> SubSeq(data, 3, offset),
            DestPort |-> Uint16(data, offset),
            Payload |-> SubSeq(data, offset + 3, Len(data))]

\* Faulty variant: the length check counts the port twice over.
DecodeStrict(data) ==
    CASE Len(data) < 2                     -> Invalid
      [] data[1] = 4 /\ Len(data) >= 2 + 4 + 6  -> DecodePort(data, 6)
      [] data[1] = 6 /\ Len(data) >= 2 + 16 + 6 -> DecodePort(data, 18)
      [] OTHER                             -> Invalid

Decode(data) ==
    CASE Len(data) < 2                     -> Invalid   \* "data too short"
      [] data[1] = 4 /\ Len(data) >= 2 + 4 + 2  -> DecodePort(data, 6)
      [] data[1] = 6 /\ Len(data) >= 2 + 16 + 2 -> DecodePort(data, 18)
      [] OTHER                             -> Invalid   \* length or version

-----------------------------------------------------------------------------
\* Packet.protocol and Packet.address; the version decides on the brackets.
PacketTarget(packet) ==
    Target(protocol(packet.Protocol), packet.IPVersion # 4, packet.DestIP,
           packet.DestPort)
=============================================================================
