-------------------------- MODULE TunSessionProofs --------------------------
(***************************************************************************)
(* Proofs about a session of the TUN client, for all destinations and      *)
(* payloads: the header the client writes is the one the server reads, the *)
(* server dials the destination of the session, and what arrives there is  *)
(* what the application wrote, as far as it fits the server's buffer.      *)
(***************************************************************************)
EXTENDS TunSession, SequenceTheorems, TLAPS

-----------------------------------------------------------------------------
(* The header *)

LEMMA PortBytes ==
  ASSUME NEW n \in Port
  PROVE  /\ n \div 256 \in Byte /\ n % 256 \in Byte
         /\ (n \div 256) * 256 + (n % 256) = n
BY DEF Byte, Port

\* Where the parts of a first message are.
LEMMA Layout ==
  ASSUME NEW v \in Byte, NEW n \in Byte, NEW ip \in Seq(Byte), NEW hi \in Byte, NEW lo \in Byte,
         NEW p \in Seq(Byte), NEW d, d = <<v, n>> \o ip \o <<hi, lo>> \o p
  PROVE  /\ d \in Seq(Byte) /\ Len(d) = Len(ip) + 4 + Len(p)
         /\ d[1] = v /\ d[2] = n
         /\ \A i \in 1..Len(ip) : d[2 + i] = ip[i]
         /\ d[Len(ip) + 3] = hi /\ d[Len(ip) + 4] = lo
         /\ \A i \in 1..Len(p) : d[Len(ip) + 4 + i] = p[i]
<1>a. PICK a : a = <<v, n>>
  OBVIOUS
<1>b. PICK b : b = <<hi, lo>>
  OBVIOUS
<1>c. PICK c : c = a \o ip
  OBVIOUS
<1>e. PICK e : e = c \o b
  OBVIOUS
<1>0. d = e \o p
  BY <1>a, <1>b, <1>c, <1>e
<1>1. /\ Len(a) = 2 /\ a[1] = v /\ a[2] = n
      /\ Len(b) = 2 /\ b[1] = hi /\ b[2] = lo
  BY <1>a, <1>b
<1>2. a \in Seq(Byte) /\ b \in Seq(Byte)
  BY <1>a, <1>b
<1>3. c \in Seq(Byte) /\ e \in Seq(Byte) /\ d \in Seq(Byte)
  BY <1>c, <1>e, <1>0, <1>2
<1>4. /\ Len(c) = Len(a) + Len(ip)
      /\ \A i \in 1..Len(a) : c[i] = a[i]
      /\ \A i \in 1..Len(ip) : c[Len(a) + i] = ip[i]
  BY <1>c, <1>2
<1>5. /\ Len(e) = Len(c) + Len(b)
      /\ \A i \in 1..Len(c) : e[i] = c[i]
      /\ \A i \in 1..Len(b) : e[Len(c) + i] = b[i]
  BY <1>e, <1>2, <1>3
<1>6. /\ Len(d) = Len(e) + Len(p)
      /\ \A i \in 1..Len(e) : d[i] = e[i]
      /\ \A i \in 1..Len(p) : d[Len(e) + i] = p[i]
  <2>1. PICK f : f = e \o p
    OBVIOUS
  <2>2. /\ Len(f) = Len(e) + Len(p)
        /\ \A i \in 1..Len(e) : f[i] = e[i]
        /\ \A i \in 1..Len(p) : f[Len(e) + i] = p[i]
    BY <1>3, <2>1
  <2> QED BY <1>0, <2>1, <2>2, Zenon
<1>7. Len(ip) \in Nat /\ Len(p) \in Nat
  OBVIOUS
<1>8. /\ Len(d) = Len(ip) + 4 + Len(p)
      /\ Len(c) = Len(ip) + 2 /\ Len(e) = Len(ip) + 4
  BY <1>1, <1>4, <1>5, <1>6, <1>7
<1>9. d[1] = v /\ d[2] = n
  <2>1. c[1] = a[1] /\ c[2] = a[2]
    BY <1>1, <1>4
  <2>2. e[1] = c[1] /\ e[2] = c[2]
    BY <1>5, <1>7, <1>8
  <2>3. d[1] = e[1] /\ d[2] = e[2]
    BY <1>6, <1>7, <1>8
  <2> QED BY <1>1, <2>1, <2>2, <2>3
<1>10. \A i \in 1..Len(ip) : d[2 + i] = ip[i]
  <2> TAKE i \in 1..Len(ip)
  <2>1. c[2 + i] = ip[i]
    BY <1>1, <1>4
  <2>2. 2 + i \in 1..Len(c) /\ 2 + i \in 1..Len(e)
    BY <1>7, <1>8
  <2> QED BY <1>5, <1>6, <2>1, <2>2
<1>11. d[Len(ip) + 3] = hi /\ d[Len(ip) + 4] = lo
  <2>1. e[Len(ip) + 3] = b[1] /\ e[Len(ip) + 4] = b[2]
    BY <1>1, <1>5, <1>7, <1>8
  <2>2. d[Len(ip) + 3] = e[Len(ip) + 3] /\ d[Len(ip) + 4] = e[Len(ip) + 4]
    BY <1>6, <1>7, <1>8
  <2> QED BY <1>1, <2>1, <2>2
<1>12. \A i \in 1..Len(p) : d[Len(ip) + 4 + i] = p[i]
  BY <1>6, <1>8
<1> QED BY <1>3, <1>8, <1>9, <1>10, <1>11, <1>12

LEMMA MessageLayout ==
  ASSUME NEW m \in Metadatas, NEW p \in Seq(Byte)
  PROVE  LET d == addHeader(parseHeader(m), p)
             n == Len(m.DstIP)
         IN  /\ d \in Seq(Byte) /\ Len(d) = n + 4 + Len(p)
             /\ d[1] = m.IPVersion /\ d[2] = m.Network
             /\ \A i \in 1..n : d[2 + i] = m.DstIP[i]
             /\ d[n + 3] = m.DstPort \div 256 /\ d[n + 4] = m.DstPort % 256
             /\ \A i \in 1..Len(p) : d[n + 4 + i] = p[i]
<1>1. m.IPVersion \in Byte /\ m.Network \in Byte
  BY MetadatasAssumption DEF Byte, TCP, UDP
<1>2. m.DstIP \in Seq(Byte)
  BY MetadatasAssumption
<1>3. m.DstPort \div 256 \in Byte /\ m.DstPort % 256 \in Byte
  BY MetadatasAssumption, PortBytes
<1>4. addHeader(parseHeader(m), p)
         = <<m.IPVersion, m.Network>> \o m.DstIP
             \o <<m.DstPort \div 256, m.DstPort % 256>> \o p
  BY Zenon DEF addHeader, parseHeader, PutUint16
<1>5. PICK d : d = addHeader(parseHeader(m), p)
  OBVIOUS
<1>6. /\ d \in Seq(Byte) /\ Len(d) = Len(m.DstIP) + 4 + Len(p)
      /\ d[1] = m.IPVersion /\ d[2] = m.Network
      /\ \A i \in 1..Len(m.DstIP) : d[2 + i] = m.DstIP[i]
      /\ d[Len(m.DstIP) + 3] = m.DstPort \div 256 /\ d[Len(m.DstIP) + 4] = m.DstPort % 256
      /\ \A i \in 1..Len(p) : d[Len(m.DstIP) + 4 + i] = p[i]
  <2> DEFINE v == m.IPVersion
             n == m.Network
             ip == m.DstIP
             hi == m.DstPort \div 256
             lo == m.DstPort % 256
  <2>1. v \in Byte /\ n \in Byte /\ ip \in Seq(Byte) /\ hi \in Byte /\ lo \in Byte
    BY <1>1, <1>2, <1>3, Zenon
  <2>2. d = <<v, n>> \o ip \o <<hi, lo>> \o p
    BY <1>4, <1>5, Zenon
  <2> HIDE DEF v, n, ip, hi, lo
  <2>3. /\ d \in Seq(Byte) /\ Len(d) = Len(ip) + 4 + Len(p)
        /\ d[1] = v /\ d[2] = n
        /\ \A i \in 1..Len(ip) : d[2 + i] = ip[i]
        /\ d[Len(ip) + 3] = hi /\ d[Len(ip) + 4] = lo
        /\ \A i \in 1..Len(p) : d[Len(ip) + 4 + i] = p[i]
    BY <2>1, <2>2, Layout
  <2> QED BY <2>3 DEF v, n, ip, hi, lo
<1> QED BY <1>5, <1>6, Zenon

\* A clipped message is the beginning of the message.
LEMMA ClipProperties ==
  ASSUME NEW m \in Seq(Byte), NEW n \in Nat
  PROVE  /\ Clip(m, n) \in Seq(Byte)
         /\ Len(Clip(m, n)) = IF Len(m) <= n THEN Len(m) ELSE n
         /\ \A i \in 1..Len(Clip(m, n)) : Clip(m, n)[i] = m[i]
<1>1. CASE Len(m) <= n
  BY <1>1 DEF Clip
<1>2. CASE ~(Len(m) <= n)
  <2>1. Clip(m, n) = SubSeq(m, 1, n)
    BY <1>2 DEF Clip
  <2>2. \A i \in 1..n : m[i] \in Byte
    BY <1>2
  <2>3. /\ SubSeq(m, 1, n) \in Seq(Byte) /\ Len(SubSeq(m, 1, n)) = n
        /\ \A i \in 1..n : SubSeq(m, 1, n)[i] = m[1 + i - 1]
    BY <2>2, SubSeqProperties
  <2>4. \A i \in 1..n : 1 + i - 1 = i
    OBVIOUS
  <2> QED BY <1>2, <2>1, <2>3, <2>4
<1> QED BY <1>1, <1>2

LEMMA PrefixOf ==
  ASSUME NEW a \in Seq(Byte), NEW b \in Seq(Byte), Len(a) <= Len(b),
         \A k \in 1..Len(a) : a[k] = b[k]
  PROVE  IsPrefix(a, b)
BY DEF IsPrefix

LEMMA LenOfThree ==
  ASSUME NEW a \in Seq(Byte), NEW b \in Seq(Byte), NEW c \in Seq(Byte)
  PROVE  Len((a \o b) \o c) = Len(a) + Len(b) + Len(c)
<1>1. a \o b \in Seq(Byte) /\ Len(a \o b) = Len(a) + Len(b)
  BY ConcatProperties
<1>2. PICK d \in Seq(Byte) : d = a \o b
  BY <1>1
<1>3. Len(d \o c) = Len(d) + Len(c)
  BY ConcatProperties
<1> QED BY <1>1, <1>2, <1>3, Zenon

LEMMA HeaderLength ==
  ASSUME NEW m \in Metadatas
  PROVE  /\ Len(parseHeader(m)) = Len(m.DstIP) + 4
         /\ Len(m.DstIP) \in {4, 16}
<1>1. Len(m.DstIP) \in {4, 16} /\ m.DstIP \in Seq(Byte)
  BY MetadatasAssumption
<1>2. PICK a : a = <<m.IPVersion, m.Network>>
  OBVIOUS
<1>3. PICK b : b = <<m.DstPort \div 256, m.DstPort % 256>>
  OBVIOUS
<1>4. a \in Seq(Byte) /\ b \in Seq(Byte) /\ Len(a) = 2 /\ Len(b) = 2
  <2>1. m.IPVersion \in Byte /\ m.Network \in Byte
    BY MetadatasAssumption DEF Byte, TCP, UDP
  <2>2. m.DstPort \div 256 \in Byte /\ m.DstPort % 256 \in Byte
    BY MetadatasAssumption, PortBytes
  <2> QED BY <1>2, <1>3, <2>1, <2>2
<1>5. parseHeader(m) = a \o m.DstIP \o b
  BY <1>2, <1>3, Zenon DEF parseHeader, PutUint16
<1>6. PICK ip \in Seq(Byte) : ip = m.DstIP
  BY <1>1
<1>7. PICK x \in Seq(Byte), y \in Seq(Byte) : x = a /\ y = b
  BY <1>4
<1>8. Len((x \o ip) \o y) = Len(x) + Len(ip) + Len(y)
  BY LenOfThree
<1>9. Len(parseHeader(m)) = 2 + Len(ip) + 2
  BY <1>4, <1>5, <1>6, <1>7, <1>8, Zenon
<1>10. Len(ip) \in Nat
  OBVIOUS
<1>11. 2 + Len(ip) + 2 = Len(ip) + 4
  BY <1>10
<1> QED BY <1>1, <1>6, <1>9, <1>11, Zenon

\* The server's read cuts the payload of a first message and leaves its header.
LEMMA ReadCutsPayload ==
  ASSUME NEW m \in Metadatas, NEW p \in Seq(Byte)
  PROVE  LET room == ServerBuf - Len(parseHeader(m)) IN
         /\ room \in Nat /\ room >= 2
         /\ ConnRead(addHeader(parseHeader(m), p))
              = addHeader(parseHeader(m), Clip(p, room))
<1> DEFINE room == ServerBuf - Len(parseHeader(m))
           n == Len(m.DstIP)
           d == addHeader(parseHeader(m), p)
           q == Clip(p, room)
           e == addHeader(parseHeader(m), q)
<1>1. n \in {4, 16} /\ room = ServerBuf - (n + 4)
  BY HeaderLength
<1>2. room \in Nat /\ room >= 2
  <2>1. PICK l \in {4, 16} : l = n
    BY <1>1
  <2>2. ServerBuf - (l + 4) \in Nat /\ ServerBuf - (l + 4) >= 2
    BY ServerBufAssumption
  <2> QED BY <1>1, <2>1, <2>2, Zenon
<1>3. /\ d \in Seq(Byte) /\ Len(d) = n + 4 + Len(p)
      /\ d[1] = m.IPVersion /\ d[2] = m.Network
      /\ \A i \in 1..n : d[2 + i] = m.DstIP[i]
      /\ d[n + 3] = m.DstPort \div 256 /\ d[n + 4] = m.DstPort % 256
      /\ \A i \in 1..Len(p) : d[n + 4 + i] = p[i]
  BY MessageLayout
<1>4. /\ q \in Seq(Byte) /\ Len(q) = IF Len(p) <= room THEN Len(p) ELSE room
      /\ \A i \in 1..Len(q) : q[i] = p[i]
  BY <1>2, ClipProperties
<1>a. room = ServerBuf - (n + 4)
  BY <1>1
<1> HIDE DEF q, room
<1>5. /\ e \in Seq(Byte) /\ Len(e) = n + 4 + Len(q)
      /\ e[1] = m.IPVersion /\ e[2] = m.Network
      /\ \A i \in 1..n : e[2 + i] = m.DstIP[i]
      /\ e[n + 3] = m.DstPort \div 256 /\ e[n + 4] = m.DstPort % 256
      /\ \A i \in 1..Len(q) : e[n + 4 + i] = q[i]
  BY <1>4, MessageLayout
<1> HIDE DEF d, n, e
<1>6. Len(p) \in Nat /\ Len(q) \in Nat /\ ServerBuf \in Nat
  BY <1>4, ServerBufAssumption
<1>7. /\ ConnRead(d) \in Seq(Byte)
      /\ Len(ConnRead(d)) = IF Len(d) <= ServerBuf THEN Len(d) ELSE ServerBuf
      /\ \A i \in 1..Len(ConnRead(d)) : ConnRead(d)[i] = d[i]
  <2>1. ConnRead(d) = Clip(d, ServerBuf)
    BY DEF ConnRead
  <2>2. d \in Seq(Byte) /\ ServerBuf \in Nat
    BY <1>3, <1>6
  <2> QED BY <2>1, <2>2, ClipProperties
<1>8. Len(ConnRead(d)) = Len(e)
  <2>1. PICK ld, le, lp, lq, lc :
           ld = Len(d) /\ le = Len(e) /\ lp = Len(p) /\ lq = Len(q) /\ lc = Len(ConnRead(d))
    OBVIOUS
  <2>2. /\ ld = n + 4 + lp /\ le = n + 4 + lq
        /\ lq = IF lp <= room THEN lp ELSE room
        /\ lc = IF ld <= ServerBuf THEN ld ELSE ServerBuf
    BY <1>3, <1>4, <1>5, <1>7, <2>1, Zenon
  <2>3. lp \in Nat /\ ServerBuf \in Nat
    BY <1>6, <2>1, Zenon
  <2>4. room = ServerBuf - (n + 4) /\ n \in {4, 16}
    BY <1>1, <1>a, Zenon
  <2>5. lc = le
    BY <2>2, <2>3, <2>4
  <2> QED BY <2>1, <2>5, Zenon
<1>9. ASSUME NEW i \in 1..Len(e) PROVE d[i] = e[i]
  <2>1. \/ i \in {1, 2, n + 3, n + 4}
        \/ i \in 3..(n + 2)
        \/ i \in (n + 5)..(n + 4 + Len(q))
    BY <1>1, <1>5, <1>6
  <2>2. CASE i \in {1, 2, n + 3, n + 4}
    BY <1>3, <1>5, <2>2
  <2>3. CASE i \in 3..(n + 2)
    <3>1. PICK k \in 1..n : i = 2 + k
      <4>1. i - 2 \in 1..n /\ i = 2 + (i - 2)
        BY <1>1, <2>3
      <4> QED BY <4>1
    <3> QED BY <1>3, <1>5, <3>1
  <2>4. CASE i \in (n + 5)..(n + 4 + Len(q))
    <3>1. PICK k \in 1..Len(q) : i = n + 4 + k
      <4>1. i - (n + 4) \in 1..Len(q) /\ i = n + 4 + (i - (n + 4))
        BY <1>1, <1>6, <2>4
      <4> QED BY <4>1
    <3>2. k \in 1..Len(p)
      BY <1>2, <1>4, <1>6
    <3>3. d[i] = p[k] /\ e[i] = q[k] /\ q[k] = p[k]
      BY <1>3, <1>4, <1>5, <3>1, <3>2
    <3> QED BY <3>3
  <2> QED BY <2>1, <2>2, <2>3, <2>4
<1>10. ConnRead(d) = e
  BY <1>5, <1>7, <1>8, <1>9, SeqEqual
<1> QED BY <1>2, <1>10 DEF d, e, q, room

\* What both ends of a session mean by its destination.
Destination(m) ==
    Target(protocol(m.Network), m.IPVersion = 6, m.DstIP, m.DstPort)

\* The request of a fresh connection names the destination (dialer.go:110-121).
LEMMA RequestNamesDestination ==
  ASSUME NEW m \in Metadatas PROVE header(m) = Destination(m)
<1>1. m.IPVersion \in {4, 6} /\ Len(m.DstIP) = IF m.IPVersion = 4 THEN 4 ELSE 16
  BY MetadatasAssumption, Zenon
<1>2. (Len(m.DstIP) = 16) <=> (m.IPVersion = 6)
  BY <1>1
<1> QED BY <1>2, Zenon DEF header, Destination

\* Decode takes off the header that addHeader put on, whatever the payload, but
\* refuses a payload of a single byte (argo.go:68-107, packet.go:23-79).
THEOREM DecodeInvertsHeader ==
  ASSUME NEW m \in Metadatas, NEW p \in Seq(Byte)
  PROVE  LET packet == Decode(addHeader(parseHeader(m), p)) IN
         /\ packet.ok \in BOOLEAN
         /\ packet.ok <=> Len(p) >= 2
         /\ packet.ok => PacketTarget(packet) = Destination(m) /\ packet.Payload = p
<1> DEFINE d == addHeader(parseHeader(m), p)
           n == Len(m.DstIP)
           packet == Decode(d)
           full == [ok |-> TRUE, IPVersion |-> d[1], Protocol |-> d[2],
                    DestIP |-> SubSeq(d, 3, n + 2), DestPort |-> Uint16(d, n + 2),
                    Payload |-> SubSeq(d, n + 5, Len(d))]
<1>1. /\ d \in Seq(Byte) /\ Len(d) = n + 4 + Len(p)
      /\ d[1] = m.IPVersion /\ d[2] = m.Network
      /\ \A i \in 1..n : d[2 + i] = m.DstIP[i]
      /\ d[n + 3] = m.DstPort \div 256 /\ d[n + 4] = m.DstPort % 256
      /\ \A i \in 1..Len(p) : d[n + 4 + i] = p[i]
  BY MessageLayout
<1>2. /\ m.IPVersion \in {4, 6} /\ m.DstIP \in Seq(Byte) /\ m.DstPort \in Port
      /\ n = IF m.IPVersion = 4 THEN 4 ELSE 16
  BY MetadatasAssumption
<1>3. Len(p) \in Nat
  OBVIOUS
<1> HIDE DEF d, n
<1>4. packet = IF Len(p) < 2 THEN Invalid ELSE full
  <2>1. packet = DecodePort(d, n + 2)
    BY <1>1, <1>2, <1>3 DEF Decode
  <2>2. Len(d) < (n + 2) + 4 <=> Len(p) < 2
    <3>1. PICK lp \in Nat : lp = Len(p)
      BY <1>3
    <3>2. (n + 4 + lp) < (n + 2) + 4 <=> lp < 2
      BY <1>2
    <3> QED BY <1>1, <3>1, <3>2
  <2>3. (n + 2) + 3 = n + 5
    BY <1>2
  <2> QED BY <2>1, <2>2, <2>3 DEF DecodePort
<1>5. SubSeq(d, 3, n + 2) = m.DstIP
  <2>1. \A i \in 3..(n + 2) : d[i] \in Byte
    BY <1>1, <1>2, <1>3
  <2>2. /\ SubSeq(d, 3, n + 2) \in Seq(Byte)
        /\ Len(SubSeq(d, 3, n + 2)) = n
        /\ \A i \in 1..n : SubSeq(d, 3, n + 2)[i] = d[3 + i - 1]
    BY <1>2, <2>1, SubSeqProperties
  <2> QED BY <1>1, <1>2, <2>2, SeqEqual DEF n
<1>6. SubSeq(d, n + 5, Len(d)) = p
  <2>1. \A i \in (n + 5)..Len(d) : d[i] \in Byte
    BY <1>1, <1>2, <1>3
  <2>2. /\ SubSeq(d, n + 5, Len(d)) \in Seq(Byte)
        /\ Len(SubSeq(d, n + 5, Len(d))) = Len(p)
        /\ \A i \in 1..Len(p) : SubSeq(d, n + 5, Len(d))[i] = d[n + 5 + i - 1]
    BY <1>1, <1>2, <1>3, <2>1, SubSeqProperties
  <2>3. \A i \in 1..Len(p) : SubSeq(d, n + 5, Len(d))[i] = p[i]
    BY <1>1, <1>2, <1>3, <2>2
  <2> QED BY <2>2, <2>3, SeqEqual
<1>7. Uint16(d, n + 2) = m.DstPort
  <2>1. Uint16(d, n + 2) = (m.DstPort \div 256) * 256 + (m.DstPort % 256)
    BY <1>1, <1>2 DEF Uint16
  <2> QED BY <1>2, <2>1, PortBytes
<1>8. (m.IPVersion # 4) <=> (m.IPVersion = 6)
  BY <1>2
<1>9. PacketTarget(full) = Destination(m)
  <2>1. /\ full.Protocol = m.Network /\ full.DestIP = m.DstIP
        /\ full.DestPort = m.DstPort /\ full.IPVersion = m.IPVersion
    BY <1>1, <1>5, <1>7
  <2> HIDE DEF full
  <2> QED BY <1>8, <2>1, Zenon DEF PacketTarget, Destination
<1>10. full.ok = TRUE /\ full.Payload = p
  BY <1>6
<1> HIDE DEF full, packet
<1>11. ASSUME Len(p) < 2 PROVE packet.ok = FALSE
  BY <1>3, <1>4, <1>11 DEF Invalid
<1>12. ASSUME ~(Len(p) < 2) PROVE packet = full
  BY <1>3, <1>4, <1>12
<1>13. Len(p) >= 2 <=> ~(Len(p) < 2)
  BY <1>3
<1>14. packet = Decode(addHeader(parseHeader(m), p))
  BY DEF packet, d
<1> QED BY <1>9, <1>10, <1>11, <1>12, <1>13, <1>14, Zenon

-----------------------------------------------------------------------------
(* The inductive invariant *)

\* The k-th message of the session as the client sends it.
Msg(k) == IF k = 1 /\ hdr # "none" THEN addHeader(parseHeader(md), sent[1]) ELSE sent[k]

\* How many messages the handler has taken, as long as it runs.
Taken ==
    IF srv = "loop" THEN Len(got)
    ELSE IF srv \in {"dial", "payload"} /\ hdr # "none" THEN 1
    ELSE 0

\* What arrives of the k-th payload.
Kept(k) == Clip(sent[k], Room(k))

Running == srv \notin {"refused", "over"}
Told    == srv \in {"dial", "payload", "loop"}

\* Before a session begins nothing has been said.
IdleInv ==
    /\ app = "idle" =>
          /\ sent = <<>> /\ wire = <<>> /\ got = <<>> /\ hdr = "none"
          /\ first = <<>> /\ dialled = <<>>
          /\ srv \in {"none", "first", "over"}
    /\ app # "idle" => md \in Metadatas

\* Client and server agree on whether the first message has a header, and a
\* connection that is open has a handler.
PhaseInv ==
    /\ link = "none" => srv = "none"
    /\ link = "pooled" => app = "idle" /\ srv = "first"
    /\ link = "open" => app = "piping" /\ (srv = "first" \/ Told)
    /\ hdr = "due" => sent = <<>> /\ ~Told
    /\ hdr = "sent" => sent # <<>>
    /\ (srv = "first" /\ hdr = "none") => app = "idle"
    /\ srv \in {"none", "first", "dial", "payload"} => got = <<>>
    /\ srv = "dial" => first = IF hdr = "none" THEN <<>> ELSE Kept(1)
    /\ srv = "payload" => hdr = "sent" /\ first = Kept(1)
    /\ (srv = "loop" /\ hdr = "sent") => got # <<>>

\* What is under way follows what has been taken, without a gap; as long as the
\* connection is open nothing is missing.
WireInv ==
    /\ Running => /\ Taken + Len(wire) <= Len(sent)
                  /\ \A i \in 1..Len(wire) : wire[i] = Msg(Taken + i)
    /\ link = "open" => Taken + Len(wire) = Len(sent)

GotInv == Len(got) <= Len(sent) /\ \A i \in 1..Len(got) : got[i] = Kept(i)

RefusedInv == srv = "refused" => sent # <<>> /\ Len(sent[1]) < 2

TargetInv ==
    /\ Told => target = Destination(md)
    /\ dialled # <<>> => dialled = <<Destination(md), Via(Destination(md))>>

IInv == TypeOK /\ IdleInv /\ PhaseInv /\ WireInv /\ GotInv /\ RefusedInv /\ TargetInv

-----------------------------------------------------------------------------
(* Each part of the invariant is preserved *)

LEMMA InitInv == Init => IInv
<1> SUFFICES ASSUME Init PROVE IInv
  OBVIOUS
<1> USE DEF Init
<1>1. TypeOK
  BY BoundsAssumption, ServerBufAssumption DEF TypeOK
<1>2. IdleInv /\ PhaseInv /\ RefusedInv
  BY DEF IdleInv, PhaseInv, RefusedInv, Told
<1>3. WireInv /\ GotInv
  BY DEF WireInv, GotInv, Taken
<1>4. TargetInv
  BY DEF TargetInv, Told
<1> QED BY <1>1, <1>2, <1>3, <1>4 DEF IInv

\* What the client sends is a sequence of bytes.
LEMMA MessageType ==
  ASSUME IInv, NEW p \in Payloads, app # "idle"
  PROVE  Message(p) \in Seq(Byte)
<1>1. p \in Seq(Byte) /\ md \in Metadatas
  BY PayloadsAssumption DEF IInv, IdleInv
<1>2. addHeader(parseHeader(md), p) \in Seq(Byte)
  BY <1>1, MessageLayout
<1> QED BY <1>1, <1>2 DEF Message

\* The server's buffer has room for two bytes of a payload behind a header.
LEMMA RoomType ==
  ASSUME IInv, app # "idle", NEW k \in Nat
  PROVE  Room(k) \in Nat /\ Room(k) >= 2 /\ Room(k) <= ServerBuf
<1>1. md \in Metadatas
  BY DEF IInv, IdleInv
<1>2. ServerBuf \in Nat /\ ServerBuf >= 22
  BY ServerBufAssumption
<1>3. Len(parseHeader(md)) = Len(md.DstIP) + 4 /\ Len(md.DstIP) \in {4, 16}
  BY <1>1, HeaderLength
<1>4. PICK l \in {8, 20} : l = Len(parseHeader(md))
  <2>1. PICK n \in {4, 16} : n = Len(md.DstIP)
    BY <1>3
  <2>2. n + 4 \in {8, 20}
    OBVIOUS
  <2> QED BY <1>3, <2>1, <2>2
<1>5. Room(k) = IF k = 1 /\ hdr # "none" THEN ServerBuf - l ELSE ServerBuf
  BY <1>4, Zenon DEF Room
<1> QED BY <1>2, <1>5

\* A part of each payload arrives, of two bytes or more if it has as many.
LEMMA KeptProperties ==
  ASSUME IInv, app # "idle", NEW k \in 1..Len(sent)
  PROVE  /\ sent[k] \in Seq(Byte) /\ Kept(k) \in Seq(Byte)
         /\ Len(Kept(k)) = IF Len(sent[k]) <= Room(k) THEN Len(sent[k]) ELSE Room(k)
         /\ \A i \in 1..Len(Kept(k)) : Kept(k)[i] = sent[k][i]
         /\ Kept(k) # <<>> /\ Len(Kept(k)) <= ServerBuf
         /\ Len(Kept(k)) >= 2 <=> Len(sent[k]) >= 2
<1>1. sent \in Seq(Payloads) /\ Len(sent) \in Nat
  BY DEF IInv, TypeOK
<1>2. sent[k] \in Seq(Byte) /\ Len(sent[k]) \in Nat /\ Len(sent[k]) > 0 /\ k \in Nat
  BY <1>1, PayloadsAssumption
<1>3. Room(k) \in Nat /\ Room(k) >= 2 /\ Room(k) <= ServerBuf
  BY <1>2, RoomType
<1>4. /\ Kept(k) \in Seq(Byte)
      /\ Len(Kept(k)) = IF Len(sent[k]) <= Room(k) THEN Len(sent[k]) ELSE Room(k)
      /\ \A i \in 1..Len(Kept(k)) : Kept(k)[i] = sent[k][i]
  BY <1>2, <1>3, ClipProperties DEF Kept
<1>5. Len(Kept(k)) > 0 /\ Len(Kept(k)) <= ServerBuf
  BY <1>2, <1>3, <1>4, ServerBufAssumption
<1>6. Len(Kept(k)) >= 2 <=> Len(sent[k]) >= 2
  BY <1>2, <1>3, <1>4
<1>7. Kept(k) # <<>>
  BY <1>5
<1> QED BY <1>2, <1>4, <1>5, <1>6, <1>7

\* The first message of a pooled connection is what Decode understands.
LEMMA FirstMessage ==
  ASSUME IInv, srv = "first", wire # <<>>
  PROVE  /\ app # "idle" /\ hdr = "sent" /\ md \in Metadatas
         /\ sent # <<>> /\ Len(sent[1]) \in Nat
         /\ Kept(1) \in Seq(Byte) /\ Len(Kept(1)) <= ServerBuf
         /\ LET packet == Decode(ConnRead(Head(wire))) IN
              /\ packet.ok <=> Len(sent[1]) >= 2
              /\ packet.ok => PacketTarget(packet) = Destination(md)
                               /\ packet.Payload = Kept(1)
<1>1. app # "idle" /\ md \in Metadatas
  BY DEF IInv, IdleInv
<1>2. /\ sent \in Seq(Payloads) /\ wire \in Seq(Seq(Byte))
      /\ Len(wire) <= Len(sent) /\ \A i \in 1..Len(wire) : wire[i] = Msg(0 + i)
  BY DEF IInv, TypeOK, WireInv, Taken, Running
<1>3. sent # <<>> /\ 1 \in 1..Len(sent) /\ Head(wire) = Msg(1)
  BY <1>2
<1>4. hdr = "sent"
  BY <1>1, <1>3 DEF IInv, TypeOK, PhaseInv
<1>5. Head(wire) = addHeader(parseHeader(md), sent[1])
  BY <1>3, <1>4 DEF Msg
<1>6. /\ sent[1] \in Seq(Byte) /\ Kept(1) \in Seq(Byte) /\ Len(Kept(1)) <= ServerBuf
      /\ Len(Kept(1)) >= 2 <=> Len(sent[1]) >= 2
  BY <1>1, <1>3, KeptProperties
<1>7. ConnRead(Head(wire)) = addHeader(parseHeader(md), Kept(1))
  <2>1. Room(1) = ServerBuf - Len(parseHeader(md))
    BY <1>4 DEF Room
  <2> QED BY <1>1, <1>5, <1>6, <2>1, ReadCutsPayload, Zenon DEF Kept
<1>8. Len(sent[1]) \in Nat
  BY <1>6
<1> QED BY <1>1, <1>3, <1>4, <1>6, <1>7, <1>8, DecodeInvertsHeader, Zenon

\* What was written stays as it is when more is written.
LEMMA SentGrows ==
  ASSUME TypeOK, NEW p \in Payloads, Sent(p)
  PROVE  /\ Len(sent') = Len(sent) + 1 /\ sent'[Len(sent) + 1] = p
         /\ \A i \in 1..Len(sent) : sent'[i] = sent[i]
         /\ sent' # <<>> /\ (sent # <<>> => sent'[1] = sent[1])
<1>1. sent \in Seq(Payloads) /\ sent' = Append(sent, p)
  BY DEF TypeOK, Sent
<1>2. /\ Len(sent') = Len(sent) + 1 /\ sent'[Len(sent) + 1] = p
      /\ \A i \in 1..Len(sent) : sent'[i] = sent[i]
      /\ sent' # <<>>
  BY <1>1, AppendProperties
<1>3. sent # <<>> => 1 \in 1..Len(sent)
  BY <1>1
<1> QED BY <1>2, <1>3

LEMMA SentNotEmpty ==
  ASSUME IInv, sent # <<>>
  PROVE  Kept(1) \in Seq(Byte) /\ Kept(1) # <<>> /\ Len(Kept(1)) <= ServerBuf
<1>1. 1 \in 1..Len(sent)
  BY DEF IInv, TypeOK
<1>2. app # "idle"
  BY DEF IInv, IdleInv
<1> QED BY <1>1, <1>2, KeptProperties

\* What arrives of a payload does not depend on what is written after it.
LEMMA KeptStays ==
  ASSUME NEW k, sent'[k] = sent[k], UNCHANGED md, (hdr' # "none") <=> (hdr # "none")
  PROVE  Kept(k)' = Kept(k)
BY DEF Kept, Room, Clip

\* A sequence of short messages stays one.
LEMMA ShortAppend ==
  ASSUME NEW s \in Seq(Seq(Byte)), \A i \in DOMAIN s : Len(s[i]) <= ServerBuf,
         NEW m \in Seq(Byte), Len(m) <= ServerBuf
  PROVE  /\ Append(s, m) \in Seq(Seq(Byte))
         /\ \A i \in DOMAIN Append(s, m) : Len(Append(s, m)[i]) <= ServerBuf
<1>1. PICK t : t = Append(s, m)
  OBVIOUS
<1>2. /\ t \in Seq(Seq(Byte)) /\ Len(t) = Len(s) + 1 /\ t[Len(s) + 1] = m
      /\ \A i \in 1..Len(s) : t[i] = s[i]
  BY <1>1, AppendProperties
<1>3. Len(s) \in Nat /\ DOMAIN t = 1..(Len(s) + 1) /\ DOMAIN s = 1..Len(s)
  BY <1>2
<1>4. ASSUME NEW i \in DOMAIN t PROVE Len(t[i]) <= ServerBuf
  <2>1. i \in 1..Len(s) \/ i = Len(s) + 1
    BY <1>3
  <2> QED BY <1>2, <1>3, <2>1
<1> QED BY <1>1, <1>2, <1>4

LEMMA TypeStep == ASSUME IInv, [Next]_vars PROVE TypeOK'
<1> USE DEF IInv, TypeOK, client, server
<1>1. CASE PreDial \/ LinkBreaks \/ RelayEnds
  BY <1>1 DEF PreDial, LinkBreaks, RelayEnds
<1>2. ASSUME NEW m \in Metadatas, DialPooled(m) \/ DialFresh(m) \/ DialFails(m)
      PROVE  TypeOK'
  BY <1>2 DEF DialPooled, DialFresh, DialFails
<1>3. ASSUME NEW p \in Payloads, Write(p) PROVE TypeOK'
  BY <1>3, MessageType, BoundsAssumption DEF Write, Sent
<1>4. ASSUME NEW p \in Payloads, WriteLost(p) PROVE TypeOK'
  BY <1>4, BoundsAssumption DEF WriteLost, Sent
<1>5. CASE ReadFirst
  <2>1. first' \in Seq(Byte) /\ Len(first') <= ServerBuf
    BY <1>5, FirstMessage DEF ReadFirst
  <2> QED BY <1>5, <2>1 DEF ReadFirst
<1>6. CASE ReadRefused
  BY <1>6 DEF ReadRefused, Return
<1>7. CASE Dials
  BY <1>7 DEF Dials, ServerDials, ServerDialFails, Return
<1>8. CASE Forwards
  <2>1. CASE WritePayload
    <3>1. /\ Append(got, first) \in Seq(Seq(Byte))
          /\ \A i \in DOMAIN Append(got, first) : Len(Append(got, first)[i]) <= ServerBuf
      BY ShortAppend
    <3> QED BY <2>1, <3>1 DEF WritePayload
  <2>2. CASE Forward
    <3>1. Head(wire) \in Seq(Byte) /\ Tail(wire) \in Seq(Seq(Byte))
      BY <2>2, HeadTailProperties DEF Forward
    <3>2. /\ ConnRead(Head(wire)) \in Seq(Byte)
          /\ Len(ConnRead(Head(wire))) <= ServerBuf
      BY <3>1, ServerBufAssumption, ClipProperties DEF ConnRead
    <3>3. PICK m \in Seq(Byte) : m = ConnRead(Head(wire)) /\ Len(m) <= ServerBuf
      BY <3>2
    <3>4. got' = Append(got, m)
      BY <2>2, <3>3 DEF Forward
    <3>5. got' \in Seq(Seq(Byte)) /\ \A i \in DOMAIN got' : Len(got'[i]) <= ServerBuf
      BY <3>3, <3>4, ShortAppend
    <3> QED BY <2>2, <3>1, <3>5 DEF Forward
  <2>3. CASE WritePayloadFails
    BY <2>3 DEF WritePayloadFails, Return
  <2>4. CASE ForwardFails
    <3>1. Tail(wire) \in Seq(Seq(Byte))
      BY <2>4, HeadTailProperties DEF ForwardFails
    <3> QED BY <2>4, <3>1 DEF ForwardFails, Return
  <2> QED BY <1>8, <2>1, <2>2, <2>3, <2>4 DEF Forwards
<1>9. CASE ServerReadFails \/ DestEnds \/ DestCloses
  BY <1>9 DEF ServerReadFails, DestEnds, DestCloses, Return
<1>10. CASE UNCHANGED vars
  BY <1>10 DEF vars
<1> QED BY <1>1, <1>2, <1>3, <1>4, <1>5, <1>6, <1>7, <1>8, <1>9, <1>10 DEF Next, ReadsFirst

LEMMA IdleStep == ASSUME IInv, [Next]_vars PROVE IdleInv'
<1> USE DEF IInv, IdleInv, client, server
<1>1. CASE PreDial \/ LinkBreaks \/ RelayEnds
  BY <1>1 DEF PreDial, LinkBreaks, RelayEnds
<1>2. ASSUME NEW m \in Metadatas, DialPooled(m) \/ DialFresh(m) \/ DialFails(m)
      PROVE  IdleInv'
  BY <1>2 DEF DialPooled, DialFresh, DialFails
<1>3. ASSUME NEW p \in Payloads, Write(p) \/ WriteLost(p) PROVE IdleInv'
  BY <1>3 DEF Write, WriteLost, Sent
<1>4. CASE ReadsFirst
  BY <1>4 DEF ReadsFirst, ReadFirst, ReadRefused, Return
<1>5. CASE Dials
  BY <1>5 DEF Dials, ServerDials, ServerDialFails, Return
<1>6. CASE Forwards
  BY <1>6 DEF Forwards, WritePayload, WritePayloadFails, Forward, ForwardFails, Return
<1>7. CASE ServerReadFails \/ DestEnds \/ DestCloses
  BY <1>7 DEF ServerReadFails, DestEnds, DestCloses, Return, PhaseInv
<1>8. CASE UNCHANGED vars
  BY <1>8 DEF vars
<1> QED BY <1>1, <1>2, <1>3, <1>4, <1>5, <1>6, <1>7, <1>8 DEF Next

LEMMA PhaseStep == ASSUME IInv, [Next]_vars PROVE PhaseInv'
<1> USE DEF IInv, TypeOK, PhaseInv, Told, client, server
<1>0. ASSUME UNCHANGED <<md, sent, hdr>> PROVE Kept(1)' = Kept(1)
  BY <1>0 DEF Kept, Room, Clip
<1>1. CASE PreDial \/ LinkBreaks \/ RelayEnds
  BY <1>0, <1>1 DEF PreDial, LinkBreaks, RelayEnds, IdleInv
<1>2. ASSUME NEW m \in Metadatas, DialPooled(m) \/ DialFresh(m) \/ DialFails(m)
      PROVE  PhaseInv'
  <2>1. CASE DialPooled(m)
    BY <2>1 DEF DialPooled, IdleInv
  <2>2. CASE DialFresh(m)
    BY <2>2 DEF DialFresh, IdleInv
  <2>3. CASE DialFails(m)
    BY <2>3 DEF DialFails, IdleInv
  <2> QED BY <1>2, <2>1, <2>2, <2>3
<1>3. ASSUME NEW p \in Payloads, Write(p) \/ WriteLost(p) PROVE PhaseInv'
  <2>1. sent' # <<>> /\ (sent # <<>> => sent'[1] = sent[1])
    BY <1>3, SentGrows DEF Write, WriteLost
  <2>2. md' = md /\ ((hdr' # "none") <=> (hdr # "none"))
    BY <1>3 DEF Write, WriteLost
  <2>3. sent # <<>> => Kept(1)' = Kept(1)
    BY <2>1, <2>2, KeptStays
  <2> QED BY <1>3, <2>1, <2>3 DEF Write, WriteLost
<1>4. CASE ReadFirst
  BY <1>0, <1>4, FirstMessage DEF ReadFirst, IdleInv
<1>5. CASE ReadRefused
  BY <1>0, <1>5, FirstMessage DEF ReadRefused, Return
<1>6. CASE Dials
  BY <1>0, <1>6, SentNotEmpty DEF Dials, ServerDials, ServerDialFails, Return
<1>7. CASE Forwards
  BY <1>0, <1>7 DEF Forwards, WritePayload, WritePayloadFails, Forward, ForwardFails, Return
<1>8. CASE ServerReadFails \/ DestEnds \/ DestCloses
  BY <1>0, <1>8 DEF ServerReadFails, DestEnds, DestCloses, Return
<1>9. CASE UNCHANGED vars
  BY <1>0, <1>9 DEF vars
<1> QED BY <1>1, <1>2, <1>3, <1>4, <1>5, <1>6, <1>7, <1>8, <1>9 DEF Next, ReadsFirst

LEMMA TargetStep == ASSUME IInv, [Next]_vars PROVE TargetInv' /\ RefusedInv'
<1> USE DEF IInv, TargetInv, RefusedInv, Told, client, server
<1>1. CASE PreDial \/ LinkBreaks \/ RelayEnds
  BY <1>1 DEF PreDial, LinkBreaks, RelayEnds, Via
<1>2. ASSUME NEW m \in Metadatas, DialPooled(m) \/ DialFresh(m) \/ DialFails(m)
      PROVE  TargetInv' /\ RefusedInv'
  BY <1>2, RequestNamesDestination DEF DialPooled, DialFresh, DialFails, IdleInv
<1>3. ASSUME NEW p \in Payloads, Write(p) \/ WriteLost(p)
      PROVE  TargetInv' /\ RefusedInv'
  <2>1. sent' # <<>> /\ (sent # <<>> => sent'[1] = sent[1])
    BY <1>3, SentGrows DEF Write, WriteLost
  <2> QED BY <1>3, <2>1 DEF Write, WriteLost
<1>4. CASE ReadFirst
  BY <1>4, FirstMessage DEF ReadFirst
<1>5. CASE ReadRefused
  <2>1. sent # <<>> /\ Len(sent[1]) < 2
    <3>1. Len(sent[1]) \in Nat
      BY <1>5, FirstMessage DEF ReadRefused
    <3> QED BY <1>5, <3>1, FirstMessage DEF ReadRefused
  <2> QED BY <1>5, <2>1 DEF ReadRefused, Return
<1>6. CASE Dials
  BY <1>6 DEF Dials, ServerDials, ServerDialFails, Return
<1>7. CASE Forwards
  BY <1>7 DEF Forwards, WritePayload, WritePayloadFails, Forward, ForwardFails, Return
<1>8. CASE ServerReadFails \/ DestEnds \/ DestCloses
  BY <1>8 DEF ServerReadFails, DestEnds, DestCloses, Return
<1>9. CASE UNCHANGED vars
  BY <1>9 DEF vars
<1> QED BY <1>1, <1>2, <1>3, <1>4, <1>5, <1>6, <1>7, <1>8, <1>9 DEF Next, ReadsFirst

\* The messages the client has sent stay the same when it writes another one,
\* which becomes the next.
LEMMA MsgGrows ==
  ASSUME IInv, NEW p \in Payloads, Sent(p), UNCHANGED md,
         hdr' = IF hdr = "due" THEN "sent" ELSE hdr
  PROVE  /\ \A k \in 1..Len(sent) : Msg(k)' = Msg(k)
         /\ \A k \in Nat : k = Len(sent) + 1 => Msg(k)' = Message(p)
<1>1. sent \in Seq(Payloads) /\ Len(sent) \in Nat /\ hdr \in {"none", "due", "sent"}
  BY DEF IInv, TypeOK
<1>2. /\ sent'[Len(sent) + 1] = p /\ \A i \in 1..Len(sent) : sent'[i] = sent[i]
  BY SentGrows DEF IInv
<1>3. (hdr' # "none") <=> (hdr # "none")
  OBVIOUS
<1>4. ASSUME NEW k \in 1..Len(sent) PROVE Msg(k)' = Msg(k)
  <2>1. sent'[k] = sent[k] /\ (k = 1 => sent'[1] = sent[1])
    BY <1>2
  <2> QED BY <1>3, <2>1 DEF Msg
<1>5. ASSUME NEW k \in Nat, k = Len(sent) + 1 PROVE Msg(k)' = Message(p)
  <2>1. CASE sent = <<>>
    <3>1. k = 1 /\ hdr # "sent" /\ sent'[1] = p
      BY <1>2, <1>5, <2>1 DEF IInv, PhaseInv
    <3> QED BY <1>1, <3>1 DEF Msg, Message
  <2>2. CASE sent # <<>>
    <3>1. k # 1 /\ hdr # "due"
      BY <1>1, <1>5, <2>2 DEF IInv, PhaseInv
    <3> QED BY <1>2, <1>5, <3>1 DEF Msg, Message
  <2> QED BY <2>1, <2>2
<1> QED BY <1>4, <1>5

\* Nothing that has arrived changes when the application writes.
LEMMA GotStays ==
  ASSUME GotInv, Len(sent) \in Nat, Len(got) \in Nat, Len(sent') = Len(sent) + 1,
         \A i \in 1..Len(sent) : sent'[i] = sent[i],
         UNCHANGED <<got, md>>, (hdr' # "none") <=> (hdr # "none")
  PROVE  GotInv'
<1>1. ASSUME NEW i \in 1..Len(got) PROVE got'[i] = Kept(i)'
  <2>1. i \in 1..Len(sent) /\ got[i] = Kept(i)
    BY DEF GotInv
  <2>2. Kept(i)' = Kept(i)
    BY <2>1, KeptStays
  <2> QED BY <2>1, <2>2
<1>2. Len(got') <= Len(sent')
  BY DEF GotInv
<1> QED BY <1>1, <1>2 DEF GotInv

LEMMA WireStep == ASSUME IInv, [Next]_vars PROVE WireInv' /\ GotInv'
<1> USE DEF IInv, client, server
<1>0. /\ sent \in Seq(Payloads) /\ Len(sent) \in Nat
      /\ wire \in Seq(Seq(Byte)) /\ Len(wire) \in Nat
      /\ got \in Seq(Seq(Byte)) /\ Len(got) \in Nat /\ Taken \in Nat
  BY DEF TypeOK, Taken
<1>k. ASSUME UNCHANGED <<md, sent, hdr>> PROVE \A k \in Nat : Kept(k)' = Kept(k)
  BY <1>k DEF Kept, Room, Clip
<1>1. CASE PreDial \/ LinkBreaks \/ RelayEnds
  <2>1. UNCHANGED <<md, sent, hdr, got>>
    BY <1>1 DEF PreDial, LinkBreaks, RelayEnds
  <2>2. GotInv'
    BY <1>0, <1>k, <2>1 DEF GotInv
  <2>3. WireInv'
    BY <1>1 DEF PreDial, LinkBreaks, RelayEnds, WireInv, Taken, Running, Msg, IdleInv
  <2> QED BY <2>2, <2>3
<1>2. ASSUME NEW m \in Metadatas, DialPooled(m) \/ DialFresh(m) \/ DialFails(m)
      PROVE  WireInv' /\ GotInv'
  BY <1>2 DEF DialPooled, DialFresh, DialFails, WireInv, GotInv, Taken, Running, IdleInv
<1>3. ASSUME NEW p \in Payloads, Write(p) PROVE WireInv' /\ GotInv'
  <2>1. /\ \A k \in 1..Len(sent) : Msg(k)' = Msg(k)
        /\ \A k \in Nat : k = Len(sent) + 1 => Msg(k)' = Message(p)
    BY <1>3, MsgGrows DEF Write
  <2>2. /\ Len(sent') = Len(sent) + 1
        /\ \A i \in 1..Len(sent) : sent'[i] = sent[i]
    BY <1>3, SentGrows DEF Write
  <2>3. /\ Taken + Len(wire) = Len(sent) /\ Running
        /\ \A i \in 1..Len(wire) : wire[i] = Msg(Taken + i)
    BY <1>3 DEF Write, WireInv, PhaseInv, Running, Told
  <2>4. Taken' = Taken
    BY <1>3 DEF Write, Taken, TypeOK
  <2>5. /\ Len(wire') = Len(wire) + 1 /\ wire'[Len(wire) + 1] = Message(p)
        /\ \A i \in 1..Len(wire) : wire'[i] = wire[i]
    BY <1>0, <1>3, MessageType, AppendProperties DEF Write, Sent
  <2>6. ASSUME NEW i \in 1..Len(wire') PROVE wire'[i] = Msg(Taken + i)'
    <3>1. PICK k \in Nat : k = Taken + i
      BY <1>0
    <3>2. Msg(Taken + i)' = Msg(k)'
      BY <2>4, <3>1 DEF Msg
    <3>3. CASE i \in 1..Len(wire)
      <4>1. k \in 1..Len(sent)
        BY <1>0, <2>3, <3>1, <3>3
      <4>2. wire[i] = Msg(k)
        BY <2>3, <3>1, <3>3
      <4> QED BY <2>1, <2>5, <3>2, <3>3, <4>1, <4>2
    <3>4. CASE i = Len(wire) + 1
      <4>1. k = Len(sent) + 1
        BY <1>0, <2>3, <3>1, <3>4
      <4> QED BY <2>1, <2>5, <3>2, <3>4, <4>1
    <3> QED BY <1>0, <2>5, <3>3, <3>4
  <2>7. WireInv'
    BY <1>0, <2>2, <2>3, <2>4, <2>5, <2>6 DEF WireInv
  <2>8. GotInv'
    <3>1. got' = got /\ md' = md /\ ((hdr' # "none") <=> (hdr # "none"))
      BY <1>3 DEF Write
    <3> QED BY <1>0, <2>2, <3>1, GotStays
  <2> QED BY <2>7, <2>8
<1>4. ASSUME NEW p \in Payloads, WriteLost(p) PROVE WireInv' /\ GotInv'
  <2>1. \A k \in 1..Len(sent) : Msg(k)' = Msg(k)
    BY <1>4, MsgGrows DEF WriteLost
  <2>2. /\ Len(sent') = Len(sent) + 1
        /\ \A i \in 1..Len(sent) : sent'[i] = sent[i]
    BY <1>4, SentGrows DEF WriteLost
  <2>3. Taken' = Taken /\ (Running' <=> Running) /\ wire' = wire /\ link' = "broken"
    BY <1>4 DEF WriteLost, Taken, Running, TypeOK
  <2>4. ASSUME Running, NEW i \in 1..Len(wire) PROVE wire[i] = Msg(Taken + i)'
    <3>1. PICK k \in Nat : k = Taken + i
      BY <1>0
    <3>2. Msg(Taken + i)' = Msg(k)'
      BY <2>3, <3>1 DEF Msg
    <3>3. k \in 1..Len(sent) /\ wire[i] = Msg(k)
      BY <1>0, <2>4, <3>1 DEF WireInv
    <3> QED BY <2>1, <3>2, <3>3
  <2>5. WireInv'
    <3>1. Running' => Taken' + Len(wire') <= Len(sent')
      BY <1>0, <2>2, <2>3 DEF WireInv
    <3>2. Running' => \A i \in 1..Len(wire') : wire'[i] = Msg(Taken + i)'
      BY <2>3, <2>4
    <3> QED BY <2>3, <3>1, <3>2 DEF WireInv
  <2>6. GotInv'
    <3>1. got' = got /\ md' = md /\ ((hdr' # "none") <=> (hdr # "none"))
      BY <1>4 DEF WriteLost
    <3> QED BY <1>0, <2>2, <3>1, GotStays
  <2> QED BY <2>5, <2>6
<1>5. CASE ReadFirst
  <2>1. hdr = "sent" /\ Taken = 0 /\ Taken' = 1 /\ Running /\ wire' = Tail(wire)
    BY <1>5, FirstMessage DEF ReadFirst, Taken, Running
  <2>2. Len(wire') = Len(wire) - 1 /\ \A i \in 1..Len(wire') : wire'[i] = wire[i + 1]
    BY <1>0, <1>5, HeadTailProperties DEF ReadFirst
  <2>3. \A k \in Nat : Msg(k)' = Msg(k)
    BY <1>5 DEF ReadFirst, Msg
  <2>4. ASSUME NEW i \in 1..Len(wire') PROVE wire'[i] = Msg(Taken + i)'
    <3>1. PICK k \in Nat : k = Taken' + i
      BY <2>1
    <3>2. Msg(Taken + i)' = Msg(k)'
      BY <3>1 DEF Msg
    <3>3. i + 1 \in 1..Len(wire) /\ Taken + (i + 1) = k
      BY <1>0, <2>1, <2>2, <3>1
    <3> QED BY <2>1, <2>2, <2>3, <3>2, <3>3 DEF WireInv
  <2>5. WireInv'
    BY <1>0, <1>5, <2>1, <2>2, <2>4 DEF WireInv, ReadFirst
  <2>6. GotInv'
    BY <1>0, <1>k, <1>5 DEF GotInv, ReadFirst
  <2> QED BY <2>5, <2>6
<1>6. CASE ReadRefused \/ ServerDialFails \/ WritePayloadFails \/ ForwardFails \/ ServerReadFails
  <2>1. UNCHANGED <<client, got>> /\ ~Running' /\ link' # "open"
    BY <1>6 DEF ReadRefused, ServerDialFails, WritePayloadFails, ForwardFails,
                ServerReadFails, Return, Running
  <2> QED BY <1>0, <1>k, <2>1 DEF WireInv, GotInv
<1>7. CASE ServerDials
  <2>1. Taken' = Taken
    BY <1>7, SentNotEmpty DEF ServerDials, Taken, PhaseInv, TypeOK, Told
  <2> QED BY <1>0, <1>k, <1>7, <2>1 DEF ServerDials, WireInv, GotInv, Running, Msg
<1>8. CASE WritePayload
  <2>1. got = <<>> /\ Len(got) = 0 /\ hdr = "sent" /\ sent # <<>> /\ first = Kept(1)
    BY <1>8 DEF WritePayload, PhaseInv
  <2>2. got' = <<first>> /\ Len(got') = 1 /\ got'[1] = Kept(1)'
    BY <1>k, <1>8, <2>1 DEF WritePayload
  <2>3. Taken' = Taken
    BY <1>8, <2>1, <2>2 DEF WritePayload, Taken
  <2>4. GotInv'
    BY <1>0, <1>8, <2>1, <2>2 DEF WritePayload, GotInv
  <2> QED BY <1>8, <2>3, <2>4 DEF WritePayload, WireInv, Running, Msg
<1>9. CASE Forward
  <2>1. /\ Taken = Len(got) /\ Taken' = Len(got') /\ Running
        /\ wire' = Tail(wire) /\ wire # <<>>
    BY <1>9 DEF Forward, Taken, Running
  <2>2. Len(wire') = Len(wire) - 1 /\ \A i \in 1..Len(wire') : wire'[i] = wire[i + 1]
    BY <1>0, <1>9, <2>1, HeadTailProperties
  <2>3. Head(wire) = wire[1] /\ 1 \in 1..Len(wire) /\ Head(wire) \in Seq(Byte)
    BY <1>0, <2>1
  <2>a. PICK m \in Seq(Byte) : m = ConnRead(Head(wire))
    BY <2>3, ServerBufAssumption, ClipProperties DEF ConnRead
  <2>4. /\ Len(got') = Len(got) + 1 /\ got'[Len(got) + 1] = m
        /\ \A i \in 1..Len(got) : got'[i] = got[i]
    BY <1>0, <1>9, <2>a, AppendProperties DEF Forward
  <2>5. \A k \in Nat : Msg(k)' = Msg(k)
    BY <1>9 DEF Forward, Msg
  <2>6. ASSUME NEW i \in 1..Len(wire') PROVE wire'[i] = Msg(Taken + i)'
    <3>1. PICK k \in Nat : k = Taken' + i
      BY <1>0, <2>1, <2>4
    <3>2. Msg(Taken + i)' = Msg(k)'
      BY <3>1 DEF Msg
    <3>3. i + 1 \in 1..Len(wire) /\ Taken + (i + 1) = k
      <4>1. Taken \in Nat /\ Taken' = Taken + 1 /\ Len(wire) \in Nat
        BY <1>0, <2>1, <2>4
      <4>2. Len(wire') = Len(wire) - 1
        BY <2>2
      <4> QED BY <3>1, <4>1, <4>2
    <3>4. wire[i + 1] = Msg(Taken + (i + 1))
      BY <2>1, <3>3 DEF WireInv
    <3>5. wire[i + 1] = Msg(k)
      BY <3>3, <3>4
    <3> QED BY <2>2, <2>5, <3>2, <3>5
  <2>7. WireInv'
    BY <1>0, <1>9, <2>1, <2>2, <2>4, <2>6 DEF WireInv, Forward
  <2>8. \A k \in Nat : k = Len(got) + 1 => m = Kept(k)'
    <3>1. wire[1] = Msg(Taken + 1)
      BY <2>1, <2>3 DEF WireInv
    <3>2. hdr = "none" \/ Taken + 1 # 1
      BY <1>0, <1>9, <2>1 DEF Forward, PhaseInv, Told, TypeOK
    <3>3. ASSUME NEW k \in Nat, k = Len(got) + 1 PROVE m = Kept(k)
      <4>1. Head(wire) = sent[k] /\ Room(k) = ServerBuf
        BY <2>1, <2>3, <3>1, <3>2, <3>3 DEF Msg, Room
      <4> QED BY <2>a, <4>1 DEF Kept, ConnRead
    <3> QED BY <1>k, <1>9, <3>3 DEF Forward
  <2>9. Len(got) + 1 <= Len(sent)
    BY <1>0, <2>1, <2>3 DEF WireInv
  <2>10. GotInv'
    <3>1. UNCHANGED <<client>> /\ Len(got') \in Nat
      BY <1>0, <1>9, <2>4 DEF Forward
    <3>2. ASSUME NEW i \in 1..Len(got') PROVE got'[i] = Kept(i)'
      <4>1. CASE i = Len(got) + 1
        <5>1. i \in Nat
          BY <1>0, <4>1
        <5>2. m = Kept(i)'
          BY <2>8, <4>1, <5>1
        <5>3. got'[i] = m
          BY <2>4, <4>1
        <5> QED BY <5>2, <5>3
      <4>2. CASE i \in 1..Len(got)
        <5>1. i \in Nat /\ got'[i] = got[i]
          BY <1>0, <2>4, <4>2
        <5>2. got[i] = Kept(i)
          BY <4>2 DEF GotInv
        <5>3. Kept(i)' = Kept(i)
          BY <1>k, <3>1, <5>1
        <5> QED BY <5>1, <5>2, <5>3
      <4>3. i \in 1..(Len(got) + 1)
        BY <2>4
      <4>4. i = Len(got) + 1 \/ i \in 1..Len(got)
        BY <1>0, <4>3
      <4> QED BY <4>1, <4>2, <4>4
    <3>3. Len(got') <= Len(sent')
      BY <1>0, <2>4, <2>9, <3>1
    <3> QED BY <3>2, <3>3 DEF GotInv
  <2> QED BY <2>7, <2>10
<1>10. CASE DestEnds \/ DestCloses \/ UNCHANGED vars
  <2>1. UNCHANGED <<md, sent, hdr, got>>
    BY <1>10 DEF DestEnds, DestCloses, vars
  <2>2. GotInv'
    BY <1>0, <1>k, <2>1 DEF GotInv
  <2>3. WireInv'
    BY <1>10 DEF DestEnds, DestCloses, vars, WireInv, Taken, Running, Msg
  <2> QED BY <2>2, <2>3
<1> QED BY <1>1, <1>2, <1>3, <1>4, <1>5, <1>6, <1>7, <1>8, <1>9, <1>10
        DEF Next, ReadsFirst, Dials, Forwards

-----------------------------------------------------------------------------
(* The theorems *)

LEMMA Inductive == Spec => []IInv
<1>1. IInv /\ [Next]_vars => IInv'
  BY TypeStep, IdleStep, PhaseStep, WireStep, TargetStep DEF IInv
<1> QED BY <1>1, InitInv, PTL DEF Spec

\* Every variable of a session keeps its type; the messages under way are bytes.
THEOREM TypeCorrect == Spec => []TypeOK
BY Inductive, PTL DEF IInv

\* On a fresh and on a pooled connection alike, for every destination and every
\* first payload, the server dials the destination of the session, through WARP
\* exactly when its IP version is proxied (argo.go:84-107, dialer.go:110-121,
\* packet.go:23-79, connection.go:21-26, 118-153).
THEOREM ServerDialsDestination == Spec => []DialsItsDestination
<1>1. IInv => DialsItsDestination
  <2> SUFFICES ASSUME IInv, dialled # <<>> PROVE DialsItsDestination
    BY DEF DialsItsDestination
  <2>1. app # "idle" /\ md \in Metadatas
    BY DEF IInv, IdleInv
  <2>2. dialled[1] = Destination(md) /\ dialled[2] = Via(Destination(md))
    BY DEF IInv, TargetInv
  <2>3. md.IPVersion \in {4, 6}
    BY <2>1, MetadatasAssumption
  <2>4. Destination(md).brackets <=> md.IPVersion = 6
    BY DEF Destination, Target
  <2>5. (IF Destination(md).brackets THEN 6 ELSE 4) = md.IPVersion
    BY <2>3, <2>4
  <2> QED BY <2>1, <2>2, <2>5, Zenon DEF DialsItsDestination, Destination, Via
<1> QED BY <1>1, Inductive, PTL

\* Whatever is written when, on a connection that may die at any point, the
\* destination receives a prefix of what the application wrote, without a byte of
\* the header; a message that the server's buffer holds arrives whole, of a longer
\* one what the buffer holds; and only a first payload of one byte is refused
\* (argo.go:68-82, websocket.go:94, packet.go:70-72, connection.go:137-140, 155,
\* 171-182).
THEOREM PayloadArrivesIntact == Spec => []PayloadIntact
<1>1. IInv => PayloadIntact
  <2> SUFFICES ASSUME IInv PROVE PayloadIntact
    OBVIOUS
  <2>1. /\ Len(got) \in Nat /\ Len(sent) \in Nat /\ Len(got) <= Len(sent)
        /\ \A i \in 1..Len(got) : got[i] = Kept(i)
    BY DEF IInv, TypeOK, GotInv
  <2>2. ASSUME NEW i \in 1..Len(got)
        PROVE  /\ IsPrefix(got[i], sent[i])
               /\ Len(got[i]) = IF Len(sent[i]) <= Room(i) THEN Len(sent[i]) ELSE Room(i)
    <3>1. app # "idle"
      BY <2>1 DEF IInv, IdleInv, TypeOK
    <3>2. i \in 1..Len(sent) /\ i \in Nat
      BY <2>1
    <3>3. PICK a \in Seq(Byte), b \in Seq(Byte), n \in Nat :
               a = got[i] /\ b = sent[i] /\ n = Room(i)
      BY <2>1, <3>1, <3>2, KeptProperties, RoomType
    <3>4. /\ Len(a) = IF Len(b) <= n THEN Len(b) ELSE n
          /\ \A k \in 1..Len(a) : a[k] = b[k]
      BY <2>1, <3>1, <3>2, <3>3, KeptProperties
    <3>5. IsPrefix(a, b)
      BY <3>4, PrefixOf, LenProperties
    <3> QED BY <3>3, <3>4, <3>5
  <2> QED BY <2>1, <2>2 DEF IInv, RefusedInv, PayloadIntact
<1> QED BY <1>1, Inductive, PTL
=============================================================================
