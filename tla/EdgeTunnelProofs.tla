-------------------------- MODULE EdgeTunnelProofs --------------------------
(***************************************************************************)
(* Proofs about the connections to the edge, for every number of them,     *)
(* every set of ports and every list of addresses: sockets are accounted   *)
(* for, and no address has more connections than places in the lists.      *)
(***************************************************************************)
EXTENDS EdgeTunnel, FiniteSetTheorems, SequenceTheorems, TLAPS

Labels ==
    /\ pc \in [Conns -> {"start", "listen", "dial", "open", "register", "pause",
                         "accept", "sleep"}]
    /\ owner \in [Ports -> Conns \cup {NoConn}]
    /\ sock \in [Conns -> Ports \cup {NoPort}]
    /\ portFor \in [Conns -> Ports \cup {NoPort}]
    /\ conn \in [Conns -> {"none", "up", "dead"}]
    /\ reg \in [Conns -> {"first", "again", "lost"}]
    /\ leaked \in [Conns -> SUBSET Ports]

TokenType == tokenOk \in BOOLEAN

-----------------------------------------------------------------------------
(* Sockets *)

\* The labels at which Serve has a socket.
InUse == {"dial", "open", "register", "pause", "accept"}

Owned(i) == {p \in Ports : owner[p] = i}

SocketInv ==
    \A i \in Conns :
        /\ pc[i] \in InUse <=> sock[i] # NoPort
        /\ sock[i] # NoPort => portFor[i] = sock[i] /\ sock[i] \notin leaked[i]
        /\ Owned(i) = leaked[i] \cup ({sock[i]} \ {NoPort})

-----------------------------------------------------------------------------
(* Addresses *)

Results == {<<>>, Region1, Region2, Region1 \o Region2}

\* One place per index that its address may come from, when k preferred
\* addresses are gone; no two indexes have the same.
Origins(f, k) ==
    /\ \A i \in Conns :
          \/ f[i] = <<"fallback", i>> /\ edge[i] = Fallback(i)
          \/ \E m \in 1..k : f[i] = <<"config", m>> /\ edge[i] = EdgeIPs[m]
          \/ /\ f[i] = <<"dns", i + 1>>
             /\ Len(nsResult) > i /\ edge[i] = nsResult[i + 1]
    /\ \A i, j \in Conns : f[i] = f[j] => i = j

AddressInv ==
    /\ nsResult \in Results
    /\ edge \in [Conns -> Addrs]
    /\ \E k \in 0..Len(EdgeIPs) :
          /\ edgeIPs = SubSeq(EdgeIPs, k + 1, Len(EdgeIPs))
          /\ \E f : Origins(f, k)

IInv == Labels /\ TokenType /\ SocketInv /\ AddressInv
-----------------------------------------------------------------------------
(* The addresses of the configuration and of DNS *)

LEMMA Lists ==
    /\ EdgeIPs \in Seq(Addrs) /\ Region1 \in Seq(Addrs) /\ Region2 \in Seq(Addrs)
    /\ \A ns \in Results : ns \in Seq(Addrs)
<1>1. EdgeIPs \in Seq(Addrs) /\ Region1 \in Seq(Addrs) /\ Region2 \in Seq(Addrs)
  <2> DEFINE S == Addrs
  <2>1. /\ Range(EdgeIPs) \subseteq S /\ Range(Region1) \subseteq S
        /\ Range(Region2) \subseteq S
    BY DEF Addrs
  <2> HIDE DEF S
  <2>2. EdgeIPs \in Seq(S)
    BY <2>1, AddrsAssumption, SeqMonotonic
  <2>3. Region1 \in Seq(S)
    BY <2>1, AddrsAssumption, SeqMonotonic
  <2>4. Region2 \in Seq(S)
    BY <2>1, AddrsAssumption, SeqMonotonic
  <2> QED BY <2>2, <2>3, <2>4 DEF S
<1>2. Region1 \o Region2 \in Seq(Addrs)
  BY <1>1, ConcatProperties
<1>3. <<>> \in Seq(Addrs)
  BY EmptySeq
<1> QED BY <1>1, <1>2, <1>3 DEF Results

LEMMA LookupResult == \A ok : Lookup(ok) \in Results
  BY Lists, ConcatEmptySeq DEF Lookup, Results
-----------------------------------------------------------------------------
(* The initial states *)

LEMMA InitInv == Init => IInv
<1> SUFFICES ASSUME Init PROVE IInv
  OBVIOUS
<1> USE DEF Init
<1>1. Labels
  BY DEF Labels
<1>2. TokenType
  BY Zenon DEF TokenType
<1>3. SocketInv
  BY PortsAssumption DEF SocketInv, InUse, Owned
<1>4. AddressInv
  <2>1. edgeIPs = SubSeq(EdgeIPs, 0 + 1, Len(EdgeIPs))
    BY Lists, SubSeqFull
  <2>2. Origins([i \in Conns |-> <<"fallback", i>>], 0)
    BY DEF Origins
  <2>3. 0 \in 0..Len(EdgeIPs)
    BY Lists, LenProperties
  <2>4. edge \in [Conns -> Addrs]
    BY DEF Addrs
  <2> QED BY <2>1, <2>2, <2>3, <2>4 DEF AddressInv, Results
<1> QED BY <1>1, <1>2, <1>3, <1>4 DEF IInv

-----------------------------------------------------------------------------
(* Types *)

LEMMA LabelsStep == ASSUME IInv, [Next]_vars PROVE Labels' /\ TokenType'
<1> USE DEF IInv, Labels, addrs, socks, Goto
<1>1. TokenType'
  BY Zenon DEF TokenType, Next, vars, Listen, Dial, Open, GetEdgeIP, PopEdgeIP,
      LookupEdgeIP, Uses, ListenRecorded, ListenAny, ListenFails, Binds, DialOk,
      DialFails, OpenStream, OpenStreamFails, Registered, NotRegistered, AnswerLost,
      RegisterAgain, AcceptFails, Restart, ConnDies, Finalize
<1>2. ASSUME NEW i \in Conns, GetEdgeIP(i) PROVE Labels'
  BY <1>2 DEF GetEdgeIP, PopEdgeIP, LookupEdgeIP, Uses
<1>3. ASSUME NEW i \in Conns, Listen(i) PROVE Labels'
  BY <1>3 DEF Listen, ListenRecorded, ListenAny, ListenFails, Binds
<1>4. ASSUME NEW i \in Conns, Dial(i) PROVE Labels'
  BY <1>4 DEF Dial, DialOk, DialFails, CloseSocket
<1>5. ASSUME NEW i \in Conns, Open(i) PROVE Labels'
  <2>1. CASE OpenStream(i)
    BY <2>1 DEF OpenStream
  <2>2. CASE OpenStreamFails(i)
    <3>1. sock[i] \in Ports
      BY <2>2 DEF OpenStreamFails, SocketInv, InUse
    <3>2. leaked' \in [Conns -> SUBSET Ports]
      BY <2>2, <3>1 DEF OpenStreamFails
    <3> QED BY <2>2, <3>2 DEF OpenStreamFails
  <2> QED BY <1>5, <2>1, <2>2 DEF Open
<1>6. ASSUME NEW i \in Conns,
             \/ Registered(i) \/ NotRegistered(i) \/ AnswerLost(i)
             \/ RegisterAgain(i) \/ Restart(i) \/ ConnDies(i)
      PROVE  Labels'
  BY <1>6 DEF Registered, NotRegistered, AnswerLost, RegisterAgain, Restart, ConnDies
<1>7. ASSUME NEW i \in Conns, AcceptFails(i) PROVE Labels'
  BY <1>7 DEF AcceptFails, CloseSocket
<1>8. ASSUME UNCHANGED vars PROVE Labels'
  BY <1>8 DEF vars
<1>9. ASSUME NEW i \in Conns, NEW p \in Ports, Finalize(i, p) PROVE Labels'
  BY <1>9 DEF Finalize
<1> QED BY <1>1, <1>2, <1>3, <1>4, <1>5, <1>6, <1>7, <1>8, <1>9 DEF Next

-----------------------------------------------------------------------------
(* Sockets *)

\* A socket is bound.
LEMMA BindStep ==
    ASSUME IInv, NEW i \in Conns, NEW p \in Ports, pc[i] = "listen",
           owner[p] = NoConn, Binds(i, p), portFor' = [portFor EXCEPT ![i] = p],
           UNCHANGED leaked
    PROVE  SocketInv'
<1> USE DEF IInv, Labels, SocketInv, Binds, Goto
<1>1. sock[i] = NoPort /\ Owned(i) = leaked[i]
  BY DEF InUse
<1>2. Owned(i)' = Owned(i) \cup {p} /\ p \notin Owned(i)
  BY PortsAssumption DEF Owned
<1>3. \A j \in Conns \ {i} : Owned(j)' = Owned(j)
  BY PortsAssumption DEF Owned
<1>4. sock'[i] = p /\ portFor'[i] = p /\ p # NoPort
  BY PortsAssumption
<1>5. Owned(i)' = leaked'[i] \cup ({sock'[i]} \ {NoPort})
  BY <1>1, <1>2, <1>4
<1>6. \A j \in Conns \ {i} : Owned(j)' = leaked'[j] \cup ({sock'[j]} \ {NoPort})
  BY <1>3
<1>7. \A j \in Conns : pc'[j] \in InUse <=> sock'[j] # NoPort
  BY PortsAssumption DEF InUse
<1>8. \A j \in Conns :
         sock'[j] # NoPort => portFor'[j] = sock'[j] /\ sock'[j] \notin leaked'[j]
  BY <1>1, <1>2, <1>4
<1> QED BY <1>5, <1>6, <1>7, <1>8

\* A socket is closed.
LEMMA CloseStep ==
    ASSUME IInv, NEW i \in Conns, pc[i] \in InUse, CloseSocket(i), Goto(i, "sleep"),
           UNCHANGED <<portFor, leaked>>
    PROVE  SocketInv'
<1> USE DEF IInv, Labels, SocketInv, CloseSocket, Goto
<1>1. sock[i] \in Ports /\ sock[i] \in Owned(i) /\ sock[i] \notin leaked[i]
  OBVIOUS
<1>2. Owned(i)' = Owned(i) \ {sock[i]}
  BY <1>1, PortsAssumption DEF Owned
<1>3. \A j \in Conns \ {i} : Owned(j)' = Owned(j)
  BY <1>1, PortsAssumption DEF Owned
<1>4. Owned(i)' = leaked'[i] \cup ({sock'[i]} \ {NoPort})
  BY <1>1, <1>2
<1>5. \A j \in Conns \ {i} : Owned(j)' = leaked'[j] \cup ({sock'[j]} \ {NoPort})
  BY <1>3
<1>6. \A j \in Conns : pc'[j] \in InUse <=> sock'[j] # NoPort
  BY DEF InUse
<1>7. \A j \in Conns :
         sock'[j] # NoPort => portFor'[j] = sock'[j] /\ sock'[j] \notin leaked'[j]
  BY <1>1
<1> QED BY <1>4, <1>5, <1>6, <1>7

\* A socket that was left is closed by its finalizer.
LEMMA FinalizeStep ==
    ASSUME IInv, NEW i \in Conns, NEW p \in Ports, Finalize(i, p)
    PROVE  SocketInv'
<1> USE DEF IInv, Labels, SocketInv, Finalize
<1>1. p \in Owned(i) /\ p # sock[i] /\ p \in leaked[i]
  BY PortsAssumption
<1>2. Owned(i)' = Owned(i) \ {p}
  BY <1>1, PortsAssumption DEF Owned
<1>3. \A j \in Conns \ {i} : Owned(j)' = Owned(j)
  BY <1>1, PortsAssumption DEF Owned
<1>4. leaked'[i] = leaked[i] \ {p} /\ UNCHANGED sock
  OBVIOUS
<1>5. Owned(i)' = leaked'[i] \cup ({sock'[i]} \ {NoPort})
  BY <1>1, <1>2, <1>4
<1>6. \A j \in Conns \ {i} : Owned(j)' = leaked'[j] \cup ({sock'[j]} \ {NoPort})
  BY <1>3
<1> QED BY <1>5, <1>6

LEMMA SocketStep == ASSUME IInv, [Next]_vars PROVE SocketInv'
<1> USE DEF addrs, socks
<1>1. ASSUME NEW i \in Conns,
             \/ GetEdgeIP(i) \/ ListenFails(i) \/ DialOk(i) \/ OpenStream(i)
             \/ Registered(i) \/ NotRegistered(i) \/ AnswerLost(i)
             \/ RegisterAgain(i) \/ Restart(i) \/ ConnDies(i)
      PROVE  SocketInv'
  <2>1. UNCHANGED <<owner, sock, leaked>>
    BY <1>1 DEF GetEdgeIP, PopEdgeIP, LookupEdgeIP, Uses, ListenFails, DialOk,
        OpenStream, Registered, NotRegistered, AnswerLost, RegisterAgain, Restart,
        ConnDies
  <2>2. \A j \in Conns : Owned(j)' = Owned(j)
    BY <2>1 DEF Owned
  <2>3. \A j \in Conns : /\ pc'[j] \in InUse <=> pc[j] \in InUse
                         /\ portFor'[j] = portFor[j] \/ sock[j] = NoPort
    BY <1>1 DEF IInv, Labels, SocketInv, InUse, Goto, GetEdgeIP, PopEdgeIP,
        LookupEdgeIP, Uses, ListenFails, DialOk, OpenStream, Registered,
        NotRegistered, AnswerLost, RegisterAgain, Restart, ConnDies
  <2> QED BY <2>1, <2>2, <2>3 DEF IInv, SocketInv
<1>2. ASSUME NEW i \in Conns, ListenRecorded(i) PROVE SocketInv'
  <2>1. portFor' = [portFor EXCEPT ![i] = portFor[i]] /\ portFor[i] \in Ports
    BY <1>2 DEF ListenRecorded, IInv, Labels
  <2>2. UNCHANGED leaked
    BY <1>2 DEF ListenRecorded, Binds
  <2> QED BY <1>2, <2>1, <2>2, BindStep DEF ListenRecorded
<1>3. ASSUME NEW i \in Conns, NEW p \in Ports, ListenAny(i, p) PROVE SocketInv'
  <2>1. UNCHANGED leaked
    BY <1>3 DEF ListenAny, Binds
  <2> QED BY <1>3, <2>1, BindStep DEF ListenAny
<1>4. ASSUME NEW i \in Conns, DialFails(i) PROVE SocketInv'
  BY <1>4, CloseStep DEF DialFails, InUse
<1>5. ASSUME NEW i \in Conns, AcceptFails(i) PROVE SocketInv'
  BY <1>5, CloseStep DEF AcceptFails, InUse
<1>6. ASSUME NEW i \in Conns, OpenStreamFails(i) PROVE SocketInv'
  <2> USE DEF IInv, Labels, SocketInv, OpenStreamFails, Goto
  <2>1. \A j \in Conns : Owned(j)' = Owned(j)
    BY <1>6 DEF Owned
  <2>2. sock[i] # NoPort /\ sock[i] \in Ports
    BY <1>6 DEF InUse
  <2>3. \A j \in Conns :
           leaked'[j] \cup ({sock'[j]} \ {NoPort}) = leaked[j] \cup ({sock[j]} \ {NoPort})
    BY <1>6, <2>2
  <2>4. \A j \in Conns :
           /\ pc'[j] \in InUse <=> sock'[j] # NoPort
           /\ sock'[j] # NoPort => portFor'[j] = sock'[j] /\ sock'[j] \notin leaked'[j]
    BY <1>6 DEF InUse
  <2> QED BY <2>1, <2>3, <2>4
<1>7. ASSUME NEW i \in Conns, NEW p \in Ports, Finalize(i, p) PROVE SocketInv'
  BY <1>7, FinalizeStep
<1>8. CASE UNCHANGED vars
  BY <1>8 DEF vars, IInv, SocketInv, Owned
<1> QED BY <1>1, <1>2, <1>3, <1>4, <1>5, <1>6, <1>7, <1>8 DEF Next, Listen, Dial, Open

-----------------------------------------------------------------------------
(* Addresses *)

\* A preferred address that is taken off the channel has a place of its own.
LEMMA PopStep == ASSUME IInv, NEW i \in Conns, PopEdgeIP(i) PROVE AddressInv'
<1> USE DEF IInv, AddressInv, PopEdgeIP, Uses
<1>1. PICK k, f :
         /\ k \in 0..Len(EdgeIPs) /\ Origins(f, k)
         /\ edgeIPs = SubSeq(EdgeIPs, k + 1, Len(EdgeIPs))
  OBVIOUS
<1>2. Len(EdgeIPs) \in Nat
  BY Lists, LenProperties
<1>3. k + 1 \in 1..Len(EdgeIPs)
  <2>1. CASE k = Len(EdgeIPs)
    <3>1. SubSeq(EdgeIPs, k + 1, Len(EdgeIPs)) = <<>>
      BY <1>2, <2>1, SubSeqEmpty
    <3> QED BY <1>1, <3>1
  <2> QED BY <1>1, <1>2, <2>1
<1>4. /\ Head(edgeIPs) = EdgeIPs[k + 1]
      /\ edgeIPs' = SubSeq(EdgeIPs, (k + 1) + 1, Len(EdgeIPs))
  <2>1. Len(EdgeIPs) \in (k + 1)..Len(EdgeIPs)
    BY <1>2, <1>3
  <2> QED BY <1>1, <1>3, <2>1, Lists, HeadTailOfSubSeq
<1>5. edge' = [edge EXCEPT ![i] = EdgeIPs[k + 1]] /\ nsResult' = nsResult
  BY <1>4
<1> DEFINE n == k + 1
           g == [j \in Conns |-> IF j = i THEN <<"config", n>> ELSE f[j]]
<1>6. n \in 1..Len(EdgeIPs) /\ n \in 0..Len(EdgeIPs) /\ n = k + 1 /\ k \in Nat
  BY <1>1, <1>2, <1>3
<1>7. edgeIPs' = SubSeq(EdgeIPs, n + 1, Len(EdgeIPs)) /\ edge' = [edge EXCEPT ![i] = EdgeIPs[n]]
  BY <1>4, <1>5
<1>8. \A j \in Conns : g[j] = IF j = i THEN <<"config", n>> ELSE f[j]
  OBVIOUS
<1> HIDE DEF n, g
<1>9. ASSUME NEW j \in Conns
      PROVE  \/ g[j] = <<"fallback", j>> /\ edge'[j] = Fallback(j)
             \/ \E m \in 1..n : g[j] = <<"config", m>> /\ edge'[j] = EdgeIPs[m]
             \/ /\ g[j] = <<"dns", j + 1>>
                /\ Len(nsResult') > j /\ edge'[j] = nsResult'[j + 1]
  <2>1. CASE j = i
    <3>1. n \in 1..n
      BY <1>6
    <3> QED BY <1>7, <1>8, <2>1, <3>1
  <2>2. CASE j # i
    <3>1. g[j] = f[j] /\ edge'[j] = edge[j] /\ nsResult' = nsResult
      BY <1>5, <1>8, <2>2
    <3>2. \A m \in 1..k : m \in 1..n
      BY <1>6
    <3>3. \/ f[j] = <<"fallback", j>> /\ edge[j] = Fallback(j)
          \/ \E m \in 1..k : f[j] = <<"config", m>> /\ edge[j] = EdgeIPs[m]
          \/ f[j] = <<"dns", j + 1>> /\ Len(nsResult) > j /\ edge[j] = nsResult[j + 1]
      BY <1>1 DEF Origins
    <3> HIDE DEF IInv, AddressInv, PopEdgeIP, Uses
    <3> QED BY <3>1, <3>2, <3>3
  <2> QED BY <2>1, <2>2
<1>10. ASSUME NEW j \in Conns PROVE f[j] # <<"config", n>>
  <2>1. \A m \in 1..k : m # n
    BY <1>6
  <2>2. \/ f[j] = <<"fallback", j>>
        \/ \E m \in 1..k : f[j] = <<"config", m>>
        \/ f[j] = <<"dns", j + 1>>
    BY <1>1 DEF Origins
  <2> HIDE DEF IInv, AddressInv, PopEdgeIP, Uses
  <2> QED BY <2>1, <2>2
<1>11. ASSUME NEW a \in Conns, NEW b \in Conns, g[a] = g[b] PROVE a = b
  <2>1. f[a] = f[b] => a = b
    BY <1>1 DEF Origins
  <2> QED BY <1>8, <1>10, <1>11, <2>1, Zenon
<1>12. Origins(g, n)'
  BY <1>9, <1>11 DEF Origins
<1>13. edge' \in [Conns -> Addrs]
  BY <1>6, <1>7, Lists, ElementOfSeq
<1> QED BY <1>5, <1>6, <1>7, <1>12, <1>13

\* The address of an index among the DNS results, and its fallback, have a place
\* that no other index asks for.
LEMMA LookupStep ==
    ASSUME IInv, NEW i \in Conns, NEW ok, LookupEdgeIP(i, ok) PROVE AddressInv'
<1> USE DEF IInv, AddressInv, LookupEdgeIP, Uses
<1>1. PICK k, f :
         /\ k \in 0..Len(EdgeIPs) /\ Origins(f, k)
         /\ edgeIPs = SubSeq(EdgeIPs, k + 1, Len(EdgeIPs))
  OBVIOUS
<1>2. nsResult' \in Results /\ Len(nsResult') \in Nat
  BY LookupResult, Lists, LenProperties
<1>3. \A j \in Conns : j \in Nat
  BY HaConnAssumption DEF Conns
<1>4. \A j \in Conns :
         \/ f[j] = <<"fallback", j>> /\ edge[j] = Fallback(j)
         \/ \E m \in 1..k : f[j] = <<"config", m>> /\ edge[j] = EdgeIPs[m]
         \/ f[j] = <<"dns", j + 1>> /\ Len(nsResult') > j /\ edge[j] = nsResult'[j + 1]
  <2>1. CASE nsResult = <<>>
    BY <1>1, <1>3, <2>1 DEF Origins
  <2>2. CASE nsResult # <<>>
    BY <1>1, <2>2 DEF Origins
  <2> QED BY <2>1, <2>2
<1> DEFINE new == AddrAt(nsResult', i)
           place == IF Len(nsResult') > i THEN <<"dns", i + 1>> ELSE <<"fallback", i>>
<1>5. edge' = [edge EXCEPT ![i] = new] /\ edgeIPs' = edgeIPs
  OBVIOUS
<1>6. \/ new = Fallback(i) /\ place = <<"fallback", i>>
      \/ Len(nsResult') > i /\ new = nsResult'[i + 1] /\ place = <<"dns", i + 1>>
  BY DEF AddrAt
<1> HIDE DEF new, place
<1>7. PICK g : \A j \in Conns : g[j] = IF j = i THEN place ELSE f[j]
  <2>1. \A j \in Conns : [h \in Conns |-> IF h = i THEN place ELSE f[h]][j]
                              = IF j = i THEN place ELSE f[j]
    OBVIOUS
  <2> QED BY <2>1
<1>8. ASSUME NEW j \in Conns
      PROVE  \/ g[j] = <<"fallback", j>> /\ edge'[j] = Fallback(j)
             \/ \E m \in 1..k : g[j] = <<"config", m>> /\ edge'[j] = EdgeIPs[m]
             \/ /\ g[j] = <<"dns", j + 1>>
                /\ Len(nsResult') > j /\ edge'[j] = nsResult'[j + 1]
  <2>1. CASE j = i
    BY <1>5, <1>6, <1>7, <2>1
  <2>2. CASE j # i
    <3>1. g[j] = f[j] /\ edge'[j] = edge[j]
      BY <1>5, <1>7, <2>2
    <3> QED BY <1>4, <3>1
  <2> QED BY <2>1, <2>2
<1>9. ASSUME NEW j \in Conns, j # i PROVE f[j] # place
  <2>1. i + 1 # j + 1
    BY <1>3, <1>9
  <2>2. place = <<"fallback", i>> \/ place = <<"dns", i + 1>>
    BY <1>6
  <2>3. \/ f[j] = <<"fallback", j>>
        \/ \E m \in 1..k : f[j] = <<"config", m>>
        \/ f[j] = <<"dns", j + 1>>
    BY <1>4
  <2> HIDE DEF IInv, AddressInv, LookupEdgeIP, Uses
  <2> QED BY <1>9, <2>1, <2>2, <2>3
<1>10. ASSUME NEW a \in Conns, NEW b \in Conns, g[a] = g[b] PROVE a = b
  <2>1. f[a] = f[b] => a = b
    BY <1>1 DEF Origins
  <2> QED BY <1>7, <1>9, <1>10, <2>1, Zenon
<1>11. Origins(g, k)'
  BY <1>8, <1>10 DEF Origins
<1>12. new \in Addrs
  <2>1. CASE new = Fallback(i)
    BY <2>1 DEF Addrs
  <2>2. CASE Len(nsResult') > i /\ new = nsResult'[i + 1]
    <3>1. i + 1 \in 1..Len(nsResult')
      BY <1>2, <1>3, <2>2
    <3> QED BY <1>2, <2>2, <3>1, Lists, ElementOfSeq
  <2> QED BY <1>6, <2>1, <2>2
<1>13. edge' \in [Conns -> Addrs]
  BY <1>5, <1>12
<1> QED BY <1>1, <1>2, <1>5, <1>11, <1>13

LEMMA AddressStep == ASSUME IInv, [Next]_vars PROVE AddressInv'
<1>1. ASSUME UNCHANGED addrs PROVE AddressInv'
  <2>1. UNCHANGED <<edgeIPs, nsResult, edge>>
    BY <1>1 DEF addrs
  <2>2. PICK k, f :
           /\ k \in 0..Len(EdgeIPs) /\ Origins(f, k)
           /\ edgeIPs = SubSeq(EdgeIPs, k + 1, Len(EdgeIPs))
    BY DEF IInv, AddressInv
  <2>3. Origins(f, k)'
    BY <2>1, <2>2 DEF Origins
  <2> QED BY <2>1, <2>2, <2>3 DEF IInv, AddressInv
<1>2. ASSUME NEW i \in Conns, GetEdgeIP(i) PROVE AddressInv'
  BY <1>2, PopStep, LookupStep DEF GetEdgeIP
<1>3. ASSUME NEW i \in Conns, Listen(i) \/ Dial(i) \/ Open(i) PROVE AddressInv'
  BY <1>1, <1>3 DEF Listen, ListenRecorded, ListenAny, ListenFails, Binds, Dial,
      DialOk, DialFails, Open, OpenStream, OpenStreamFails
<1>4. ASSUME NEW i \in Conns,
             \/ Registered(i) \/ NotRegistered(i) \/ AnswerLost(i)
             \/ RegisterAgain(i) \/ AcceptFails(i) \/ Restart(i) \/ ConnDies(i)
             \/ \E p \in Ports : Finalize(i, p)
      PROVE  AddressInv'
  BY <1>1, <1>4 DEF Registered, NotRegistered, AnswerLost, RegisterAgain,
      AcceptFails, Restart, ConnDies, Finalize
<1>5. CASE UNCHANGED vars
  BY <1>1, <1>5 DEF vars
<1> QED BY <1>2, <1>3, <1>4, <1>5 DEF Next

-----------------------------------------------------------------------------
\* Every step of the loops of Config.Run preserves the strengthened invariant.
THEOREM Inductive == Spec => []IInv
<1>1. IInv /\ [Next]_vars => IInv'
  BY LabelsStep, SocketStep, AddressStep DEF IInv
<1> QED BY InitInv, <1>1, PTL DEF Spec

\* The state of the loops of Config.Run keeps its types; in particular the cached
\* DNS results are what the first lookups gave, and never more.
THEOREM TypeCorrect == Spec => []TypeOK
<1>1. IInv => TypeOK
  <2> SUFFICES ASSUME IInv PROVE TypeOK
    OBVIOUS
  <2>1. tokenOk \in BOOLEAN
    BY Zenon DEF IInv, TokenType
  <2>2. /\ \E k \in 0..Len(EdgeIPs) : edgeIPs = SubSeq(EdgeIPs, k + 1, Len(EdgeIPs))
        /\ nsResult \in {<<>>, Region1, Region2, Region1 \o Region2}
        /\ edge \in [Conns -> Addrs]
    BY DEF IInv, AddressInv, Results
  <2> QED BY <2>1, <2>2 DEF IInv, Labels, TypeOK
<1> QED BY Inductive, <1>1, PTL

\* For every number of connections and every set of ports, each bound socket is
\* in use or was left by a failed OpenStream, and the port in use is recorded
\* (quic.go:34-57, 79-94, connection.go:55-85).
THEOREM SocketsAreAccounted == Spec => []SocketsAccounted
<1>1. IInv => SocketsAccounted
  BY DEF IInv, SocketInv, SocketsAccounted, Owned
<1> QED BY Inductive, <1>1, PTL

\* An address has finitely many places.
LEMMA PlacesFinite == ASSUME IInv, NEW addr PROVE IsFiniteSet(Places(addr))
<1>1. nsResult \in Seq(Addrs) /\ EdgeIPs \in Seq(Addrs)
  BY Lists DEF IInv, AddressInv
<1>2. /\ IsFiniteSet(DOMAIN nsResult) /\ IsFiniteSet(DOMAIN EdgeIPs)
      /\ IsFiniteSet(Conns)
  <2>1. DOMAIN nsResult = 1..Len(nsResult) /\ Len(nsResult) \in Nat
    BY <1>1, LenProperties
  <2>2. DOMAIN EdgeIPs = 1..Len(EdgeIPs) /\ Len(EdgeIPs) \in Nat
    BY <1>1, LenProperties
  <2>3. 0 \in Int /\ HaConn - 1 \in Int
    BY HaConnAssumption
  <2> QED BY <2>1, <2>2, <2>3, FS_Interval DEF Conns
<1>3. \A x : IsFiniteSet({x})
  BY FS_Singleton
<1>4. /\ IsFiniteSet({"config"} \X DOMAIN EdgeIPs)
      /\ IsFiniteSet({"dns"} \X DOMAIN nsResult)
      /\ IsFiniteSet({"fallback"} \X Conns)
  BY <1>2, <1>3, FS_Product
<1> DEFINE C == {s \in {"config"} \X DOMAIN EdgeIPs : EdgeIPs[s[2]] = addr}
           D == {s \in {"dns"} \X DOMAIN nsResult : nsResult[s[2]] = addr}
           F == {s \in {"fallback"} \X Conns : Fallback(s[2]) = addr}
<1>5. /\ C \in SUBSET ({"config"} \X DOMAIN EdgeIPs)
      /\ D \in SUBSET ({"dns"} \X DOMAIN nsResult)
      /\ F \in SUBSET ({"fallback"} \X Conns)
  OBVIOUS
<1>6. Places(addr) = (C \cup D) \cup F
  BY Zenon DEF Places
<1> HIDE DEF C, D, F
<1>7. IsFiniteSet(C) /\ IsFiniteSet(D) /\ IsFiniteSet(F)
  BY <1>4, <1>5, FS_Subset
<1> QED BY <1>6, <1>7, FS_Union

\* For all lists of addresses, whatever they repeat or have in common, an address
\* never has more connections in use than it has places in them (tunnel.go:26-60).
THEOREM EdgesAreDistinct == Spec => []DistinctEdges
<1>1. IInv => DistinctEdges
  <2> SUFFICES ASSUME IInv, NEW addr \in Addrs
               PROVE  Cardinality({i \in Conns : sock[i] # NoPort /\ edge[i] = addr})
                         <= Cardinality(Places(addr))
    BY DEF DistinctEdges
  <2>1. PICK k, f : k \in 0..Len(EdgeIPs) /\ Origins(f, k)
    BY DEF IInv, AddressInv
  <2> DEFINE U == {i \in Conns : sock[i] # NoPort /\ edge[i] = addr}
             g == [i \in U |-> f[i]]
  <2>2. ASSUME NEW i \in U PROVE f[i] \in Places(addr)
    <3>1. i \in Conns /\ edge[i] = addr
      OBVIOUS
    <3>2. nsResult \in Seq(Addrs) /\ EdgeIPs \in Seq(Addrs) /\ i \in Nat
      BY <3>1, Lists, HaConnAssumption DEF IInv, AddressInv, Conns
    <3>3. CASE f[i] = <<"fallback", i>> /\ edge[i] = Fallback(i)
      BY <3>1, <3>3 DEF Places
    <3>4. CASE \E m \in 1..k : f[i] = <<"config", m>> /\ edge[i] = EdgeIPs[m]
      <4>1. PICK m \in 1..k : f[i] = <<"config", m>> /\ edge[i] = EdgeIPs[m]
        BY <3>4
      <4>2. m \in DOMAIN EdgeIPs
        BY <2>1, <3>2
      <4> QED BY <3>1, <4>1, <4>2 DEF Places
    <3>5. CASE /\ f[i] = <<"dns", i + 1>>
               /\ Len(nsResult) > i /\ edge[i] = nsResult[i + 1]
      <4>1. i + 1 \in DOMAIN nsResult
        BY <3>2, <3>5
      <4> QED BY <3>1, <3>5, <4>1 DEF Places
    <3> QED BY <2>1, <3>1, <3>3, <3>4, <3>5 DEF Origins
  <2>3. \A a, b \in U : f[a] = f[b] => a = b
    BY <2>1 DEF Origins
  <2>4. g \in [U -> Places(addr)]
    BY <2>2
  <2>5. \A a, b \in DOMAIN g : g[a] = g[b] => a = b
    BY <2>3
  <2> HIDE DEF g, U
  <2>6. g \in Injection(U, Places(addr))
    BY <2>4, <2>5 DEF Injection, IsInjective
  <2>7. Cardinality(U) <= Cardinality(Places(addr))
    BY <2>6, PlacesFinite, FS_Injection
  <2> QED BY <2>7 DEF U
<1> QED BY Inductive, <1>1, PTL
=============================================================================
