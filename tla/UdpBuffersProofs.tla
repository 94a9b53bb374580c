-------------------------- MODULE UdpBuffersProofs --------------------------
(***************************************************************************)
(* Proofs about the buffers of the UDP forwarder, for all clients,         *)
(* connectors, workers and queue lengths: a buffer is in one place at a    *)
(* time, and so nothing is delivered to the wrong end or twice.            *)
(***************************************************************************)
EXTENDS UdpBuffers, SequenceTheorems, TLAPS

\* What the goroutines of a connector have at each point.
ConnInv ==
    /\ (lconn # None) <=> (lpc = "send")
    /\ lconn # None => cpc[lconn] \in {"send", "done"}
    /\ \A a \in Addrs : udpConns[a] # None =>
          src[udpConns[a]] = a /\ cpc[udpConns[a]] \in {"send", "done"}
    /\ \A c \in Conns :
          /\ cpc[c] = "unused" =>
                inQ[c] = <<>> /\ wbuf[c] = None /\ sentUp[c] = <<>>
          /\ cpc[c] # "unused" => src[c] \in Addrs
          /\ rpc[c] # "off" => cpc[c] \in {"store", "send", "done"}
          /\ (cbuf[c] # None) <=> (cpc[c] \in {"dial", "store", "send"})
          /\ (rbuf[c] # None) <=> (rpc[c] \in {"read", "push"})

\* The kinds of places a buffer may be in, and whose place it is.
Kind == {"pool", "listener", "creator", "writer", "reader", "worker", "inQ", "outQ"}
Whose == Conns \cup Workers \cup {None}

\* kind and at say of every buffer where it is, and of nothing that it is elsewhere.
OwnPool(kind)  == \A b \in pool : kind[b] = "pool"
OwnLocal(kind) == lbuf # None => kind[lbuf] = "listener"
OwnConn(kind, at) ==
    \A c \in Conns :
        /\ cbuf[c] # None => kind[cbuf[c]] = "creator" /\ at[cbuf[c]] = c
        /\ wbuf[c] # None => kind[wbuf[c]] = "writer" /\ at[wbuf[c]] = c
        /\ rbuf[c] # None => kind[rbuf[c]] = "reader" /\ at[rbuf[c]] = c
OwnInQ(kind, at) ==
    \A c \in Conns : \A i \in 1..Len(inQ[c]) : kind[inQ[c][i]] = "inQ" /\ at[inQ[c][i]] = c
OwnJob(kind, at) ==
    \A w \in Workers : job[w] # None => kind[job[w].buf] = "worker" /\ at[job[w].buf] = w
OwnOutQ(kind) == \A i \in 1..Len(outQ) : kind[outQ[i].buf] = "outQ"

Owned(kind, at) ==
    /\ OwnPool(kind) /\ OwnLocal(kind) /\ OwnConn(kind, at)
    /\ OwnInQ(kind, at) /\ OwnJob(kind, at) /\ OwnOutQ(kind)

OwnerInv == \E kind \in [Buffers -> Kind], at \in [Buffers -> Whose] : Owned(kind, at)

\* No buffer is twice in a queue.
QueueInv ==
    /\ \A c \in Conns : \A i, j \in 1..Len(inQ[c]) : inQ[c][i] = inQ[c][j] => i = j
    /\ \A i, j \in 1..Len(outQ) : outQ[i].buf = outQ[j].buf => i = j

\* A buffer holds a datagram of the source of connector c, or a message for a.
UpFor(b, c)   == mem[b] # None /\ mem[b].from = src[c]
DownFor(b, a) == mem[b] # None /\ mem[b].from \in Conns /\ src[mem[b].from] = a

ContentInv ==
    /\ lpc = "send" => UpFor(lbuf, lconn)
    /\ \A c \in Conns :
          /\ cbuf[c] # None => UpFor(cbuf[c], c)
          /\ wbuf[c] # None => UpFor(wbuf[c], c)
          /\ rpc[c] = "push" => mem[rbuf[c]] # None /\ mem[rbuf[c]].from = c
          /\ \A i \in 1..Len(inQ[c]) : UpFor(inQ[c][i], c)
    /\ \A w \in Workers : job[w] # None => DownFor(job[w].buf, job[w].dst)
    /\ \A i \in 1..Len(outQ) : DownFor(outQ[i].buf, outQ[i].dst)

IsUp(b)   == mem[b] # None /\ mem[b].from \in Addrs
IsDown(b) == mem[b] # None /\ mem[b].from \in Conns

\* Numbers are used once, and no two buffers hold the same datagram.
NumberInv ==
    /\ \A b \in Buffers :
          /\ IsUp(b) => mem[b].n <= nin
          /\ IsDown(b) => mem[b].n <= nout /\ cpc[mem[b].from] # "unused"
    /\ \A b1, b2 \in Buffers :
          /\ IsUp(b1) /\ IsUp(b2) /\ mem[b1].n = mem[b2].n => b1 = b2
          /\ IsDown(b1) /\ IsDown(b2) /\ mem[b1].n = mem[b2].n => b1 = b2

\* What was sent upstream is held by no buffer any more.
UpInv ==
    \A c \in Conns :
        /\ \A i \in 1..Len(sentUp[c]) :
              /\ sentUp[c][i] # None
              /\ sentUp[c][i].from = src[c] /\ sentUp[c][i].n <= nin
              /\ \A b \in Buffers : IsUp(b) => mem[b].n # sentUp[c][i].n
        /\ \A i, j \in 1..Len(sentUp[c]) : sentUp[c][i] = sentUp[c][j] => i = j

\* The same for what was sent downstream.
DownInv ==
    \A a \in Addrs :
        /\ \A i \in 1..Len(sentDown[a]) :
              /\ sentDown[a][i] # None
              /\ sentDown[a][i].from \in Conns
              /\ cpc[sentDown[a][i].from] # "unused"
              /\ src[sentDown[a][i].from] = a /\ sentDown[a][i].n <= nout
              /\ \A b \in Buffers : IsDown(b) => mem[b].n # sentDown[a][i].n
        /\ \A i, j \in 1..Len(sentDown[a]) : sentDown[a][i] = sentDown[a][j] => i = j

IInv == TypeOK /\ ConnInv /\ OwnerInv /\ QueueInv /\ ContentInv /\ NumberInv /\ UpInv /\ DownInv

-----------------------------------------------------------------------------
(* Types *)

\* Get returns a buffer of the pool.
LEMMA GetTakes == ASSUME TypeOK, Get PROVE NextBuffer \in pool /\ NextBuffer \in Buffers
<1>1. NextBuffer \in pool
  BY Zenon DEF Get, NextBuffer
<1> QED BY <1>1 DEF TypeOK

\* The parts of TypeOK.
Holders ==
    /\ pool \subseteq Buffers
    /\ mem \in [Buffers -> Datagram \cup {None}]
    /\ lbuf \in Buffers \cup {None}
    /\ cbuf \in [Conns -> Buffers \cup {None}]
    /\ wbuf \in [Conns -> Buffers \cup {None}]
    /\ rbuf \in [Conns -> Buffers \cup {None}]
    /\ job \in [Workers -> Item \cup {None}]
Labels ==
    /\ lpc \in {"get", "read", "send"}
    /\ (lbuf = None) <=> (lpc = "get")
    /\ lconn \in Conns \cup {None}
    /\ udpConns \in [Addrs -> Conns \cup {None}]
    /\ src \in [Conns -> Addrs \cup {None}]
    /\ cpc \in [Conns -> {"unused", "dial", "store", "send", "done"}]
    /\ remote \in [Conns -> {"none", "open", "closed"}]
    /\ rpc \in [Conns -> {"off", "check", "read", "push", "done"}]
    /\ nin \in 0..MaxIn /\ nout \in 0..MaxOut
Flags == closed \in [Conns -> BOOLEAN] /\ qclosed \in [Conns -> BOOLEAN]
Queues ==
    /\ inQ \in [Conns -> Seq(Buffers)] /\ \A c \in Conns : Len(inQ[c]) <= QueueCap
    /\ outQ \in Seq(Item) /\ Len(outQ) <= OutCap
Traffic ==
    /\ sentUp \in [Conns -> Seq(Datagram \cup {None})]
    /\ sentDown \in [Addrs -> Seq(Datagram \cup {None})]

LEMMA TypeParts == TypeOK <=> Holders /\ Labels /\ Flags /\ Queues /\ Traffic
BY Zenon DEF TypeOK, Holders, Labels, Flags, Queues, Traffic

LEMMA InitInv == Init => IInv
<1> SUFFICES ASSUME Init PROVE IInv
  OBVIOUS
<1> USE UdpBuffersAssumption DEF Init
<1>1. TypeOK
  <2>1. Holders /\ Labels
    BY DEF Holders, Labels
  <2>2. Flags
    BY Zenon DEF Flags
  <2>3. Queues /\ Traffic
    BY DEF Queues, Traffic
  <2> QED BY <2>1, <2>2, <2>3, TypeParts
<1>2. ConnInv
  BY DEF ConnInv
<1>3. OwnerInv
  <2> DEFINE kind == [b \in Buffers |-> "pool"]
             at   == [b \in Buffers |-> None]
  <2>1. kind \in [Buffers -> Kind] /\ at \in [Buffers -> Whose]
    BY DEF Kind, Whose
  <2>2. Owned(kind, at)
    BY DEF Owned, OwnPool, OwnLocal, OwnConn, OwnInQ, OwnJob, OwnOutQ
  <2> QED BY <2>1, <2>2, Zenon DEF OwnerInv
<1>4. QueueInv /\ ContentInv
  BY DEF QueueInv, ContentInv
<1>5. NumberInv /\ UpInv /\ DownInv
  BY DEF NumberInv, UpInv, DownInv, IsUp, IsDown
<1> QED BY <1>1, <1>2, <1>3, <1>4, <1>5 DEF IInv

LEMMA HoldersStep == ASSUME IInv, [Next]_vars PROVE Holders'
<1> USE TypeParts, UdpBuffersAssumption
    DEF IInv, Holders, Labels, ConnInv, local, creation, shutdown, inbound, reading, outbound
<1>1. CASE ListenerGet
  BY <1>1, GetTakes DEF ListenerGet, Get
<1>2. CASE ListenerReadFails
  BY <1>2 DEF ListenerReadFails, Put
<1>3. CASE ListenerSend
  BY <1>3 DEF ListenerSend
<1>4. ASSUME NEW a \in Addrs, ReadDrop(a) \/ ReadKnown(a) \/ ReadUnknown(a) PROVE Holders'
  <2>1. CASE ReadDrop(a)
    BY <2>1 DEF ReadDrop, Arrives, Put
  <2>2. ASSUME Arrives, Fill(a) PROVE mem' \in [Buffers -> Datagram \cup {None}]
    <3>1. [from |-> a, n |-> nin + 1] \in Datagram
      BY DEF Datagram
    <3> QED BY <2>2, <3>1 DEF Arrives, Fill
  <2>3. CASE ReadKnown(a)
    BY <2>2, <2>3 DEF ReadKnown
  <2>4. CASE ReadUnknown(a)
    BY <2>2, <2>4 DEF ReadUnknown, Arrives
  <2> QED BY <1>4, <2>1, <2>3, <2>4
<1>5. ASSUME NEW c \in Conns, Creator(c) PROVE Holders'
  BY <1>5 DEF Creator, DialFails, NewConn, Store, FirstSend, Put
<1>6. ASSUME NEW c \in Conns, Writer(c) PROVE Holders'
  <2>1. CASE WriterRecv(c)
    <3>1. Head(inQ[c]) \in Buffers
      BY <2>1 DEF WriterRecv, Queues
    <3> QED BY <2>1, <3>1 DEF WriterRecv
  <2>2. CASE WriterWrite(c) \/ WriterWriteFails(c)
    BY <2>2 DEF WriterWrite, WriterWriteFails, Put
  <2> QED BY <1>6, <2>1, <2>2 DEF Writer
<1>7. ASSUME NEW c \in Conns, Reader(c) PROVE Holders'
  BY <1>7, GetTakes DEF Reader, ReaderStop, ReaderGet, Get, ReaderGot, ReaderPush, ReaderFails, Put, Datagram
<1>8. ASSUME NEW c \in Conns, HealthCloses(c) \/ RemoteFails(c) PROVE Holders'
  BY <1>8 DEF HealthCloses, RemoteFails
<1>9. ASSUME NEW w \in Workers, Worker(w) PROVE Holders'
  <2>1. CASE WorkerTake(w)
    <3>1. Head(outQ) \in Item
      BY <2>1 DEF WorkerTake, Queues
    <3> QED BY <2>1, <3>1 DEF WorkerTake
  <2>2. CASE WorkerWrite(w) \/ WorkerWriteFails(w)
    <3>1. job[w].buf \in Buffers
      BY <2>2 DEF WorkerWrite, WorkerWriteFails, Item
    <3> QED BY <2>2, <3>1 DEF WorkerWrite, WorkerWriteFails, Put
  <2> QED BY <1>9, <2>1, <2>2 DEF Worker
<1>10. CASE UNCHANGED vars
  BY <1>10 DEF vars
<1> QED BY <1>1, <1>2, <1>3, <1>4, <1>5, <1>6, <1>7, <1>8, <1>9, <1>10 DEF Next, Listener

LEMMA LabelsStep == ASSUME IInv, [Next]_vars PROVE Labels' /\ ConnInv'
<1> USE TypeParts, UdpBuffersAssumption
    DEF IInv, Holders, Labels, ConnInv, local, creation, shutdown, inbound, reading, outbound
<1>1. CASE ListenerGet
  BY <1>1, GetTakes DEF ListenerGet, Get
<1>2. CASE ListenerReadFails
  BY <1>2 DEF ListenerReadFails, Put
<1>3. CASE ListenerSend
  BY <1>3 DEF ListenerSend
<1>4. ASSUME NEW a \in Addrs, ReadDrop(a) \/ ReadKnown(a) PROVE Labels' /\ ConnInv'
  BY <1>4 DEF ReadDrop, ReadKnown, Arrives, Fill, Put
<1>5. ASSUME NEW a \in Addrs, ReadUnknown(a) PROVE Labels' /\ ConnInv'
  <2> DEFINE c == CHOOSE c \in Conns : cpc[c] = "unused"
  <2>1. c \in Conns /\ cpc[c] = "unused"
    BY <1>5, Zenon DEF ReadUnknown
  <2> HIDE DEF c
  <2>2. /\ lpc = "read" /\ lpc' = "get" /\ lbuf' = None
        /\ nin' = nin + 1 /\ nin < MaxIn /\ nin' \in 0..MaxIn
        /\ cpc' = [cpc EXCEPT ![c] = "dial"]
        /\ src' = [src EXCEPT ![c] = a]
        /\ cbuf' = [cbuf EXCEPT ![c] = lbuf]
        /\ UNCHANGED <<pool, lconn, udpConns, shutdown, inbound, reading, outbound>>
    BY <1>5 DEF ReadUnknown, Arrives, c
  <2>3. Labels'
    BY <2>1, <2>2
  <2>4. ConnInv'
    BY <2>1, <2>2
  <2> QED BY <2>3, <2>4
<1>6. ASSUME NEW c \in Conns, Creator(c) PROVE Labels' /\ ConnInv'
  <2>1. CASE DialFails(c)
    BY <2>1 DEF DialFails
  <2>2. CASE NewConn(c)
    BY <2>2 DEF NewConn
  <2>3. CASE Store(c)
    BY <2>3 DEF Store
  <2>4. CASE FirstSend(c)
    BY <2>4 DEF FirstSend
  <2> QED BY <1>6, <2>1, <2>2, <2>3, <2>4 DEF Creator
<1>7. ASSUME NEW c \in Conns, Writer(c) PROVE Labels' /\ ConnInv'
  <2>1. CASE WriterRecv(c)
    BY <2>1 DEF WriterRecv, Queues
  <2>2. CASE WriterWrite(c)
    BY <2>2 DEF WriterWrite, Traffic
  <2>3. CASE WriterWriteFails(c)
    BY <2>3 DEF WriterWriteFails
  <2> QED BY <1>7, <2>1, <2>2, <2>3 DEF Writer
<1>8. ASSUME NEW c \in Conns, Reader(c) PROVE Labels' /\ ConnInv'
  BY <1>8, GetTakes DEF Reader, ReaderStop, ReaderGet, Get, ReaderGot, ReaderPush, ReaderFails, Put
<1>9. ASSUME NEW c \in Conns, HealthCloses(c) \/ RemoteFails(c) PROVE Labels' /\ ConnInv'
  BY <1>9 DEF HealthCloses, RemoteFails
<1>10. ASSUME NEW w \in Workers, Worker(w) PROVE Labels' /\ ConnInv'
  BY <1>10 DEF Worker, WorkerTake, WorkerWrite, WorkerWriteFails, Put
<1>11. CASE UNCHANGED vars
  BY <1>11 DEF vars
<1> QED BY <1>1, <1>2, <1>3, <1>4, <1>5, <1>6, <1>7, <1>8, <1>9, <1>10, <1>11 DEF Next, Listener

LEMMA FlagsStep == ASSUME IInv, [Next]_vars PROVE Flags'
<1>1. ASSUME NEW c \in Conns,
             \/ UNCHANGED <<closed, qclosed>>
             \/ /\ closed' = [closed EXCEPT ![c] = TRUE]
                /\ UNCHANGED qclosed \/ qclosed' = [qclosed EXCEPT ![c] = TRUE]
      PROVE  Flags'
  BY <1>1, TypeParts DEF IInv, Flags
<1>2. UNCHANGED <<closed, qclosed>> => Flags'
  BY TypeParts DEF IInv, Flags
<1>3. ASSUME NEW c \in Conns, Reader(c) PROVE Flags'
  BY <1>1, <1>3 DEF Reader, ReaderStop, ReaderGet, ReaderGot, ReaderPush, ReaderFails, shutdown
<1>4. ASSUME NEW c \in Conns, HealthCloses(c) \/ RemoteFails(c) PROVE Flags'
  BY <1>1, <1>4 DEF HealthCloses, RemoteFails, shutdown
<1>5. CASE Listener
  BY <1>2, <1>5 DEF Listener, ListenerGet, ListenerReadFails, ListenerSend, ReadDrop,
                    ReadKnown, ReadUnknown, shutdown
<1>6. ASSUME NEW c \in Conns, Creator(c) \/ Writer(c) PROVE Flags'
  BY <1>2, <1>6 DEF Creator, Writer, DialFails, NewConn, Store, FirstSend, WriterRecv,
                    WriterWrite, WriterWriteFails, shutdown
<1>7. ASSUME NEW w \in Workers, Worker(w) PROVE Flags'
  BY <1>2, <1>7 DEF Worker, WorkerTake, WorkerWrite, WorkerWriteFails, shutdown
<1>8. CASE UNCHANGED vars
  BY <1>2, <1>8 DEF vars, shutdown
<1> QED BY <1>3, <1>4, <1>5, <1>6, <1>7, <1>8 DEF Next

LEMMA QueuesStep == ASSUME IInv, [Next]_vars PROVE Queues'
<1> USE TypeParts, UdpBuffersAssumption
    DEF IInv, Holders, Labels, Queues, ConnInv, local, creation, inbound, reading, outbound
<1>1. CASE ListenerSend
  BY <1>1 DEF ListenerSend
<1>2. ASSUME NEW c \in Conns, FirstSend(c) PROVE Queues'
  BY <1>2 DEF FirstSend
<1>3. ASSUME NEW c \in Conns, WriterRecv(c) PROVE Queues'
  BY <1>3 DEF WriterRecv
<1>4. ASSUME NEW c \in Conns, ReaderPush(c) PROVE Queues'
  <2>1. [buf |-> rbuf[c], dst |-> src[c]] \in Item
    <3>1. rbuf[c] \in Buffers
      BY <1>4 DEF ReaderPush
    <3>2. src[c] \in Addrs
      BY <1>4 DEF ReaderPush
    <3> QED BY <3>1, <3>2 DEF Item
  <2> QED BY <1>4, <2>1 DEF ReaderPush
<1>5. ASSUME NEW w \in Workers, WorkerTake(w) PROVE Queues'
  BY <1>5 DEF WorkerTake
<1>6. UNCHANGED <<inQ, outQ>> => Queues'
  OBVIOUS
<1>7. CASE Listener /\ ~ListenerSend
  BY <1>6, <1>7 DEF Listener, ListenerGet, ListenerReadFails, ReadDrop, ReadKnown, ReadUnknown
<1>8. ASSUME NEW c \in Conns,
             DialFails(c) \/ NewConn(c) \/ Store(c) \/ WriterWrite(c) \/ WriterWriteFails(c)
      PROVE  Queues'
  BY <1>6, <1>8 DEF DialFails, NewConn, Store, WriterWrite, WriterWriteFails
<1>9. ASSUME NEW c \in Conns,
             \/ ReaderStop(c) \/ ReaderGet(c) \/ ReaderGot(c) \/ ReaderFails(c)
             \/ HealthCloses(c) \/ RemoteFails(c)
      PROVE  Queues'
  BY <1>6, <1>9 DEF ReaderStop, ReaderGet, ReaderGot, ReaderFails, HealthCloses, RemoteFails
<1>10. ASSUME NEW w \in Workers, WorkerWrite(w) \/ WorkerWriteFails(w) PROVE Queues'
  BY <1>6, <1>10 DEF WorkerWrite, WorkerWriteFails
<1>11. CASE UNCHANGED vars
  BY <1>6, <1>11 DEF vars
<1> QED BY <1>1, <1>2, <1>3, <1>4, <1>5, <1>7, <1>8, <1>9, <1>10, <1>11
        DEF Next, Creator, Writer, Reader, Worker

LEMMA TrafficStep == ASSUME IInv, [Next]_vars PROVE Traffic'
<1> USE TypeParts, UdpBuffersAssumption
    DEF IInv, Holders, Labels, Traffic, local, creation, inbound, reading, outbound
<1>1. ASSUME NEW c \in Conns, WriterWrite(c) PROVE Traffic'
  BY <1>1 DEF WriterWrite
<1>2. ASSUME NEW w \in Workers, WorkerWrite(w) PROVE Traffic'
  BY <1>2 DEF WorkerWrite, Item
<1>3. UNCHANGED <<sentUp, sentDown>> => Traffic'
  BY Zenon
<1>4. CASE Listener
  BY <1>3, <1>4 DEF Listener, ListenerGet, ListenerReadFails, ListenerSend, ReadDrop,
                    ReadKnown, ReadUnknown
<1>5. ASSUME NEW c \in Conns, Creator(c) \/ WriterRecv(c) \/ WriterWriteFails(c)
      PROVE  Traffic'
  BY <1>3, <1>5 DEF Creator, DialFails, NewConn, Store, FirstSend, WriterRecv, WriterWriteFails
<1>6. ASSUME NEW c \in Conns, Reader(c) \/ HealthCloses(c) \/ RemoteFails(c) PROVE Traffic'
  BY <1>3, <1>6 DEF Reader, ReaderStop, ReaderGet, ReaderGot, ReaderPush, ReaderFails,
                    HealthCloses, RemoteFails
<1>7. ASSUME NEW w \in Workers, WorkerTake(w) \/ WorkerWriteFails(w) PROVE Traffic'
  BY <1>3, <1>7 DEF WorkerTake, WorkerWriteFails
<1>8. CASE UNCHANGED vars
  BY <1>3, <1>8 DEF vars
<1> QED BY <1>1, <1>2, <1>4, <1>5, <1>6, <1>7, <1>8 DEF Next, Writer, Worker

-----------------------------------------------------------------------------
(* Every buffer is in one place *)

\* A buffer b moves to the place of kind k of x, and no other one moves.
Moves(kind, at, kind2, at2, b, k, x) ==
    /\ kind2[b] = k /\ at2[b] = x
    /\ \A y \in Buffers : y # b => kind2[y] = kind[y] /\ at2[y] = at[y]

LEMMA CanMove ==
  ASSUME NEW kind \in [Buffers -> Kind], NEW at \in [Buffers -> Whose],
         NEW b \in Buffers, NEW k \in Kind, NEW x \in Whose
  PROVE  \E kind2 \in [Buffers -> Kind], at2 \in [Buffers -> Whose] :
            Moves(kind, at, kind2, at2, b, k, x)
<1> DEFINE f == [kind EXCEPT ![b] = k]
           g == [at EXCEPT ![b] = x]
<1>1. f \in [Buffers -> Kind] /\ g \in [Buffers -> Whose]
  OBVIOUS
<1>2. Moves(kind, at, f, g, b, k, x)
  BY DEF Moves
<1> QED BY <1>1, <1>2, Zenon

\* What does not refer to the buffer that moves is as it was.
LEMMA FrameConn ==
  ASSUME Holders,
         NEW kind, NEW at, NEW kind2, NEW at2, NEW b \in Buffers, NEW k, NEW x,
         Moves(kind, at, kind2, at2, b, k, x), OwnConn(kind, at),
         kind[b] \notin {"creator", "writer", "reader"},
         UNCHANGED <<cbuf, wbuf, rbuf>>
  PROVE  OwnConn(kind2, at2)'
BY DEF OwnConn, Holders, Moves

LEMMA FrameInQ ==
  ASSUME Queues,
         NEW kind, NEW at, NEW kind2, NEW at2, NEW b \in Buffers, NEW k, NEW x,
         Moves(kind, at, kind2, at2, b, k, x), OwnInQ(kind, at),
         kind[b] # "inQ", UNCHANGED inQ
  PROVE  OwnInQ(kind2, at2)'
<1> SUFFICES ASSUME NEW c \in Conns, NEW i \in 1..Len(inQ[c])
             PROVE  kind2[inQ[c][i]] = "inQ" /\ at2[inQ[c][i]] = c
  BY DEF OwnInQ
<1>1. inQ[c][i] \in Buffers
  BY DEF Queues
<1>2. kind[inQ[c][i]] = "inQ" /\ at[inQ[c][i]] = c
  BY DEF OwnInQ
<1> QED BY <1>1, <1>2 DEF Moves

LEMMA FrameJob ==
  ASSUME Holders,
         NEW kind, NEW at, NEW kind2, NEW at2, NEW b \in Buffers, NEW k, NEW x,
         Moves(kind, at, kind2, at2, b, k, x), OwnJob(kind, at),
         kind[b] # "worker", UNCHANGED job
  PROVE  OwnJob(kind2, at2)'
<1> SUFFICES ASSUME NEW w \in Workers, job[w] # None
             PROVE  kind2[job[w].buf] = "worker" /\ at2[job[w].buf] = w
  BY DEF OwnJob
<1>1. job[w].buf \in Buffers
  BY DEF Holders, Item
<1>2. kind[job[w].buf] = "worker" /\ at[job[w].buf] = w
  BY DEF OwnJob
<1> QED BY <1>1, <1>2 DEF Moves

LEMMA FrameOutQ ==
  ASSUME Queues,
         NEW kind, NEW at, NEW kind2, NEW at2, NEW b \in Buffers, NEW k, NEW x,
         Moves(kind, at, kind2, at2, b, k, x), OwnOutQ(kind),
         kind[b] # "outQ", UNCHANGED outQ
  PROVE  OwnOutQ(kind2)'
<1> SUFFICES ASSUME NEW i \in 1..Len(outQ)
             PROVE  kind2[outQ[i].buf] = "outQ"
  BY DEF OwnOutQ
<1>1. outQ[i].buf \in Buffers
  <2>1. outQ[i] \in Item
    BY DEF Queues
  <2> QED BY <2>1 DEF Item
<1>2. kind[outQ[i].buf] = "outQ"
  BY DEF OwnOutQ
<1> QED BY <1>1, <1>2 DEF Moves

LEMMA FramePool ==
  ASSUME Holders,
         NEW kind, NEW at, NEW kind2, NEW at2, NEW b \in Buffers, NEW k, NEW x,
         Moves(kind, at, kind2, at2, b, k, x), OwnPool(kind),
         \/ kind[b] # "pool" /\ UNCHANGED pool
         \/ k = "pool" /\ pool' = pool \cup {b}
         \/ pool' = pool \ {b}
  PROVE  OwnPool(kind2)'
BY DEF Holders, OwnPool, Moves

LEMMA FrameLocal ==
  ASSUME Holders,
         NEW kind, NEW at, NEW kind2, NEW at2, NEW b \in Buffers, NEW k, NEW x,
         Moves(kind, at, kind2, at2, b, k, x), OwnLocal(kind),
         \/ kind[b] # "listener" /\ UNCHANGED lbuf
         \/ lbuf' = None
  PROVE  OwnLocal(kind2)'
BY DEF Holders, OwnLocal, Moves

LEMMA FrameQueues == ASSUME QueueInv, UNCHANGED <<inQ, outQ>> PROVE QueueInv'
BY DEF QueueInv

\* A buffer that is in no queue joins the one of c.
LEMMA Enqueued ==
  ASSUME Queues, QueueInv,
         NEW kind, NEW at, NEW kind2, NEW at2, NEW b \in Buffers, NEW c \in Conns,
         Moves(kind, at, kind2, at2, b, "inQ", c), OwnInQ(kind, at), kind[b] # "inQ",
         inQ' = [inQ EXCEPT ![c] = Append(inQ[c], b)], UNCHANGED outQ
  PROVE  OwnInQ(kind2, at2)' /\ QueueInv'
<1>1. ASSUME NEW d \in Conns
      PROVE  /\ Len(inQ'[d]) = IF d = c THEN Len(inQ[d]) + 1 ELSE Len(inQ[d])
             /\ \A i \in 1..Len(inQ[d]) : inQ'[d][i] = inQ[d][i] /\ inQ[d][i] \in Buffers
             /\ d = c => inQ'[d][Len(inQ[d]) + 1] = b
             /\ Len(inQ[d]) \in Nat
  BY DEF Queues
<1>2. \A d \in Conns : \A i \in 1..Len(inQ[d]) :
         inQ[d][i] # b /\ kind2[inQ[d][i]] = "inQ" /\ at2[inQ[d][i]] = d
  BY <1>1 DEF OwnInQ, Moves
<1>3. OwnInQ(kind2, at2)'
  <2> SUFFICES ASSUME NEW d \in Conns, NEW i \in 1..Len(inQ'[d])
               PROVE  kind2[inQ'[d][i]] = "inQ" /\ at2[inQ'[d][i]] = d
    BY DEF OwnInQ
  <2>1. CASE i \in 1..Len(inQ[d])
    BY <1>1, <1>2, <2>1
  <2>2. CASE d = c /\ i = Len(inQ[d]) + 1
    BY <1>1, <2>2 DEF Moves
  <2> QED BY <1>1, <2>1, <2>2
<1>4. ASSUME NEW d \in Conns, NEW i \in 1..Len(inQ'[d]), NEW j \in 1..Len(inQ'[d]),
             inQ'[d][i] = inQ'[d][j]
      PROVE  i = j
  <2>1. CASE i \in 1..Len(inQ[d]) /\ j \in 1..Len(inQ[d])
    BY <1>1, <1>4, <2>1 DEF QueueInv
  <2>2. CASE i = Len(inQ[d]) + 1 /\ d = c
    BY <1>1, <1>2, <1>4, <2>2
  <2>3. CASE j = Len(inQ[d]) + 1 /\ d = c
    BY <1>1, <1>2, <1>4, <2>3
  <2> QED BY <1>1, <2>1, <2>2, <2>3
<1> QED BY <1>3, <1>4 DEF QueueInv

\* Nothing moves.
LEMMA NoMove ==
  ASSUME OwnerInv, QueueInv, UNCHANGED <<pool, lbuf, cbuf, wbuf, rbuf, inQ, job, outQ>>
  PROVE  OwnerInv' /\ QueueInv'
<1>1. QueueInv'
  BY FrameQueues
<1>2. PICK kind \in [Buffers -> Kind], at \in [Buffers -> Whose] : Owned(kind, at)
  BY DEF OwnerInv
<1>3. Owned(kind, at)'
  BY <1>2 DEF Owned, OwnPool, OwnLocal, OwnConn, OwnInQ, OwnJob, OwnOutQ
<1> QED BY <1>1, <1>2, <1>3, Zenon DEF OwnerInv

\* The first buffer leaves the queue of c.
LEMMA Dequeued ==
  ASSUME Queues, QueueInv,
         NEW kind, NEW at, NEW kind2, NEW at2, NEW b \in Buffers, NEW c \in Conns, NEW k, NEW x,
         Moves(kind, at, kind2, at2, b, k, x), OwnInQ(kind, at),
         inQ[c] # <<>>, b = Head(inQ[c]),
         inQ' = [inQ EXCEPT ![c] = Tail(inQ[c])], UNCHANGED outQ
  PROVE  OwnInQ(kind2, at2)' /\ QueueInv'
<1>1. ASSUME NEW d \in Conns
      PROVE  /\ d # c => inQ'[d] = inQ[d]
             /\ \A i \in 1..Len(inQ[d]) : inQ[d][i] \in Buffers
             /\ Len(inQ[d]) \in Nat
  BY DEF Queues
<1>2. /\ Len(inQ'[c]) = Len(inQ[c]) - 1 /\ Len(inQ[c]) >= 1
      /\ \A i \in 1..Len(inQ'[c]) : inQ'[c][i] = inQ[c][i + 1]
      /\ inQ[c][1] = b
  BY DEF Queues
<1>3. \A d \in Conns : \A i \in 1..Len(inQ[d]) : inQ[d][i] # b =>
         kind2[inQ[d][i]] = "inQ" /\ at2[inQ[d][i]] = d
  BY <1>1 DEF OwnInQ, Moves
<1>4. \A d \in Conns : d # c => \A i \in 1..Len(inQ[d]) : inQ[d][i] # b
  <2>1. at[b] = c
    BY <1>1, <1>2 DEF OwnInQ
  <2> QED BY <2>1 DEF OwnInQ
<1>5. \A i \in 1..Len(inQ[c]) : i # 1 => inQ[c][i] # b
  BY <1>1, <1>2 DEF QueueInv
<1>6. OwnInQ(kind2, at2)'
  <2> SUFFICES ASSUME NEW d \in Conns, NEW i \in 1..Len(inQ'[d])
               PROVE  kind2[inQ'[d][i]] = "inQ" /\ at2[inQ'[d][i]] = d
    BY DEF OwnInQ
  <2>1. CASE d # c
    BY <1>1, <1>3, <1>4, <2>1
  <2>2. CASE d = c
    <3>1. i + 1 \in 1..Len(inQ[c]) /\ i + 1 # 1 /\ inQ'[d][i] = inQ[c][i + 1]
      BY <1>1, <1>2, <2>2
    <3> QED BY <1>3, <1>5, <2>2, <3>1
  <2> QED BY <2>1, <2>2
<1>7. ASSUME NEW d \in Conns, NEW i \in 1..Len(inQ'[d]), NEW j \in 1..Len(inQ'[d]),
             inQ'[d][i] = inQ'[d][j]
      PROVE  i = j
  <2>1. CASE d # c
    BY <1>1, <1>7, <2>1 DEF QueueInv
  <2>2. CASE d = c
    <3>1. i + 1 \in 1..Len(inQ[c]) /\ j + 1 \in 1..Len(inQ[c])
      BY <1>1, <1>2, <2>2
    <3>2. i + 1 = j + 1
      BY <1>2, <1>7, <2>2, <3>1 DEF QueueInv
    <3> QED BY <3>2
  <2> QED BY <2>1, <2>2
<1> QED BY <1>6, <1>7 DEF QueueInv

\* A buffer joins outboundQueue.
LEMMA Pushed ==
  ASSUME Queues, QueueInv,
         NEW kind, NEW at, NEW kind2, NEW at2, NEW b \in Buffers, NEW a \in Addrs, NEW x,
         Moves(kind, at, kind2, at2, b, "outQ", x), OwnOutQ(kind), kind[b] # "outQ",
         outQ' = Append(outQ, [buf |-> b, dst |-> a]), UNCHANGED inQ
  PROVE  OwnOutQ(kind2)' /\ QueueInv'
<1>1. /\ Len(outQ) \in Nat /\ Len(outQ') = Len(outQ) + 1
      /\ \A i \in 1..Len(outQ) : outQ'[i] = outQ[i] /\ outQ[i] \in Item
      /\ outQ'[Len(outQ) + 1] = [buf |-> b, dst |-> a]
  <2>1. [buf |-> b, dst |-> a] \in Item
    BY DEF Item
  <2> QED BY <2>1 DEF Queues
<1>2. \A i \in 1..Len(outQ) : outQ[i].buf \in Buffers
  BY <1>1 DEF Item
<1>3. \A i \in 1..Len(outQ) : outQ[i].buf # b /\ kind2[outQ[i].buf] = "outQ"
  BY <1>2 DEF OwnOutQ, Moves
<1>4. OwnOutQ(kind2)'
  <2> SUFFICES ASSUME NEW i \in 1..Len(outQ') PROVE kind2[outQ'[i].buf] = "outQ"
    BY DEF OwnOutQ
  <2>1. CASE i \in 1..Len(outQ)
    BY <1>1, <1>3, <2>1
  <2>2. CASE i = Len(outQ) + 1
    BY <1>1, <2>2 DEF Moves
  <2> QED BY <1>1, <2>1, <2>2
<1>5. ASSUME NEW i \in 1..Len(outQ'), NEW j \in 1..Len(outQ'), outQ'[i].buf = outQ'[j].buf
      PROVE  i = j
  <2>1. CASE i \in 1..Len(outQ) /\ j \in 1..Len(outQ)
    BY <1>1, <1>5, <2>1 DEF QueueInv
  <2>2. CASE i = Len(outQ) + 1
    BY <1>1, <1>3, <1>5, <2>2
  <2>3. CASE j = Len(outQ) + 1
    BY <1>1, <1>3, <1>5, <2>3
  <2> QED BY <1>1, <2>1, <2>2, <2>3
<1> QED BY <1>4, <1>5 DEF QueueInv

\* The first buffer leaves outboundQueue.
LEMMA Popped ==
  ASSUME Queues, QueueInv,
         NEW kind, NEW at, NEW kind2, NEW at2, NEW b \in Buffers, NEW k, NEW x,
         Moves(kind, at, kind2, at2, b, k, x), OwnOutQ(kind),
         outQ # <<>>, b = Head(outQ).buf, outQ' = Tail(outQ), UNCHANGED inQ
  PROVE  OwnOutQ(kind2)' /\ QueueInv'
<1>1. /\ Len(outQ) \in Nat /\ Len(outQ) >= 1 /\ Len(outQ') = Len(outQ) - 1
      /\ \A i \in 1..Len(outQ) : outQ[i] \in Item
      /\ \A i \in 1..Len(outQ') : outQ'[i] = outQ[i + 1]
      /\ outQ[1].buf = b
  BY DEF Queues
<1>2. \A i \in 1..Len(outQ) : outQ[i].buf \in Buffers
  BY <1>1 DEF Item
<1>3. \A i \in 1..Len(outQ) : i # 1 => outQ[i].buf # b
  BY <1>1 DEF QueueInv
<1>4. \A i \in 1..Len(outQ) : i # 1 => kind2[outQ[i].buf] = "outQ"
  BY <1>2, <1>3 DEF OwnOutQ, Moves
<1>5. \A i \in 1..Len(outQ') : i + 1 \in 1..Len(outQ) /\ i + 1 # 1
  BY <1>1
<1>6. OwnOutQ(kind2)'
  BY <1>1, <1>4, <1>5 DEF OwnOutQ
<1>7. ASSUME NEW i \in 1..Len(outQ'), NEW j \in 1..Len(outQ'), outQ'[i].buf = outQ'[j].buf
      PROVE  i = j
  <2>1. i + 1 = j + 1
    BY <1>1, <1>5, <1>7 DEF QueueInv
  <2> QED BY <2>1
<1> QED BY <1>6, <1>7 DEF QueueInv

LEMMA Rebuilt ==
  ASSUME NEW kind2 \in [Buffers -> Kind], NEW at2 \in [Buffers -> Whose],
         OwnPool(kind2)', OwnLocal(kind2)', OwnConn(kind2, at2)',
         OwnInQ(kind2, at2)', OwnJob(kind2, at2)', OwnOutQ(kind2)'
  PROVE  OwnerInv'
<1>1. Owned(kind2, at2)'
  BY DEF Owned
<1> QED BY <1>1, Zenon DEF OwnerInv

\* The listener gets a buffer, gives it back, or gives it to a connector.
LEMMA ListenerOwner ==
  ASSUME IInv, Listener PROVE OwnerInv' /\ QueueInv'
<1> USE UdpBuffersAssumption
<1>0. Holders /\ Labels /\ Queues /\ ConnInv /\ OwnerInv /\ QueueInv
  BY TypeParts DEF IInv
<1>1. PICK kind \in [Buffers -> Kind], at \in [Buffers -> Whose] : Owned(kind, at)
  BY <1>0 DEF OwnerInv
<1>2. /\ OwnPool(kind) /\ OwnLocal(kind) /\ OwnConn(kind, at)
      /\ OwnInQ(kind, at) /\ OwnJob(kind, at) /\ OwnOutQ(kind)
  BY <1>1 DEF Owned
<1>4. CASE ListenerGet
  <2>1. PICK b \in Buffers : b = NextBuffer
    BY <1>4, GetTakes DEF ListenerGet, IInv
  <2>2. /\ b \in pool /\ pool' = pool \ {b} /\ lbuf' = b
        /\ UNCHANGED <<cbuf, wbuf, rbuf, inQ, job, outQ>>
    BY <1>4, <2>1, GetTakes
    DEF ListenerGet, Get, IInv, creation, inbound, reading, outbound
  <2>3. kind[b] = "pool"
    BY <1>2, <2>2 DEF OwnPool
  <2>4. PICK kind2 \in [Buffers -> Kind], at2 \in [Buffers -> Whose] :
           Moves(kind, at, kind2, at2, b, "listener", None)
    BY <2>1, CanMove DEF Kind, Whose
  <2>5. OwnPool(kind2)'
    BY <1>0, <1>2, <2>2, <2>4, FramePool
  <2>6. OwnLocal(kind2)'
    BY <2>2, <2>4 DEF OwnLocal, Moves
  <2>7. OwnConn(kind2, at2)'
    BY <1>0, <1>2, <2>2, <2>3, <2>4, FrameConn
  <2>8. OwnInQ(kind2, at2)' /\ OwnJob(kind2, at2)' /\ OwnOutQ(kind2)'
    BY <1>0, <1>2, <2>2, <2>3, <2>4, FrameInQ, FrameJob, FrameOutQ
  <2> QED BY <1>0, Rebuilt, <2>2, <2>5, <2>6, <2>7, <2>8, FrameQueues
<1>5. ASSUME NEW b \in Buffers, b = lbuf, lbuf' = None, pool' = pool \cup {b},
             UNCHANGED <<cbuf, wbuf, rbuf, inQ, job, outQ>>
      PROVE  OwnerInv' /\ QueueInv'
  <2>1. kind[b] = "listener"
    BY <1>2, <1>5 DEF OwnLocal
  <2>2. PICK kind2 \in [Buffers -> Kind], at2 \in [Buffers -> Whose] :
           Moves(kind, at, kind2, at2, b, "pool", None)
    BY CanMove DEF Kind, Whose
  <2>3. OwnPool(kind2)' /\ OwnLocal(kind2)'
    BY <1>0, <1>2, <1>5, <2>2, FramePool, FrameLocal
  <2>4. OwnConn(kind2, at2)'
    BY <1>0, <1>2, <1>5, <2>1, <2>2, FrameConn
  <2>5. OwnInQ(kind2, at2)' /\ OwnJob(kind2, at2)' /\ OwnOutQ(kind2)'
    BY <1>0, <1>2, <1>5, <2>1, <2>2, FrameInQ, FrameJob, FrameOutQ
  <2> QED BY <1>0, Rebuilt, <1>5, <2>3, <2>4, <2>5, FrameQueues
<1>6. CASE ListenerReadFails
  BY <1>0, <1>5, <1>6
  DEF ListenerReadFails, Put, Holders, Labels, creation, inbound, reading, outbound
<1>7. ASSUME NEW a \in Addrs, ReadDrop(a) PROVE OwnerInv' /\ QueueInv'
  BY <1>0, <1>5, <1>7
  DEF ReadDrop, Arrives, Put, Holders, Labels, creation, inbound, reading, outbound
<1>8. ASSUME NEW a \in Addrs, ReadKnown(a) PROVE OwnerInv' /\ QueueInv'
  BY <1>0, <1>8, NoMove DEF ReadKnown, creation, inbound, reading, outbound
<1>9. ASSUME NEW a \in Addrs, ReadUnknown(a) PROVE OwnerInv' /\ QueueInv'
  <2>1. PICK c \in Conns : c = CHOOSE d \in Conns : cpc[d] = "unused"
    BY <1>9, Zenon DEF ReadUnknown
  <2>2. PICK b \in Buffers : b = lbuf
    BY <1>0, <1>9 DEF ReadUnknown, Arrives, Holders, Labels
  <2>3. /\ cbuf' = [cbuf EXCEPT ![c] = b] /\ lbuf' = None
        /\ UNCHANGED <<pool, wbuf, rbuf, inQ, job, outQ>>
    BY <1>9, <2>1, <2>2 DEF ReadUnknown, inbound, reading, outbound
  <2>4. kind[b] = "listener"
    BY <1>2, <2>2 DEF OwnLocal
  <2>5. PICK kind2 \in [Buffers -> Kind], at2 \in [Buffers -> Whose] :
           Moves(kind, at, kind2, at2, b, "creator", c)
    BY CanMove DEF Kind, Whose
  <2>6. OwnPool(kind2)' /\ OwnLocal(kind2)'
    BY <1>0, <1>2, <2>3, <2>4, <2>5, FramePool, FrameLocal
  <2>7. OwnConn(kind2, at2)'
    BY <1>0, <1>2, <2>3, <2>4, <2>5 DEF OwnConn, Holders, Moves
  <2>8. OwnInQ(kind2, at2)' /\ OwnJob(kind2, at2)' /\ OwnOutQ(kind2)'
    BY <1>0, <1>2, <2>3, <2>4, <2>5, FrameInQ, FrameJob, FrameOutQ
  <2> QED BY <1>0, Rebuilt, <2>3, <2>6, <2>7, <2>8, FrameQueues
<1>10. CASE ListenerSend
  <2>1. PICK c \in Conns : c = lconn
    BY <1>0, <1>10 DEF ListenerSend, Labels, ConnInv
  <2>2. PICK b \in Buffers : b = lbuf
    BY <1>0, <1>10 DEF ListenerSend, Holders, Labels
  <2>3. /\ inQ' = [inQ EXCEPT ![c] = Append(inQ[c], b)] /\ lbuf' = None
        /\ UNCHANGED <<pool, cbuf, wbuf, rbuf, job, outQ>>
    BY <1>10, <2>1, <2>2 DEF ListenerSend, creation, reading, outbound
  <2>4. kind[b] = "listener"
    BY <1>2, <2>2 DEF OwnLocal
  <2>5. PICK kind2 \in [Buffers -> Kind], at2 \in [Buffers -> Whose] :
           Moves(kind, at, kind2, at2, b, "inQ", c)
    BY CanMove DEF Kind, Whose
  <2>6. OwnPool(kind2)' /\ OwnLocal(kind2)'
    BY <1>0, <1>2, <2>3, <2>4, <2>5, FramePool, FrameLocal
  <2>7. OwnConn(kind2, at2)'
    BY <1>0, <1>2, <2>3, <2>4, <2>5, FrameConn
  <2>8. OwnInQ(kind2, at2)' /\ QueueInv'
    BY <1>0, <1>2, <2>3, <2>4, <2>5, Enqueued
  <2>9. OwnJob(kind2, at2)' /\ OwnOutQ(kind2)'
    BY <1>0, <1>2, <2>3, <2>4, <2>5, FrameJob, FrameOutQ
  <2> QED BY Rebuilt, <2>6, <2>7, <2>8, <2>9
<1> QED BY <1>4, <1>6, <1>7, <1>8, <1>9, <1>10 DEF Listener

\* The creator sends its buffer to the writer or gives it back, the writer takes
\* one off the queue and gives it back.
LEMMA SendOwner ==
  ASSUME IInv, NEW c \in Conns, Creator(c) \/ Writer(c) PROVE OwnerInv' /\ QueueInv'
<1> USE UdpBuffersAssumption
<1>0. Holders /\ Labels /\ Queues /\ ConnInv /\ OwnerInv /\ QueueInv
  BY TypeParts DEF IInv
<1>1. PICK kind \in [Buffers -> Kind], at \in [Buffers -> Whose] : Owned(kind, at)
  BY <1>0 DEF OwnerInv
<1>2. /\ OwnPool(kind) /\ OwnLocal(kind) /\ OwnConn(kind, at)
      /\ OwnInQ(kind, at) /\ OwnJob(kind, at) /\ OwnOutQ(kind)
  BY <1>1 DEF Owned
<1>3. CASE DialFails(c)
  <2>1. PICK b \in Buffers : b = cbuf[c]
    BY <1>0, <1>3 DEF DialFails, Holders, ConnInv
  <2>2. /\ cbuf' = [cbuf EXCEPT ![c] = None] /\ pool' = pool \cup {b}
        /\ UNCHANGED <<lbuf, wbuf, rbuf, inQ, job, outQ>>
    BY <1>3, <2>1 DEF DialFails, Put, local, inbound, reading, outbound
  <2>3. kind[b] = "creator"
    BY <1>2, <2>1 DEF OwnConn
  <2>4. PICK kind2 \in [Buffers -> Kind], at2 \in [Buffers -> Whose] :
           Moves(kind, at, kind2, at2, b, "pool", None)
    BY CanMove DEF Kind, Whose
  <2>5. OwnPool(kind2)' /\ OwnLocal(kind2)'
    BY <1>0, <1>2, <2>2, <2>3, <2>4, FramePool, FrameLocal
  <2>6. OwnConn(kind2, at2)'
    BY <1>0, <1>2, <2>1, <2>2, <2>3, <2>4 DEF OwnConn, Holders, Moves
  <2>7. OwnInQ(kind2, at2)' /\ OwnJob(kind2, at2)' /\ OwnOutQ(kind2)'
    BY <1>0, <1>2, <2>2, <2>3, <2>4, FrameInQ, FrameJob, FrameOutQ
  <2> QED BY <1>0, <2>2, <2>5, <2>6, <2>7, Rebuilt, FrameQueues
<1>4. CASE NewConn(c) \/ Store(c)
  BY <1>0, <1>4, NoMove DEF NewConn, Store, local, inbound, reading, outbound
<1>5. CASE FirstSend(c)
  <2>1. PICK b \in Buffers : b = cbuf[c]
    BY <1>0, <1>5 DEF FirstSend, Holders, ConnInv
  <2>2. /\ cbuf' = [cbuf EXCEPT ![c] = None] /\ inQ' = [inQ EXCEPT ![c] = Append(inQ[c], b)]
        /\ UNCHANGED <<pool, lbuf, wbuf, rbuf, job, outQ>>
    BY <1>5, <2>1 DEF FirstSend, local, reading, outbound
  <2>3. kind[b] = "creator"
    BY <1>2, <2>1 DEF OwnConn
  <2>4. PICK kind2 \in [Buffers -> Kind], at2 \in [Buffers -> Whose] :
           Moves(kind, at, kind2, at2, b, "inQ", c)
    BY CanMove DEF Kind, Whose
  <2>5. OwnPool(kind2)' /\ OwnLocal(kind2)'
    BY <1>0, <1>2, <2>2, <2>3, <2>4, FramePool, FrameLocal
  <2>6. OwnConn(kind2, at2)'
    BY <1>0, <1>2, <2>1, <2>2, <2>3, <2>4 DEF OwnConn, Holders, Moves
  <2>7. OwnInQ(kind2, at2)' /\ QueueInv'
    BY <1>0, <1>2, <2>2, <2>3, <2>4, Enqueued
  <2>8. OwnJob(kind2, at2)' /\ OwnOutQ(kind2)'
    BY <1>0, <1>2, <2>2, <2>3, <2>4, FrameJob, FrameOutQ
  <2> QED BY <2>5, <2>6, <2>7, <2>8, Rebuilt
<1>6. CASE WriterRecv(c)
  <2>1. PICK b \in Buffers : b = Head(inQ[c])
    BY <1>0, <1>6 DEF WriterRecv, Queues
  <2>2. /\ wbuf' = [wbuf EXCEPT ![c] = b] /\ inQ[c] # <<>>
        /\ inQ' = [inQ EXCEPT ![c] = Tail(inQ[c])]
        /\ UNCHANGED <<pool, lbuf, cbuf, rbuf, job, outQ>>
    BY <1>6, <2>1 DEF WriterRecv, local, creation, reading, outbound
  <2>3. kind[b] = "inQ"
    <3>1. 1 \in 1..Len(inQ[c]) /\ b = inQ[c][1]
      BY <1>0, <2>1, <2>2 DEF Queues
    <3> QED BY <1>2, <3>1 DEF OwnInQ
  <2>4. PICK kind2 \in [Buffers -> Kind], at2 \in [Buffers -> Whose] :
           Moves(kind, at, kind2, at2, b, "writer", c)
    BY CanMove DEF Kind, Whose
  <2>5. OwnPool(kind2)' /\ OwnLocal(kind2)'
    BY <1>0, <1>2, <2>2, <2>3, <2>4, FramePool, FrameLocal
  <2>6. OwnConn(kind2, at2)'
    BY <1>0, <1>2, <2>2, <2>3, <2>4 DEF OwnConn, Holders, Moves
  <2>7. OwnInQ(kind2, at2)' /\ QueueInv'
    BY <1>0, <1>2, <2>1, <2>2, <2>4, Dequeued
  <2>8. OwnJob(kind2, at2)' /\ OwnOutQ(kind2)'
    BY <1>0, <1>2, <2>2, <2>3, <2>4, FrameJob, FrameOutQ
  <2> QED BY <2>5, <2>6, <2>7, <2>8, Rebuilt
<1>7. CASE WriterWrite(c) \/ WriterWriteFails(c)
  <2>1. PICK b \in Buffers : b = wbuf[c]
    BY <1>0, <1>7 DEF WriterWrite, WriterWriteFails, Holders
  <2>2. /\ wbuf' = [wbuf EXCEPT ![c] = None] /\ pool' = pool \cup {b}
        /\ UNCHANGED <<lbuf, cbuf, rbuf, inQ, job, outQ>>
    BY <1>7, <2>1 DEF WriterWrite, WriterWriteFails, Put, local, creation, reading, outbound
  <2>3. kind[b] = "writer"
    BY <1>2, <2>1 DEF OwnConn
  <2>4. PICK kind2 \in [Buffers -> Kind], at2 \in [Buffers -> Whose] :
           Moves(kind, at, kind2, at2, b, "pool", None)
    BY CanMove DEF Kind, Whose
  <2>5. OwnPool(kind2)' /\ OwnLocal(kind2)'
    BY <1>0, <1>2, <2>2, <2>3, <2>4, FramePool, FrameLocal
  <2>6. OwnConn(kind2, at2)'
    BY <1>0, <1>2, <2>1, <2>2, <2>3, <2>4 DEF OwnConn, Holders, Moves
  <2>7. OwnInQ(kind2, at2)' /\ OwnJob(kind2, at2)' /\ OwnOutQ(kind2)'
    BY <1>0, <1>2, <2>2, <2>3, <2>4, FrameInQ, FrameJob, FrameOutQ
  <2> QED BY <1>0, <2>2, <2>5, <2>6, <2>7, Rebuilt, FrameQueues
<1> QED BY <1>3, <1>4, <1>5, <1>6, <1>7 DEF Creator, Writer

\* The reader gets a buffer and pushes it or gives it back.
LEMMA ReaderOwner ==
  ASSUME IInv, NEW c \in Conns, Reader(c) PROVE OwnerInv' /\ QueueInv'
<1> USE UdpBuffersAssumption
<1>0. Holders /\ Labels /\ Queues /\ ConnInv /\ OwnerInv /\ QueueInv
  BY TypeParts DEF IInv
<1>1. PICK kind \in [Buffers -> Kind], at \in [Buffers -> Whose] : Owned(kind, at)
  BY <1>0 DEF OwnerInv
<1>2. /\ OwnPool(kind) /\ OwnLocal(kind) /\ OwnConn(kind, at)
      /\ OwnInQ(kind, at) /\ OwnJob(kind, at) /\ OwnOutQ(kind)
  BY <1>1 DEF Owned
<1>3. CASE ReaderStop(c) \/ ReaderGot(c)
  BY <1>0, <1>3, NoMove DEF ReaderStop, ReaderGot, local, creation, inbound, outbound
<1>4. CASE ReaderGet(c)
  <2>1. PICK b \in Buffers : b = NextBuffer
    BY <1>4, GetTakes DEF ReaderGet, IInv
  <2>2. /\ b \in pool /\ pool' = pool \ {b} /\ rbuf' = [rbuf EXCEPT ![c] = b]
        /\ UNCHANGED <<lbuf, cbuf, wbuf, inQ, job, outQ>>
    BY <1>4, <2>1, GetTakes DEF ReaderGet, Get, IInv, local, creation, inbound, outbound
  <2>3. kind[b] = "pool"
    BY <1>2, <2>2 DEF OwnPool
  <2>4. PICK kind2 \in [Buffers -> Kind], at2 \in [Buffers -> Whose] :
           Moves(kind, at, kind2, at2, b, "reader", c)
    BY CanMove DEF Kind, Whose
  <2>5. OwnPool(kind2)' /\ OwnLocal(kind2)'
    BY <1>0, <1>2, <2>2, <2>3, <2>4, FramePool, FrameLocal
  <2>6. OwnConn(kind2, at2)'
    BY <1>0, <1>2, <2>2, <2>3, <2>4 DEF OwnConn, Holders, Moves
  <2>7. OwnInQ(kind2, at2)' /\ OwnJob(kind2, at2)' /\ OwnOutQ(kind2)'
    BY <1>0, <1>2, <2>2, <2>3, <2>4, FrameInQ, FrameJob, FrameOutQ
  <2> QED BY <1>0, <2>2, <2>5, <2>6, <2>7, Rebuilt, FrameQueues
<1>5. CASE ReaderPush(c)
  <2>1. PICK b \in Buffers : b = rbuf[c]
    BY <1>0, <1>5 DEF ReaderPush, Holders, ConnInv
  <2>2. PICK a \in Addrs : a = src[c]
    BY <1>0, <1>5 DEF ReaderPush, ConnInv
  <2>3. /\ rbuf' = [rbuf EXCEPT ![c] = None] /\ outQ' = Append(outQ, [buf |-> b, dst |-> a])
        /\ UNCHANGED <<pool, lbuf, cbuf, wbuf, inQ, job>>
    BY <1>5, <2>1, <2>2 DEF ReaderPush, local, creation, inbound
  <2>4. kind[b] = "reader"
    BY <1>2, <2>1 DEF OwnConn
  <2>5. PICK kind2 \in [Buffers -> Kind], at2 \in [Buffers -> Whose] :
           Moves(kind, at, kind2, at2, b, "outQ", None)
    BY CanMove DEF Kind, Whose
  <2>6. OwnPool(kind2)' /\ OwnLocal(kind2)'
    BY <1>0, <1>2, <2>3, <2>4, <2>5, FramePool, FrameLocal
  <2>7. OwnConn(kind2, at2)'
    BY <1>0, <1>2, <2>1, <2>3, <2>4, <2>5 DEF OwnConn, Holders, Moves
  <2>8. OwnOutQ(kind2)' /\ QueueInv'
    BY <1>0, <1>2, <2>3, <2>4, <2>5, Pushed
  <2>9. OwnInQ(kind2, at2)' /\ OwnJob(kind2, at2)'
    BY <1>0, <1>2, <2>3, <2>4, <2>5, FrameInQ, FrameJob
  <2> QED BY <2>6, <2>7, <2>8, <2>9, Rebuilt
<1>6. CASE ReaderFails(c)
  <2>1. PICK b \in Buffers : b = rbuf[c]
    BY <1>0, <1>6 DEF ReaderFails, Holders, ConnInv
  <2>2. /\ rbuf' = [rbuf EXCEPT ![c] = None] /\ pool' = pool \cup {b}
        /\ UNCHANGED <<lbuf, cbuf, wbuf, inQ, job, outQ>>
    BY <1>6, <2>1 DEF ReaderFails, Put, local, inbound, outbound
  <2>3. kind[b] = "reader"
    BY <1>2, <2>1 DEF OwnConn
  <2>4. PICK kind2 \in [Buffers -> Kind], at2 \in [Buffers -> Whose] :
           Moves(kind, at, kind2, at2, b, "pool", None)
    BY CanMove DEF Kind, Whose
  <2>5. OwnPool(kind2)' /\ OwnLocal(kind2)'
    BY <1>0, <1>2, <2>2, <2>3, <2>4, FramePool, FrameLocal
  <2>6. OwnConn(kind2, at2)'
    BY <1>0, <1>2, <2>1, <2>2, <2>3, <2>4 DEF OwnConn, Holders, Moves
  <2>7. OwnInQ(kind2, at2)' /\ OwnJob(kind2, at2)' /\ OwnOutQ(kind2)'
    BY <1>0, <1>2, <2>2, <2>3, <2>4, FrameInQ, FrameJob, FrameOutQ
  <2> QED BY <1>0, <2>2, <2>5, <2>6, <2>7, Rebuilt, FrameQueues
<1> QED BY <1>3, <1>4, <1>5, <1>6 DEF Reader

\* A worker takes a buffer off outboundQueue and gives it back.
LEMMA WorkerOwner ==
  ASSUME IInv, NEW w \in Workers, Worker(w) PROVE OwnerInv' /\ QueueInv'
<1> USE UdpBuffersAssumption
<1>0. Holders /\ Labels /\ Queues /\ ConnInv /\ OwnerInv /\ QueueInv
  BY TypeParts DEF IInv
<1>1. PICK kind \in [Buffers -> Kind], at \in [Buffers -> Whose] : Owned(kind, at)
  BY <1>0 DEF OwnerInv
<1>2. /\ OwnPool(kind) /\ OwnLocal(kind) /\ OwnConn(kind, at)
      /\ OwnInQ(kind, at) /\ OwnJob(kind, at) /\ OwnOutQ(kind)
  BY <1>1 DEF Owned
<1>3. \A v \in Workers : job[v] # None => job[v].buf \in Buffers
  BY <1>0 DEF Holders, Item
<1>4. CASE WorkerTake(w)
  <2>1. PICK i \in Item : i = Head(outQ)
    BY <1>0, <1>4 DEF WorkerTake, Queues
  <2>2. PICK b \in Buffers : b = i.buf
    BY <2>1 DEF Item
  <2>3. /\ job' = [job EXCEPT ![w] = i] /\ outQ # <<>> /\ outQ' = Tail(outQ)
        /\ UNCHANGED <<pool, lbuf, cbuf, wbuf, rbuf, inQ>>
    BY <1>4, <2>1 DEF WorkerTake, local, creation, inbound, reading
  <2>4. kind[b] = "outQ"
    <3>1. 1 \in 1..Len(outQ) /\ i = outQ[1]
      BY <1>0, <2>1, <2>3 DEF Queues
    <3> QED BY <1>2, <2>2, <3>1 DEF OwnOutQ
  <2>5. PICK kind2 \in [Buffers -> Kind], at2 \in [Buffers -> Whose] :
           Moves(kind, at, kind2, at2, b, "worker", w)
    BY CanMove DEF Kind, Whose
  <2>6. OwnPool(kind2)' /\ OwnLocal(kind2)'
    BY <1>0, <1>2, <2>3, <2>4, <2>5, FramePool, FrameLocal
  <2>7. OwnConn(kind2, at2)' /\ OwnInQ(kind2, at2)'
    BY <1>0, <1>2, <2>3, <2>4, <2>5, FrameConn, FrameInQ
  <2>8. OwnJob(kind2, at2)'
    <3>1. \A v \in Workers : job'[v] = IF v = w THEN i ELSE job[v]
      BY <1>0, <2>3 DEF Holders
    <3>2. \A v \in Workers : v # w /\ job[v] # None =>
             kind2[job[v].buf] = "worker" /\ at2[job[v].buf] = v
      BY <1>2, <1>3, <2>4, <2>5 DEF OwnJob, Moves
    <3>3. kind2[i.buf] = "worker" /\ at2[i.buf] = w
      BY <2>2, <2>5 DEF Moves
    <3> QED BY <3>1, <3>2, <3>3 DEF OwnJob
  <2>9. OwnOutQ(kind2)' /\ QueueInv'
    BY <1>0, <1>2, <2>1, <2>2, <2>3, <2>5, Popped
  <2> QED BY <2>6, <2>7, <2>8, <2>9, Rebuilt
<1>5. CASE WorkerWrite(w) \/ WorkerWriteFails(w)
  <2>1. PICK b \in Buffers : b = job[w].buf
    BY <1>3, <1>5 DEF WorkerWrite, WorkerWriteFails
  <2>2. /\ job' = [job EXCEPT ![w] = None] /\ pool' = pool \cup {b} /\ job[w] # None
        /\ UNCHANGED <<lbuf, cbuf, wbuf, rbuf, inQ, outQ>>
    BY <1>5, <2>1 DEF WorkerWrite, WorkerWriteFails, Put, local, creation, inbound, reading
  <2>3. kind[b] = "worker" /\ at[b] = w
    BY <1>2, <2>1, <2>2 DEF OwnJob
  <2>4. PICK kind2 \in [Buffers -> Kind], at2 \in [Buffers -> Whose] :
           Moves(kind, at, kind2, at2, b, "pool", None)
    BY CanMove DEF Kind, Whose
  <2>5. OwnPool(kind2)' /\ OwnLocal(kind2)'
    BY <1>0, <1>2, <2>2, <2>3, <2>4, FramePool, FrameLocal
  <2>6. OwnConn(kind2, at2)' /\ OwnInQ(kind2, at2)' /\ OwnOutQ(kind2)'
    BY <1>0, <1>2, <2>2, <2>3, <2>4, FrameConn, FrameInQ, FrameOutQ
  <2>7. OwnJob(kind2, at2)'
    <3>1. \A v \in Workers : job'[v] = IF v = w THEN None ELSE job[v]
      BY <1>0, <2>2 DEF Holders
    <3>2. \A v \in Workers : v # w /\ job[v] # None =>
             kind2[job[v].buf] = "worker" /\ at2[job[v].buf] = v
      BY <1>2, <1>3, <2>3, <2>4 DEF OwnJob, Moves
    <3> QED BY <3>1, <3>2 DEF OwnJob
  <2> QED BY <1>0, <2>2, <2>5, <2>6, <2>7, Rebuilt, FrameQueues
<1> QED BY <1>4, <1>5 DEF Worker

LEMMA OwnerStep == ASSUME IInv, [Next]_vars PROVE OwnerInv' /\ QueueInv'
<1>1. ASSUME NEW c \in Conns, HealthCloses(c) \/ RemoteFails(c) PROVE OwnerInv' /\ QueueInv'
  BY <1>1, NoMove DEF IInv, HealthCloses, RemoteFails, local, creation, inbound, reading, outbound
<1>2. CASE UNCHANGED vars
  BY <1>2, NoMove DEF IInv, vars, local, creation, inbound, reading, outbound
<1> QED BY <1>1, <1>2, ListenerOwner, SendOwner, ReaderOwner, WorkerOwner DEF Next

-----------------------------------------------------------------------------
(* What a buffer holds *)

\* A connector's source is set before anything is done with it.
SrcKept == \A c \in Conns : cpc[c] # "unused" => src'[c] = src[c]

LEMMA UpKept ==
  ASSUME SrcKept, NEW x \in Buffers, NEW c \in Conns, cpc[c] # "unused",
         UpFor(x, c), mem'[x] = mem[x]
  PROVE  UpFor(x, c)'
BY DEF SrcKept, UpFor

LEMMA DownKept ==
  ASSUME SrcKept, NumberInv, NEW x \in Buffers, NEW a, DownFor(x, a), mem'[x] = mem[x]
  PROVE  DownFor(x, a)'
<1>1. mem[x] # None /\ mem[x].from \in Conns /\ src[mem[x].from] = a
  BY DEF DownFor
<1>2. cpc[mem[x].from] # "unused"
  BY <1>1 DEF NumberInv, IsDown
<1>3. src'[mem[x].from] = a
  BY <1>1, <1>2 DEF SrcKept
<1> QED BY <1>1, <1>3 DEF DownFor

\* A buffer stays where it was with what it held, or is filled with what belongs there.
LEMMA ContentKept ==
  ASSUME TypeOK, ConnInv, ContentInv, NumberInv, SrcKept,
         lpc' = "send" =>
            \/ lpc = "send" /\ UNCHANGED <<lbuf, lconn>> /\ mem'[lbuf] = mem[lbuf]
            \/ UpFor(lbuf, lconn)',
         \A c \in Conns : cbuf'[c] # None =>
            \/ cbuf'[c] = cbuf[c] /\ mem'[cbuf[c]] = mem[cbuf[c]]
            \/ mem'[cbuf'[c]] # None /\ mem'[cbuf'[c]].from = src'[c],
         \A c \in Conns : wbuf'[c] # None => wbuf'[c] = wbuf[c] /\ mem'[wbuf[c]] = mem[wbuf[c]],
         \A c \in Conns : rpc'[c] = "push" =>
            \/ rpc[c] = "push" /\ rbuf'[c] = rbuf[c] /\ mem'[rbuf[c]] = mem[rbuf[c]]
            \/ mem'[rbuf'[c]] # None /\ mem'[rbuf'[c]].from = c,
         UNCHANGED <<inQ, outQ>>,
         \A c \in Conns : \A i \in 1..Len(inQ[c]) : mem'[inQ[c][i]] = mem[inQ[c][i]],
         \A w \in Workers : job'[w] # None => job'[w] = job[w] /\ mem'[job[w].buf] = mem[job[w].buf],
         \A i \in 1..Len(outQ) : mem'[outQ[i].buf] = mem[outQ[i].buf]
  PROVE  ContentInv'
<1> USE UdpBuffersAssumption
<1>0. Holders /\ Labels /\ Queues
  BY TypeParts
<1>1. (lpc = "send" => UpFor(lbuf, lconn))'
  <2> SUFFICES ASSUME lpc' = "send", lpc = "send", UNCHANGED <<lbuf, lconn>>, mem'[lbuf] = mem[lbuf]
               PROVE  UpFor(lbuf, lconn)'
    OBVIOUS
  <2>1. lconn \in Conns /\ cpc[lconn] # "unused"
    BY <1>0 DEF Labels, ConnInv
  <2> QED BY <2>1 DEF ContentInv, UpFor, SrcKept
<1>2. ASSUME NEW c \in Conns, cbuf'[c] # None PROVE UpFor(cbuf[c], c)'
  <2>1. CASE cbuf'[c] = cbuf[c] /\ mem'[cbuf[c]] = mem[cbuf[c]]
    <3>1. cpc[c] # "unused" /\ UpFor(cbuf[c], c)
      BY <1>2, <2>1 DEF ConnInv, ContentInv
    <3> QED BY <2>1, <3>1 DEF UpFor, SrcKept
  <2> QED BY <1>2, <2>1 DEF UpFor
<1>3. ASSUME NEW c \in Conns, wbuf'[c] # None PROVE UpFor(wbuf[c], c)'
  <2>1. cpc[c] # "unused" /\ UpFor(wbuf[c], c)
    BY <1>3 DEF ConnInv, ContentInv
  <2> QED BY <1>3, <2>1 DEF UpFor, SrcKept
<1>4. \A c \in Conns : rpc'[c] = "push" => mem'[rbuf'[c]] # None /\ mem'[rbuf'[c]].from = c
  BY DEF ContentInv
<1>5. ASSUME NEW c \in Conns, NEW i \in 1..Len(inQ[c]) PROVE UpFor(inQ[c][i], c)'
  <2>1. PICK x \in Buffers : x = inQ[c][i]
    BY <1>0 DEF Queues
  <2>2. cpc[c] # "unused" /\ UpFor(x, c) /\ mem'[x] = mem[x]
    BY <2>1 DEF ConnInv, ContentInv
  <2> QED BY <2>1, <2>2 DEF UpFor, SrcKept
<1>6. ASSUME NEW w \in Workers, job'[w] # None PROVE DownFor(job[w].buf, job[w].dst)'
  <2>1. PICK x \in Buffers, a \in Addrs : x = job[w].buf /\ a = job[w].dst
    BY <1>0, <1>6 DEF Holders, Item
  <2>2. DownFor(x, a) /\ mem'[x] = mem[x]
    BY <1>6, <2>1 DEF ContentInv
  <2>3. DownFor(x, a)'
    BY <2>2, DownKept
  <2> QED BY <1>6, <2>1, <2>3 DEF DownFor
<1>7. ASSUME NEW i \in 1..Len(outQ) PROVE DownFor(outQ[i].buf, outQ[i].dst)'
  <2>1. PICK x \in Buffers, a \in Addrs : x = outQ[i].buf /\ a = outQ[i].dst
    <3>1. outQ[i] \in Item
      BY <1>0 DEF Queues
    <3> QED BY <3>1 DEF Item
  <2>2. DownFor(x, a) /\ mem'[x] = mem[x]
    BY <2>1 DEF ContentInv
  <2>3. DownFor(x, a)'
    BY <2>2, DownKept
  <2> QED BY <2>1, <2>3 DEF DownFor
<1> QED BY <1>1, <1>2, <1>3, <1>4, <1>5, <1>6, <1>7 DEF ContentInv

\* A buffer in one place is in no other.
Only(b, k, x) ==
    /\ k # "listener" => lbuf # b
    /\ \A c \in Conns :
          /\ k # "creator" \/ x # c => cbuf[c] # b
          /\ k # "writer" \/ x # c => wbuf[c] # b
          /\ k # "reader" \/ x # c => rbuf[c] # b
          /\ k # "inQ" => \A i \in 1..Len(inQ[c]) : inQ[c][i] # b
    /\ \A w \in Workers : job[w] # None /\ (k # "worker" \/ x # w) => job[w].buf # b
    /\ k # "outQ" => \A i \in 1..Len(outQ) : outQ[i].buf # b

LEMMA Apart ==
  ASSUME OwnerInv, NEW b \in Buffers
  PROVE  /\ lbuf = b => Only(b, "listener", None)
         /\ \A c \in Conns :
               /\ cbuf[c] = b => Only(b, "creator", c)
               /\ wbuf[c] = b => Only(b, "writer", c)
               /\ rbuf[c] = b => Only(b, "reader", c)
         /\ \A w \in Workers : job[w] # None /\ job[w].buf = b => Only(b, "worker", w)
<1> USE UdpBuffersAssumption
<1>1. PICK kind \in [Buffers -> Kind], at \in [Buffers -> Whose] : Owned(kind, at)
  BY DEF OwnerInv
<1>2. /\ OwnLocal(kind) /\ OwnConn(kind, at)
      /\ OwnInQ(kind, at) /\ OwnJob(kind, at) /\ OwnOutQ(kind)
  BY <1>1 DEF Owned
<1>3. ASSUME NEW k, NEW x, kind[b] = k, k # "listener" => at[b] = x PROVE Only(b, k, x)
  BY <1>2, <1>3 DEF Only, OwnLocal, OwnConn, OwnInQ, OwnJob, OwnOutQ
<1>4. lbuf = b => Only(b, "listener", None)
  BY <1>2, <1>3 DEF OwnLocal
<1>5. \A c \in Conns :
         /\ cbuf[c] = b => Only(b, "creator", c)
         /\ wbuf[c] = b => Only(b, "writer", c)
         /\ rbuf[c] = b => Only(b, "reader", c)
  BY <1>2, <1>3 DEF OwnConn
<1>6. \A w \in Workers : job[w] # None /\ job[w].buf = b => Only(b, "worker", w)
  BY <1>2, <1>3 DEF OwnJob
<1> QED BY <1>4, <1>5, <1>6

\* All buffers but b hold what they held.
Writes(b) == \A x \in Buffers : x # b => mem'[x] = mem[x]

LEMMA OthersKept ==
  ASSUME TypeOK, NEW b \in Buffers, Writes(b), NEW k, NEW x, Only(b, k, x)
  PROVE  /\ k # "listener" /\ lbuf # None => mem'[lbuf] = mem[lbuf]
         /\ \A c \in Conns :
               /\ cbuf[c] # None /\ (k # "creator" \/ x # c) => mem'[cbuf[c]] = mem[cbuf[c]]
               /\ wbuf[c] # None /\ (k # "writer" \/ x # c) => mem'[wbuf[c]] = mem[wbuf[c]]
               /\ rbuf[c] # None /\ (k # "reader" \/ x # c) => mem'[rbuf[c]] = mem[rbuf[c]]
               /\ k # "inQ" => \A i \in 1..Len(inQ[c]) : mem'[inQ[c][i]] = mem[inQ[c][i]]
         /\ \A w \in Workers : job[w] # None /\ (k # "worker" \/ x # w) =>
               mem'[job[w].buf] = mem[job[w].buf]
         /\ k # "outQ" => \A i \in 1..Len(outQ) : mem'[outQ[i].buf] = mem[outQ[i].buf]
<1>0. Holders /\ Queues
  BY TypeParts
<1>1. k # "listener" /\ lbuf # None => mem'[lbuf] = mem[lbuf]
  BY <1>0 DEF Holders, Only, Writes
<1>2. ASSUME NEW c \in Conns
      PROVE  /\ cbuf[c] # None /\ (k # "creator" \/ x # c) => mem'[cbuf[c]] = mem[cbuf[c]]
             /\ wbuf[c] # None /\ (k # "writer" \/ x # c) => mem'[wbuf[c]] = mem[wbuf[c]]
             /\ rbuf[c] # None /\ (k # "reader" \/ x # c) => mem'[rbuf[c]] = mem[rbuf[c]]
  BY <1>0 DEF Holders, Only, Writes
<1>3. ASSUME NEW c \in Conns, k # "inQ", NEW i \in 1..Len(inQ[c])
      PROVE  mem'[inQ[c][i]] = mem[inQ[c][i]]
  <2>1. inQ[c][i] \in Buffers
    BY <1>0 DEF Queues
  <2> QED BY <1>3, <2>1 DEF Only, Writes
<1>4. ASSUME NEW w \in Workers, job[w] # None, k # "worker" \/ x # w
      PROVE  mem'[job[w].buf] = mem[job[w].buf]
  <2>1. job[w].buf \in Buffers
    BY <1>0, <1>4 DEF Holders, Item
  <2> QED BY <1>4, <2>1 DEF Only, Writes
<1>5. ASSUME k # "outQ", NEW i \in 1..Len(outQ)
      PROVE  mem'[outQ[i].buf] = mem[outQ[i].buf]
  <2>1. outQ[i] \in Item
    BY <1>0 DEF Queues
  <2>2. outQ[i].buf \in Buffers
    BY <2>1 DEF Item
  <2> QED BY <1>5, <2>2 DEF Only, Writes
<1> QED BY <1>1, <1>2, <1>3, <1>4, <1>5

\* No buffer is written, and none changes hands but with Get.
LEMMA ContentQuiet ==
  ASSUME TypeOK, ConnInv, ContentInv, NumberInv,
         UNCHANGED <<mem, src, cbuf, wbuf, inQ, job, outQ>>,
         UNCHANGED <<lbuf, lconn, lpc>> \/ lpc' # "send",
         \A c \in Conns : rpc'[c] = "push" => rpc[c] = "push" /\ rbuf'[c] = rbuf[c]
  PROVE  ContentInv'
BY ContentKept DEF SrcKept

LEMMA ListenerContent ==
  ASSUME IInv, Listener, ~ListenerSend PROVE ContentInv'
<1> USE UdpBuffersAssumption
<1>0. /\ TypeOK /\ Holders /\ Labels /\ Queues /\ ConnInv /\ OwnerInv /\ QueueInv
      /\ ContentInv /\ NumberInv
  BY TypeParts DEF IInv
<1>1. CASE ListenerGet
  BY <1>0, <1>1, ContentQuiet
  DEF ListenerGet, creation, shutdown, inbound, reading, outbound
<1>2. ASSUME lpc = "read" PROVE lbuf \in Buffers /\ Only(lbuf, "listener", None)
  BY <1>0, <1>2, Apart DEF Holders, Labels
<1>3. ASSUME NEW b \in Buffers, b = lbuf, Put(b), lpc = "read", lpc' = "get",
             UNCHANGED <<creation, inbound, reading, outbound>>
      PROVE  ContentInv'
  <2>1. Writes(b)
    BY <1>0, <1>3 DEF Writes, Put, Holders
  <2>2. Only(b, "listener", None)
    BY <1>2, <1>3
  <2>3. lpc' # "send" /\ SrcKept /\ UNCHANGED <<cbuf, wbuf, rbuf, rpc, inQ, job, outQ>>
    BY <1>3 DEF SrcKept, creation, inbound, reading, outbound
  <2> QED BY <1>0, <2>1, <2>2, <2>3, OthersKept, ContentKept DEF ConnInv
<1>4. CASE ListenerReadFails
  BY <1>2, <1>3, <1>4 DEF ListenerReadFails
<1>5. ASSUME NEW a \in Addrs, ReadDrop(a) PROVE ContentInv'
  BY <1>2, <1>3, <1>5 DEF ReadDrop, Arrives
<1>6. ASSUME NEW a \in Addrs, Arrives, Fill(a)
      PROVE  Writes(lbuf) /\ mem'[lbuf] = [from |-> a, n |-> nin + 1]
             /\ mem'[lbuf] # None /\ mem'[lbuf].from = a
  <2>1. [from |-> a, n |-> nin + 1] \in Datagram
    BY <1>0 DEF Datagram, Labels
  <2> QED BY <1>0, <1>2, <1>6, <2>1 DEF Arrives, Fill, Writes, Holders
<1>7. ASSUME NEW a \in Addrs, ReadKnown(a) PROVE ContentInv'
  <2>1. src[udpConns[a]] = a
    BY <1>0, <1>7 DEF ReadKnown, ConnInv
  <2>2. UpFor(lbuf, lconn)'
    BY <1>6, <1>7, <2>1 DEF ReadKnown, creation, UpFor
  <2>3. PICK b \in Buffers : b = lbuf
    BY <1>2, <1>7 DEF ReadKnown, Arrives
  <2>4. Only(b, "listener", None) /\ Writes(b)
    BY <1>2, <1>6, <1>7, <2>3 DEF ReadKnown, Arrives
  <2>5. SrcKept /\ UNCHANGED <<cbuf, wbuf, rbuf, rpc, inQ, job, outQ>>
    BY <1>7 DEF ReadKnown, SrcKept, creation, inbound, reading, outbound
  <2> QED BY <1>0, <2>2, <2>4, <2>5, OthersKept, ContentKept DEF ConnInv
<1>8. ASSUME NEW a \in Addrs, ReadUnknown(a) PROVE ContentInv'
  <2>1. PICK c \in Conns : c = CHOOSE d \in Conns : cpc[d] = "unused"
    BY <1>8, Zenon DEF ReadUnknown
  <2>2. cpc[c] = "unused"
    BY <1>8, <2>1, Zenon DEF ReadUnknown
  <2>3. PICK b \in Buffers : b = lbuf
    BY <1>2, <1>8 DEF ReadUnknown, Arrives
  <2>4. /\ lpc = "read" /\ lpc' = "get"
        /\ src' = [src EXCEPT ![c] = a] /\ cbuf' = [cbuf EXCEPT ![c] = b]
        /\ UNCHANGED <<wbuf, rpc, rbuf, inQ, job, outQ>>
        /\ Writes(b) /\ mem'[b] # None /\ mem'[b].from = a /\ Only(b, "listener", None)
    BY <1>2, <1>6, <1>8, <2>1, <2>3 DEF ReadUnknown, Arrives, inbound, reading, outbound
  <2>5. SrcKept
    BY <1>0, <2>2, <2>4 DEF SrcKept, Labels
  <2>6. \A d \in Conns : cbuf'[d] # None =>
           \/ cbuf'[d] = cbuf[d] /\ mem'[cbuf[d]] = mem[cbuf[d]]
           \/ mem'[cbuf'[d]] # None /\ mem'[cbuf'[d]].from = src'[d]
    BY <1>0, <2>4, OthersKept DEF Holders, Labels
  <2> QED BY <1>0, <2>4, <2>5, <2>6, OthersKept, ContentKept DEF ConnInv
<1> QED BY <1>1, <1>4, <1>5, <1>7, <1>8 DEF Listener

\* Buffers that are handed on keep what they hold.
LEMMA HandoverContent ==
  ASSUME IInv,
         \/ ListenerSend
         \/ \E c \in Conns : FirstSend(c) \/ WriterRecv(c) \/ ReaderPush(c)
         \/ \E w \in Workers : WorkerTake(w)
  PROVE  ContentInv'
<1> USE UdpBuffersAssumption
<1>0. Holders /\ Labels /\ Queues /\ ConnInv /\ ContentInv /\ NumberInv
  BY TypeParts DEF IInv
<1>1. ASSUME NEW c \in Conns, NEW b \in Buffers, UpFor(b, c),
             inQ' = [inQ EXCEPT ![c] = Append(inQ[c], b)], UNCHANGED <<mem, src>>
      PROVE  \A d \in Conns : \A i \in 1..Len(inQ'[d]) : UpFor(inQ[d][i], d)'
  <2> SUFFICES ASSUME NEW d \in Conns, NEW i \in 1..Len(inQ'[d]) PROVE UpFor(inQ[d][i], d)'
    OBVIOUS
  <2>1. \/ i \in 1..Len(inQ[d]) /\ inQ'[d][i] = inQ[d][i]
        \/ d = c /\ inQ'[d][i] = b
    BY <1>0, <1>1 DEF Queues
  <2> QED BY <1>0, <1>1, <2>1 DEF ContentInv, UpFor
<1>2. CASE ListenerSend
  <2>1. PICK c \in Conns, b \in Buffers : c = lconn /\ b = lbuf
    BY <1>0, <1>2 DEF ListenerSend, Labels, Holders, ConnInv
  <2>2. UpFor(b, c)
    BY <1>0, <1>2, <2>1 DEF ListenerSend, ContentInv
  <2>3. /\ inQ' = [inQ EXCEPT ![c] = Append(inQ[c], b)] /\ lpc' = "get"
        /\ UNCHANGED <<mem, src, cbuf, wbuf, rpc, rbuf, job, outQ>>
    BY <1>2, <2>1 DEF ListenerSend, creation, reading, outbound
  <2>4. \A d \in Conns : \A i \in 1..Len(inQ'[d]) : UpFor(inQ[d][i], d)'
    BY <1>1, <2>2, <2>3
  <2> QED BY <1>0, <2>3, <2>4 DEF ContentInv, UpFor, DownFor
<1>3. ASSUME NEW c \in Conns, FirstSend(c) PROVE ContentInv'
  <2>1. PICK b \in Buffers : b = cbuf[c]
    BY <1>0, <1>3 DEF FirstSend, Holders, ConnInv
  <2>2. UpFor(b, c)
    BY <1>0, <2>1 DEF ContentInv
  <2>3. /\ inQ' = [inQ EXCEPT ![c] = Append(inQ[c], b)] /\ cbuf' = [cbuf EXCEPT ![c] = None]
        /\ UNCHANGED <<mem, src, lpc, lbuf, lconn, wbuf, rpc, rbuf, job, outQ>>
    BY <1>3, <2>1 DEF FirstSend, local, reading, outbound
  <2>4. \A d \in Conns : \A i \in 1..Len(inQ'[d]) : UpFor(inQ[d][i], d)'
    BY <1>1, <2>2, <2>3
  <2>5. \A d \in Conns : cbuf'[d] # None => UpFor(cbuf[d], d)'
    BY <1>0, <2>3 DEF ContentInv, UpFor, Holders
  <2> QED BY <1>0, <2>3, <2>4, <2>5 DEF ContentInv, UpFor, DownFor
<1>4. ASSUME NEW c \in Conns, WriterRecv(c) PROVE ContentInv'
  <2>1. PICK b \in Buffers : b = Head(inQ[c])
    BY <1>0, <1>4 DEF WriterRecv, Queues
  <2>2. /\ wbuf' = [wbuf EXCEPT ![c] = b] /\ inQ[c] # <<>>
        /\ inQ' = [inQ EXCEPT ![c] = Tail(inQ[c])]
        /\ UNCHANGED <<mem, src, lpc, lbuf, lconn, cbuf, rpc, rbuf, job, outQ>>
    BY <1>4, <2>1 DEF WriterRecv, local, creation, reading, outbound
  <2>3. UpFor(b, c)
    <3>1. 1 \in 1..Len(inQ[c]) /\ b = inQ[c][1]
      BY <1>0, <2>1, <2>2 DEF Queues
    <3> QED BY <1>0, <3>1 DEF ContentInv
  <2>4. \A d \in Conns : wbuf'[d] # None => UpFor(wbuf[d], d)'
    BY <1>0, <2>2, <2>3 DEF ContentInv, UpFor, Holders
  <2>5. ASSUME NEW d \in Conns, NEW i \in 1..Len(inQ'[d]) PROVE UpFor(inQ[d][i], d)'
    <3>1. \E j \in 1..Len(inQ[d]) : inQ'[d][i] = inQ[d][j]
      <4>1. CASE d = c
        <5>1. i + 1 \in 1..Len(inQ[d]) /\ inQ'[d][i] = inQ[d][i + 1]
          BY <1>0, <2>2, <4>1 DEF Queues
        <5> QED BY <5>1
      <4>2. CASE d # c
        <5>1. i \in 1..Len(inQ[d]) /\ inQ'[d][i] = inQ[d][i]
          BY <1>0, <2>2, <4>2 DEF Queues
        <5> QED BY <5>1
      <4> QED BY <4>1, <4>2
    <3> QED BY <1>0, <2>2, <3>1 DEF ContentInv, UpFor
  <2> QED BY <1>0, <2>2, <2>4, <2>5 DEF ContentInv, UpFor, DownFor
<1>5. ASSUME NEW c \in Conns, ReaderPush(c) PROVE ContentInv'
  <2>1. PICK b \in Buffers, a \in Addrs : b = rbuf[c] /\ a = src[c]
    BY <1>0, <1>5 DEF ReaderPush, Holders, ConnInv
  <2>2. DownFor(b, a)
    BY <1>0, <1>5, <2>1 DEF ReaderPush, ContentInv, DownFor
  <2>3. /\ rpc' = [rpc EXCEPT ![c] = "check"] /\ rbuf' = [rbuf EXCEPT ![c] = None]
        /\ outQ' = Append(outQ, [buf |-> b, dst |-> a])
        /\ UNCHANGED <<mem, src, lpc, lbuf, lconn, cbuf, wbuf, inQ, job>>
    BY <1>5, <2>1 DEF ReaderPush, local, creation, inbound
  <2>4. \A d \in Conns : rpc'[d] = "push" => mem'[rbuf'[d]] # None /\ mem'[rbuf'[d]].from = d
    BY <1>0, <2>3 DEF ContentInv, Holders, Labels
  <2>5. ASSUME NEW i \in 1..Len(outQ') PROVE DownFor(outQ[i].buf, outQ[i].dst)'
    <3>1. [buf |-> b, dst |-> a] \in Item
      BY DEF Item
    <3>2. \/ i \in 1..Len(outQ) /\ outQ'[i] = outQ[i]
          \/ outQ'[i] = [buf |-> b, dst |-> a]
      BY <1>0, <2>3, <3>1 DEF Queues
    <3>3. CASE i \in 1..Len(outQ) /\ outQ'[i] = outQ[i]
      BY <1>0, <2>3, <3>3 DEF ContentInv, DownFor
    <3>4. CASE outQ'[i] = [buf |-> b, dst |-> a]
      BY <2>2, <2>3, <3>4 DEF DownFor
    <3> QED BY <3>2, <3>3, <3>4
  <2> QED BY <1>0, <2>3, <2>4, <2>5 DEF ContentInv, UpFor, DownFor
<1>6. ASSUME NEW w \in Workers, WorkerTake(w) PROVE ContentInv'
  <2>1. PICK t \in Item : t = Head(outQ)
    BY <1>0, <1>6 DEF WorkerTake, Queues
  <2>2. /\ job' = [job EXCEPT ![w] = t] /\ outQ # <<>> /\ outQ' = Tail(outQ)
        /\ UNCHANGED <<mem, src, lpc, lbuf, lconn, cbuf, wbuf, rpc, rbuf, inQ>>
    BY <1>6, <2>1 DEF WorkerTake, local, creation, inbound, reading
  <2>3. DownFor(t.buf, t.dst)
    <3>1. 1 \in 1..Len(outQ) /\ t = outQ[1]
      BY <1>0, <2>1, <2>2 DEF Queues
    <3> QED BY <1>0, <3>1 DEF ContentInv
  <2>4. ASSUME NEW v \in Workers, job'[v] # None PROVE DownFor(job[v].buf, job[v].dst)'
    <3>1. job'[v] = IF v = w THEN t ELSE job[v]
      BY <1>0, <2>2 DEF Holders
    <3> QED BY <1>0, <2>2, <2>3, <2>4, <3>1 DEF ContentInv, DownFor
  <2>5. ASSUME NEW i \in 1..Len(outQ') PROVE DownFor(outQ[i].buf, outQ[i].dst)'
    <3>1. i + 1 \in 1..Len(outQ) /\ outQ'[i] = outQ[i + 1]
      BY <1>0, <2>2 DEF Queues
    <3> QED BY <1>0, <2>2, <3>1 DEF ContentInv, DownFor
  <2> QED BY <1>0, <2>2, <2>4, <2>5 DEF ContentInv, UpFor
<1> QED BY <1>2, <1>3, <1>4, <1>5, <1>6

\* Every step.
LEMMA ContentStep == ASSUME IInv, [Next]_vars PROVE ContentInv'
<1> USE UdpBuffersAssumption
<1>0. /\ TypeOK /\ Holders /\ Labels /\ Queues /\ ConnInv /\ OwnerInv /\ QueueInv
      /\ ContentInv /\ NumberInv
  BY TypeParts DEF IInv
<1>1. ASSUME NEW c \in Conns,
             \/ NewConn(c) \/ Store(c) \/ ReaderStop(c) \/ ReaderGet(c)
             \/ HealthCloses(c) \/ RemoteFails(c)
      PROVE  ContentInv'
  <2>1. /\ UNCHANGED <<mem, src, cbuf, wbuf, inQ, job, outQ, lbuf, lconn, lpc>>
        /\ \A d \in Conns : rpc'[d] = "push" => rpc[d] = "push" /\ rbuf'[d] = rbuf[d]
    BY <1>0, <1>1 DEF NewConn, Store, ReaderStop, ReaderGet, HealthCloses, RemoteFails,
                      local, creation, inbound, reading, outbound, Holders, Labels
  <2> QED BY <1>0, <2>1, ContentQuiet
<1>2. CASE UNCHANGED vars
  BY <1>0, <1>2, ContentQuiet DEF vars, local, creation, inbound, reading, outbound
<1>3. ASSUME NEW b \in Buffers, Put(b) PROVE Writes(b)
  BY <1>0, <1>3 DEF Writes, Put, Holders
<1>4. ASSUME NEW c \in Conns, DialFails(c) PROVE ContentInv'
  <2>1. PICK b \in Buffers : b = cbuf[c]
    BY <1>0, <1>4 DEF DialFails, Holders, ConnInv
  <2>2. Writes(b) /\ Only(b, "creator", c)
    BY <1>0, <1>3, <1>4, <2>1, Apart DEF DialFails
  <2>3. /\ SrcKept /\ UNCHANGED <<lpc, lbuf, lconn, wbuf, rbuf, rpc, inQ, job, outQ>>
        /\ cbuf' = [cbuf EXCEPT ![c] = None]
    BY <1>4 DEF DialFails, SrcKept, local, inbound, reading, outbound
  <2>4. \A d \in Conns : cbuf'[d] # None => d # c /\ cbuf'[d] = cbuf[d]
    BY <1>0, <2>3 DEF Holders
  <2> QED BY <1>0, <2>2, <2>3, <2>4, OthersKept, ContentKept DEF ConnInv, Labels
<1>5. ASSUME NEW c \in Conns, WriterWrite(c) \/ WriterWriteFails(c) PROVE ContentInv'
  <2>1. PICK b \in Buffers : b = wbuf[c]
    BY <1>0, <1>5 DEF WriterWrite, WriterWriteFails, Holders
  <2>2. Writes(b) /\ Only(b, "writer", c)
    BY <1>0, <1>3, <1>5, <2>1, Apart DEF WriterWrite, WriterWriteFails
  <2>3. /\ SrcKept /\ UNCHANGED <<lpc, lbuf, lconn, cbuf, rbuf, rpc, inQ, job, outQ>>
        /\ wbuf' = [wbuf EXCEPT ![c] = None]
    BY <1>5 DEF WriterWrite, WriterWriteFails, SrcKept, local, creation, reading, outbound
  <2>4. \A d \in Conns : wbuf'[d] # None => d # c /\ wbuf'[d] = wbuf[d]
    BY <1>0, <2>3 DEF Holders
  <2> QED BY <1>0, <2>2, <2>3, <2>4, OthersKept, ContentKept DEF ConnInv, Labels
<1>6. ASSUME NEW c \in Conns, ReaderFails(c) PROVE ContentInv'
  <2>1. PICK b \in Buffers : b = rbuf[c]
    BY <1>0, <1>6 DEF ReaderFails, Holders, ConnInv
  <2>2. Writes(b) /\ Only(b, "reader", c)
    BY <1>0, <1>3, <1>6, <2>1, Apart DEF ReaderFails
  <2>3. /\ SrcKept /\ UNCHANGED <<lpc, lbuf, lconn, cbuf, wbuf, inQ, job, outQ>>
        /\ rbuf' = [rbuf EXCEPT ![c] = None] /\ rpc' = [rpc EXCEPT ![c] = "done"]
    BY <1>6 DEF ReaderFails, SrcKept, local, inbound, outbound
  <2>4. \A d \in Conns : rpc'[d] = "push" => d # c /\ rpc[d] = "push" /\ rbuf'[d] = rbuf[d]
    BY <1>0, <2>3 DEF Holders, Labels
  <2> QED BY <1>0, <2>2, <2>3, <2>4, OthersKept, ContentKept DEF ConnInv, Labels
<1>7. ASSUME NEW c \in Conns, ReaderGot(c) PROVE ContentInv'
  <2>1. PICK b \in Buffers : b = rbuf[c]
    BY <1>0, <1>7 DEF ReaderGot, Holders, ConnInv
  <2>2. [from |-> c, n |-> nout + 1] \in Datagram
    BY <1>0 DEF Datagram, Labels
  <2>3. Writes(b) /\ Only(b, "reader", c) /\ mem'[b] # None /\ mem'[b].from = c
    BY <1>0, <1>7, <2>1, <2>2, Apart DEF ReaderGot, Writes, Holders
  <2>4. /\ SrcKept /\ UNCHANGED <<lpc, lbuf, lconn, cbuf, wbuf, rbuf, inQ, job, outQ>>
        /\ rpc' = [rpc EXCEPT ![c] = "push"]
    BY <1>7 DEF ReaderGot, SrcKept, local, creation, inbound, outbound
  <2>5. \A d \in Conns : rpc'[d] = "push" /\ d # c => rpc[d] = "push" /\ rbuf'[d] = rbuf[d]
    BY <1>0, <2>4 DEF Labels
  <2>6. \A d \in Conns : rpc'[d] = "push" =>
           \/ rpc[d] = "push" /\ rbuf'[d] = rbuf[d] /\ mem'[rbuf[d]] = mem[rbuf[d]]
           \/ mem'[rbuf'[d]] # None /\ mem'[rbuf'[d]].from = d
    BY <1>0, <2>1, <2>3, <2>4, <2>5, OthersKept DEF ConnInv
  <2> QED BY <1>0, <2>3, <2>4, <2>6, OthersKept, ContentKept DEF ConnInv, Labels
<1>8. ASSUME NEW w \in Workers, WorkerWrite(w) \/ WorkerWriteFails(w) PROVE ContentInv'
  <2>1. PICK b \in Buffers : b = job[w].buf
    BY <1>0, <1>8 DEF WorkerWrite, WorkerWriteFails, Holders, Item
  <2>2. Writes(b) /\ Only(b, "worker", w)
    BY <1>0, <1>3, <1>8, <2>1, Apart DEF WorkerWrite, WorkerWriteFails
  <2>3. /\ SrcKept /\ UNCHANGED <<lpc, lbuf, lconn, cbuf, wbuf, rbuf, rpc, inQ, outQ>>
        /\ job' = [job EXCEPT ![w] = None]
    BY <1>8 DEF WorkerWrite, WorkerWriteFails, SrcKept, local, creation, inbound, reading
  <2>4. \A v \in Workers : job'[v] # None => v # w /\ job'[v] = job[v]
    BY <1>0, <2>3 DEF Holders
  <2> QED BY <1>0, <2>2, <2>3, <2>4, OthersKept, ContentKept DEF ConnInv, Labels
<1> QED BY <1>1, <1>2, <1>4, <1>5, <1>6, <1>7, <1>8, ListenerContent, HandoverContent
        DEF Next, Listener, Creator, Writer, Reader, Worker

-----------------------------------------------------------------------------
(* Every datagram is held once, and delivered once *)

\* What a step does to the content of buffers: it gives some back, or fills one
\* with a datagram that has a number of its own.
Forgets ==
    /\ \A b \in Buffers : mem'[b] = mem[b] \/ mem'[b] = None
    /\ nin' \in Nat /\ nin <= nin' /\ nout' = nout
FillsUp(b, a) ==
    /\ Writes(b) /\ mem'[b] = [from |-> a, n |-> nin + 1]
    /\ nin' = nin + 1 /\ nout' = nout
FillsDown(b, c) ==
    /\ Writes(b) /\ mem'[b] = [from |-> c, n |-> nout + 1]
    /\ nin' = nin /\ nout' = nout + 1 /\ cpc[c] # "unused"

Contents ==
    \/ Forgets
    \/ \E b \in Buffers, a \in Addrs : FillsUp(b, a)
    \/ \E b \in Buffers, c \in Conns : FillsDown(b, c)

UsedKept == \A c \in Conns : cpc[c] # "unused" => cpc'[c] # "unused"

LEMMA ContentsStep == ASSUME IInv, [Next]_vars PROVE Contents
<1> USE UdpBuffersAssumption
<1>0. Holders /\ Labels /\ ConnInv
  BY TypeParts DEF IInv
<1>1. ASSUME NEW b \in Buffers, Put(b), nin' \in Nat, nin <= nin', nout' = nout PROVE Contents
  BY <1>0, <1>1 DEF Contents, Forgets, Put, Holders
<1>2. ASSUME UNCHANGED <<mem, nin, nout>> PROVE Contents
  BY <1>0, <1>2 DEF Contents, Forgets, Labels
<1>3. CASE ListenerGet \/ ListenerSend
  BY <1>2, <1>3 DEF ListenerGet, ListenerSend, reading
<1>4. CASE ListenerReadFails
  <2>1. PICK b \in Buffers : b = lbuf
    BY <1>0, <1>4 DEF ListenerReadFails, Holders, Labels
  <2> QED BY <1>0, <1>1, <1>4, <2>1 DEF ListenerReadFails, reading, Labels
<1>5. ASSUME NEW a \in Addrs, ReadDrop(a) PROVE Contents
  <2>1. PICK b \in Buffers : b = lbuf
    BY <1>0, <1>5 DEF ReadDrop, Arrives, Holders, Labels
  <2> QED BY <1>0, <1>1, <1>5, <2>1 DEF ReadDrop, Arrives, reading, Labels
<1>6. ASSUME NEW a \in Addrs, ReadKnown(a) \/ ReadUnknown(a) PROVE Contents
  <2>1. PICK b \in Buffers : b = lbuf
    BY <1>0, <1>6 DEF ReadKnown, ReadUnknown, Arrives, Holders, Labels
  <2>2. FillsUp(b, a)
    BY <1>0, <1>6, <2>1 DEF ReadKnown, ReadUnknown, Arrives, Fill, FillsUp, Writes, Holders, reading
  <2> QED BY <2>2 DEF Contents
<1>7. ASSUME NEW c \in Conns, Creator(c) PROVE Contents
  <2>1. CASE DialFails(c)
    <3>1. PICK b \in Buffers : b = cbuf[c]
      BY <1>0, <2>1 DEF DialFails, Holders, ConnInv
    <3> QED BY <1>0, <1>1, <2>1, <3>1 DEF DialFails, local, reading, Labels
  <2>2. CASE NewConn(c) \/ Store(c) \/ FirstSend(c)
    BY <1>2, <2>2 DEF NewConn, Store, FirstSend, local, reading
  <2> QED BY <1>7, <2>1, <2>2 DEF Creator
<1>8. ASSUME NEW c \in Conns, Writer(c) PROVE Contents
  <2>1. CASE WriterRecv(c)
    BY <1>2, <2>1 DEF WriterRecv, local, reading
  <2>2. CASE WriterWrite(c) \/ WriterWriteFails(c)
    <3>1. PICK b \in Buffers : b = wbuf[c]
      BY <1>0, <2>2 DEF WriterWrite, WriterWriteFails, Holders
    <3> QED BY <1>0, <1>1, <2>2, <3>1 DEF WriterWrite, WriterWriteFails, local, reading, Labels
  <2> QED BY <1>8, <2>1, <2>2 DEF Writer
<1>9. ASSUME NEW c \in Conns, Reader(c) PROVE Contents
  <2>1. CASE ReaderStop(c) \/ ReaderGet(c) \/ ReaderPush(c)
    BY <1>2, <2>1 DEF ReaderStop, ReaderGet, ReaderPush, local
  <2>2. CASE ReaderGot(c)
    <3>1. PICK b \in Buffers : b = rbuf[c]
      BY <1>0, <2>2 DEF ReaderGot, Holders, ConnInv
    <3>2. FillsDown(b, c)
      BY <1>0, <2>2, <3>1 DEF ReaderGot, FillsDown, Writes, Holders, ConnInv, local
    <3> QED BY <3>2 DEF Contents
  <2>3. CASE ReaderFails(c)
    <3>1. PICK b \in Buffers : b = rbuf[c]
      BY <1>0, <2>3 DEF ReaderFails, Holders, ConnInv
    <3> QED BY <1>0, <1>1, <2>3, <3>1 DEF ReaderFails, local, Labels
  <2> QED BY <1>9, <2>1, <2>2, <2>3 DEF Reader
<1>10. ASSUME NEW c \in Conns, HealthCloses(c) \/ RemoteFails(c) PROVE Contents
  BY <1>2, <1>10 DEF HealthCloses, RemoteFails, local, reading
<1>11. ASSUME NEW w \in Workers, Worker(w) PROVE Contents
  <2>1. CASE WorkerTake(w)
    BY <1>2, <2>1 DEF WorkerTake, local, reading
  <2>2. CASE WorkerWrite(w) \/ WorkerWriteFails(w)
    <3>1. PICK b \in Buffers : b = job[w].buf
      BY <1>0, <2>2 DEF WorkerWrite, WorkerWriteFails, Holders, Item
    <3> QED BY <1>0, <1>1, <2>2, <3>1 DEF WorkerWrite, WorkerWriteFails, local, reading, Labels
  <2> QED BY <1>11, <2>1, <2>2 DEF Worker
<1>12. CASE UNCHANGED vars
  BY <1>2, <1>12 DEF vars, local, reading
<1> QED BY <1>3, <1>4, <1>5, <1>6, <1>7, <1>8, <1>9, <1>10, <1>11, <1>12 DEF Next, Listener

\* A connector is created once.
LEMMA UsedStep == ASSUME IInv, [Next]_vars PROVE UsedKept /\ SrcKept
<1>0. Labels
  BY TypeParts DEF IInv
<1>1. UNCHANGED <<cpc, src>> => UsedKept /\ SrcKept
  BY DEF UsedKept, SrcKept
<1>2. ASSUME NEW a \in Addrs, ReadUnknown(a) PROVE UsedKept /\ SrcKept
  <2>1. PICK c \in Conns : c = CHOOSE d \in Conns : cpc[d] = "unused"
    BY <1>2, Zenon DEF ReadUnknown
  <2>2. cpc[c] = "unused"
    BY <1>2, <2>1, Zenon DEF ReadUnknown
  <2>3. cpc' = [cpc EXCEPT ![c] = "dial"] /\ src' = [src EXCEPT ![c] = a]
    BY <1>2, <2>1 DEF ReadUnknown
  <2> QED BY <1>0, <2>2, <2>3 DEF UsedKept, SrcKept, Labels
<1>3. CASE Listener /\ ~\E a \in Addrs : ReadUnknown(a)
  BY <1>1, <1>3 DEF Listener, ListenerGet, ListenerReadFails, ListenerSend, ReadDrop, ReadKnown, creation
<1>4. ASSUME NEW c \in Conns, Creator(c) PROVE UsedKept /\ SrcKept
  BY <1>0, <1>4 DEF Creator, DialFails, NewConn, Store, FirstSend, UsedKept, SrcKept, Labels
<1>5. ASSUME NEW c \in Conns, Writer(c) PROVE UsedKept /\ SrcKept
  BY <1>1, <1>5 DEF Writer, WriterRecv, WriterWrite, WriterWriteFails, creation
<1>6. ASSUME NEW c \in Conns, Reader(c) \/ HealthCloses(c) \/ RemoteFails(c)
      PROVE  UsedKept /\ SrcKept
  BY <1>1, <1>6 DEF Reader, ReaderStop, ReaderGet, ReaderGot, ReaderPush, ReaderFails,
                    HealthCloses, RemoteFails, creation
<1>7. ASSUME NEW w \in Workers, Worker(w) PROVE UsedKept /\ SrcKept
  BY <1>1, <1>7 DEF Worker, WorkerTake, WorkerWrite, WorkerWriteFails, creation
<1>8. CASE UNCHANGED vars
  BY <1>1, <1>8 DEF vars, creation
<1> QED BY <1>2, <1>3, <1>4, <1>5, <1>6, <1>7, <1>8 DEF Next, Listener

LEMMA HeldType ==
  ASSUME TypeOK, NEW b \in Buffers, mem[b] # None
  PROVE  mem[b] \in Datagram /\ mem[b].n \in Nat /\ mem[b].from \in Addrs \cup Conns
<1>1. mem[b] \in Datagram
  BY DEF TypeOK
<1> QED BY <1>1 DEF Datagram

LEMMA NumberStep == ASSUME IInv, [Next]_vars PROVE NumberInv'
<1> USE UdpBuffersAssumption
<1>0. TypeOK /\ NumberInv /\ UsedKept /\ nin \in Nat /\ nout \in Nat
  BY UsedStep DEF IInv, TypeOK
<1>1. \A b \in Buffers : mem[b] # None => mem[b].n \in Nat
  BY <1>0, HeldType
<1>2. CASE Forgets
  BY <1>0, <1>1, <1>2 DEF Forgets, NumberInv, IsUp, IsDown, UsedKept
<1>3. ASSUME NEW b \in Buffers, NEW a \in Addrs, FillsUp(b, a) PROVE NumberInv'
  BY <1>0, <1>1, <1>3 DEF FillsUp, Writes, NumberInv, IsUp, IsDown, UsedKept
<1>4. ASSUME NEW b \in Buffers, NEW c \in Conns, FillsDown(b, c) PROVE NumberInv'
  BY <1>0, <1>1, <1>4 DEF FillsDown, Writes, NumberInv, IsUp, IsDown, UsedKept
<1> QED BY <1>2, <1>3, <1>4, ContentsStep DEF Contents

\* What has been delivered never comes to be held again.
LEMMA UpSpent ==
  ASSUME IInv, [Next]_vars, NEW d \in Datagram, d.n <= nin,
         \A b \in Buffers : IsUp(b) => mem[b].n # d.n
  PROVE  d.n <= nin' /\ \A b \in Buffers : IsUp(b)' => mem'[b].n # d.n
<1> USE UdpBuffersAssumption
<1>0. TypeOK /\ nin \in Nat /\ nout \in Nat /\ d.n \in Nat
  BY DEF IInv, TypeOK, Datagram
<1>1. CASE Forgets
  BY <1>0, <1>1 DEF Forgets, IsUp
<1>2. ASSUME NEW b \in Buffers, NEW a \in Addrs, FillsUp(b, a)
      PROVE  d.n <= nin' /\ \A x \in Buffers : IsUp(x)' => mem'[x].n # d.n
  BY <1>0, <1>2 DEF FillsUp, Writes, IsUp
<1>3. ASSUME NEW b \in Buffers, NEW c \in Conns, FillsDown(b, c)
      PROVE  d.n <= nin' /\ \A x \in Buffers : IsUp(x)' => mem'[x].n # d.n
  BY <1>0, <1>3 DEF FillsDown, Writes, IsUp
<1> QED BY <1>1, <1>2, <1>3, ContentsStep DEF Contents

LEMMA DownSpent ==
  ASSUME IInv, [Next]_vars, NEW d \in Datagram, d.n <= nout,
         \A b \in Buffers : IsDown(b) => mem[b].n # d.n
  PROVE  d.n <= nout' /\ \A b \in Buffers : IsDown(b)' => mem'[b].n # d.n
<1> USE UdpBuffersAssumption
<1>0. TypeOK /\ nin \in Nat /\ nout \in Nat /\ d.n \in Nat
  BY DEF IInv, TypeOK, Datagram
<1>1. CASE Forgets
  BY <1>0, <1>1 DEF Forgets, IsDown
<1>2. ASSUME NEW b \in Buffers, NEW a \in Addrs, FillsUp(b, a)
      PROVE  d.n <= nout' /\ \A x \in Buffers : IsDown(x)' => mem'[x].n # d.n
  BY <1>0, <1>2 DEF FillsUp, Writes, IsDown
<1>3. ASSUME NEW b \in Buffers, NEW c \in Conns, FillsDown(b, c)
      PROVE  d.n <= nout' /\ \A x \in Buffers : IsDown(x)' => mem'[x].n # d.n
  BY <1>0, <1>3 DEF FillsDown, Writes, IsDown
<1> QED BY <1>1, <1>2, <1>3, ContentsStep DEF Contents

\* One delivery upstream, as UpInv has it.
UpGood(c, d) ==
    /\ d # None /\ d.from = src[c] /\ d.n <= nin
    /\ \A b \in Buffers : IsUp(b) => mem[b].n # d.n
DownGood(a, d) ==
    /\ d # None /\ d.from \in Conns /\ cpc[d.from] # "unused" /\ src[d.from] = a /\ d.n <= nout
    /\ \A b \in Buffers : IsDown(b) => mem[b].n # d.n

LEMMA UpGoodStep ==
  ASSUME IInv, [Next]_vars, NEW c \in Conns, cpc[c] # "unused", NEW d \in Datagram \cup {None},
         UpGood(c, d)
  PROVE  UpGood(c, d)'
<1>1. d \in Datagram /\ d # None /\ d.from = src[c] /\ d.n <= nin
      /\ \A b \in Buffers : IsUp(b) => mem[b].n # d.n
  BY DEF UpGood
<1>2. src'[c] = src[c]
  BY UsedStep DEF SrcKept
<1>3. d.n <= nin' /\ \A b \in Buffers : IsUp(b)' => mem'[b].n # d.n
  BY <1>1, UpSpent
<1> QED BY <1>1, <1>2, <1>3 DEF UpGood

LEMMA DownGoodStep ==
  ASSUME IInv, [Next]_vars, NEW a \in Addrs, NEW d \in Datagram \cup {None}, DownGood(a, d)
  PROVE  DownGood(a, d)'
<1>1. /\ d \in Datagram /\ d # None /\ d.from \in Conns /\ cpc[d.from] # "unused"
      /\ src[d.from] = a /\ d.n <= nout
      /\ \A b \in Buffers : IsDown(b) => mem[b].n # d.n
  BY DEF DownGood
<1>2. src'[d.from] = a /\ cpc'[d.from] # "unused"
  BY <1>1, UsedStep DEF SrcKept, UsedKept
<1>3. d.n <= nout' /\ \A b \in Buffers : IsDown(b)' => mem'[b].n # d.n
  BY <1>1, DownSpent
<1> QED BY <1>1, <1>2, <1>3 DEF DownGood

LEMMA UpStep == ASSUME IInv, [Next]_vars PROVE UpInv'
<1> USE UdpBuffersAssumption
<1>0. /\ TypeOK /\ Holders /\ Labels /\ Traffic /\ ConnInv /\ OwnerInv
      /\ ContentInv /\ NumberInv /\ UpInv
  BY TypeParts DEF IInv
<1>1. ASSUME NEW c \in Conns, NEW i \in 1..Len(sentUp[c])
      PROVE  /\ sentUp[c][i] \in Datagram \cup {None} /\ cpc[c] # "unused"
             /\ UpGood(c, sentUp[c][i])
  BY <1>0 DEF Traffic, ConnInv, UpInv, UpGood
<1>2. ASSUME NEW c \in Conns, NEW i \in 1..Len(sentUp[c]), NEW d, d = sentUp[c][i]
      PROVE  UpGood(c, d)'
  BY <1>1, <1>2, UpGoodStep
<1>3. CASE UNCHANGED sentUp
  BY <1>0, <1>2, <1>3 DEF UpInv, UpGood
<1>4. ASSUME NEW c \in Conns, WriterWrite(c) PROVE UpInv'
  <2>1. PICK b \in Buffers : b = wbuf[c]
    BY <1>0, <1>4 DEF WriterWrite, Holders
  <2>2. PICK e : e = mem[b]
    OBVIOUS
  <2>3. /\ UpFor(b, c) /\ cpc[c] # "unused" /\ src[c] \in Addrs
    BY <1>0, <1>4, <2>1 DEF WriterWrite, ContentInv, ConnInv
  <2>4. e \in Datagram /\ e # None /\ e.from = src[c] /\ e.n \in Nat /\ IsUp(b)
    BY <1>0, <2>2, <2>3, HeldType DEF UpFor, IsUp
  <2>5. /\ mem' = [mem EXCEPT ![b] = None] /\ UNCHANGED <<src, nin>>
        /\ sentUp' = [sentUp EXCEPT ![c] = Append(sentUp[c], e)]
    BY <1>4, <2>1, <2>2 DEF WriterWrite, Put, local, creation
  <2>6. UpGood(c, e)'
    <3>1. e.n <= nin
      BY <1>0, <2>2, <2>4 DEF NumberInv
    <3>2. \A x \in Buffers : IsUp(x)' => mem'[x].n # e.n
      BY <1>0, <2>2, <2>4, <2>5 DEF NumberInv, IsUp, Holders
    <3> QED BY <2>4, <2>5, <3>1, <3>2 DEF UpGood
  <2>7. \A i \in 1..Len(sentUp[c]) : sentUp[c][i] # e
    BY <1>1, <2>2, <2>4 DEF UpGood
  <2>8. ASSUME NEW x \in Conns
        PROVE  /\ Len(sentUp[x]) \in Nat
               /\ Len(sentUp'[x]) = IF x = c THEN Len(sentUp[x]) + 1 ELSE Len(sentUp[x])
               /\ \A i \in 1..Len(sentUp[x]) : sentUp'[x][i] = sentUp[x][i]
               /\ x = c => sentUp'[x][Len(sentUp[x]) + 1] = e
    BY <1>0, <2>4, <2>5 DEF Traffic
  <2>9. ASSUME NEW x \in Conns, NEW i \in 1..Len(sentUp'[x]), NEW d, d = sentUp'[x][i]
        PROVE  UpGood(x, d)'
    <3>1. CASE i \in 1..Len(sentUp[x])
      BY <1>2, <2>8, <2>9, <3>1
    <3>2. CASE x = c /\ i = Len(sentUp[x]) + 1
      BY <2>6, <2>8, <2>9, <3>2
    <3> QED BY <2>8, <3>1, <3>2
  <2>10. ASSUME NEW x \in Conns, NEW i \in 1..Len(sentUp'[x]), NEW j \in 1..Len(sentUp'[x]),
                sentUp'[x][i] = sentUp'[x][j]
         PROVE  i = j
    <3>1. CASE i \in 1..Len(sentUp[x]) /\ j \in 1..Len(sentUp[x])
      BY <1>0, <2>8, <2>10, <3>1 DEF UpInv
    <3>2. CASE x = c /\ (i = Len(sentUp[x]) + 1 \/ j = Len(sentUp[x]) + 1)
      BY <2>7, <2>8, <2>10, <3>2
    <3> QED BY <2>8, <3>1, <3>2
  <2> QED BY <2>9, <2>10 DEF UpInv, UpGood
<1>5. CASE Listener
  BY <1>3, <1>5 DEF Listener, ListenerGet, ListenerReadFails, ListenerSend, ReadDrop,
                    ReadKnown, ReadUnknown, inbound
<1>6. ASSUME NEW c \in Conns, Creator(c) \/ WriterRecv(c) \/ WriterWriteFails(c)
      PROVE  UpInv'
  BY <1>3, <1>6 DEF Creator, DialFails, NewConn, Store, FirstSend, WriterRecv, WriterWriteFails, inbound
<1>7. ASSUME NEW c \in Conns, Reader(c) \/ HealthCloses(c) \/ RemoteFails(c) PROVE UpInv'
  BY <1>3, <1>7 DEF Reader, ReaderStop, ReaderGet, ReaderGot, ReaderPush, ReaderFails,
                    HealthCloses, RemoteFails, inbound
<1>8. ASSUME NEW w \in Workers, Worker(w) PROVE UpInv'
  BY <1>3, <1>8 DEF Worker, WorkerTake, WorkerWrite, WorkerWriteFails, inbound
<1>9. CASE UNCHANGED vars
  BY <1>3, <1>9 DEF vars, inbound
<1> QED BY <1>4, <1>5, <1>6, <1>7, <1>8, <1>9 DEF Next, Writer

LEMMA DownStep == ASSUME IInv, [Next]_vars PROVE DownInv'
<1> USE UdpBuffersAssumption
<1>0. /\ TypeOK /\ Holders /\ Labels /\ Traffic /\ ConnInv /\ OwnerInv
      /\ ContentInv /\ NumberInv /\ DownInv
  BY TypeParts DEF IInv
<1>1. ASSUME NEW a \in Addrs, NEW i \in 1..Len(sentDown[a])
      PROVE  sentDown[a][i] \in Datagram \cup {None} /\ DownGood(a, sentDown[a][i])
  BY <1>0 DEF Traffic, DownInv, DownGood
<1>2. ASSUME NEW a \in Addrs, NEW i \in 1..Len(sentDown[a]), NEW d, d = sentDown[a][i]
      PROVE  DownGood(a, d)'
  BY <1>1, <1>2, DownGoodStep
<1>3. CASE UNCHANGED sentDown
  BY <1>0, <1>2, <1>3 DEF DownInv, DownGood
<1>4. ASSUME NEW w \in Workers, WorkerWrite(w) PROVE DownInv'
  <2>1. PICK b \in Buffers, a \in Addrs : b = job[w].buf /\ a = job[w].dst
    BY <1>0, <1>4 DEF WorkerWrite, Holders, Item
  <2>2. PICK e : e = mem[b]
    OBVIOUS
  <2>3. DownFor(b, a)
    BY <1>0, <1>4, <2>1 DEF WorkerWrite, ContentInv
  <2>4. /\ e \in Datagram /\ e # None /\ e.n \in Nat /\ IsDown(b)
        /\ e.from \in Conns /\ src[e.from] = a
    BY <1>0, <2>2, <2>3, HeldType DEF DownFor, IsDown
  <2>5. /\ mem' = [mem EXCEPT ![b] = None] /\ UNCHANGED <<src, cpc, nout>>
        /\ sentDown' = [sentDown EXCEPT ![a] = Append(sentDown[a], e)]
    BY <1>4, <2>1, <2>2 DEF WorkerWrite, Put, reading, creation
  <2>6. DownGood(a, e)'
    <3>1. e.n <= nout /\ cpc[e.from] # "unused"
      BY <1>0, <2>2, <2>4 DEF NumberInv
    <3>2. \A x \in Buffers : IsDown(x)' => mem'[x].n # e.n
      BY <1>0, <2>2, <2>4, <2>5 DEF NumberInv, IsDown, Holders
    <3> QED BY <2>4, <2>5, <3>1, <3>2 DEF DownGood
  <2>7. \A i \in 1..Len(sentDown[a]) : sentDown[a][i] # e
    BY <1>1, <2>2, <2>4 DEF DownGood
  <2>8. ASSUME NEW x \in Addrs
        PROVE  /\ Len(sentDown[x]) \in Nat
               /\ Len(sentDown'[x]) = IF x = a THEN Len(sentDown[x]) + 1 ELSE Len(sentDown[x])
               /\ \A i \in 1..Len(sentDown[x]) : sentDown'[x][i] = sentDown[x][i]
               /\ x = a => sentDown'[x][Len(sentDown[x]) + 1] = e
    BY <1>0, <2>4, <2>5 DEF Traffic
  <2>9. ASSUME NEW x \in Addrs, NEW i \in 1..Len(sentDown'[x]), NEW d, d = sentDown'[x][i]
        PROVE  DownGood(x, d)'
    <3>1. CASE i \in 1..Len(sentDown[x])
      BY <1>2, <2>8, <2>9, <3>1
    <3>2. CASE x = a /\ i = Len(sentDown[x]) + 1
      BY <2>6, <2>8, <2>9, <3>2
    <3> QED BY <2>8, <3>1, <3>2
  <2>10. ASSUME NEW x \in Addrs, NEW i \in 1..Len(sentDown'[x]), NEW j \in 1..Len(sentDown'[x]),
                sentDown'[x][i] = sentDown'[x][j]
         PROVE  i = j
    <3>1. CASE i \in 1..Len(sentDown[x]) /\ j \in 1..Len(sentDown[x])
      BY <1>0, <2>8, <2>10, <3>1 DEF DownInv
    <3>2. CASE x = a /\ (i = Len(sentDown[x]) + 1 \/ j = Len(sentDown[x]) + 1)
      BY <2>7, <2>8, <2>10, <3>2
    <3> QED BY <2>8, <3>1, <3>2
  <2> QED BY <2>9, <2>10 DEF DownInv, DownGood
<1>5. CASE Listener
  BY <1>3, <1>5 DEF Listener, ListenerGet, ListenerReadFails, ListenerSend, ReadDrop,
                    ReadKnown, ReadUnknown, outbound
<1>6. ASSUME NEW c \in Conns, Creator(c) \/ Writer(c) PROVE DownInv'
  BY <1>3, <1>6 DEF Creator, DialFails, NewConn, Store, FirstSend, Writer, WriterRecv,
                    WriterWrite, WriterWriteFails, outbound
<1>7. ASSUME NEW c \in Conns, Reader(c) \/ HealthCloses(c) \/ RemoteFails(c) PROVE DownInv'
  BY <1>3, <1>7 DEF Reader, ReaderStop, ReaderGet, ReaderGot, ReaderPush, ReaderFails,
                    HealthCloses, RemoteFails, outbound
<1>8. ASSUME NEW w \in Workers, WorkerTake(w) \/ WorkerWriteFails(w) PROVE DownInv'
  BY <1>3, <1>8 DEF WorkerTake, WorkerWriteFails, outbound
<1>9. CASE UNCHANGED vars
  BY <1>3, <1>9 DEF vars, outbound
<1> QED BY <1>4, <1>5, <1>6, <1>7, <1>8, <1>9 DEF Next, Worker

-----------------------------------------------------------------------------
(* The theorems *)

LEMMA Inductive == IInv /\ [Next]_vars => IInv'
<1> SUFFICES ASSUME IInv, [Next]_vars PROVE IInv'
  OBVIOUS
<1>1. TypeOK'
  <2>1. Holders' /\ Labels' /\ Flags' /\ Queues' /\ Traffic'
    BY HoldersStep, LabelsStep, FlagsStep, QueuesStep, TrafficStep
  <2> QED BY <2>1, Zenon DEF TypeOK, Holders, Labels, Flags, Queues, Traffic
<1> QED BY <1>1, LabelsStep, OwnerStep, ContentStep, NumberStep, UpStep, DownStep DEF IInv

\* The inductive invariant holds in every reachable state.
LEMMA Invariance == Spec => []IInv
BY InitInv, Inductive, PTL DEF Spec

\* The types of the state of udp.go's data path, the limits of both queues
\* included (udp.go:15-19, 75-142).
THEOREM TypeCorrect == Spec => []TypeOK
<1>1. IInv => TypeOK
  BY DEF IInv
<1> QED BY <1>1, Invariance, PTL

LEMMA OwnedExclusive == ASSUME TypeOK, OwnerInv, QueueInv PROVE Exclusive
<1> USE UdpBuffersAssumption
<1>1. PICK kind \in [Buffers -> Kind], at \in [Buffers -> Whose] : Owned(kind, at)
  BY DEF OwnerInv
<1>2. /\ OwnPool(kind) /\ OwnLocal(kind) /\ OwnConn(kind, at)
      /\ OwnInQ(kind, at) /\ OwnJob(kind, at) /\ OwnOutQ(kind)
  BY <1>1 DEF Owned
<1> SUFFICES ASSUME NEW b \in Buffers
             PROVE  (\A x, y \in Refs(b) : x = y) /\ (b \in pool => Refs(b) = {})
  BY DEF Exclusive
<1>3. ASSUME NEW x \in Refs(b)
      PROVE  \/ kind[b] = "listener" /\ x = <<"listener", "listener">>
             \/ kind[b] = "creator" /\ x = <<"creator", at[b]>>
             \/ kind[b] = "writer" /\ x = <<"writer", at[b]>>
             \/ kind[b] = "reader" /\ x = <<"reader", at[b]>>
             \/ kind[b] = "worker" /\ x = <<"worker", at[b]>>
             \/ kind[b] = "inQ" /\ \E i \in 1..Len(inQ[at[b]]) :
                   at[b] \in Conns /\ inQ[at[b]][i] = b /\ x = <<"inQ", <<at[b], i>>>>
             \/ kind[b] = "outQ" /\ \E i \in 1..Len(outQ) : outQ[i].buf = b /\ x = <<"outQ", i>>
  <2>1. CASE x \in {<<"listener", l>> : l \in {l \in {"listener"} : lbuf = b}}
    BY <1>2, <2>1 DEF OwnLocal
  <2>2. CASE x \in {<<"creator", c>> : c \in {c \in Conns : cbuf[c] = b}}
    BY <1>2, <2>2 DEF OwnConn
  <2>3. CASE x \in {<<"writer", c>> : c \in {c \in Conns : wbuf[c] = b}}
    BY <1>2, <2>3 DEF OwnConn
  <2>4. CASE x \in {<<"reader", c>> : c \in {c \in Conns : rbuf[c] = b}}
    BY <1>2, <2>4 DEF OwnConn
  <2>5. CASE x \in {<<"worker", w>> : w \in {w \in Workers : job[w] # None /\ job[w].buf = b}}
    BY <1>2, <2>5 DEF OwnJob
  <2>6. CASE x \in {<<"inQ", p>> : p \in {p \in Conns \X (1..QueueCap) :
                       p[2] <= Len(inQ[p[1]]) /\ inQ[p[1]][p[2]] = b}}
    <3>1. PICK c \in Conns, i \in 1..QueueCap :
             i <= Len(inQ[c]) /\ inQ[c][i] = b /\ x = <<"inQ", <<c, i>>>>
      BY <2>6
    <3>2. i \in 1..Len(inQ[c])
      BY <3>1 DEF TypeOK
    <3>3. kind[b] = "inQ" /\ at[b] = c
      BY <1>2, <3>1, <3>2 DEF OwnInQ
    <3> QED BY <3>1, <3>2, <3>3
  <2>7. CASE x \in {<<"outQ", i>> : i \in {i \in DOMAIN outQ : outQ[i].buf = b}}
    <3>1. PICK i \in DOMAIN outQ : outQ[i].buf = b /\ x = <<"outQ", i>>
      BY <2>7
    <3>2. i \in 1..Len(outQ)
      BY <3>1 DEF TypeOK
    <3> QED BY <1>2, <3>1, <3>2 DEF OwnOutQ
  <2> QED BY <1>3, <2>1, <2>2, <2>3, <2>4, <2>5, <2>6, <2>7, Zenon DEF Refs
<1>4. ASSUME NEW x \in Refs(b), NEW y \in Refs(b) PROVE x = y
  <2>1. CASE kind[b] = "inQ"
    BY <1>3, <2>1 DEF QueueInv
  <2>2. CASE kind[b] = "outQ"
    BY <1>3, <2>2 DEF QueueInv
  <2> QED BY <1>3, <2>1, <2>2
<1>5. ASSUME b \in pool PROVE Refs(b) = {}
  <2>1. kind[b] = "pool"
    BY <1>2, <1>5 DEF OwnPool
  <2> QED BY <1>3, <2>1
<1> QED BY <1>4, <1>5

\* A buffer of udpBufPool has at most one user, and none while it is in the pool:
\* every path by which a datagram is handed on, dropped or fails gives its buffer
\* back once and then forgets it (udp.go:75-109, 115-142, 190-209).
THEOREM BuffersExclusive == Spec => []Exclusive
<1>1. IInv => Exclusive
  BY OwnedExclusive DEF IInv
<1> QED BY <1>1, Invariance, PTL

LEMMA GoodDeliveries == ASSUME TypeOK, UpInv, DownInv PROVE OwnDatagramsOnce
<1>1. ASSUME NEW c \in Conns
      PROVE  /\ \A d \in Range(sentUp[c]) : d # None /\ d.from = src[c]
             /\ IsInjective(sentUp[c])
  <2>1. DOMAIN sentUp[c] = 1..Len(sentUp[c])
    BY DEF TypeOK
  <2> QED BY <2>1 DEF UpInv, Range, IsInjective
<1>2. ASSUME NEW a \in Addrs
      PROVE  /\ \A d \in Range(sentDown[a]) : d # None /\ d.from \in Conns /\ src[d.from] = a
             /\ IsInjective(sentDown[a])
  <2>1. DOMAIN sentDown[a] = 1..Len(sentDown[a])
    BY DEF TypeOK
  <2> QED BY <2>1 DEF DownInv, Range, IsInjective
<1> QED BY <1>1, <1>2 DEF OwnDatagramsOnce

\* A websocket gets only datagrams of its connector's source and a local client
\* only messages that came for it, none of them twice, although the buffers they
\* travel in are used again and again (udp.go:120, 137).
THEOREM DatagramsOnce == Spec => []OwnDatagramsOnce
<1>1. IInv => OwnDatagramsOnce
  BY GoodDeliveries DEF IInv
<1> QED BY <1>1, Invariance, PTL
=============================================================================
