------------------------- MODULE ServerStreamProofs -------------------------
(***************************************************************************)
(* Proofs about a session of the server, for any number of retries: the    *)
(* variables keep their types, and the goroutines share the websocket as   *)
(* ClosableWriter says.                                                    *)
(***************************************************************************)
EXTENDS ServerStream, TLAPS

Labels ==
    /\ hpc \in {"preamble", "accept", "first", "firstPong", "dial", "payload",
                "loop", "read", "pong", "bye", "write", "cancel", "wsClose",
                "sClose", "done"}
    /\ rpc \in {"off", "loop", "read", "lock", "write", "cancel", "wsClose",
                "close", "done"}
    /\ ppc \in {"off", "wait", "lock", "write", "done"}
    /\ kind \in {"none", "udp", "tcp"}
    /\ remote \in {"none", "open", "eof", "closed"}
    /\ client \in {"open", "fin", "gone"}
    /\ stream \in {"open", "closed"}

Flags ==
    /\ wlock \in BOOLEAN /\ wsDone \in BOOLEAN
    /\ wsCancelled \in BOOLEAN /\ panicked \in BOOLEAN

Tries == tries \in 0..(MaxRetries - 1)

\* writeLock is held by the one goroutine that writes.
LockInv ==
    /\ wlock <=> Writing # {}
    /\ ~(rpc = "write" /\ ppc = "write")

\* The websocket, and with it the pinger and the copying goroutine, exists from
\* one point of the handler on.
StartInv ==
    /\ ppc = "off" => rpc = "off"
    /\ hpc \in {"preamble", "accept"} => ppc = "off"
    /\ hpc \in {"first", "firstPong", "payload", "loop", "read", "pong", "bye",
                "write", "cancel", "wsClose"} => ppc # "off"
    /\ hpc \in {"first", "firstPong", "dial", "payload"} => rpc = "off"

\* The handler closes the stream last, and only without a websocket is there
\* nothing else to close.
CloseInv ==
    /\ stream = "closed" => hpc = "done"
    /\ hpc \in {"sClose", "done"} => wsDone \/ ppc = "off"
    /\ wsDone => ppc # "off" /\ Writing = {}

IInv == Labels /\ Flags /\ Tries /\ LockInv /\ StartInv /\ CloseInv

-----------------------------------------------------------------------------
LEMMA InitInv == Init => IInv
<1> SUFFICES ASSUME Init PROVE IInv
  OBVIOUS
<1>1. Labels /\ LockInv /\ StartInv /\ CloseInv
  BY DEF Init, Labels, LockInv, StartInv, CloseInv, Writing
<1>2. Flags
  BY Zenon DEF Init, Flags
<1>3. Tries
  BY MaxRetriesAssumption DEF Init, Tries
<1> QED BY <1>1, <1>2, <1>3 DEF IInv

LEMMA TypesStep == IInv /\ [Next]_vars => (Labels /\ Flags /\ Tries)'
<1> SUFFICES ASSUME Labels, Flags, Tries, [Next]_vars
             PROVE  Labels' /\ Flags' /\ Tries'
  BY DEF IInv
<1> USE DEF dest, ws, net, HandlerMoves, RemoteMoves, PingerMoves, HandlerReturns
<1>1. CASE Handler
  <2>1. Tries'
    BY <1>1, MaxRetriesAssumption
    DEF Handler, Tries, PreambleRead, PreambleFails, PreambleShort, AcceptFails,
        AcceptWithDest, AcceptWithoutDest, DialOk, DialTimesOut, DialRefused,
        FirstRead, FirstFails, PayloadWritten, PayloadFails, HandlerLoop,
        HandlerRead, HandlerReadFails, HandlerWrite, HandlerWriteFails,
        ReadPing, PongWritten, PongFails, ReadBye, ByeReturns,
        HandlerCancel, HandlerWsClose, HandlerStreamClose
  <2>2. Labels'
    BY <1>1
    DEF Handler, Labels, PreambleRead, PreambleFails, PreambleShort, AcceptFails,
        AcceptWithDest, AcceptWithoutDest, DialOk, DialTimesOut, DialRefused,
        FirstRead, FirstFails, PayloadWritten, PayloadFails, HandlerLoop,
        HandlerRead, HandlerReadFails, HandlerWrite, HandlerWriteFails,
        ReadPing, PongWritten, PongFails, ReadBye, ByeReturns,
        HandlerCancel, HandlerWsClose, HandlerStreamClose
  <2>3. Flags'
    BY <1>1, Zenon
    DEF Handler, Flags, PreambleRead, PreambleFails, PreambleShort, AcceptFails,
        AcceptWithDest, AcceptWithoutDest, DialOk, DialTimesOut, DialRefused,
        FirstRead, FirstFails, PayloadWritten, PayloadFails, HandlerLoop,
        HandlerRead, HandlerReadFails, HandlerWrite, HandlerWriteFails,
        ReadPing, PongWritten, PongFails, ReadBye, ByeReturns,
        HandlerCancel, HandlerWsClose, HandlerStreamClose
  <2> QED BY <2>1, <2>2, <2>3
<1>2. CASE RemoteConn
  <2> USE DEF RemoteConn, RemoteLoop, RemoteRead, RemoteReadFails,
              RemoteReadTimesOut, RemoteLock, RemoteWrite, RemoteWriteFails,
              RemoteCancel, RemoteWsClose, RemoteClose
  <2>1. Tries'
    BY <1>2 DEF Tries
  <2>2. Labels'
    BY <1>2 DEF Labels
  <2>3. Flags'
    BY <1>2, Zenon DEF Flags
  <2> QED BY <2>1, <2>2, <2>3
<1>3. CASE Pinger
  <2> USE DEF Pinger, PingerTick, PingerCancelled, PingerLock, PingerWrite
  <2>1. Tries'
    BY <1>3 DEF Tries
  <2>2. Labels'
    BY <1>3 DEF Labels
  <2>3. Flags'
    BY <1>3, Zenon DEF Flags
  <2> QED BY <2>1, <2>2, <2>3
<1>4. CASE Environment
  BY <1>4 DEF Environment, ClientFin, ClientGone, RemoteEnds, Labels, Flags, Tries
<1>5. CASE UNCHANGED vars
  BY <1>5 DEF vars, Labels, Flags, Tries
<1> QED BY <1>1, <1>2, <1>3, <1>4, <1>5 DEF Next

\* The other three conjuncts, one goroutine at a time.
LEMMA HandlerStep ==
    ASSUME IInv, Handler PROVE LockInv' /\ StartInv' /\ CloseInv'
<1> USE DEF IInv, Labels, Flags, LockInv, StartInv, CloseInv, Writing,
            dest, ws, net, HandlerMoves, HandlerReturns
<1>1. CASE \/ PreambleRead \/ PreambleFails \/ PreambleShort
           \/ AcceptFails \/ AcceptWithDest \/ AcceptWithoutDest
  BY <1>1 DEF PreambleRead, PreambleFails, PreambleShort, AcceptFails,
              AcceptWithDest, AcceptWithoutDest
<1>2. CASE \/ DialOk \/ DialTimesOut \/ DialRefused \/ FirstRead \/ FirstFails
  BY <1>2 DEF DialOk, DialTimesOut, DialRefused, FirstRead, FirstFails
<1>3. CASE PayloadWritten \/ PayloadFails \/ HandlerLoop
  BY <1>3 DEF PayloadWritten, PayloadFails, HandlerLoop
<1>4. CASE HandlerRead \/ HandlerReadFails \/ HandlerWrite \/ HandlerWriteFails
  BY <1>4 DEF HandlerRead, HandlerReadFails, HandlerWrite, HandlerWriteFails
<1>5. CASE HandlerCancel \/ HandlerWsClose \/ HandlerStreamClose
  BY <1>5 DEF HandlerCancel, HandlerWsClose, HandlerStreamClose
<1>6. CASE ReadPing \/ PongWritten \/ PongFails \/ ReadBye \/ ByeReturns
  BY <1>6 DEF ReadPing, PongWritten, PongFails, ReadBye, ByeReturns
<1> QED BY <1>1, <1>2, <1>3, <1>4, <1>5, <1>6 DEF Handler

LEMMA RemoteStep ==
    ASSUME IInv, RemoteConn PROVE LockInv' /\ StartInv' /\ CloseInv'
<1> USE DEF IInv, Labels, Flags, LockInv, StartInv, CloseInv, Writing,
            dest, ws, net, RemoteMoves
<1>1. CASE RemoteLoop \/ RemoteRead \/ RemoteReadFails \/ RemoteReadTimesOut
  BY <1>1 DEF RemoteLoop, RemoteRead, RemoteReadFails, RemoteReadTimesOut
<1>2. CASE RemoteLock \/ RemoteWrite \/ RemoteWriteFails
  BY <1>2 DEF RemoteLock, RemoteWrite, RemoteWriteFails
<1>3. CASE RemoteCancel \/ RemoteWsClose \/ RemoteClose
  BY <1>3 DEF RemoteCancel, RemoteWsClose, RemoteClose
<1> QED BY <1>1, <1>2, <1>3 DEF RemoteConn

LEMMA PingerStep ==
    ASSUME IInv, Pinger PROVE LockInv' /\ StartInv' /\ CloseInv'
BY DEF IInv, Labels, Flags, LockInv, StartInv, CloseInv, Writing, dest, ws, net,
       PingerMoves, Pinger, PingerTick, PingerCancelled, PingerLock, PingerWrite

\* The strengthening is an invariant of the session.
THEOREM Inductive == Spec => []IInv
<1>1. IInv /\ [Next]_vars => IInv'
  <2> SUFFICES ASSUME IInv, [Next]_vars PROVE LockInv' /\ StartInv' /\ CloseInv'
    BY TypesStep DEF IInv
  <2>1. CASE Environment
    BY <2>1 DEF IInv, LockInv, StartInv, CloseInv, Writing, dest, ws, net,
                Environment, ClientFin, ClientGone, RemoteEnds
  <2>2. CASE UNCHANGED vars
    BY <2>2 DEF IInv, LockInv, StartInv, CloseInv, Writing, vars, dest, ws, net
  <2> QED BY <2>1, <2>2, HandlerStep, RemoteStep, PingerStep DEF Next
<1> QED BY InitInv, <1>1, PTL DEF Spec

\* The variables of a session keep their types; tries stays below MaxRetries
\* (connection.go:34-50).
THEOREM TypeCorrect == Spec => []TypeOK
<1>1. IInv => TypeOK
  BY DEF IInv, Labels, Flags, Tries, TypeOK
<1> QED BY <1>1, Inductive, PTL

\* Nobody is in the middle of a message or a ping once the websocket is closed,
\* nor of an answer to a control frame once the stream is (websocket.go:82-111,
\* connection.go:98-132, stream.go:208-226).
THEOREM QuietAfterClose == Spec => []NoWriteAfterClose
<1>1. IInv => NoWriteAfterClose
  BY DEF IInv, Labels, Flags, LockInv, StartInv, CloseInv, NoWriteAfterClose, Writing,
         Replying
<1> QED BY <1>1, Inductive, PTL

-----------------------------------------------------------------------------
(* The refinement *)

WriterClosed == wsDone \/ stream = "closed"

WriterOver == stream = "closed"

WriterVars == <<Writing, Replying, WriterClosed, WriterOver>>

\* The handler closes the websocket, then the stream, and answers control
\* frames; its other steps are stutters.
LEMMA HandlerRefines == ASSUME IInv, Handler PROVE [Writer!Next]_WriterVars
<1> USE DEF IInv, Labels, LockInv, StartInv, CloseInv, Writing, Replying,
            WriterVars, WriterClosed, WriterOver, dest, ws, net, HandlerMoves,
            HandlerReturns
<1>1. CASE HandlerWsClose
  <2>1. Writing = {} /\ UNCHANGED <<Writing, Replying, WriterOver>> /\ WriterClosed'
    BY <1>1 DEF HandlerWsClose
  <2>2. CASE WriterClosed
    BY <2>1, <2>2
  <2>3. CASE ~WriterClosed
    BY <2>1, <2>3 DEF Writer!Next, Writer!Close
  <2> QED BY <2>2, <2>3
<1>2. CASE HandlerStreamClose
  <2>1. Writing = {} /\ Replying = {} /\ UNCHANGED <<Writing, Replying>>
    BY <1>2 DEF HandlerStreamClose
  <2>2. ~WriterOver /\ WriterOver' /\ WriterClosed'
    BY <1>2 DEF HandlerStreamClose
  <2> QED BY <2>1, <2>2 DEF Writer!Next, Writer!Finish
<1>3. CASE \/ PreambleRead \/ PreambleFails \/ PreambleShort \/ AcceptFails
           \/ AcceptWithDest \/ AcceptWithoutDest \/ DialOk \/ DialTimesOut
           \/ DialRefused \/ FirstRead \/ FirstFails
  <2>1. UNCHANGED <<Writing, Replying, wsDone, stream>>
    BY <1>3 DEF PreambleRead, PreambleFails, PreambleShort, AcceptFails,
                AcceptWithDest, AcceptWithoutDest, DialOk, DialTimesOut,
                DialRefused, FirstRead, FirstFails
  <2> QED BY <2>1
<1>4. CASE \/ PayloadWritten \/ PayloadFails \/ HandlerLoop \/ HandlerRead
           \/ HandlerReadFails \/ HandlerWrite \/ HandlerWriteFails
           \/ HandlerCancel
  <2>1. UNCHANGED <<Writing, Replying, wsDone, stream>>
    BY <1>4 DEF PayloadWritten, PayloadFails, HandlerLoop, HandlerRead,
                HandlerReadFails, HandlerWrite, HandlerWriteFails, HandlerCancel
  <2> QED BY <2>1
<1>5. CASE ReadPing \/ ReadBye
  <2>1. Replying = {} /\ Replying' = {"handler"} /\ ~WriterOver
    BY <1>5 DEF ReadPing, ReadBye
  <2>2. UNCHANGED <<Writing, WriterClosed, WriterOver>>
    BY <1>5 DEF ReadPing, ReadBye
  <2> QED BY <2>1, <2>2 DEF Writer!Next, Writer!Reply
<1>6. CASE PongWritten \/ PongFails \/ ByeReturns
  <2>1. Replying = {"handler"} /\ Replying' = {}
    BY <1>6 DEF PongWritten, PongFails, ByeReturns
  <2>2. UNCHANGED <<Writing, WriterClosed, WriterOver>>
    BY <1>6 DEF PongWritten, PongFails, ByeReturns
  <2> QED BY <2>1, <2>2 DEF Writer!Next, Writer!ReplyEnd
<1> QED BY <1>1, <1>2, <1>3, <1>4, <1>5, <1>6 DEF Handler

\* The copying goroutine begins and ends its messages, and closes.
LEMMA RemoteRefines == ASSUME IInv, RemoteConn PROVE [Writer!Next]_WriterVars
<1> USE DEF IInv, Labels, LockInv, StartInv, CloseInv, Writing, Replying,
            WriterVars, WriterClosed, WriterOver, dest, ws, net, RemoteMoves
<1>1. CASE RemoteLock
  <2>1. CASE wsDone
    BY <1>1, <2>1 DEF RemoteLock
  <2>2. CASE ~wsDone
    <3>1. Writing = {} /\ Writing' = {"remote"}
      BY <1>1, <2>2 DEF RemoteLock
    <3>2. ~WriterClosed /\ UNCHANGED <<Replying, WriterClosed, WriterOver>>
      BY <1>1, <2>2 DEF RemoteLock
    <3> QED BY <3>1, <3>2 DEF Writer!Next, Writer!Begin
  <2> QED BY <2>1, <2>2
<1>2. CASE RemoteWrite \/ RemoteWriteFails
  <2>1. Writing = {"remote"} /\ Writing' = {}
    BY <1>2 DEF RemoteWrite, RemoteWriteFails
  <2>2. UNCHANGED <<Replying, WriterClosed, WriterOver>>
    BY <1>2 DEF RemoteWrite, RemoteWriteFails
  <2> QED BY <2>1, <2>2 DEF Writer!Next, Writer!End
<1>3. CASE RemoteWsClose
  <2>1. Writing = {} /\ UNCHANGED <<Writing, Replying, WriterOver>> /\ WriterClosed'
    BY <1>3 DEF RemoteWsClose
  <2>2. CASE WriterClosed
    BY <2>1, <2>2
  <2>3. CASE ~WriterClosed
    BY <2>1, <2>3 DEF Writer!Next, Writer!Close
  <2> QED BY <2>2, <2>3
<1>4. CASE \/ RemoteLoop \/ RemoteRead \/ RemoteReadFails \/ RemoteReadTimesOut
           \/ RemoteCancel \/ RemoteClose
  <2>1. UNCHANGED <<Writing, Replying, wsDone, stream>>
    BY <1>4 DEF RemoteLoop, RemoteRead, RemoteReadFails, RemoteReadTimesOut,
                RemoteCancel, RemoteClose
  <2> QED BY <2>1
<1> QED BY <1>1, <1>2, <1>3, <1>4 DEF RemoteConn

\* The pinger begins and ends its pings.
LEMMA PingerRefines == ASSUME IInv, Pinger PROVE [Writer!Next]_WriterVars
<1> USE DEF IInv, Labels, LockInv, StartInv, CloseInv, Writing, Replying,
            WriterVars, WriterClosed, WriterOver, dest, ws, net, PingerMoves
<1>1. CASE PingerLock
  <2>1. CASE wsDone
    BY <1>1, <2>1 DEF PingerLock
  <2>2. CASE ~wsDone
    <3>1. Writing = {} /\ Writing' = {"pinger"}
      BY <1>1, <2>2 DEF PingerLock
    <3>2. ~WriterClosed /\ UNCHANGED <<Replying, WriterClosed, WriterOver>>
      BY <1>1, <2>2 DEF PingerLock
    <3> QED BY <3>1, <3>2 DEF Writer!Next, Writer!Begin
  <2> QED BY <2>1, <2>2
<1>2. CASE PingerWrite
  <2>1. Writing = {"pinger"} /\ Writing' = {}
    BY <1>2 DEF PingerWrite
  <2>2. UNCHANGED <<Replying, WriterClosed, WriterOver>>
    BY <1>2 DEF PingerWrite
  <2> QED BY <2>1, <2>2 DEF Writer!Next, Writer!End
<1>3. CASE PingerTick \/ PingerCancelled
  <2>1. UNCHANGED <<Writing, Replying, wsDone, stream>>
    BY <1>3 DEF PingerTick, PingerCancelled
  <2> QED BY <2>1
<1> QED BY <1>1, <1>2, <1>3 DEF Pinger

\* The writeLock, the done flag and the order of the handler's deferred calls
\* make the websocket a ClosableWriter (websocket.go:44-52, 82-111,
\* connection.go:98-132, 198-206).
THEOREM ImplementsClosableWriter == Spec => WriterImplemented
<1>1. Init => Writer!Init
  BY DEF Init, Writing, Replying, Writer!Init
<1>2. IInv /\ [Next]_vars => [Writer!Next]_WriterVars
  <2> SUFFICES ASSUME IInv, [Next]_vars PROVE [Writer!Next]_WriterVars
    OBVIOUS
  <2>1. CASE Environment
    BY <2>1 DEF Environment, ClientFin, ClientGone, RemoteEnds, dest, ws, net,
                Writing, Replying, WriterVars, WriterClosed, WriterOver
  <2>2. CASE UNCHANGED vars
    BY <2>2 DEF vars, dest, ws, net, Writing, Replying, WriterVars,
                WriterClosed, WriterOver
  <2> QED BY <2>1, <2>2, HandlerRefines, RemoteRefines, PingerRefines DEF Next
<1> QED BY <1>1, <1>2, Inductive, PTL
       DEF Spec, WriterImplemented, Writer!Spec, WriterVars, WriterClosed, WriterOver
=============================================================================
