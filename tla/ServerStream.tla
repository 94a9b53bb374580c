---------------------------- MODULE ServerStream ----------------------------
(***************************************************************************)
(* One tunnelled session on the server, server/cfd/connection.go: the      *)
(* handler goroutine of a QUIC stream (handleQuicStream and handleConn),   *)
(* the goroutine that copies from the destination (handleRemoteConn), and  *)
(* the pinger of the websocket (websocket.go), which share the websocket's *)
(* writeLock and done flag, its context, and the destination connection.   *)
(*                                                                         *)
(* Messages have no content.  A write to the stream blocks while the       *)
(* client does not read, a write to a TCP destination while that does not  *)
(* read.  Decode is nondeterministic here; see HeaderCodec.                *)
(***************************************************************************)
EXTENDS Naturals

CONSTANT MaxRetries      \* the attempts of DialWithRetry, 3 at both calls

ASSUME MaxRetriesAssumption == MaxRetries \in Nat \ {0}

VARIABLES
    hpc,        \* handler: "preamble", "accept", "first", "firstPong", "dial",
                \* "payload", "loop", "read", "pong", "bye", "write", "cancel",
                \* "wsClose", "sClose", "done"
    rpc,        \* handleRemoteConn: "off", "loop", "read", "lock", "write",
                \* "cancel", "wsClose", "close", "done"
    ppc,        \* pinger: "off", "wait", "lock", "write", "done"
    tries,      \* attempts made by DialWithRetry
    kind,       \* destination: "none", "udp" (a *net.UDPConn) or "tcp"
    remote,     \* remoteConn: "none", "open", "eof" (ended by the peer), "closed"
    wlock,      \* Conn.writeLock is held by a goroutine that writes
    wsDone,     \* Conn.done
    wsCancelled,\* the context of the pinger is cancelled
    client,     \* "open", "fin" (no more data from it) or "gone" (reset)
    stream,     \* the server's side of the QUIC stream: "open" or "closed"
    panicked    \* a nil dereference has killed the process

dest == <<tries, kind, remote>>
ws   == <<wlock, wsDone, wsCancelled>>
net  == <<client, stream, panicked>>
vars == <<hpc, rpc, ppc, dest, ws, net>>

TypeOK ==
    /\ hpc \in {"preamble", "accept", "first", "firstPong", "dial", "payload",
                "loop", "read", "pong", "bye", "write", "cancel", "wsClose",
                "sClose", "done"}
    /\ rpc \in {"off", "loop", "read", "lock", "write", "cancel", "wsClose",
                "close", "done"}
    /\ ppc \in {"off", "wait", "lock", "write", "done"}
    /\ tries \in 0..(MaxRetries - 1)
    /\ kind \in {"none", "udp", "tcp"}
    /\ remote \in {"none", "open", "eof", "closed"}
    /\ wlock \in BOOLEAN
    /\ wsDone \in BOOLEAN
    /\ wsCancelled \in BOOLEAN
    /\ client \in {"open", "fin", "gone"}
    /\ stream \in {"open", "closed"}
    /\ panicked \in BOOLEAN

Init ==
    /\ hpc = "preamble" /\ rpc = "off" /\ ppc = "off"
    /\ tries = 0
    /\ kind = "none" /\ remote = "none"
    /\ wlock = FALSE /\ wsDone = FALSE /\ wsCancelled = FALSE
    /\ client = "open" /\ stream = "open"
    /\ panicked = FALSE

\* quicStream.Context() ends with the stream's write side.
StreamCtxDone == client = "gone" \/ stream = "closed"

\* A read of the stream fails, after the data that came before.
ReadFails == client \in {"fin", "gone"} \/ stream = "closed"

\* Steps that only advance one goroutine.
HandlerMoves(to) == hpc' = to /\ UNCHANGED <<rpc, ppc, dest, ws, net>>
RemoteMoves(to)  == rpc' = to /\ UNCHANGED <<hpc, ppc, dest, ws, net>>
PingerMoves(to)  == ppc' = to /\ UNCHANGED <<hpc, rpc, dest, ws, net>>

-----------------------------------------------------------------------------
(* handleQuicStream *)

\* The six bytes are read whole.
PreambleRead ==
    /\ hpc = "preamble"
    /\ client # "gone"
    /\ HandlerMoves("accept")

\* err != nil: return
PreambleFails ==
    /\ hpc = "preamble"
    /\ ReadFails
    /\ HandlerMoves("sClose")

\* n != 6 with a nil error, as a Read of a stream may return: err.Error()
\* dereferences nil.
PreambleShort ==
    /\ hpc = "preamble"
    /\ client # "gone"
    /\ panicked' = TRUE
    /\ UNCHANGED <<hpc, rpc, ppc, dest, ws, client, stream>>

\* Accept fails: a bad request, or the stream broke.
AcceptFails ==
    /\ hpc = "accept"
    /\ HandlerMoves("sClose")

\* The request names the destination: dial before the websocket exists.
AcceptWithDest ==
    /\ hpc = "accept"
    /\ client # "gone"
    /\ hpc' = "dial"
    /\ kind' \in {"udp", "tcp"}
    /\ UNCHANGED <<rpc, ppc, tries, remote, ws, net>>

\* It does not: NewConn starts the pinger, and handleConn waits for a first
\* message with the destination in front.
AcceptWithoutDest ==
    /\ hpc = "accept"
    /\ client # "gone"
    /\ hpc' = "first"
    /\ ppc' = "wait"
    /\ UNCHANGED <<rpc, dest, ws, net>>

\* Leaving the handler: with a websocket its deferred cancel and Close run
\* before stream.Close, without one only the latter.
HandlerReturns == hpc' = IF ppc = "off" THEN "sClose" ELSE "cancel"

-----------------------------------------------------------------------------
(* DialWithRetry *)

\* Connected.  With the destination in the request: NewConn and the goroutine
\* handleRemoteConn start; otherwise the rest of the first message is due.
DialOk ==
    /\ hpc = "dial"
    /\ remote' = "open"
    /\ IF ppc = "off"
         THEN hpc' = "loop" /\ ppc' = "wait" /\ rpc' = "loop"
         ELSE hpc' = "payload" /\ UNCHANGED <<rpc, ppc>>
    /\ UNCHANGED <<tries, kind, ws, net>>

\* Faulty variant: one attempt too many.
DialTimesOutOffByOne ==
    /\ hpc = "dial"
    /\ IF tries < MaxRetries
         THEN tries' = tries + 1 /\ UNCHANGED hpc
         ELSE HandlerReturns /\ UNCHANGED tries
    /\ UNCHANGED <<rpc, ppc, kind, remote, ws, net>>

\* A timeout is retried up to MaxRetries attempts.
DialTimesOut ==
    /\ hpc = "dial"
    /\ IF tries + 1 < MaxRetries
         THEN tries' = tries + 1 /\ UNCHANGED hpc
         ELSE HandlerReturns /\ UNCHANGED tries
    /\ UNCHANGED <<rpc, ppc, kind, remote, ws, net>>

\* Any other error is not.
DialRefused ==
    /\ hpc = "dial"
    /\ HandlerReturns
    /\ UNCHANGED <<rpc, ppc, dest, ws, net>>

-----------------------------------------------------------------------------
(* handleConn *)

\* The first message decodes to a destination.
FirstRead ==
    /\ hpc = "first"
    /\ client # "gone"
    /\ hpc' = "dial"
    /\ kind' \in {"udp", "tcp"}
    /\ UNCHANGED <<rpc, ppc, tries, remote, ws, net>>

\* It does not decode, or the read fails.
FirstFails ==
    /\ hpc = "first"
    /\ HandlerMoves("cancel")

\* The payload of the first message is written to the destination.
PayloadWritten ==
    /\ hpc = "payload"
    /\ rpc' = "loop"
    /\ hpc' = "loop"
    /\ UNCHANGED <<ppc, dest, ws, net>>

\* The write fails: return, with remoteConn left open.
PayloadFails ==
    /\ hpc = "payload"
    /\ HandlerMoves("cancel")

\* select: ctx.Done() or default
HandlerLoop ==
    /\ hpc = "loop"
    /\ HandlerMoves(IF StreamCtxDone THEN "cancel" ELSE "read")

HandlerRead ==
    /\ hpc = "read"
    /\ client # "gone"
    /\ HandlerMoves("write")

HandlerReadFails ==
    /\ hpc = "read"
    /\ ReadFails
    /\ HandlerMoves("cancel")

\* remoteConn.Write returns: done, or an error, which a connection that
\* handleRemoteConn has closed always gives.
HandlerWrite ==
    /\ hpc = "write"
    /\ remote # "closed"
    /\ HandlerMoves("loop")

HandlerWriteFails ==
    /\ hpc = "write"
    /\ remote # "open" \/ kind = "udp"
    /\ HandlerMoves("cancel")

-----------------------------------------------------------------------------
(* Conn.Read of a control frame.  ReadClientBinary answers it on the stream, *)
(* from this goroutine: it takes no writeLock and asks for no done.          *)

\* A ping is answered by a pong, and the read goes on.
ReadPing ==
    /\ hpc \in {"first", "read"}
    /\ client # "gone"
    /\ HandlerMoves(IF hpc = "first" THEN "firstPong" ELSE "pong")

PongWritten ==
    /\ hpc \in {"firstPong", "pong"}
    /\ ~StreamCtxDone
    /\ HandlerMoves(IF hpc = "firstPong" THEN "first" ELSE "read")

PongFails ==
    /\ hpc \in {"firstPong", "pong"}
    /\ StreamCtxDone
    /\ HandlerMoves("cancel")

\* A close frame is answered by one.
ReadBye ==
    /\ hpc \in {"first", "read"}
    /\ client # "gone"
    /\ HandlerMoves("bye")

\* Written or not, Read returns an error.
ByeReturns ==
    /\ hpc = "bye"
    /\ HandlerMoves("cancel")

-----------------------------------------------------------------------------
(* The deferred calls of handleQuicStream *)

HandlerCancel ==
    /\ hpc = "cancel"
    /\ wsCancelled' = TRUE
    /\ hpc' = "wsClose"
    /\ UNCHANGED <<rpc, ppc, dest, wlock, wsDone, net>>

\* Conn.Close waits for the writeLock.
HandlerWsClose ==
    /\ hpc = "wsClose"
    /\ ~wlock
    /\ wsDone' = TRUE
    /\ hpc' = "sClose"
    /\ UNCHANGED <<rpc, ppc, dest, wlock, wsCancelled, net>>

\* SafeStreamCloser.Close: past the websocket's Close no writer is left that
\* could hold the stream's own lock.
HandlerStreamClose ==
    /\ hpc = "sClose"
    /\ stream' = "closed"
    /\ hpc' = "done"
    /\ UNCHANGED <<rpc, ppc, dest, ws, client, panicked>>

-----------------------------------------------------------------------------
(* handleRemoteConn *)

RemoteLoop ==
    /\ rpc = "loop"
    /\ RemoteMoves(IF StreamCtxDone THEN "cancel" ELSE "read")

RemoteRead ==
    /\ rpc = "read"
    /\ remote = "open"
    /\ RemoteMoves("lock")

\* The destination has ended the connection.
RemoteReadFails ==
    /\ rpc = "read"
    /\ remote = "eof"
    /\ RemoteMoves("cancel")

\* Faulty variant: no read deadline is set.
RemoteNoDeadline ==
    /\ rpc = "read"
    /\ remote = "eof"
    /\ RemoteMoves("cancel")

\* The read deadline passes; only a *net.UDPConn gets one.
RemoteReadTimesOut ==
    /\ rpc = "read"
    /\ kind = "udp"
    /\ RemoteMoves("cancel")

\* Conn.Write: lock, then an error if the websocket is done.
RemoteLock ==
    /\ rpc = "lock"
    /\ ~wlock
    /\ IF wsDone THEN rpc' = "cancel" /\ UNCHANGED wlock
                 ELSE rpc' = "write" /\ wlock' = TRUE
    /\ UNCHANGED <<hpc, ppc, dest, wsDone, wsCancelled, net>>

RemoteWrite ==
    /\ rpc = "write"
    /\ ~StreamCtxDone
    /\ wlock' = FALSE
    /\ rpc' = "loop"
    /\ UNCHANGED <<hpc, ppc, dest, wsDone, wsCancelled, net>>

RemoteWriteFails ==
    /\ rpc = "write"
    /\ StreamCtxDone
    /\ wlock' = FALSE
    /\ rpc' = "cancel"
    /\ UNCHANGED <<hpc, ppc, dest, wsDone, wsCancelled, net>>

\* The deferred function: cancel() ...
RemoteCancel ==
    /\ rpc = "cancel"
    /\ wsCancelled' = TRUE
    /\ rpc' = "wsClose"
    /\ UNCHANGED <<hpc, ppc, dest, wlock, wsDone, net>>

\* ... wsConn.Close() ...
RemoteWsClose ==
    /\ rpc = "wsClose"
    /\ ~wlock
    /\ wsDone' = TRUE
    /\ rpc' = "close"
    /\ UNCHANGED <<hpc, ppc, dest, wlock, wsCancelled, net>>

\* ... and remoteConn.Close().
RemoteClose ==
    /\ rpc = "close"
    /\ remote' = "closed"
    /\ rpc' = "done"
    /\ UNCHANGED <<hpc, ppc, tries, kind, ws, net>>

-----------------------------------------------------------------------------
(* pinger *)

PingerTick ==
    /\ ppc = "wait"
    /\ PingerMoves("lock")

PingerCancelled ==
    /\ ppc = "wait"
    /\ wsCancelled \/ StreamCtxDone
    /\ PingerMoves("done")

\* Faulty variant: ping takes no lock.
PingerUnlocked ==
    /\ ppc = "lock"
    /\ IF wsDone THEN ppc' = "done" /\ UNCHANGED wlock
                 ELSE ppc' = "write" /\ wlock' = TRUE
    /\ UNCHANGED <<hpc, rpc, dest, wsDone, wsCancelled, net>>

PingerLock ==
    /\ ppc = "lock"
    /\ ~wlock
    /\ IF wsDone THEN ppc' = "done" /\ UNCHANGED wlock
                 ELSE ppc' = "write" /\ wlock' = TRUE
    /\ UNCHANGED <<hpc, rpc, dest, wsDone, wsCancelled, net>>

\* The ping is written, or fails, which is only logged.
PingerWrite ==
    /\ ppc = "write"
    /\ wlock' = FALSE
    /\ ppc' = "wait"
    /\ UNCHANGED <<hpc, rpc, dest, wsDone, wsCancelled, net>>

-----------------------------------------------------------------------------
(* The client and the destination *)

ClientFin ==
    /\ client = "open"
    /\ client' = "fin"
    /\ UNCHANGED <<hpc, rpc, ppc, dest, ws, stream, panicked>>

\* The client resets the stream, or the QUIC connection dies.
ClientGone ==
    /\ client # "gone"
    /\ client' = "gone"
    /\ UNCHANGED <<hpc, rpc, ppc, dest, ws, stream, panicked>>

RemoteEnds ==
    /\ remote = "open"
    /\ remote' = "eof"
    /\ UNCHANGED <<hpc, rpc, ppc, tries, kind, ws, net>>

-----------------------------------------------------------------------------
Handler ==
    \/ PreambleRead \/ PreambleFails \/ PreambleShort
    \/ AcceptFails \/ AcceptWithDest \/ AcceptWithoutDest
    \/ DialOk \/ DialTimesOut \/ DialRefused
    \/ FirstRead \/ FirstFails \/ PayloadWritten \/ PayloadFails
    \/ HandlerLoop \/ HandlerRead \/ HandlerReadFails
    \/ HandlerWrite \/ HandlerWriteFails
    \/ ReadPing \/ PongWritten \/ PongFails \/ ReadBye \/ ByeReturns
    \/ HandlerCancel \/ HandlerWsClose \/ HandlerStreamClose

RemoteConn ==
    \/ RemoteLoop \/ RemoteRead \/ RemoteReadFails \/ RemoteReadTimesOut
    \/ RemoteLock \/ RemoteWrite \/ RemoteWriteFails
    \/ RemoteCancel \/ RemoteWsClose \/ RemoteClose

Pinger == PingerTick \/ PingerCancelled \/ PingerLock \/ PingerWrite

Environment == ClientFin \/ ClientGone \/ RemoteEnds

Next == ~panicked /\ (Handler \/ RemoteConn \/ Pinger \/ Environment)

Spec == Init /\ [][Next]_vars

(***************************************************************************)
(* Fairness.  Goroutines run, dials end, UDP sockets never block a write,  *)
(* read deadlines pass, mutexes serve their waiters, and calls on a broken *)
(* stream or connection return.  The client need not send or read, nor     *)
(* need a TCP destination.                                                 *)
(***************************************************************************)
Run(A) == ~panicked /\ A
DestReturns == kind = "udp" \/ remote # "open"

Fairness ==
    /\ WF_vars(Run(PreambleFails))
    /\ WF_vars(Run(ReadFails /\ (AcceptFails \/ AcceptWithDest \/ AcceptWithoutDest)))
    /\ WF_vars(Run(DialOk \/ DialTimesOut \/ DialRefused))
    /\ WF_vars(Run(ReadFails /\ (FirstRead \/ FirstFails)))
    /\ WF_vars(Run(DestReturns /\ (PayloadWritten \/ PayloadFails)))
    /\ WF_vars(Run(DestReturns /\ (HandlerWrite \/ HandlerWriteFails)))
    /\ WF_vars(Run(HandlerLoop \/ HandlerReadFails \/ HandlerCancel
                   \/ HandlerStreamClose))
    /\ WF_vars(Run(StreamCtxDone /\ (PongFails \/ ByeReturns)))
    /\ SF_vars(Run(HandlerWsClose))
    /\ WF_vars(Run(RemoteLoop \/ RemoteReadFails \/ RemoteReadTimesOut
                   \/ RemoteWriteFails \/ RemoteCancel \/ RemoteClose))
    /\ SF_vars(Run(RemoteLock))
    /\ SF_vars(Run(RemoteWsClose))
    /\ WF_vars(Run(PingerTick \/ PingerCancelled))
    /\ SF_vars(Run(PingerLock))
    /\ WF_vars(Run(StreamCtxDone /\ PingerWrite))

FairSpec == Spec /\ Fairness

-----------------------------------------------------------------------------
(* Properties *)

Writing == {g \in {"remote", "pinger"} :
                \/ g = "remote" /\ rpc = "write"
                \/ g = "pinger" /\ ppc = "write"}

\* The handler is in the middle of an answer to a control frame.
Replying == IF hpc \in {"firstPong", "pong", "bye"} THEN {"handler"} ELSE {}

\* websocket.go:97-98, "It will not write to the connection after Close is
\* called": once either goroutine has closed the websocket nobody is in the
\* middle of a message or a ping, and once the handler has closed the stream
\* under it nobody writes at all, its own answers to control frames included.
NoWriteAfterClose ==
    /\ wsDone => Writing = {}
    /\ stream = "closed" => Writing = {} /\ Replying = {}

Writer == INSTANCE ClosableWriter
              WITH Writers  <- {"remote", "pinger"},
                   Repliers <- {"handler"},
                   writing  <- Writing,
                   replying <- Replying,
                   closed   <- wsDone \/ stream = "closed",
                   over     <- stream = "closed"

\* A message and a ping are never written at the same time, so that their
\* frames do not mix on the stream, each is written to its end before a Close,
\* and none begins after it (websocket.go:44-52, 97-111).  Only the handler's
\* answers to control frames may overlap with them and follow a Close, until
\* the stream is closed (websocket.go:88-95, connection.go:98-132): the
\* goroutines of a session share the websocket as ClosableWriter says.
WriterImplemented == Writer!Spec

Ended == hpc = "done" /\ rpc \in {"off", "done"} /\ ppc \in {"off", "done"}

\* The destination's connection is closed, or there is none.  The handler that
\* could not write the first payload has left its own open (connection.go:155).
Released == remote \in {"none", "closed"} \/ rpc = "off"

\* The session of a client that is gone ends, all its goroutines included, and
\* releases its destination: a UDP socket always, for it has a read deadline
\* (connection.go:208-217), a TCP connection once the destination has ended it.
\* The pinger ends with the websocket, even in the middle of a wait for the lock
\* and though the client never reads again (websocket.go:55-86).
SessionEnds ==
    /\ (client = "gone" /\ (kind = "udp" \/ remote \in {"eof", "closed"}))
          ~> ((Ended /\ Released) \/ panicked)
    /\ wsDone ~> (ppc = "done" \/ panicked)

\* stream.go:219-223, "Make sure a possible writer does not block the lock
\* forever": a handler that returns gets its stream closed although a writer
\* waits for a client that does not read.
ReturningHandlerCloses == hpc = "wsClose" ~> (hpc = "done" \/ panicked)
=============================================================================
