------------------------------ MODULE ArgoPool ------------------------------
(***************************************************************************)
(* The pool of pre-established websocket connections of the TUN client,    *)
(* client/tun/transport/argo/dialer.go.  Every Dial takes a pooled         *)
(* connection if there is one, dials otherwise, and when it returns starts *)
(* a preDial goroutine that refills the pool.  connCount is kept beside    *)
(* the channel connPool and updated after it, not with it.                 *)
(*                                                                         *)
(* A request r stands for one Dial call, the preDial it starts, and the    *)
(* connection that preDial makes.  What is sent on a connection is left    *)
(* out.                                                                    *)
(***************************************************************************)
EXTENDS Integers, FiniteSets

CONSTANTS
    Reqs,        \* the Dial calls of a behaviour
    PoolSize,    \* params.PoolSize, the capacity of connPool
    NoReq        \* nobody holds mu

ASSUME ReqsAssumption == IsFiniteSet(Reqs) /\ NoReq \notin Reqs
ASSUME PoolSizeAssumption == PoolSize \in Nat \ {0}

VARIABLES
    dpc,         \* Dial: "idle", "count", "connect" or "done"
    ppc,         \* preDial: "off", "start", "check", "select", "dial", "push",
                 \*          "count" or "done"
    cst,         \* the connection made by preDial: "none", "dialled",
                 \* "pooled", "taken", "drained" or "closed"
    mu,          \* the preDial that holds w.mu, or NoReq
    connCount,   \* the atomic counter
    stopped      \* stopChan is closed

vars == <<dpc, ppc, cst, mu, connCount, stopped>>

Pool == {c \in Reqs : cst[c] = "pooled"}

TypeOK ==
    /\ dpc \in [Reqs -> {"idle", "count", "connect", "done"}]
    /\ ppc \in [Reqs -> {"off", "start", "check", "select", "dial", "push",
                         "count", "done"}]
    /\ cst \in [Reqs -> {"none", "dialled", "pooled", "taken", "drained", "closed"}]
    /\ mu \in Reqs \cup {NoReq}
    /\ connCount \in -1..PoolSize    \* -1: popped and uncounted before counted
    /\ stopped \in BOOLEAN

Init ==
    /\ dpc = [r \in Reqs |-> "idle"]
    /\ ppc = [r \in Reqs |-> "off"]
    /\ cst = [r \in Reqs |-> "none"]
    /\ mu = NoReq
    /\ connCount = 0
    /\ stopped = FALSE

-----------------------------------------------------------------------------
(* Dial *)

\* Dial returns, and its deferred function starts preDial.
Return(r) ==
    /\ dpc' = [dpc EXCEPT ![r] = "done"]
    /\ ppc' = [ppc EXCEPT ![r] = "start"]

\* case <-w.stopChan: "websocket has been closed"
DialStopped(r) ==
    /\ dpc[r] = "idle"
    /\ stopped
    /\ Return(r)
    /\ UNCHANGED <<cst, mu, connCount, stopped>>

\* case conn = <-w.connPool, which select may choose after a stop as well.
DialPooled(r, c) ==
    /\ dpc[r] = "idle"
    /\ c \in Pool
    /\ cst' = [cst EXCEPT ![c] = "taken"]
    /\ dpc' = [dpc EXCEPT ![r] = "count"]
    /\ UNCHANGED <<ppc, mu, connCount, stopped>>

\* w.connCount.Add(-1)
DialCount(r) ==
    /\ dpc[r] = "count"
    /\ connCount' = connCount - 1
    /\ Return(r)
    /\ UNCHANGED <<cst, mu, stopped>>

\* default: nothing pooled, connect for this request
DialMiss(r) ==
    /\ dpc[r] = "idle"
    /\ ~stopped
    /\ Pool = {}
    /\ dpc' = [dpc EXCEPT ![r] = "connect"]
    /\ UNCHANGED <<ppc, cst, mu, connCount, stopped>>

\* The handshake ends, with a connection or with an error.
DialConnected(r) ==
    /\ dpc[r] = "connect"
    /\ Return(r)
    /\ UNCHANGED <<cst, mu, connCount, stopped>>

-----------------------------------------------------------------------------
(* preDial *)

\* Faulty variant: preDial does not wait for the mutex.
PreLockUnguarded(r) ==
    /\ ppc[r] = "start"
    /\ mu' = r
    /\ ppc' = [ppc EXCEPT ![r] = "check"]
    /\ UNCHANGED <<dpc, cst, connCount, stopped>>

PreLock(r) ==
    /\ ppc[r] = "start"
    /\ mu = NoReq
    /\ mu' = r
    /\ ppc' = [ppc EXCEPT ![r] = "check"]
    /\ UNCHANGED <<dpc, cst, connCount, stopped>>

\* The deferred unlock.
PreReturn(r) ==
    /\ ppc' = [ppc EXCEPT ![r] = "done"]
    /\ mu' = NoReq

\* Faulty variant: an off-by-one in the comparison.
PreCheckOffByOne(r) ==
    /\ ppc[r] = "check"
    /\ IF connCount > PoolSize
         THEN PreReturn(r)
         ELSE ppc' = [ppc EXCEPT ![r] = "select"] /\ UNCHANGED mu
    /\ UNCHANGED <<dpc, cst, connCount, stopped>>

\* if w.connCount.Load() >= w.params.PoolSize { return }
PreCheck(r) ==
    /\ ppc[r] = "check"
    /\ IF connCount >= PoolSize
         THEN PreReturn(r)
         ELSE ppc' = [ppc EXCEPT ![r] = "select"] /\ UNCHANGED mu
    /\ UNCHANGED <<dpc, cst, connCount, stopped>>

\* case <-w.stopChan: return; default: connect
PreSelect(r) ==
    /\ ppc[r] = "select"
    /\ IF stopped
         THEN PreReturn(r)
         ELSE ppc' = [ppc EXCEPT ![r] = "dial"] /\ UNCHANGED mu
    /\ UNCHANGED <<dpc, cst, connCount, stopped>>

PreConnectFails(r) ==
    /\ ppc[r] = "dial"
    /\ PreReturn(r)
    /\ UNCHANGED <<dpc, cst, connCount, stopped>>

PreConnected(r) ==
    /\ ppc[r] = "dial"
    /\ cst' = [cst EXCEPT ![r] = "dialled"]
    /\ ppc' = [ppc EXCEPT ![r] = "push"]
    /\ UNCHANGED <<dpc, mu, connCount, stopped>>

\* case w.connPool <- conn, or default: the channel is full, close conn
PrePush(r) ==
    /\ ppc[r] = "push"
    /\ IF Cardinality(Pool) < PoolSize
         THEN /\ cst' = [cst EXCEPT ![r] = "pooled"]
              /\ ppc' = [ppc EXCEPT ![r] = "count"]
              /\ UNCHANGED mu
         ELSE /\ cst' = [cst EXCEPT ![r] = "closed"]
              /\ PreReturn(r)
    /\ UNCHANGED <<dpc, connCount, stopped>>

\* Faulty variant: the counter is not updated.
PreCountForgotten(r) ==
    /\ ppc[r] = "count"
    /\ PreReturn(r)
    /\ UNCHANGED <<dpc, cst, connCount, stopped>>

\* w.connCount.Add(1)
PreCount(r) ==
    /\ ppc[r] = "count"
    /\ connCount' = connCount + 1
    /\ PreReturn(r)
    /\ UNCHANGED <<dpc, cst, stopped>>

-----------------------------------------------------------------------------
(* Close *)

\* close(w.stopChan), once, by the engine's stop.
Close ==
    /\ ~stopped
    /\ stopped' = TRUE
    /\ UNCHANGED <<dpc, ppc, cst, mu, connCount>>

\* Faulty variant: the loop stops one connection early.
DrainAllButOne(c) ==
    /\ stopped
    /\ c \in Pool
    /\ Cardinality(Pool) > 1
    /\ cst' = [cst EXCEPT ![c] = "drained"]
    /\ UNCHANGED <<dpc, ppc, mu, connCount, stopped>>

\* for conn := range w.connPool { conn.Close() }: the channel is never closed,
\* so the loop waits for ever for connections still to come.
Drain(c) ==
    /\ stopped
    /\ c \in Pool
    /\ cst' = [cst EXCEPT ![c] = "drained"]
    /\ UNCHANGED <<dpc, ppc, mu, connCount, stopped>>

-----------------------------------------------------------------------------
Dial(r) ==
    \/ DialStopped(r) \/ DialCount(r) \/ DialMiss(r) \/ DialConnected(r)
    \/ \E c \in Reqs : DialPooled(r, c)

PreDial(r) ==
    \/ PreLock(r) \/ PreCheck(r) \/ PreSelect(r) \/ PreConnectFails(r)
    \/ PreConnected(r) \/ PrePush(r) \/ PreCount(r)

Next ==
    \/ Close
    \/ \E r \in Reqs : Dial(r) \/ PreDial(r) \/ Drain(r)

Spec == Init /\ [][Next]_vars

\* Goroutines run, handshakes end (HandshakeTimeout), and a mutex serves its
\* waiters.  New Dial calls need not come, nor the stop.
Fairness ==
    /\ \A r \in Reqs :
        /\ WF_vars(DialCount(r) \/ DialConnected(r))
        /\ SF_vars(PreLock(r))
        /\ WF_vars(PreDial(r) /\ ppc[r] # "start")
        /\ WF_vars(Drain(r))

FairSpec == Spec /\ Fairness

-----------------------------------------------------------------------------
(* Properties *)

Pushed  == {r \in Reqs : ppc[r] = "count"}     \* pushed, not yet counted
Popped  == {r \in Reqs : dpc[r] = "count"}     \* popped, not yet uncounted
Drained == {c \in Reqs : cst[c] = "drained"}   \* taken by Close, never uncounted

\* The counter and the channel are updated in separate steps (dialer.go:101-102,
\* 142-143) and Close takes connections without uncounting them (81-82): what
\* connCount means at every moment.
CountMatchesPool ==
    connCount + Cardinality(Pushed)
        = Cardinality(Pool) + Cardinality(Popped) + Cardinality(Drained)

\* README.md:115-116, "The maximum number of pre-established WebSocket
\* connections": however the refills of concurrent Dials interleave, preDial
\* never keeps more than PoolSize connections (dialer.go:89-106).
PoolBound ==
    Cardinality({c \in Reqs : cst[c] \in {"dialled", "pooled"}}) <= PoolSize

\* A connection is never dialled in vain: preDial always finds room in connPool,
\* so the default branch that closes it (dialer.go:104-105) is not taken.
NoOverflow ==
    \A r \in Reqs : ppc[r] = "push" => Cardinality(Pool) < PoolSize

In(states) == {c \in Reqs : cst[c] \in states}

Abstract == INSTANCE BoundedPool
                WITH Conns <- Reqs, Capacity <- PoolSize,
                     unmade <- In({"none"}), idle <- In({"dialled", "pooled"}),
                     used <- In({"taken"}), discarded <- In({"drained", "closed"})

\* The channel, the counter and the mutex together behave as BoundedPool: a
\* connection is dialled only when there is room for it, is handed to one Dial,
\* and is closed unused only after the stop (dialer.go:79-107, 136-151).
PoolImplemented == Abstract!Spec

\* After the stop no connection stays behind in the pool, not even one whose
\* preDial had passed its check of stopChan before (dialer.go:79-84, 92-106).
DrainedAfterClose == stopped ~> [](Pool = {})
=============================================================================
