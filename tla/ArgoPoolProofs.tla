--------------------------- MODULE ArgoPoolProofs ---------------------------
(***************************************************************************)
(* Proofs about the connection pool, for any finite set of Dial calls and  *)
(* any PoolSize: connCount agrees with the channel up to the steps in      *)
(* flight, preDial never overfills the pool, and the counter stays within  *)
(* its bounds.                                                             *)
(***************************************************************************)
EXTENDS ArgoPool, FiniteSetTheorems, TLAPS

Types ==
    /\ dpc \in [Reqs -> {"idle", "count", "connect", "done"}]
    /\ ppc \in [Reqs -> {"off", "start", "check", "select", "dial", "push",
                         "count", "done"}]
    /\ cst \in [Reqs -> {"none", "dialled", "pooled", "taken", "drained", "closed"}]
    /\ mu \in Reqs \cup {NoReq}
    /\ connCount \in Int
    /\ stopped \in BOOLEAN

Holding == {"check", "select", "dial", "push", "count"}

\* mu is held by the one preDial that is past its lock.
MutexInv == \A r \in Reqs : ppc[r] \in Holding => mu = r

\* A connection exists once its preDial has dialled it, and is out of preDial's
\* hands once pushed.
ConnInv ==
    \A r \in Reqs :
        /\ cst[r] = "dialled" <=> ppc[r] = "push"
        /\ dpc[r] # "done" => ppc[r] = "off"
        /\ ppc[r] \in {"off", "start", "check", "select", "dial"} => cst[r] = "none"

\* The check of connCount still holds when the connection is counted: only the
\* holder of mu increments.
RoomInv ==
    /\ \A r \in Reqs :
        ppc[r] \in {"select", "dial", "push", "count"} => connCount < PoolSize
    /\ connCount <= PoolSize

IInv == Types /\ MutexInv /\ ConnInv /\ RoomInv /\ CountMatchesPool

-----------------------------------------------------------------------------
(* Sets of requests *)

\* Every set of requests is finite, and its cardinality a natural number.
LEMMA ReqSets ==
    ASSUME NEW S \in SUBSET Reqs
    PROVE  IsFiniteSet(S) /\ Cardinality(S) \in Nat
BY ReqsAssumption, FS_Subset, FS_CardinalityType

\* One more request in a set adds one to its cardinality.
LEMMA AddReq ==
    ASSUME NEW S \in SUBSET Reqs, NEW r \in Reqs, r \notin S
    PROVE  Cardinality(S \cup {r}) = Cardinality(S) + 1
BY ReqSets, FS_AddElement

\* One request less takes one off.
LEMMA DropReq ==
    ASSUME NEW S \in SUBSET Reqs, NEW r \in S
    PROVE  Cardinality(S \ {r}) = Cardinality(S) - 1
BY ReqSets, FS_RemoveElement

-----------------------------------------------------------------------------
LEMMA InitInv == Init => IInv
<1> SUFFICES ASSUME Init PROVE IInv
  OBVIOUS
<1>1. Types
  <2>1. connCount \in Int
    BY DEF Init
  <2>2. /\ dpc \in [Reqs -> {"idle", "count", "connect", "done"}]
        /\ mu \in Reqs \cup {NoReq} /\ stopped \in BOOLEAN
    BY Zenon DEF Init
  <2>3. ppc \in [Reqs -> {"off", "start", "check", "select", "dial", "push",
                          "count", "done"}]
    BY Zenon DEF Init
  <2>4. cst \in [Reqs -> {"none", "dialled", "pooled", "taken", "drained", "closed"}]
    BY Zenon DEF Init
  <2> QED BY <2>1, <2>2, <2>3, <2>4 DEF Types
<1>5. MutexInv /\ ConnInv
  BY DEF Init, MutexInv, ConnInv, Holding
<1>2. RoomInv
  BY PoolSizeAssumption DEF Init, RoomInv
<1>3. Pool = {} /\ Pushed = {} /\ Popped = {} /\ Drained = {}
  BY DEF Init, Pool, Pushed, Popped, Drained
<1>4. CountMatchesPool
  BY <1>3, FS_EmptySet DEF Init, CountMatchesPool
<1> QED BY <1>1, <1>2, <1>4, <1>5 DEF IInv

LEMMA TypesStep == IInv /\ [Next]_vars => Types'
<1> SUFFICES ASSUME Types, [Next]_vars PROVE Types'
  BY DEF IInv
<1> USE DEF Types
<1>1. ASSUME NEW r \in Reqs, Dial(r) PROVE Types'
  BY <1>1 DEF Dial, DialStopped, DialPooled, DialCount, DialMiss, DialConnected,
              Return
<1>2. ASSUME NEW r \in Reqs, PreDial(r) PROVE Types'
  BY <1>2 DEF PreDial, PreLock, PreCheck, PreSelect, PreConnectFails,
              PreConnected, PrePush, PreCount, PreReturn
<1>3. ASSUME NEW r \in Reqs, Drain(r) PROVE Types'
  BY <1>3 DEF Drain
<1>4. CASE Close
  BY <1>4 DEF Close
<1>5. CASE UNCHANGED vars
  BY <1>5 DEF vars
<1> QED BY <1>1, <1>2, <1>3, <1>4, <1>5 DEF Next

LEMMA MutexStep == IInv /\ [Next]_vars => MutexInv'
<1> SUFFICES ASSUME Types, MutexInv, [Next]_vars PROVE MutexInv'
  BY DEF IInv
<1> USE ReqsAssumption DEF Types, MutexInv, Holding
<1>1. ASSUME NEW r \in Reqs, Dial(r) PROVE MutexInv'
  BY <1>1 DEF Dial, DialStopped, DialPooled, DialCount, DialMiss, DialConnected,
              Return
<1>2. ASSUME NEW r \in Reqs, PreDial(r) PROVE MutexInv'
  BY <1>2 DEF PreDial, PreLock, PreCheck, PreSelect, PreConnectFails,
              PreConnected, PrePush, PreCount, PreReturn
<1>3. ASSUME NEW r \in Reqs, Drain(r) PROVE MutexInv'
  BY <1>3 DEF Drain
<1>4. CASE Close
  BY <1>4 DEF Close
<1>5. CASE UNCHANGED vars
  BY <1>5 DEF vars
<1> QED BY <1>1, <1>2, <1>3, <1>4, <1>5 DEF Next

LEMMA ConnStep == IInv /\ [Next]_vars => ConnInv'
<1> SUFFICES ASSUME Types, ConnInv, [Next]_vars PROVE ConnInv'
  BY DEF IInv
<1> USE DEF Types, ConnInv
<1>1. ASSUME NEW r \in Reqs, Dial(r) PROVE ConnInv'
  BY <1>1 DEF Dial, DialStopped, DialPooled, DialCount, DialMiss, DialConnected,
              Return, Pool
<1>2. ASSUME NEW r \in Reqs, PreDial(r) PROVE ConnInv'
  BY <1>2 DEF PreDial, PreLock, PreCheck, PreSelect, PreConnectFails,
              PreConnected, PrePush, PreCount, PreReturn
<1>3. ASSUME NEW r \in Reqs, Drain(r) PROVE ConnInv'
  BY <1>3 DEF Drain, Pool
<1>4. CASE Close
  BY <1>4 DEF Close
<1>5. CASE UNCHANGED vars
  BY <1>5 DEF vars
<1> QED BY <1>1, <1>2, <1>3, <1>4, <1>5 DEF Next

LEMMA RoomStep == IInv /\ [Next]_vars => RoomInv'
<1> SUFFICES ASSUME Types, MutexInv, RoomInv, [Next]_vars PROVE RoomInv'
  BY DEF IInv
<1> USE PoolSizeAssumption DEF Types, RoomInv
<1>1. ASSUME NEW r \in Reqs, Dial(r) PROVE RoomInv'
  BY <1>1 DEF Dial, DialStopped, DialPooled, DialCount, DialMiss, DialConnected,
              Return
<1>2. ASSUME NEW r \in Reqs, PreDial(r) PROVE RoomInv'
  <2>1. CASE PreCount(r)
    <3>1. connCount' = connCount + 1 /\ connCount < PoolSize
      BY <2>1 DEF PreCount
    <3>2. \A s \in Reqs : ppc'[s] \notin {"select", "dial", "push", "count"}
      BY <2>1 DEF PreCount, PreReturn, MutexInv, Holding
    <3> QED BY <3>1, <3>2
  <2> QED BY <1>2, <2>1 DEF PreDial, PreLock, PreCheck, PreSelect,
              PreConnectFails, PreConnected, PrePush, PreReturn
<1>3. ASSUME NEW r \in Reqs, Drain(r) PROVE RoomInv'
  BY <1>3 DEF Drain
<1>4. CASE Close
  BY <1>4 DEF Close
<1>5. CASE UNCHANGED vars
  BY <1>5 DEF vars
<1> QED BY <1>1, <1>2, <1>3, <1>4, <1>5 DEF Next

\* The steps that move a connection or the counter keep them in agreement.
LEMMA CountStep == IInv /\ [Next]_vars => CountMatchesPool'
<1> SUFFICES ASSUME Types, MutexInv, ConnInv, CountMatchesPool, [Next]_vars
             PROVE  CountMatchesPool'
  BY DEF IInv
<1> DEFINE Sets == <<Pool, Pushed, Popped, Drained>>
<1>0. /\ Pool \in SUBSET Reqs /\ Pushed \in SUBSET Reqs
      /\ Popped \in SUBSET Reqs /\ Drained \in SUBSET Reqs
      /\ Cardinality(Pool) \in Nat /\ Cardinality(Pushed) \in Nat
      /\ Cardinality(Popped) \in Nat /\ Cardinality(Drained) \in Nat
      /\ connCount \in Int
  BY ReqSets DEF Pool, Pushed, Popped, Drained, Types
<1>1. ASSUME UNCHANGED Sets, UNCHANGED connCount PROVE CountMatchesPool'
  BY <1>1 DEF CountMatchesPool
<1>2. ASSUME NEW r \in Reqs, Dial(r) PROVE CountMatchesPool'
  <2>1. ASSUME NEW c \in Reqs, DialPooled(r, c) PROVE CountMatchesPool'
    <3>1. Pool' = Pool \ {c} /\ c \in Pool
      BY <2>1 DEF DialPooled, Pool, Types
    <3>2. Popped' = Popped \cup {r} /\ r \notin Popped
      BY <2>1 DEF DialPooled, Popped, Types
    <3>3. UNCHANGED <<Pushed, Drained, connCount>>
      BY <2>1 DEF DialPooled, Pushed, Drained, Pool, Types
    <3> QED BY <1>0, <3>1, <3>2, <3>3, AddReq, DropReq DEF CountMatchesPool
  <2>2. CASE DialCount(r)
    <3>1. Popped' = Popped \ {r} /\ r \in Popped
      BY <2>2 DEF DialCount, Return, Popped, Types
    <3>2. UNCHANGED <<Pool, Pushed, Drained>>
      BY <2>2 DEF DialCount, Return, Pool, Pushed, Drained, Types, ConnInv
    <3>3. connCount' = connCount - 1
      BY <2>2 DEF DialCount
    <3> QED BY <1>0, <3>1, <3>2, <3>3, DropReq DEF CountMatchesPool
  <2>3. CASE DialStopped(r) \/ DialMiss(r) \/ DialConnected(r)
    <3>1. UNCHANGED Sets /\ UNCHANGED connCount
      BY <2>3 DEF DialStopped, DialMiss, DialConnected, Return, Pool, Pushed,
                  Popped, Drained, Types, ConnInv
    <3> QED BY <1>1, <3>1
  <2> QED BY <1>2, <2>1, <2>2, <2>3 DEF Dial
<1>3. ASSUME NEW r \in Reqs, PreDial(r) PROVE CountMatchesPool'
  <2>1. CASE PrePush(r) /\ Cardinality(Pool) < PoolSize
    <3>1. Pool' = Pool \cup {r} /\ r \notin Pool
      BY <2>1 DEF PrePush, Pool, Types, ConnInv
    <3>2. Pushed' = Pushed \cup {r} /\ r \notin Pushed
      BY <2>1 DEF PrePush, Pushed, Types
    <3>3. UNCHANGED <<Popped, Drained, connCount>>
      BY <2>1 DEF PrePush, Popped, Drained, Types, ConnInv
    <3> QED BY <1>0, <3>1, <3>2, <3>3, AddReq DEF CountMatchesPool
  <2>2. CASE PreCount(r)
    <3>1. Pushed' = Pushed \ {r} /\ r \in Pushed
      BY <2>2 DEF PreCount, PreReturn, Pushed, Types
    <3>2. UNCHANGED <<Pool, Popped, Drained>>
      BY <2>2 DEF PreCount, Pool, Popped, Drained
    <3>3. connCount' = connCount + 1
      BY <2>2 DEF PreCount
    <3>4. Cardinality(Pushed') = Cardinality(Pushed) - 1
      BY <1>0, <3>1, DropReq
    <3> QED BY <1>0, <3>2, <3>3, <3>4 DEF CountMatchesPool
  <2>3. CASE PrePush(r) /\ ~(Cardinality(Pool) < PoolSize)
    <3>1. UNCHANGED Sets /\ UNCHANGED connCount
      BY <2>3 DEF PrePush, PreReturn, Pool, Pushed, Popped, Drained, Types, ConnInv
    <3> QED BY <1>1, <3>1
  <2>4. CASE \/ PreLock(r) \/ PreCheck(r) \/ PreSelect(r)
             \/ PreConnectFails(r) \/ PreConnected(r)
    <3>1. UNCHANGED Sets /\ UNCHANGED connCount
      BY <2>4 DEF PreLock, PreCheck, PreSelect, PreConnectFails, PreConnected,
                  PreReturn, Pool, Pushed, Popped, Drained, Types, ConnInv
    <3> QED BY <1>1, <3>1
  <2> QED BY <1>3, <2>1, <2>2, <2>3, <2>4 DEF PreDial
<1>4. ASSUME NEW c \in Reqs, Drain(c) PROVE CountMatchesPool'
  <2>1. Pool' = Pool \ {c} /\ c \in Pool
    BY <1>4 DEF Drain, Pool, Types
  <2>2. Drained' = Drained \cup {c} /\ c \notin Drained
    BY <1>4 DEF Drain, Drained, Pool, Types
  <2>3. UNCHANGED <<Pushed, Popped, connCount>>
    BY <1>4 DEF Drain, Pushed, Popped
  <2> QED BY <1>0, <2>1, <2>2, <2>3, AddReq, DropReq DEF CountMatchesPool
<1>5. CASE Close \/ UNCHANGED vars
  <2>1. UNCHANGED Sets /\ UNCHANGED connCount
    BY <1>5 DEF Close, vars, Pool, Pushed, Popped, Drained
  <2> QED BY <1>1, <2>1
<1> QED BY <1>2, <1>3, <1>4, <1>5 DEF Next

\* The strengthening is an invariant of the pool.
THEOREM Inductive == Spec => []IInv
<1>1. IInv /\ [Next]_vars => IInv'
  BY TypesStep, MutexStep, ConnStep, RoomStep, CountStep DEF IInv
<1> QED BY InitInv, <1>1, PTL DEF Spec

\* connCount equals the number of pooled connections, give or take the pushes
\* and pops in flight and the connections Close has drained (dialer.go:79-150).
THEOREM CountIsAccurate == Spec => []CountMatchesPool
BY Inductive, PTL DEF IInv

-----------------------------------------------------------------------------
(* What the agreement of counter and channel implies *)

\* At most one preDial is between its push and its count.
LEMMA OnePusher == ASSUME Types, MutexInv PROVE Cardinality(Pushed) \in {0, 1}
<1>1. CASE Pushed = {}
  BY <1>1, FS_EmptySet
<1>2. CASE Pushed # {}
  <2>1. PICK r \in Reqs : r \in Pushed
    BY <1>2 DEF Pushed
  <2>2. Pushed = {r}
    BY <2>1 DEF Pushed, MutexInv, Holding
  <2> QED BY <2>2, FS_Singleton
<1> QED BY <1>1, <1>2

\* A preDial that is about to push finds a free slot.
LEMMA PusherHasRoom == IInv => NoOverflow
<1> SUFFICES ASSUME IInv, NEW r \in Reqs, ppc[r] = "push"
             PROVE  Cardinality(Pool) < PoolSize
  BY DEF NoOverflow
<1>1. Pushed = {}
  BY DEF IInv, MutexInv, Holding, Pushed
<1>2. Cardinality(Pushed) = 0
  BY <1>1, FS_EmptySet
<1>3. connCount < PoolSize /\ connCount \in Int
  BY DEF IInv, RoomInv, Types
<1>4. /\ Cardinality(Pool) \in Nat /\ Cardinality(Popped) \in Nat
      /\ Cardinality(Drained) \in Nat
  BY ReqSets DEF Pool, Popped, Drained
<1> QED BY <1>2, <1>3, <1>4, PoolSizeAssumption DEF IInv, CountMatchesPool

\* connCount stays between -1 and PoolSize, and the other variables in their
\* types (dialer.go:33-36).
THEOREM TypeCorrect == Spec => []TypeOK
<1>1. IInv => TypeOK
  <2> SUFFICES ASSUME IInv PROVE TypeOK
    OBVIOUS
  <2>1. Cardinality(Pushed) \in {0, 1}
    BY OnePusher DEF IInv
  <2>2. /\ Cardinality(Pool) \in Nat /\ Cardinality(Popped) \in Nat
        /\ Cardinality(Drained) \in Nat
    BY ReqSets DEF Pool, Popped, Drained
  <2>3. connCount \in Int /\ -1 <= connCount /\ connCount <= PoolSize
    BY <2>1, <2>2 DEF IInv, CountMatchesPool, Types, RoomInv
  <2>4. connCount \in -1..PoolSize
    BY <2>3, PoolSizeAssumption
  <2> QED BY <2>4 DEF IInv, Types, TypeOK
<1> QED BY <1>1, Inductive, PTL

\* The default branch of preDial, which closes a connection for lack of room
\* (dialer.go:104-105), is never taken.
THEOREM PushNeverOverflows == Spec => []NoOverflow
BY PusherHasRoom, Inductive, PTL

\* preDial never keeps more than PoolSize connections (dialer.go:86-108).
THEOREM PoolIsBounded == Spec => []PoolBound
<1>1. IInv => PoolBound
  <2> DEFINE Kept == {c \in Reqs : cst[c] \in {"dialled", "pooled"}}
  <2> SUFFICES ASSUME IInv PROVE Cardinality(Kept) <= PoolSize
    BY DEF PoolBound
  <2>1. /\ Cardinality(Pool) \in Nat /\ Cardinality(Popped) \in Nat
        /\ Cardinality(Drained) \in Nat /\ Pool \in SUBSET Reqs
    BY ReqSets DEF Pool, Popped, Drained
  <2>2. CASE \E r \in Reqs : ppc[r] = "push"
    <3>1. PICK r \in Reqs : ppc[r] = "push"
      BY <2>2
    <3>2. Kept = Pool \cup {r} /\ r \notin Pool
      BY <3>1 DEF Pool, IInv, ConnInv, MutexInv, Holding
    <3>3. Cardinality(Kept) = Cardinality(Pool) + 1
      BY <2>1, <3>2, AddReq
    <3>4. Cardinality(Pool) < PoolSize
      BY <3>1, PusherHasRoom DEF NoOverflow
    <3> QED BY <2>1, <3>3, <3>4, PoolSizeAssumption
  <2>3. CASE ~ \E r \in Reqs : ppc[r] = "push"
    <3>1. Kept = Pool
      BY <2>3 DEF Pool, IInv, ConnInv
    <3>2. CASE Pushed = {}
      <4>1. Cardinality(Pushed) = 0
        BY <3>2, FS_EmptySet
      <4>2. connCount <= PoolSize /\ connCount \in Int
        BY DEF IInv, RoomInv, Types
      <4>3. Cardinality(Pool) <= connCount
        BY <2>1, <4>1, <4>2 DEF IInv, CountMatchesPool
      <4> QED BY <2>1, <3>1, <4>2, <4>3, PoolSizeAssumption
    <3>3. CASE Pushed # {}
      <4>1. Cardinality(Pushed) \in {0, 1}
        BY OnePusher DEF IInv
      <4>2. connCount < PoolSize /\ connCount \in Int
        BY <3>3 DEF IInv, RoomInv, Pushed, Types
      <4>3. connCount + Cardinality(Pushed)
              = Cardinality(Pool) + Cardinality(Popped) + Cardinality(Drained)
        BY DEF IInv, CountMatchesPool
      <4>4. Cardinality(Pool) <= connCount + 1
        BY <2>1, <4>1, <4>2, <4>3
      <4> QED BY <2>1, <3>1, <4>2, <4>4, PoolSizeAssumption
    <3> QED BY <3>2, <3>3
  <2> QED BY <2>2, <2>3
<1> QED BY <1>1, Inductive, PTL

-----------------------------------------------------------------------------
(* The refinement *)

\* The holder of mu that connects sees a pool with room in it.
LEMMA ConnectorHasRoom ==
    ASSUME IInv, NEW r \in Reqs, ppc[r] = "dial"
    PROVE  Cardinality(In({"dialled", "pooled"})) < PoolSize
<1>1. Pushed = {} /\ In({"dialled", "pooled"}) = Pool
  BY DEF IInv, MutexInv, ConnInv, Holding, Pushed, In, Pool
<1>2. Cardinality(Pushed) = 0
  BY <1>1, FS_EmptySet
<1>3. connCount < PoolSize /\ connCount \in Int
  BY DEF IInv, RoomInv, Types
<1>4. /\ Cardinality(Pool) \in Nat /\ Cardinality(Popped) \in Nat
      /\ Cardinality(Drained) \in Nat
  BY ReqSets DEF Pool, Popped, Drained
<1> QED BY <1>1, <1>2, <1>3, <1>4, PoolSizeAssumption DEF IInv, CountMatchesPool

\* A step that moves no connection and does not stop the pool is a stutter.
LEMMA Stutter ==
    ASSUME UNCHANGED <<cst, stopped>> PROVE UNCHANGED Abstract!vars
BY DEF In, Abstract!vars

\* Every step of Dial is a Use or a stutter.
LEMMA DialRefines ==
    ASSUME IInv, NEW r \in Reqs, Dial(r)
    PROVE  [Abstract!Next]_(Abstract!vars)
<1>1. ASSUME NEW c \in Reqs, DialPooled(r, c) PROVE Abstract!Use(c)
  BY <1>1 DEF DialPooled, Pool, In, IInv, Types, Abstract!Use
<1>2. CASE DialStopped(r) \/ DialCount(r) \/ DialMiss(r) \/ DialConnected(r)
  BY <1>2, Stutter DEF DialStopped, DialCount, DialMiss, DialConnected
<1> QED BY <1>1, <1>2 DEF Dial, Abstract!Next

\* Every step of preDial is a Make or a stutter.
LEMMA PreDialRefines ==
    ASSUME IInv, NEW r \in Reqs, PreDial(r)
    PROVE  [Abstract!Next]_(Abstract!vars)
<1>1. CASE PreConnected(r)
  <2>1. Cardinality(In({"dialled", "pooled"})) < PoolSize
    BY <1>1, ConnectorHasRoom DEF PreConnected
  <2>2. cst[r] = "none" /\ cst' = [cst EXCEPT ![r] = "dialled"]
    BY <1>1 DEF PreConnected, IInv, ConnInv
  <2>3. Abstract!Cardinality(In({"dialled", "pooled"})) < PoolSize
    BY <2>1, Zenon DEF Cardinality, Abstract!Cardinality
  <2>4. /\ r \in In({"none"}) /\ In({"none"})' = In({"none"}) \ {r}
        /\ In({"dialled", "pooled"})' = In({"dialled", "pooled"}) \cup {r}
        /\ UNCHANGED <<In({"taken"}), In({"drained", "closed"}), stopped>>
    BY <1>1, <2>2 DEF PreConnected, In, IInv, Types
  <2>5. Abstract!Make(r)
    BY <2>3, <2>4 DEF Abstract!Make
  <2> QED BY <2>5 DEF Abstract!Next
<1>2. CASE PrePush(r)
  <2>1. Cardinality(Pool) < PoolSize /\ cst[r] = "dialled"
    BY <1>2, PusherHasRoom DEF PrePush, NoOverflow, IInv, ConnInv
  <2>2. cst' = [cst EXCEPT ![r] = "pooled"] /\ UNCHANGED stopped
    BY <1>2, <2>1 DEF PrePush
  <2>3. UNCHANGED Abstract!vars
    BY <2>1, <2>2 DEF In, IInv, Types, Abstract!vars
  <2> QED BY <2>3
<1>3. CASE \/ PreLock(r) \/ PreCheck(r) \/ PreSelect(r)
           \/ PreConnectFails(r) \/ PreCount(r)
  BY <1>3, Stutter DEF PreLock, PreCheck, PreSelect, PreConnectFails, PreCount
<1> QED BY <1>1, <1>2, <1>3 DEF PreDial

\* The pool with its channel, counter and mutex implements BoundedPool, for
\* every number of concurrent Dial calls and every PoolSize
\* (dialer.go:79-107, 136-151).
THEOREM ImplementsBoundedPool == Spec => PoolImplemented
<1>1. Init => Abstract!Init
  BY DEF Init, In, Abstract!Init
<1>2. IInv /\ [Next]_vars => [Abstract!Next]_(Abstract!vars)
  <2> SUFFICES ASSUME IInv, [Next]_vars
               PROVE  [Abstract!Next]_(Abstract!vars)
    OBVIOUS
  <2>1. CASE Close
    <3>1. Abstract!Stop
      BY <2>1 DEF Close, In, Abstract!Stop
    <3> QED BY <3>1 DEF Abstract!Next
  <2>2. ASSUME NEW c \in Reqs, Drain(c) PROVE [Abstract!Next]_(Abstract!vars)
    <3>1. Abstract!Discard(c)
      BY <2>2 DEF Drain, Pool, In, IInv, Types, Abstract!Discard
    <3> QED BY <3>1 DEF Abstract!Next
  <2>3. CASE UNCHANGED vars
    BY <2>3, Stutter DEF vars
  <2> QED BY <2>1, <2>2, <2>3, DialRefines, PreDialRefines DEF Next
<1> QED BY <1>1, <1>2, Inductive, PTL DEF Spec, PoolImplemented, Abstract!Spec
=============================================================================
