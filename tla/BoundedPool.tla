---------------------------- MODULE BoundedPool -----------------------------
(***************************************************************************)
(* What the pool of the TUN client promises: it holds at most Capacity     *)
(* connections that wait for use, each is used once, and none is given up  *)
(* before the pool is stopped.                                             *)
(***************************************************************************)
EXTENDS Naturals, FiniteSets

CONSTANTS
    Conns,       \* the connections that may be made
    Capacity

VARIABLES
    unmade, idle, used, discarded,   \* a partition of Conns
    stopped

vars == <<unmade, idle, used, discarded, stopped>>

Init ==
    /\ unmade = Conns
    /\ idle = {} /\ used = {} /\ discarded = {}
    /\ stopped = FALSE

Make(c) ==
    /\ c \in unmade
    /\ Cardinality(idle) < Capacity
    /\ unmade' = unmade \ {c} /\ idle' = idle \cup {c}
    /\ UNCHANGED <<used, discarded, stopped>>

Use(c) ==
    /\ c \in idle
    /\ idle' = idle \ {c} /\ used' = used \cup {c}
    /\ UNCHANGED <<unmade, discarded, stopped>>

Stop ==
    /\ stopped' = TRUE
    /\ UNCHANGED <<unmade, idle, used, discarded>>

Discard(c) ==
    /\ stopped
    /\ c \in idle
    /\ idle' = idle \ {c} /\ discarded' = discarded \cup {c}
    /\ UNCHANGED <<unmade, used, stopped>>

Next == Stop \/ \E c \in Conns : Make(c) \/ Use(c) \/ Discard(c)

Spec == Init /\ [][Next]_vars
=============================================================================
