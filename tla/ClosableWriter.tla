--------------------------- MODULE ClosableWriter ---------------------------
(***************************************************************************)
(* What the websocket of the server promises to the goroutines that share  *)
(* it (server/cfd/websocket.go): one of them writes at a time, a message   *)
(* is written to its end, and Close waits for it and lets none begin after *)
(* it.  The answers to control frames that come out of a read are not part *)
(* of that bargain: they begin whenever a frame arrives, until the         *)
(* connection is over.                                                     *)
(***************************************************************************)
CONSTANTS Writers,       \* those that write messages and pings
          Repliers       \* those that answer control frames

VARIABLES
    writing,     \* the writers that are in the middle of a message
    replying,    \* the repliers that are in the middle of an answer
    closed,      \* Close has returned
    over         \* the connection underneath is closed

Init == writing = {} /\ replying = {} /\ closed = FALSE /\ over = FALSE

Begin(g) ==
    /\ writing = {} /\ ~closed
    /\ writing' = {g}
    /\ UNCHANGED <<replying, closed, over>>

End(g) ==
    /\ writing = {g}
    /\ writing' = {}
    /\ UNCHANGED <<replying, closed, over>>

Reply(g) ==
    /\ g \notin replying /\ ~over
    /\ replying' = replying \cup {g}
    /\ UNCHANGED <<writing, closed, over>>

ReplyEnd(g) ==
    /\ g \in replying
    /\ replying' = replying \ {g}
    /\ UNCHANGED <<writing, closed, over>>

Close ==
    /\ writing = {} /\ ~closed
    /\ closed' = TRUE
    /\ UNCHANGED <<writing, replying, over>>

Finish ==
    /\ writing = {} /\ replying = {} /\ ~over
    /\ closed' = TRUE /\ over' = TRUE
    /\ UNCHANGED <<writing, replying>>

Next ==
    \/ Close \/ Finish
    \/ \E g \in Writers : Begin(g) \/ End(g)
    \/ \E g \in Repliers : Reply(g) \/ ReplyEnd(g)

Spec == Init /\ [][Next]_<<writing, replying, closed, over>>
=============================================================================
