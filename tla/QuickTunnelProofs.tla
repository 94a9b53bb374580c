------------------------- MODULE QuickTunnelProofs --------------------------
(***************************************************************************)
(* Proofs about the start and the stop of a server, for every bound and    *)
(* every expiry time: the variables keep their types, a domain that was    *)
(* served survives a restart, and a WARP identity on disk is the one used. *)
(***************************************************************************)
EXTENDS QuickTunnel, TLAPS

-----------------------------------------------------------------------------
(* The domain *)

\* What the signal handler has to write for a domain that was served.
Saved == [token |-> kept.token, url |-> kept.url, lastActive |-> served[kept.token]]

Late == now > served[kept.token] + Expiry

\* Nobody holds a domain that has not been given out.
GivenOut ==
    /\ kept.token <= applied
    /\ qd.token <= applied /\ buf.token <= applied
    /\ answer <= applied /\ token <= applied
    /\ file \in Data => file.token <= applied

Loaded == {"start", "warp", "register", "warpTruncate", "warpWrite", "device", "serving"}

HasKept == qd.token = kept.token /\ qd.url = kept.url

\* From the signal to the end of the process.
StopInv ==
    kept.token # 0 =>
        /\ main \in {"stamp", "truncate", "write"} => run = "serving" /\ HasKept
        /\ main = "stamp" => served[kept.token] = now
        /\ main \in {"truncate", "write"} => buf = Saved

\* From there to the next signal.
RestartInv ==
    kept.token # 0 =>
        /\ main \in {"off", "wait"} => file = Saved
        /\ main = "wait" /\ run \in {"apply", "token", "url"} => Late
        /\ main = "wait" /\ run \in Loaded => Late \/ HasKept

\* Once server.Token is set, quickData keeps the token.
UsesItsToken ==
    run \in Loaded \ {"start"} => token = qd.token

-----------------------------------------------------------------------------
(* The WARP identity *)

NotYet == {"off", "load", "apply", "token", "url", "start", "warp"}

WarpInv ==
    /\ warpFile \in Identity => warpFile <= registered
    /\ run \in NotYet => warp = 0
    /\ run = "register" => mode = "auto" /\ warpFile = NoFile
    /\ run \in {"warpTruncate", "warpWrite"}
           => mode = "auto" /\ warp \in 1..registered /\ warpFile \notin Identity
    /\ (run \in {"device", "serving"} /\ mode = "auto")
           => /\ warp \in 0..registered
              /\ warpFile \in Identity => warp = warpFile
    /\ (run = "serving" /\ mode # "off") => warp # 0

IInv == TypeOK /\ GivenOut /\ StopInv /\ RestartInv /\ UsesItsToken /\ WarpInv
-----------------------------------------------------------------------------
LEMMA Files ==
    /\ NoFile \notin Data /\ Torn \notin Data
    /\ NoFile \notin Identity /\ Torn \notin Identity
  BY FilesAssumption DEF Unreadable

LEMMA Constant ==
    /\ Empty \in Data /\ Empty.token = 0
    /\ Nothing \in [token : Domain, url : Domain] /\ Nothing.token = 0
    /\ 0 \in Domain
  BY BoundsAssumption DEF Empty, Data, Nothing, Domain

LEMMA ServedTyped ==
    ASSUME TypeOK, ServingEnds PROVE served' \in [Domain -> 0..MaxTime]
  BY DEF TypeOK, ServingEnds

LEMMA InitInv == Init => IInv
<1> SUFFICES ASSUME Init PROVE IInv
  OBVIOUS
<1> USE BoundsAssumption, Constant, Files DEF Init
<1>1. TypeOK
  BY DEF TypeOK, Unreadable, Domain, Configured
<1>2. GivenOut
  BY DEF GivenOut
<1>3. StopInv /\ RestartInv /\ UsesItsToken
  BY DEF StopInv, RestartInv, UsesItsToken, Loaded
<1>4. WarpInv
  BY DEF WarpInv, NotYet
<1> QED BY <1>1, <1>2, <1>3, <1>4 DEF IInv

LEMMA TypeStep == ASSUME IInv, [Next]_vars PROVE TypeOK'
<1> USE BoundsAssumption DEF IInv, TypeOK, mem, history, warpVars, quickVars
<1>1. CASE Tick
  BY <1>1 DEF Tick, Starting
<1>12. CASE Start
  <2>1. mode' \in {"off", "auto", "manual"}
    BY <1>12 DEF Start
  <2> QED BY <1>12, <2>1 DEF Start, Starting
<1>2. CASE Load
  BY <1>2 DEF Load, Starting
<1>3. CASE Apply
  BY <1>3 DEF Apply, Starting, Domain
<1>4. CASE ApplyFails \/ WarpIncorrect \/ RegisterFails \/ DeviceFails
  BY <1>4, Constant
  DEF ApplyFails, WarpIncorrect, RegisterFails, DeviceFails, Exit, Configured
<1>5. CASE SetToken \/ SetURL \/ UseToken
  BY <1>5 DEF SetToken, SetURL, UseToken, Starting, Data
<1>6. CASE WarpLoad \/ WarpVerify \/ Register
  BY <1>6 DEF WarpLoad, WarpVerify, Register, Starting, Identity, Configured
<1>7. CASE WarpTruncate \/ WarpWrite \/ WarpSaveFails \/ DeviceUp
  BY <1>7 DEF WarpTruncate, WarpWrite, WarpSaveFails, DeviceUp, WarpInv,
              Starting, Identity, Unreadable
<1>8. CASE Signal
  <2>1. [token |-> token, url |-> qd.url] \in [token : Domain, url : Domain]
    BY DEF Data
  <2> QED BY <1>8, <2>1, Constant, ServedTyped DEF Signal
<1>9. CASE Stamp \/ Truncate
  BY <1>9 DEF Stamp, Truncate, Data, Unreadable
<1>10. CASE WriteFile \/ Kill
  BY <1>10, Constant, ServedTyped DEF WriteFile, Kill, Exit, Configured
<1>11. CASE UNCHANGED vars
  BY <1>11 DEF vars
<1> QED BY <1>1, <1>2, <1>3, <1>4, <1>5, <1>6, <1>7, <1>8, <1>9, <1>10, <1>11, <1>12
        DEF Next, Running, Registering, Saving

LEMMA WarpStep == ASSUME IInv, [Next]_vars PROVE WarpInv'
<1> USE BoundsAssumption, FilesAssumption
    DEF IInv, TypeOK, WarpInv, NotYet, mem, history, warpVars, quickVars
<1>1. CASE Tick \/ Start \/ Load \/ Apply
  BY <1>1 DEF Tick, Start, Load, Apply
<1>2. CASE ApplyFails \/ WarpIncorrect \/ RegisterFails \/ DeviceFails
  BY <1>2 DEF ApplyFails, WarpIncorrect, RegisterFails, DeviceFails, Exit
<1>3. CASE SetToken \/ SetURL \/ UseToken
  BY <1>3 DEF SetToken, SetURL, UseToken
<1>4. CASE WarpLoad \/ WarpVerify
  BY <1>4 DEF WarpLoad, WarpVerify, Configured, Identity, Unreadable
<1>5. CASE Register
  BY <1>5 DEF Register, Identity, Unreadable
<1>6. CASE WarpTruncate \/ WarpWrite
  BY <1>6 DEF WarpTruncate, WarpWrite, Identity, Unreadable
<1>7. CASE WarpSaveFails \/ DeviceUp
  BY <1>7 DEF WarpSaveFails, DeviceUp
<1>8. CASE Signal \/ Stamp \/ Truncate
  BY <1>8 DEF Signal, Stamp, Truncate
<1>9. CASE WriteFile \/ Kill
  BY <1>9 DEF WriteFile, Kill, Exit
<1>10. CASE UNCHANGED vars
  BY <1>10 DEF vars
<1> QED BY <1>1, <1>2, <1>3, <1>4, <1>5, <1>6, <1>7, <1>8, <1>9, <1>10
        DEF Next, Running, Registering, Saving

LEMMA GivenOutStep == ASSUME IInv, [Next]_vars PROVE GivenOut' /\ UsesItsToken'
<1> USE DEF IInv, TypeOK, GivenOut, UsesItsToken, Loaded,
            mem, history, warpVars, quickVars
<1>1. applied \in Nat /\ \A d \in Data : d.token \in Nat
  BY BoundsAssumption DEF Domain, Data
<1>2. CASE Tick \/ Start
  BY <1>2 DEF Tick, Start
<1>3. CASE Load
  BY <1>3, Files DEF Load, Unreadable
<1>4. CASE Apply
  <2>1. kept.token \in Nat /\ token \in Nat
    BY BoundsAssumption DEF Domain
  <2>2. GivenOut'
    BY <1>1, <1>4, <2>1 DEF Apply
  <2>3. UsesItsToken'
    BY <1>4 DEF Apply
  <2> QED BY <2>2, <2>3
<1>5. CASE ApplyFails \/ WarpIncorrect \/ RegisterFails \/ DeviceFails
  <2>1. /\ Exit /\ UNCHANGED <<applied, file, kept>>
    BY <1>5 DEF ApplyFails, WarpIncorrect, RegisterFails, DeviceFails
  <2> QED BY <1>1, <2>1, Constant DEF Exit
<1>6. CASE SetToken \/ SetURL \/ UseToken
  <2>1. CASE SetToken
    BY <1>1, <2>1 DEF SetToken, Data
  <2>2. CASE SetURL
    BY <1>1, <2>2 DEF SetURL, Data
  <2>3. CASE UseToken
    BY <1>1, <2>3 DEF UseToken
  <2> QED BY <1>6, <2>1, <2>2, <2>3
<1>7. CASE \/ WarpLoad \/ WarpVerify \/ Register \/ WarpTruncate \/ WarpWrite
           \/ WarpSaveFails \/ DeviceUp
  BY <1>7 DEF WarpLoad, WarpVerify, Register, WarpTruncate, WarpWrite,
              WarpSaveFails, DeviceUp
<1>8. CASE Signal
  BY <1>1, <1>8, Constant DEF Signal
<1>9. CASE Stamp
  BY <1>9 DEF Stamp, Data
<1>10. CASE Truncate
  BY <1>10, Files DEF Truncate
<1>11. CASE WriteFile \/ Kill
  BY <1>1, <1>11, Constant DEF WriteFile, Kill, Exit
<1>12. CASE UNCHANGED vars
  BY <1>12 DEF vars
<1> QED BY <1>2, <1>3, <1>4, <1>5, <1>6, <1>7, <1>8, <1>9, <1>10, <1>11, <1>12
        DEF Next, Running, Registering, Saving

LEMMA DomainStep == ASSUME IInv, [Next]_vars PROVE StopInv' /\ RestartInv'
<1> USE DEF IInv, StopInv, RestartInv, HasKept, Late, Loaded,
            mem, history, warpVars, quickVars
<1>1. Saved \in Data /\ now \in Nat /\ applied \in Nat /\ kept.token \in Domain
      /\ served[kept.token] \in Nat
  BY BoundsAssumption DEF TypeOK, Data, Domain, Saved
<1>2. CASE Tick \/ Start
  BY <1>1, <1>2, BoundsAssumption DEF Tick, Start, Saved
<1>3. CASE Load
  <2>1. ASSUME kept.token # 0 PROVE main = "wait" /\ file = Saved
    BY <1>3, <2>1 DEF Load, TypeOK
  <2>2. ASSUME kept.token # 0 PROVE file \notin Unreadable
    BY <1>1, <2>1, <2>2, Files DEF Unreadable
  <2> QED BY <1>3, <2>1, <2>2 DEF Load, Saved, Expired
<1>4. CASE Apply
  <2>1. kept.token # applied + 1
    BY <1>1, BoundsAssumption DEF GivenOut, Domain
  <2>2. served'[kept.token] = served[kept.token] /\ kept' = kept
    BY <1>1, <1>4, <2>1 DEF Apply, TypeOK
  <2> QED BY <1>4, <2>2 DEF Apply, Saved
<1>5. CASE ApplyFails \/ WarpIncorrect \/ RegisterFails \/ DeviceFails
  BY <1>5 DEF ApplyFails, WarpIncorrect, RegisterFails, DeviceFails, Exit,
              TypeOK, Saved
<1>6. CASE SetToken \/ SetURL \/ UseToken
  BY <1>6 DEF SetToken, SetURL, UseToken, Saved
<1>7. CASE \/ WarpLoad \/ WarpVerify \/ Register \/ WarpTruncate \/ WarpWrite
           \/ WarpSaveFails \/ DeviceUp
  BY <1>7 DEF WarpLoad, WarpVerify, Register, WarpTruncate, WarpWrite,
              WarpSaveFails, DeviceUp, Saved
<1>8. CASE Signal
  <2>1. CASE run = "serving"
    <3>1. served'[token] = now
      BY <1>8, <2>1 DEF Signal, ServingEnds, TypeOK
    <3> QED BY <1>8, <2>1, <3>1 DEF Signal, UsesItsToken
  <2>2. CASE run # "serving"
    BY <1>8, <2>2, Constant DEF Signal
  <2> QED BY <2>1, <2>2
<1>9. CASE Stamp
  <2>1. ASSUME kept.token # 0 PROVE buf' = Saved'
    BY <1>9, <2>1 DEF Stamp, Saved, TypeOK, Data
  <2>2. qd'.token = qd.token /\ qd'.url = qd.url
    BY <1>9 DEF Stamp, TypeOK, Data
  <2> QED BY <1>9, <2>1, <2>2 DEF Stamp
<1>10. CASE Truncate
  BY <1>10 DEF Truncate, Saved
<1>11. CASE WriteFile
  BY <1>11 DEF WriteFile, Exit, Saved
<1>12. CASE Kill
  BY <1>12, Constant DEF Kill, Exit
<1>13. CASE UNCHANGED vars
  BY <1>13 DEF vars, Saved
<1> QED BY <1>2, <1>3, <1>4, <1>5, <1>6, <1>7, <1>8, <1>9, <1>10, <1>11, <1>12, <1>13
        DEF Next, Running, Registering, Saving

\* The strengthening of the two invariants that every step preserves.
THEOREM Inductive == Spec => []IInv
<1>1. IInv /\ [Next]_vars => IInv'
  BY TypeStep, WarpStep, GivenOutStep, DomainStep DEF IInv
<1> QED BY InitInv, <1>1, PTL DEF Spec

\* The variables of Config.Run, of the signal handler and the two files keep
\* their types; what a start reads from a file is what a save wrote.
THEOREM TypeCorrect == Spec => []TypeOK
<1>1. IInv => TypeOK
  BY DEF IInv
<1> QED BY Inductive, <1>1, PTL

\* For every expiry time: a server stopped by a signal while it served and
\* started again in time serves the token and announces the URL it had.
THEOREM DomainSurvives == Spec => []DomainKept
<1>1. IInv => DomainKept
  <2> SUFFICES ASSUME IInv, run = "serving", kept.token # 0,
                      now <= served[kept.token] + Expiry
               PROVE  token = kept.token /\ qd.url = kept.url
    BY DEF DomainKept
  <2>1. ~Late
    BY BoundsAssumption DEF Late, IInv, TypeOK, Domain
  <2>2. main # "off"
    BY DEF IInv, TypeOK
  <2> QED BY <2>1, <2>2 DEF IInv, TypeOK, StopInv, RestartInv, Loaded, HasKept,
                            UsesItsToken
<1> QED BY Inductive, <1>1, PTL

\* Every server that finds its own WARP identity serves with a registered one,
\* and with the one on disk if there is one.
THEOREM WarpIdentityKept == Spec => []WarpKept
<1>1. IInv => WarpKept
  BY DEF IInv, TypeOK, WarpInv, WarpKept
<1> QED BY Inductive, <1>1, PTL
=============================================================================
