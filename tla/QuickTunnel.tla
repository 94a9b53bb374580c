---------------------------- MODULE QuickTunnel -----------------------------
(***************************************************************************)
(* The temporary domain of a server started with the token "quick": where  *)
(* it comes from (QuickData.Load, ApplyQuickURL and Config.Run in          *)
(* server/quick.go and server/config.go) and how it survives a restart     *)
(* (QuickData.Save, called by the signal handler of main.go while          *)
(* Config.Run may be at any step); and the WARP identity through which the *)
(* server may dial (server/warp.go), which is registered once and kept in  *)
(* a file of its own.                                                      *)
(*                                                                         *)
(* A domain is the number of the application that gave it; the token and   *)
(* the URL of an application are that number.  0 is the empty string.  A   *)
(* WARP identity (its addresses and keys) is the number of its             *)
(* registration, and 0 is an identity whose fields are empty.              *)
(***************************************************************************)
EXTENDS Naturals

CONSTANTS
    Expiry,      \* ten minutes
    MaxTime,     \* bound on the clock
    MaxDomains,  \* bound on the applications
    MaxWarps,    \* bound on the registrations at WARP
    Modes,       \* what a configuration may say of WARP
    NoFile,      \* there is no file
    Torn         \* the file was not written to its end

ASSUME BoundsAssumption ==
    /\ Expiry \in Nat \ {0} /\ MaxTime \in Nat
    /\ MaxDomains \in Nat \ {0} /\ MaxWarps \in Nat \ {0}
    /\ Modes \subseteq {"off", "auto", "manual"}

VARIABLES
    now,         \* the clock
    applied,     \* number of domains the service has given out
    file,        \* .quick.json: what it holds, NoFile or Torn
    run,         \* Config.Run: "off", "load", "apply", "token", "url",
                 \* "start", "warp", "register", "warpTruncate",
                 \* "warpWrite", "device" or "serving"
    main,        \* main: "off", "wait", "stamp", "truncate" or "write"
    buf,         \* the marshalled QuickData
    qd,          \* quickData: token, url and lastActive
    answer,      \* what ApplyQuickURL has returned
    token,       \* server.Token
    served,      \* when each domain was given out or its serving ended
    kept,        \* the token and URL served when the process stopped last, if
                 \* a signal stopped it while it served, otherwise Nothing
    mode,        \* server.Warp: "off", "auto" or "manual"
    registered,  \* number of identities WARP has given out
    warpFile,    \* .warp.json: an identity, NoFile or Torn
    warp         \* the identity in memory

mem      == <<buf, qd, answer, token>>
history  == <<served, kept>>
warpVars == <<mode, registered, warpFile, warp>>
vars     == <<now, applied, file, run, main, mem, history, warpVars>>

Empty    == [token |-> 0, url |-> 0, lastActive |-> 0]
Domain   == 0..MaxDomains
Data     == [token : Domain, url : Domain, lastActive : 0..MaxTime]
Nothing  == [token |-> 0, url |-> 0]
Identity == 1..MaxWarps

\* The identity a configuration without auto gives.
Configured == MaxWarps + 1

Unreadable == {NoFile, Torn}

\* What can be read is neither absent nor torn.
ASSUME FilesAssumption == Unreadable \cap (Data \cup Identity) = {}

\* Config.Run before it serves.
Starting == {"load", "apply", "token", "url", "start",
             "warp", "register", "warpTruncate", "warpWrite", "device"}

TypeOK ==
    /\ now \in 0..MaxTime
    /\ applied \in Domain
    /\ file \in Data \cup Unreadable
    /\ run \in Starting \cup {"off", "serving"}
    /\ main \in {"off", "wait", "stamp", "truncate", "write"}
    /\ (main = "off") => (run = "off")
    /\ buf \in Data /\ qd \in Data
    /\ answer \in Domain /\ token \in Domain
    /\ served \in [Domain -> 0..MaxTime]
    /\ kept \in [token : Domain, url : Domain]
    /\ mode \in {"off", "auto", "manual"}
    /\ registered \in 0..MaxWarps
    /\ warpFile \in Identity \cup Unreadable
    /\ warp \in 0..Configured

Init ==
    /\ now = 0 /\ applied = 0
    /\ file = NoFile
    /\ run = "off" /\ main = "off"
    /\ buf = Empty /\ qd = Empty
    /\ answer = 0 /\ token = 0
    /\ served = [d \in Domain |-> 0]
    /\ kept = Nothing
    /\ mode = "off" /\ registered = 0 /\ warpFile = NoFile /\ warp = 0

\* Only waiting takes time that counts: for a start, a signal or the service.
Tick ==
    /\ now < MaxTime
    /\ run \in {"off", "apply", "register", "serving"} /\ main \in {"off", "wait"}
    /\ now' = now + 1
    /\ UNCHANGED <<applied, file, run, main, mem, history, warpVars>>

-----------------------------------------------------------------------------
(* Config.Run *)

\* main starts Config.Run and waits for a signal.  The configuration may have
\* changed since the last start.
Start ==
    /\ main = "off"
    /\ main' = "wait" /\ run' = "load"
    /\ mode' \in Modes
    /\ UNCHANGED <<now, applied, file, mem, history, registered, warpFile, warp>>

Expired(d) == now > d.lastActive + Expiry

\* Faulty variant: a file that cannot be read ends the start.
LoadStuck ==
    /\ run = "load"
    /\ file \notin Unreadable
    /\ qd' = file
    /\ run' = IF Expired(file) THEN "apply" ELSE "start"
    /\ UNCHANGED <<now, applied, file, main, buf, answer, token, history, warpVars>>

\* Load: without a file, or with one that is no JSON, the data stay as they
\* are; otherwise they are overwritten before the time is looked at.  ReadFile,
\* Unmarshal and the look at the time are one step.
Load ==
    /\ run = "load"
    /\ IF file \in Unreadable
         THEN run' = "apply" /\ UNCHANGED qd
         ELSE qd' = file /\ run' = IF Expired(file) THEN "apply" ELSE "start"
    /\ UNCHANGED <<now, applied, file, main, buf, answer, token, history, warpVars>>

\* ApplyQuickURL: the service gives a new domain ...
Apply ==
    /\ run = "apply"
    /\ applied < MaxDomains
    /\ applied' = applied + 1
    /\ answer' = applied + 1
    /\ served' = [served EXCEPT ![applied + 1] = now]
    /\ run' = "token"
    /\ UNCHANGED <<now, file, main, buf, qd, token, kept, warpVars>>

\* The process ends, whatever main is doing, and its memory with it.
Exit ==
    /\ run' = "off" /\ main' = "off"
    /\ buf' = Empty /\ qd' = Empty /\ answer' = 0 /\ token' = 0
    /\ mode' = "off" /\ warp' = 0

\* ... or there is an error, and log.Fatalln ends the process.
ApplyFails ==
    /\ run = "apply"
    /\ Exit
    /\ UNCHANGED <<now, applied, file, history, registered, warpFile>>

\* quickData.Token and quickData.QuickURL are assigned one after the other.
SetToken ==
    /\ run = "token"
    /\ qd' = [qd EXCEPT !.token = answer]
    /\ run' = "url"
    /\ UNCHANGED <<now, applied, file, main, buf, answer, token, history, warpVars>>

SetURL ==
    /\ run = "url"
    /\ qd' = [qd EXCEPT !.url = answer]
    /\ run' = "start"
    /\ UNCHANGED <<now, applied, file, main, buf, answer, token, history, warpVars>>

\* server.Token = quickData.Token, and without WARP the connections of
\* EdgeTunnel start.
UseToken ==
    /\ run = "start"
    /\ token' = qd.token
    /\ run' = IF mode = "off" THEN "serving" ELSE "warp"
    /\ UNCHANGED <<now, applied, file, main, buf, qd, answer, history, warpVars>>

-----------------------------------------------------------------------------
(* Warp.Run *)

quickVars == <<now, applied, file, mem, history>>

\* Faulty variant: an identity is registered at every start.
WarpLoadNever ==
    /\ run = "warp" /\ mode = "auto"
    /\ run' = "register"
    /\ UNCHANGED <<main, quickVars, warpVars>>

\* load: only when the file cannot be read an identity is registered.  One that
\* is no JSON leaves the fields as they are, empty.  A file that exists is taken to
\* be readable: the code registers again on every error of ReadFile.
WarpLoad ==
    /\ run = "warp" /\ mode = "auto"
    /\ run' = IF warpFile = NoFile THEN "register" ELSE "device"
    /\ warp' = IF warpFile \in Identity THEN warpFile ELSE warp
    /\ UNCHANGED <<main, quickVars, mode, registered, warpFile>>

\* verify: the configuration has every parameter ...
WarpVerify ==
    /\ run = "warp" /\ mode = "manual"
    /\ run' = "device" /\ warp' = Configured
    /\ UNCHANGED <<main, quickVars, mode, registered, warpFile>>

\* ... or not.
WarpIncorrect ==
    /\ run = "warp" /\ mode = "manual"
    /\ Exit
    /\ UNCHANGED <<now, applied, file, history, registered, warpFile>>

\* apply: the service gives a new identity ...
Register ==
    /\ run = "register"
    /\ registered < MaxWarps
    /\ registered' = registered + 1
    /\ warp' = registered + 1
    /\ run' = "warpTruncate"
    /\ UNCHANGED <<main, quickVars, mode, warpFile>>

\* ... or there is an error, or an answer without an address.
RegisterFails ==
    /\ run = "register"
    /\ Exit
    /\ UNCHANGED <<now, applied, file, history, registered, warpFile>>

\* save: os.WriteFile truncates or creates the file ...
WarpTruncate ==
    /\ run = "warpTruncate"
    /\ warpFile' = Torn
    /\ run' = "warpWrite"
    /\ UNCHANGED <<main, quickVars, mode, registered, warp>>

\* ... and writes it.
WarpWrite ==
    /\ run = "warpWrite"
    /\ warpFile' = warp
    /\ run' = "device"
    /\ UNCHANGED <<main, quickVars, mode, registered, warp>>

\* An error at either step is logged, and the start goes on.
WarpSaveFails ==
    /\ run \in {"warpTruncate", "warpWrite"}
    /\ run' = "device"
    /\ UNCHANGED <<main, quickVars, warpVars>>

\* The device gets its addresses, keys and endpoint, and the connections of
\* EdgeTunnel start.
DeviceUp ==
    /\ run = "device" /\ warp # 0
    /\ run' = "serving"
    /\ UNCHANGED <<main, quickVars, warpVars>>

\* MustParseAddr panics on an address that is empty or wrong, and a device that
\* cannot be created is fatal.
DeviceFails ==
    /\ run = "device"
    /\ Exit
    /\ UNCHANGED <<now, applied, file, history, registered, warpFile>>

-----------------------------------------------------------------------------
(* The signal handler: Save, then return from main *)

ServingEnds ==
    served' = IF run = "serving" THEN [served EXCEPT ![token] = now] ELSE served

Signal ==
    /\ main = "wait"
    /\ main' = "stamp"
    /\ kept' = IF run = "serving" THEN [token |-> token, url |-> qd.url] ELSE Nothing
    /\ ServingEnds
    /\ UNCHANGED <<now, applied, file, run, mem, warpVars>>

\* Faulty variant: the time of the stop is not recorded.
StampForgotten ==
    /\ main = "stamp"
    /\ buf' = qd
    /\ main' = "truncate"
    /\ UNCHANGED <<now, applied, file, run, qd, answer, token, history, warpVars>>

\* Faulty variant: the file gets the time the domain expires.
StampDeadline ==
    /\ main = "stamp"
    /\ qd' = [qd EXCEPT !.lastActive = now + Expiry]
    /\ buf' = qd'
    /\ main' = "truncate"
    /\ UNCHANGED <<now, applied, file, run, answer, token, history, warpVars>>

\* qd.LastActive = time.Now(), and the data are marshalled.
Stamp ==
    /\ main = "stamp"
    /\ qd' = [qd EXCEPT !.lastActive = now]
    /\ buf' = qd'
    /\ main' = "truncate"
    /\ UNCHANGED <<now, applied, file, run, answer, token, history, warpVars>>

\* os.WriteFile truncates the file ...
Truncate ==
    /\ main = "truncate"
    /\ file' = Torn
    /\ main' = "write"
    /\ UNCHANGED <<now, applied, run, mem, history, warpVars>>

\* ... and writes it; then main returns.
WriteFile ==
    /\ main = "write"
    /\ file' = buf
    /\ Exit
    /\ UNCHANGED <<now, applied, history, registered, warpFile>>

\* The process is killed, the machine goes down, or the file cannot be written.
Kill ==
    /\ main # "off"
    /\ Exit
    /\ kept' = Nothing
    /\ ServingEnds
    /\ UNCHANGED <<now, applied, file, registered, warpFile>>

-----------------------------------------------------------------------------
Running ==
    \/ Load \/ Apply \/ ApplyFails \/ SetToken \/ SetURL \/ UseToken
    \/ WarpLoad \/ WarpVerify \/ WarpIncorrect
    \/ WarpTruncate \/ WarpWrite \/ WarpSaveFails \/ DeviceUp \/ DeviceFails
Saving  == Stamp \/ Truncate \/ WriteFile

Registering == Register \/ RegisterFails

Next == Tick \/ Start \/ Running \/ Registering \/ Signal \/ Saving \/ Kill

Spec == Init /\ [][Next]_vars

\* Goroutines run, and a request for a domain ends after httpTimeout at the
\* latest.  The one to WARP has no timeout, so nothing is assumed of it.
FairSpec == Spec /\ WF_vars(Running) /\ WF_vars(Saving)

-----------------------------------------------------------------------------
(* Properties *)

\* A server stopped by a signal while it served and started again within ten
\* minutes serves the domain it had and announces the URL it had, whatever the
\* handler and Config.Run did to the two fields (quick.go:43-74, config.go:49-57).
DomainKept ==
    (/\ run = "serving" /\ kept.token # 0
     /\ now <= served[kept.token] + Expiry)
        => /\ token = kept.token
           /\ qd.url = kept.url

\* A server told to find its own WARP identity never serves without one, and
\* once a registration is in the file it serves with that one, however the
\* starts before it ended (warp.go:40-61, 124-142).
WarpKept ==
    (run = "serving" /\ mode = "auto")
        => /\ warp \in 1..registered
           /\ (warpFile \in Identity) => (warp = warpFile)

\* However the two files were left behind, torn in the middle of a write
\* included, a start comes to serve or the process ends; only for the answer of
\* WARP it may wait for ever (config.go:49-65, warp.go:40-165).
StartEnds == (run \in Starting) ~> (run \in {"serving", "off", "register"})

\* README.md:39-40, "If the server stays offline for over 10 minutes, the domain
\* will expire and change upon restart": when a server comes to serve a domain
\* again, it has been offline for no longer than that.  The run has no WARP, since
\* a start may wait for WARP between loading the domain and serving it.
OfflineExpires ==
    [][run' = "serving" /\ run # "serving" /\ token' # 0
           => now <= served[token'] + Expiry]_vars
=============================================================================
