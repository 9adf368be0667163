----------------------------- MODULE UpdateReset -----------------------------
(***************************************************************************)
(* The Windows Update reset (internal/maintenance/maintenance_windows.go): *)
(* stop the update services one after the other, move their cache aside,   *)
(* start the services again.  Each stop and start is a call of             *)
(* ServiceControl; other programs go on using the services meanwhile.      *)
(***************************************************************************)
EXTENDS ServiceControl, Sequences, SequencesExt

CONSTANT StopOrder  \* the update services, in the order they are stopped

ASSUME OrderAssumption == StopOrder \in Seq(Service) /\ StopOrder # <<>>

VARIABLES
    reset,   \* where the reset is
    cache,   \* which of SoftwareDistribution and its .bak exist
    tried,   \* history: the services the reset tried to start
    outcome  \* what the last reset returned

resetVars == <<scVars, reset, cache, tried, outcome>>
own == <<reset, cache, tried, outcome>>

AtRest == [at |-> "idle", i |-> 0, failed |-> FALSE, stopFailed |-> FALSE]

StartOrder == Reverse(StopOrder)

ResetTypeOK ==
    /\ ScTypeOK
    /\ reset \in [at : {"idle", "stopping", "cleaning", "moving", "starting"},
                  i : 0..Len(StopOrder) + 1, failed : BOOLEAN, stopFailed : BOOLEAN]
    /\ cache \in SUBSET {"dir", "bak"}
    /\ tried \subseteq Service
    /\ outcome \in {"none", "ok", "error"}

ResetInit ==
    /\ ScInit
    /\ reset = AtRest
    /\ cache \in SUBSET {"dir", "bak"}
    /\ tried = {}
    /\ outcome = "none"

-----------------------------------------------------------------------------

\* The reset is between two calls.
Calls(op, s) == Invoke(op, s) /\ UNCHANGED own

Free == call.at = "idle" /\ reply.none

BeginReset ==
    /\ reset.at = "idle" /\ call.at = "idle"
    /\ reset' = [AtRest EXCEPT !.at = "stopping", !.i = 1]
    /\ reply' = NoReply
    /\ seen' = [s \in Service |-> NoState]
    /\ tried' = {} /\ outcome' = "none"
    /\ UNCHANGED <<svc, mode, call, expired, cache>>

StopNext ==
    /\ reset.at = "stopping" /\ Free
    /\ reset.i <= Len(StopOrder)
    /\ Calls("stop", StopOrder[reset.i])

\* A failed stop does not keep the others from being tried.
Stopped ==
    /\ reset.at = "stopping" /\ call.at = "idle" /\ ~reply.none
    /\ reset' = [reset EXCEPT !.i = @ + 1, !.failed = @ \/ ~reply.ok,
                              !.stopFailed = @ \/ ~reply.ok]
    /\ reply' = NoReply
    /\ UNCHANGED <<svc, mode, call, expired, seen, cache, tried, outcome>>

\* Mutant: the cache is moved although a service did not stop.
AllStoppedRegardless ==
    /\ reset.at = "stopping" /\ reset.i > Len(StopOrder) /\ Free
    /\ reset' = [reset EXCEPT !.at = "cleaning", !.i = 1]
    /\ UNCHANGED <<scVars, cache, tried, outcome>>

\* Mutant: a stop that failed ends the reset.
AllStoppedOrNothing ==
    /\ reset.at = "stopping" /\ reset.i > Len(StopOrder) /\ Free
    /\ reset' = IF reset.stopFailed THEN AtRest ELSE [reset EXCEPT !.at = "cleaning", !.i = 1]
    /\ outcome' = IF reset.stopFailed THEN "error" ELSE outcome
    /\ UNCHANGED <<scVars, cache, tried>>

\* The cache is moved only if every service stopped; both ways lead to the restart.
AllStopped ==
    /\ reset.at = "stopping" /\ reset.i > Len(StopOrder) /\ Free
    /\ reset' = [reset EXCEPT !.at = IF reset.stopFailed THEN "starting" ELSE "cleaning",
                              !.i = 1]
    /\ UNCHANGED <<scVars, cache, tried, outcome>>

\* os.RemoveAll of the old backup.  What it could not remove stays, and nothing is moved.
RemoveBackup ==
    /\ reset.at = "cleaning"
    /\ \/ /\ cache' = cache \ {"bak"}
          /\ reset' = [reset EXCEPT !.at = "moving"]
       \/ /\ "bak" \in cache
          /\ reset' = [reset EXCEPT !.at = "starting", !.failed = TRUE]
          /\ UNCHANGED cache
    /\ UNCHANGED <<scVars, tried, outcome>>

\* os.Stat and os.Rename; the cache may be absent, or in use.
MoveCache ==
    /\ reset.at = "moving"
    /\ \/ /\ cache' = IF "dir" \in cache THEN {"bak"} ELSE cache
          /\ reset' = [reset EXCEPT !.at = "starting"]
       \/ /\ reset' = [reset EXCEPT !.at = "starting", !.failed = TRUE]
          /\ UNCHANGED cache
    /\ UNCHANGED <<scVars, tried, outcome>>

StartNext ==
    /\ reset.at = "starting" /\ Free
    /\ reset.i <= Len(StartOrder)
    /\ Invoke("start", StartOrder[reset.i])
    /\ tried' = tried \cup {StartOrder[reset.i]}
    /\ UNCHANGED <<reset, cache, outcome>>

Started ==
    /\ reset.at = "starting" /\ call.at = "idle" /\ ~reply.none
    /\ reset' = [reset EXCEPT !.i = @ + 1, !.failed = @ \/ ~reply.ok]
    /\ reply' = NoReply
    /\ UNCHANGED <<svc, mode, call, expired, seen, cache, tried, outcome>>

EndReset ==
    /\ reset.at = "starting" /\ reset.i > Len(StartOrder) /\ Free
    /\ reset' = AtRest
    /\ outcome' = IF reset.failed THEN "error" ELSE "ok"
    /\ UNCHANGED <<scVars, cache, tried>>

\* A running update service creates the directory again.
Recreate ==
    /\ "dir" \notin cache
    /\ \E i \in DOMAIN StopOrder : svc[StopOrder[i]] = "Running"
    /\ cache' = cache \cup {"dir"}
    /\ UNCHANGED <<scVars, reset, tried, outcome>>

ResetStep == \/ BeginReset \/ StopNext \/ Stopped \/ AllStopped \/ RemoveBackup \/ MoveCache
             \/ StartNext \/ Started \/ EndReset
ServiceStep == CallStep /\ UNCHANGED own

ResetNext ==
    \/ ResetStep \/ ServiceStep \/ Recreate
    \/ (CallFails \/ DeadlinePasses) /\ UNCHANGED own
    \/ \E s \in Service : ServiceMoves(s) /\ UNCHANGED own

\* BeginReset is the user's choice; everything after it is the program's.
ResetFairness == CallFairness /\ WF_resetVars(ResetStep /\ reset.at # "idle")

ResetSpec == ResetInit /\ [][ResetNext]_resetVars /\ ResetFairness

-----------------------------------------------------------------------------
(* Properties.                                                             *)

\* The cache is moved only by a reset that has seen each of the services stopped, in
\* whichever way its calls ended.  (Another program may have started one again since.)
CacheMovedWhenStopped ==
    [][cache # {"bak"} /\ cache' = {"bak"} /\ "dir" \in cache
         => \A i \in DOMAIN StopOrder : seen[StopOrder[i]] = "Stopped"]_resetVars

\* A reset brings the services back whatever went wrong before: it has tried to start each
\* one when it returns, and it reports success only if it has seen each one running.
ServicesBroughtBack ==
    outcome # "none" =>
        /\ \A i \in DOMAIN StopOrder : StopOrder[i] \in tried
        /\ outcome = "ok" => \A i \in DOMAIN StopOrder : seen[StopOrder[i]] = "Running"
=============================================================================
