------------------------------ MODULE Commands ------------------------------
(***************************************************************************)
(* The path of a command from its front end to the operation behind it and  *)
(* back: the checks of ServeHTTP and of the handler or the command line,     *)
(* the server's mutation lock, admission as a background job, the            *)
(* application's locks, the best-effort restore point, the operation, its    *)
(* audit record and the answer.                                             *)
(*                                                                         *)
(* A behaviour is either a dashboard process that answers several requests  *)
(* at once or one command-line process.  Locks nest in one order:           *)
(* Server.mutationMu, App.mutationMu, App.mu.                               *)
(***************************************************************************)
EXTENDS Integers, FiniteSets, CommandTable

CONSTANTS Calls,          \* the requests in progress, or the command
          Main,           \* the one whose command and defects are arbitrary; the others are plain
          Others,         \* the commands the others may be
          MaxActiveJobs   \* background jobs admitted at once

VARIABLES front,      \* the process: a dashboard or a command line
          elevated,   \* it runs with administrator rights
          fresh,      \* its last restore point is less than an hour old
          calls,      \* calls[r]: how far r has come
          serverMu, appMu, restoreMu   \* who holds the locks: sets of at most one call

cmdVars == <<front, elevated, fresh, calls, serverMu, appMu, restoreMu>>

ASSUME CommandAssumption == /\ Main \in Calls /\ MaxActiveJobs \in Nat \ {0}
                           /\ Others \subseteq Dashboard

NoCall == [row |-> Plain, odd |-> "none", at |-> "idle", point |-> "none", work |-> "none",
           record |-> "none", answer |-> "none"]

Stage == {"idle", "gate", "check", "open", "admit", "server", "enter", "point", "creating", "work",
          "record", "finish", "ended"}

CommandsTypeOK ==
    /\ front \in {"dashboard", "cli"} /\ elevated \in BOOLEAN /\ fresh \in BOOLEAN
    /\ \A r \in Calls :
          /\ calls[r].row \in Dashboard \cup CommandLine \cup {Plain}
          /\ calls[r].at \in Stage
          /\ calls[r].point \in {"none", "off", "fresh", "made", "failed"}
          /\ calls[r].work \in {"none", "done", "part", "failed"}
          /\ calls[r].record \in {"none", "kept", "lost"}
          /\ calls[r].answer \in {"none", "accepted", "refused", "ok", "warned", "error"}
    /\ \A lock \in {serverMu, appMu, restoreMu} : lock \subseteq Calls /\ Cardinality(lock) <= 1

CommandsInit ==
    /\ front \in {"dashboard", "cli"}
    /\ elevated \in BOOLEAN
    /\ fresh = FALSE
    /\ calls = [r \in Calls |-> NoCall]
    /\ serverMu = {} /\ appMu = {} /\ restoreMu = {}

-----------------------------------------------------------------------------

\* What is odd about a request: one defect that someone on its way rejects, or a simulation.
Oddities(row) == {"none"} \cup row.gate \cup row.checks \cup row.refuses
                          \cup (IF row.dry THEN {"dry"} ELSE {})

Flawed(c) == \/ c.odd \in c.row.gate \cup c.row.checks \cup c.row.refuses
             \/ elevated /\ c.row.closed # "never"

Goes(r, stage) == calls' = [calls EXCEPT ![r].at = stage]

\* The deferred unlocks of withMutation, or of a job, and of the method of App.
Release(r) == /\ serverMu' = serverMu \ {r}
              /\ appMu' = appMu \ {r}
              /\ restoreMu' = IF calls[r].row.point = "created" THEN restoreMu \ {r} ELSE restoreMu

\* The answer, or the status of the job; every lock is released.
Answers(r, c, what) ==
    /\ calls' = [calls EXCEPT ![r] = [c EXCEPT !.at = "ended", !.answer = what]]
    /\ Release(r)

\* A request arrives, or the process starts with a command.
Arrive(r) ==
    /\ calls[r].at = "idle"
    /\ front = "cli" => r = Main
    /\ \E row \in (IF front = "cli" THEN CommandLine ELSE IF r = Main THEN Dashboard ELSE Others) :
          \E odd \in (IF r = Main THEN Oddities(row) ELSE {"none"}) :
              calls' = [calls EXCEPT ![r] = [NoCall EXCEPT !.row = row, !.odd = odd, !.at = "gate"]]
    /\ UNCHANGED <<front, elevated, fresh, serverMu, appMu, restoreMu>>

\* ServeHTTP, which a command line passes by.
Gate(r) ==
    LET c == calls[r] IN
    /\ c.at = "gate"
    /\ IF c.odd \in c.row.gate
       THEN Answers(r, c, "refused")
       ELSE Goes(r, "check") /\ UNCHANGED <<serverMu, appMu, restoreMu>>
    /\ UNCHANGED <<front, elevated, fresh>>

\* Mutant: a field that fails validation is reported, but the handler does not return.
CheckForgetting(r) ==
    LET c == calls[r]
        next == CASE c.row.via = "job" -> "admit" [] c.row.via = "direct" -> "server"
                  [] c.row.via \in {"read", "cli"} -> IF c.row.opens THEN "open" ELSE "enter"
    IN /\ c.at = "check"
       /\ IF c.odd \in c.row.checks \ {"field"} \/ (elevated /\ c.row.closed = "handler")
          THEN Answers(r, c, "refused")
          ELSE IF elevated /\ c.row.closed = "empty"
          THEN Answers(r, c, "warned")
          ELSE Goes(r, next) /\ UNCHANGED <<serverMu, appMu, restoreMu>>
       /\ UNCHANGED <<front, elevated, fresh>>

\* The handler or the command decodes and validates its input, before any lock or side effect.
Check(r) ==
    LET c == calls[r]
        next == CASE c.row.via = "job" -> "admit" [] c.row.via = "direct" -> "server"
                  [] c.row.via \in {"read", "cli"} -> IF c.row.opens THEN "open" ELSE "enter"
    IN /\ c.at = "check"
       /\ IF c.odd \in c.row.checks \/ (elevated /\ c.row.closed = "handler")
          THEN Answers(r, c, "refused")
          ELSE IF elevated /\ c.row.closed = "empty"
          THEN Answers(r, c, "warned")
          ELSE Goes(r, next) /\ UNCHANGED <<serverMu, appMu, restoreMu>>
       /\ UNCHANGED <<front, elevated, fresh>>

\* newApp of the command line: a malformed override or catalog ends the command.
OpenApp(r) ==
    LET c == calls[r] IN
    /\ c.at = "open"
    /\ \/ Goes(r, "enter") /\ UNCHANGED <<serverMu, appMu, restoreMu>>
       \/ Answers(r, c, "refused")
    /\ UNCHANGED <<front, elevated, fresh>>

ActiveJobs == {s \in Calls : calls[s].answer = "accepted"}

\* startJob and writeJobAdmission: a full queue rejects the request, a job is answered 202.
Admit(r) ==
    LET c == calls[r] IN
    /\ c.at = "admit"
    /\ IF Cardinality(ActiveJobs) >= MaxActiveJobs
       THEN Answers(r, c, "refused")
       ELSE /\ calls' = [calls EXCEPT ![r] = [c EXCEPT !.at = "server", !.answer = "accepted"]]
            /\ UNCHANGED <<serverMu, appMu, restoreMu>>
    /\ UNCHANGED <<front, elevated, fresh>>

\* withMutation, and the start of a job's goroutine.
LockServer(r) ==
    /\ calls[r].at = "server" /\ serverMu = {}
    /\ serverMu' = {r}
    /\ Goes(r, "enter")
    /\ UNCHANGED <<front, elevated, fresh, appMu, restoreMu>>

\* A method of App takes its lock and rejects what it cannot do before its first side effect.
Enter(r) ==
    LET c == calls[r] IN
    /\ c.at = "enter"
    /\ c.row.app => appMu = {}
    /\ IF c.odd \in c.row.refuses \/ (elevated /\ c.row.closed = "app")
       THEN Answers(r, c, "refused")
       ELSE /\ Goes(r, IF c.row.point = "none" \/ c.odd = "dry" THEN "work" ELSE "point")
            /\ appMu' = IF c.row.app THEN {r} ELSE appMu
            /\ UNCHANGED <<serverMu, restoreMu>>
    /\ UNCHANGED <<front, elevated, fresh>>

\* EnsureRestorePoint: nothing if restore points are disabled or unavailable or a fresh one
\* exists.
EnsureRestorePoint(r) ==
    LET c == calls[r]
        Skips(why) == calls' = [calls EXCEPT ![r] = [c EXCEPT !.at = "work", !.point = why]]
    IN /\ c.at = "point" /\ c.row.point = "ensured"
       /\ \/ Skips("off") /\ UNCHANGED restoreMu
          \/ restoreMu = {} /\ fresh /\ Skips("fresh") /\ UNCHANGED restoreMu
          \/ restoreMu = {} /\ ~fresh /\ Goes(r, "creating") /\ restoreMu' = {r}
       /\ UNCHANGED <<front, elevated, fresh, serverMu, appMu>>

\* Mutant: a failed creation returns with App.mu held.
RestorePointEndsHolding(r) ==
    LET c == calls[r] IN
    /\ c.at = "creating"
    /\ \E made \in BOOLEAN :
          /\ calls' = [calls EXCEPT ![r] = [c EXCEPT !.at = "work", !.point = IF made THEN "made" ELSE "failed"]]
          /\ fresh' = (fresh \/ made)
          /\ restoreMu' = IF made THEN {} ELSE restoreMu
    /\ UNCHANGED <<front, elevated, serverMu, appMu>>

\* The restore point exists or failed; either way the command goes on.
RestorePointEnds(r) ==
    LET c == calls[r] IN
    /\ c.at = "creating"
    /\ \E made \in BOOLEAN :
          /\ calls' = [calls EXCEPT ![r] = [c EXCEPT !.at = "work", !.point = IF made THEN "made" ELSE "failed"]]
          /\ fresh' = (fresh \/ made)
          /\ restoreMu' = {}
    /\ UNCHANGED <<front, elevated, serverMu, appMu>>

\* App.CreateRestorePoint holds App.mu as well until it has recorded the outcome.
LockRestorePoint(r) ==
    /\ calls[r].at = "point" /\ calls[r].row.point = "created" /\ restoreMu = {}
    /\ restoreMu' = {r}
    /\ Goes(r, "work")
    /\ UNCHANGED <<front, elevated, fresh, serverMu, appMu>>

\* The operation.  Elevated processes keep no audit log, and a simulation changes nothing.
Work(r) ==
    LET c == calls[r]
        next == IF c.row.records /\ ~elevated /\ c.odd # "dry" THEN "record" ELSE "finish"
    IN /\ c.at = "work"
       /\ \E end \in (IF c.odd = "dry" THEN {"done"} ELSE c.row.ends) :
             /\ calls' = [calls EXCEPT ![r] = [c EXCEPT !.at = next, !.work = end]]
             /\ fresh' = (fresh \/ (c.row.point = "created" /\ end = "done"))
       /\ UNCHANGED <<front, elevated, serverMu, appMu, restoreMu>>

\* The audit record of the outcome, which may fail to be written.
Record(r) ==
    /\ calls[r].at = "record"
    /\ \E kept \in {"kept", "lost"} :
          calls' = [calls EXCEPT ![r].at = "finish", ![r].record = kept]
    /\ UNCHANGED <<front, elevated, fresh, serverMu, appMu, restoreMu>>

\* Mutant: an installation whose record was lost is reported as a success.
ReportUnrecorded(c) == IF c.work = "failed" THEN "error" ELSE IF c.work = "part" THEN c.row.part ELSE "ok"

\* What the client or the job is told: a lost record is an error of its own.
Report(c) == IF c.work = "failed" \/ c.record = "lost" THEN "error"
             ELSE IF c.work = "part" THEN c.row.part ELSE "ok"

Finish(r) ==
    /\ calls[r].at = "finish"
    /\ Answers(r, calls[r], Report(calls[r]))
    /\ UNCHANGED <<front, elevated, fresh>>

\* An hour passes.
RestorePointAges == fresh /\ fresh' = FALSE
                    /\ UNCHANGED <<front, elevated, calls, serverMu, appMu, restoreMu>>

Proceed(r) == \/ Gate(r) \/ Check(r) \/ OpenApp(r) \/ Admit(r) \/ LockServer(r) \/ Enter(r)
              \/ EnsureRestorePoint(r) \/ RestorePointEnds(r) \/ LockRestorePoint(r)
              \/ Work(r) \/ Record(r) \/ Finish(r)

CommandsNext == RestorePointAges \/ \E r \in Calls : Arrive(r) \/ Proceed(r)

\* A goroutine that can go on does.  A call is made once, so no lock is contended for ever.
CommandsFairness == \A r \in Calls : WF_cmdVars(Proceed(r))

-----------------------------------------------------------------------------

\* A request that is flawed, or refused for any other reason, changes nothing: neither the
\* operation nor even a restore point is started for it (app.go:379-381 "Validation happens
\* before any safety or mutation side effect", 522-524; the handlers' early returns).
FlawedHarmless ==
    \A r \in Calls : Flawed(calls[r]) \/ calls[r].answer = "refused"
                        => calls[r].work = "none" /\ calls[r].point = "none"

\* An answer says what happened: ok only for an operation that succeeded and, where the
\* outcome has to be recorded, was recorded; a warning only for a partial result or none at
\* all; and what succeeded and lost no record is not reported as an error.
AnswersTruthful ==
    \A r \in Calls : calls[r].at = "ended" =>
        LET c == calls[r]
            mustRecord == c.row.records /\ ~elevated /\ c.odd # "dry"
        IN /\ c.answer \in {"refused", "ok", "warned", "error"}
           /\ c.answer = "ok" => c.work = "done" /\ (mustRecord => c.record = "kept")
           /\ c.answer = "warned" => c.work = "part" \/ (c.work = "none" /\ elevated)
           /\ c.work = "done" /\ c.record # "lost" => c.answer = "ok"

\* Every command is answered, and every admitted job ends: no lock is left behind on any of
\* the ways out, and none is taken in another order than the others take it.
CommandsEnd == \A r \in Calls : calls[r].at # "idle" ~> calls[r].at = "ended"
=============================================================================
