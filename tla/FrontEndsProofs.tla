--------------------------- MODULE FrontEndsProofs ---------------------------
(***************************************************************************)
(* Theorems about what stands between a user and the operations, for every *)
(* number of requests in progress, every limit on background jobs and      *)
(* every budget of the rate limiter: the state of a session is well typed, *)
(* a command that is flawed or refused changes nothing, and an answer says *)
(* what happened.                                                          *)
(***************************************************************************)
EXTENDS FrontEnds, RateLimiterProofs, SetTheorems

-----------------------------------------------------------------------------
(* The tables of the commands.                                               *)

\* What can be wrong with a request.
Defect == GateChecks \cup {"body", "field", "unknown", "irreversible", "unreadable", "undone",
                           "ambiguous"}

\* What a row of the tables can say.
Row == [via : {"read", "direct", "job", "cli"}, gate : SUBSET Defect, checks : SUBSET Defect,
        opens : BOOLEAN, closed : {"never", "empty", "handler", "app"}, app : BOOLEAN,
        refuses : SUBSET Defect, point : {"none", "ensured", "created"}, records : BOOLEAN,
        ends : SUBSET {"done", "part", "failed"}, part : {"error", "warned"}, dry : BOOLEAN]

\* The rows of the application service.
LEMMA ServiceRows ==
  {Plain, Change, AppApply, AppUndo, AppUndoEntry, AppInstallPackage, AppSearchPackages,
   AppCreateRestorePoint, AppListRestorePoints, AppRunMaintenance, AppScheduleMaintenance,
   AppUnscheduleMaintenance, AppHistory} \subseteq Row
<1>1. Plain \in Row
  BY DEF Plain, Row
<1>2. Change \in Row
  BY <1>1 DEF Change, Row
<1>3. AppApply \in Row /\ AppUndo \in Row /\ AppUndoEntry \in Row
  BY <1>2 DEF AppApply, AppUndo, AppUndoEntry, Row, Defect
<1>4. AppInstallPackage \in Row /\ AppCreateRestorePoint \in Row
  BY <1>2 DEF AppInstallPackage, AppCreateRestorePoint, Row
<1>5. AppSearchPackages \in Row /\ AppListRestorePoints \in Row /\ AppHistory \in Row
  BY <1>1 DEF AppSearchPackages, AppListRestorePoints, AppHistory, Row
<1>6. AppRunMaintenance \in Row /\ AppScheduleMaintenance \in Row /\ AppUnscheduleMaintenance \in Row
  BY <1>2 DEF AppRunMaintenance, AppScheduleMaintenance, AppUnscheduleMaintenance, Row
<1> QED  BY <1>1, <1>2, <1>3, <1>4, <1>5, <1>6

\* What the front ends make of a row.
LEMMA FrontRows ==
  \A row \in Row : /\ Get(row) \in Row /\ Post(row) \in Row /\ Direct(row) \in Row
                   /\ Job(row) \in Row /\ Opened(row) \in Row /\ Standalone(row) \in Row
<1> SUFFICES ASSUME NEW row \in Row
             PROVE  /\ Get(row) \in Row /\ Post(row) \in Row /\ Direct(row) \in Row
                    /\ Job(row) \in Row /\ Opened(row) \in Row /\ Standalone(row) \in Row
  OBVIOUS
<1>1. Get(row) \in Row /\ Opened(row) \in Row /\ Standalone(row) \in Row
  BY DEF Get, Opened, Standalone, Row, Defect, GateChecks
<1>2. Post(row) \in Row
  BY DEF Post, Row, Defect
<1>3. Direct(row) \in Row /\ Job(row) \in Row
  BY <1>2 DEF Direct, Job, Row
<1> QED  BY <1>1, <1>2, <1>3

\* Every command of either front end is such a row.
LEMMA RowsTyped == Dashboard \cup CommandLine \cup {Plain} \subseteq Row
<1>1. \A row \in Row : \A checks \in {{"body"}, {"field"}, {"body", "field"}} :
         [row EXCEPT !.checks = checks] \in Row
  BY DEF Row, Defect
<1>2. ASSUME NEW row \in Row
      PROVE  /\ [row EXCEPT !.point = "none"] \in Row
             /\ [row EXCEPT !.checks = {"body", "field"}, !.point = "none"] \in Row
             /\ [row EXCEPT !.checks = {"body"}, !.closed = "handler", !.point = "none"] \in Row
             /\ [row EXCEPT !.closed = "empty", !.part = "warned"] \in Row
             /\ [row EXCEPT !.ends = {"done", "part", "failed"}, !.part = "warned"] \in Row
             /\ [row EXCEPT !.checks = {"body"}, !.ends = {"done", "failed"}] \in Row
             /\ [row EXCEPT !.checks = {"body", "field"}, !.closed = "handler",
                            !.ends = {"done", "failed"}] \in Row
  <2>1. [row EXCEPT !.point = "none"] \in Row
    BY DEF Row
  <2>2. [row EXCEPT !.checks = {"body", "field"}, !.point = "none"] \in Row
    BY DEF Row, Defect
  <2>3. [row EXCEPT !.checks = {"body"}, !.closed = "handler", !.point = "none"] \in Row
    BY DEF Row, Defect
  <2>4. [row EXCEPT !.closed = "empty", !.part = "warned"] \in Row
    BY DEF Row
  <2>5. [row EXCEPT !.ends = {"done", "part", "failed"}, !.part = "warned"] \in Row
    BY DEF Row
  <2>6. [row EXCEPT !.checks = {"body"}, !.ends = {"done", "failed"}] \in Row
    BY DEF Row, Defect
  <2>7. [row EXCEPT !.checks = {"body", "field"}, !.closed = "handler",
                    !.ends = {"done", "failed"}] \in Row
    BY DEF Row, Defect
  <2> QED  BY <2>1, <2>2, <2>3, <2>4, <2>5, <2>6, <2>7
<1>4. {HandleStatus, HandleHealth, HandleBloatware, HandleListTweaks, HandleListPlugins,
       HandleListApps, HandleDnsPresets, HandleListRestorePoints, HandleScheduleMaintenance,
       HandleUnscheduleMaintenance, HandleResetWindowsUpdate, HandleRepairImage,
       HandleNetworkReset, HandleRunMaintenance} \subseteq Row
  BY ServiceRows, FrontRows
     DEF HandleStatus, HandleHealth, HandleBloatware, HandleListTweaks, HandleListPlugins,
         HandleListApps, HandleDnsPresets, HandleListRestorePoints, HandleScheduleMaintenance,
         HandleUnscheduleMaintenance, HandleResetWindowsUpdate, HandleRepairImage,
         HandleNetworkReset, HandleRunMaintenance
<1>5. {HandleJobStatus, HandleApplyTweak, HandleUndoTweak, HandleUndoEntry, HandleRestorePoint,
       HandleDnsApply, HandleInstall, FeatureHandler} \subseteq Row
  <2>1. {HandleJobStatus, HandleApplyTweak, HandleUndoTweak, HandleUndoEntry} \subseteq Row
    BY <1>1, ServiceRows, FrontRows
       DEF HandleJobStatus, HandleApplyTweak, HandleUndoTweak, HandleUndoEntry
  <2>2. {HandleRestorePoint, HandleDnsApply, HandleInstall, FeatureHandler} \subseteq Row
    BY <1>1, ServiceRows, FrontRows
       DEF HandleRestorePoint, HandleDnsApply, HandleInstall, FeatureHandler
  <2> QED  BY <2>1, <2>2
<1>6. {HandleHistory, HandleISOEditions, HandleUpdatesSearch, HandleFlushDNS, HandleISOBuild,
       HandleUpdatesInstall} \subseteq Row
  <2>1. Get(AppHistory) \in Row /\ Post(Plain) \in Row /\ Job(Change) \in Row
    BY ServiceRows, FrontRows
  <2>2. HandleHistory \in Row /\ HandleISOEditions \in Row /\ HandleUpdatesSearch \in Row
    BY <1>2, <2>1 DEF HandleHistory, HandleISOEditions, HandleUpdatesSearch
  <2>3. HandleFlushDNS \in Row /\ HandleISOBuild \in Row /\ HandleUpdatesInstall \in Row
    BY <1>2, <2>1 DEF HandleFlushDNS, HandleISOBuild, HandleUpdatesInstall
  <2> QED  BY <2>2, <2>3
<1>7. Dashboard \subseteq Row
  BY <1>4, <1>5, <1>6 DEF Dashboard
<1>8. {ListCmd, ScanCmd, PluginsCmd, HistoryCmd, ListRestorePointsCmd, RunMaintenanceCmd,
       ScheduleCmd, MaintenanceCmd} \subseteq Row
  BY ServiceRows, FrontRows
     DEF ListCmd, ScanCmd, PluginsCmd, HistoryCmd, ListRestorePointsCmd, RunMaintenanceCmd,
         ScheduleCmd, MaintenanceCmd
<1>9. {ApplyCmd, UndoCmd, InstallCmd, SearchCmd, RestorePointCmd, SetDnsCmd, FeatureCmd}
        \subseteq Row
  <2>1. {ApplyCmd, UndoCmd, InstallCmd, SearchCmd} \subseteq Row
    BY <1>1, ServiceRows, FrontRows DEF ApplyCmd, UndoCmd, InstallCmd, SearchCmd
  <2>2. {RestorePointCmd, SetDnsCmd, FeatureCmd} \subseteq Row
    BY <1>1, ServiceRows, FrontRows DEF RestorePointCmd, SetDnsCmd, FeatureCmd
  <2> QED  BY <2>1, <2>2
<1>10. {BuildIsoCmd, UpdatesCmd, InstallUpdatesCmd, FlushDnsCmd} \subseteq Row
  <2>1. Standalone(Plain) \in Row /\ Standalone(Change) \in Row
    BY ServiceRows, FrontRows
  <2> QED  BY <1>2, <2>1 DEF BuildIsoCmd, UpdatesCmd, InstallUpdatesCmd, FlushDnsCmd
<1>11. CommandLine \subseteq Row
  BY <1>8, <1>9, <1>10 DEF CommandLine
<1> QED  BY <1>7, <1>11, ServiceRows

-----------------------------------------------------------------------------
(* Commands: the inductive invariant.                                        *)

\* A request in progress.
Call == [row : Dashboard \cup CommandLine \cup {Plain}, odd : Defect \cup {"none", "dry"},
         at : Stage, point : {"none", "off", "fresh", "made", "failed"},
         work : {"none", "done", "part", "failed"}, record : {"none", "kept", "lost"},
         answer : {"none", "accepted", "refused", "ok", "warned", "error"}]

\* A request for which neither a restore point nor the operation was started.
Untouched(c) == c.work = "none" /\ c.point = "none"

\* The outcome of the request has to be recorded.
MustRecord(c) == c.row.records /\ ~elevated /\ c.odd # "dry"

\* Up to the lock of App nothing is changed, and whoever has passed a check has no defect that
\* the check looks for; so nothing that is flawed goes on to a restore point or the operation.
Checked(c) ==
    /\ c.at \in {"idle", "gate", "check", "open", "admit", "server", "enter"} => Untouched(c)
    /\ c.at \notin {"idle", "gate", "ended"} => c.odd \notin c.row.gate
    /\ c.at \notin {"idle", "gate", "check", "ended"} =>
          c.odd \notin c.row.checks /\ ~(elevated /\ c.row.closed \in {"handler", "empty"})
    /\ c.at \in {"point", "creating", "work", "record", "finish"} => ~Flawed(c)

\* Only the operation has an outcome and only its record is kept or lost; the last answer is
\* given at the end.
Accounted(c) ==
    /\ c.at \notin {"record", "finish", "ended"} => c.work = "none" /\ c.record = "none"
    /\ c.at = "record" => c.work # "none" /\ c.record = "none" /\ MustRecord(c)
    /\ c.at = "finish" => c.work # "none" /\ (MustRecord(c) <=> c.record # "none")
    /\ c.at # "ended" => c.answer \in {"none", "accepted"}

\* What FlawedHarmless and AnswersTruthful say of a command that has ended.
Settled(c) ==
    c.at = "ended" =>
        /\ Flawed(c) \/ c.answer = "refused" => Untouched(c)
        /\ c.answer \in {"refused", "ok", "warned", "error"}
        /\ c.answer = "ok" => c.work = "done" /\ (MustRecord(c) => c.record = "kept")
        /\ c.answer = "warned" => c.work = "part" \/ (c.work = "none" /\ elevated)
        /\ c.work = "done" /\ c.record # "lost" => c.answer = "ok"

\* A request that can be in progress or have ended.
Proper(c) == c \in Call /\ Checked(c) /\ Accounted(c) /\ Settled(c)

\* A lock is free or held by one request.
Lock == {{}} \cup {{r} : r \in Calls}

\* Every request is one of those, and every lock has at most one holder.
CommandsInv ==
    /\ front \in {"dashboard", "cli"} /\ elevated \in BOOLEAN /\ fresh \in BOOLEAN
    /\ serverMu \in Lock /\ appMu \in Lock /\ restoreMu \in Lock
    /\ DOMAIN calls = Calls /\ \A r \in Calls : Proper(calls[r])

-----------------------------------------------------------------------------
(* Commands: the steps.                                                      *)

\* Only what a step says of one request and of the locks has to be checked.
LEMMA OneCallMoves ==
  ASSUME CommandsInv, NEW r \in Calls, NEW d, Proper(d), calls' = [calls EXCEPT ![r] = d],
         UNCHANGED <<front, elevated>>, fresh' \in BOOLEAN,
         serverMu' \in Lock, appMu' \in Lock, restoreMu' \in Lock
  PROVE  CommandsInv'
<1>1. DOMAIN calls' = Calls /\ calls'[r] = d /\ \A q \in Calls \ {r} : calls'[q] = calls[q]
  BY DEF CommandsInv
<1>2. ASSUME NEW q \in Calls PROVE Proper(calls[q])'
  <2>1. PICK c : c = calls'[q]
    OBVIOUS
  <2>2. Proper(c)
    BY <1>1, <2>1 DEF CommandsInv
  <2>3. Checked(calls[q])' /\ Accounted(calls[q])' /\ Settled(calls[q])'
    BY <2>1, <2>2 DEF Proper, Checked, Accounted, Settled, Flawed, Untouched, MustRecord
  <2> QED  BY <2>1, <2>2, <2>3 DEF Proper
<1> QED  BY <1>1, <1>2 DEF CommandsInv, Lock

\* Releasing the locks leaves them free or held by one request.
LEMMA LocksReleased ==
  ASSUME CommandsInv, NEW r \in Calls, Release(r)
  PROVE  serverMu' \in Lock /\ appMu' \in Lock /\ restoreMu' \in Lock
<1>1. \A lock \in Lock : lock \ {r} \in Lock
  BY DEF Lock
<1> QED  BY <1>1 DEF Release, CommandsInv

\* A request arrives.
LEMMA ArriveOK ==
  ASSUME CommandsInv, NEW r \in Calls, Arrive(r)
  PROVE  CommandsInv'
<1>1. calls[r].at = "idle" /\ UNCHANGED <<front, elevated, fresh, serverMu, appMu, restoreMu>>
  BY DEF Arrive
<1>7. PICK row \in Dashboard \cup CommandLine :
        \E odd \in Oddities(row) :
           calls' = [calls EXCEPT ![r] = [NoCall EXCEPT !.row = row, !.odd = odd, !.at = "gate"]]
  BY CommandAssumption DEF Arrive, Oddities
<1>2. PICK odd \in Oddities(row) :
        calls' = [calls EXCEPT ![r] = [NoCall EXCEPT !.row = row, !.odd = odd, !.at = "gate"]]
  BY <1>7
<1>3. PICK d : d = [NoCall EXCEPT !.row = row, !.odd = odd, !.at = "gate"]
  OBVIOUS
<1>4. d = [row |-> row, odd |-> odd, at |-> "gate", point |-> "none", work |-> "none",
           record |-> "none", answer |-> "none"]
  BY <1>3 DEF NoCall
<1>5. d \in Call
  <2>1. row \in Row
    BY RowsTyped
  <2>2. odd \in Defect \cup {"none", "dry"}
    BY <2>1 DEF Oddities, Row
  <2> QED  BY <1>4, <2>2 DEF Call, Stage
<1>6. Proper(d)
  BY <1>4, <1>5 DEF Proper, Checked, Accounted, Settled, Untouched
<1> QED  BY <1>1, <1>2, <1>3, <1>6, OneCallMoves DEF CommandsInv

\* A request that goes on keeps everything but its stage.
LEMMA Advanced ==
  ASSUME NEW c \in Call, NEW stage \in Stage, NEW d, d = [c EXCEPT !.at = stage]
  PROVE  /\ d \in Call /\ d.at = stage /\ d.row = c.row /\ d.odd = c.odd /\ d.point = c.point
         /\ d.work = c.work /\ d.record = c.record /\ d.answer = c.answer
BY DEF Call

\* A request that is answered keeps everything but its stage and its answer.
LEMMA Answered ==
  ASSUME NEW c \in Call, NEW what \in {"refused", "ok", "warned", "error"}, NEW d,
         d = [c EXCEPT !.at = "ended", !.answer = what]
  PROVE  /\ d \in Call /\ d.at = "ended" /\ d.row = c.row /\ d.odd = c.odd /\ d.point = c.point
         /\ d.work = c.work /\ d.record = c.record /\ d.answer = what
BY ZenonT(40) DEF Call, Stage

\* A request without effect may go on to a stage before the lock of App.
LEMMA GoesOn ==
  ASSUME CommandsInv, NEW r \in Calls, NEW stage \in Stage, Goes(r, stage),
         NEW d, d = [calls[r] EXCEPT !.at = stage], Checked(d), Accounted(d),
         stage # "ended",
         UNCHANGED <<front, elevated>>, fresh' \in BOOLEAN,
         serverMu' \in Lock, appMu' \in Lock, restoreMu' \in Lock
  PROVE  CommandsInv'
<1>1. calls' = [calls EXCEPT ![r] = d]
  BY DEF Goes, CommandsInv
<1>2. d \in Call /\ d.at = stage
  BY Advanced DEF CommandsInv, Proper
<1>3. Proper(d)
  BY <1>2 DEF Proper, Settled
<1> QED  BY <1>1, <1>3, OneCallMoves

\* A request may be refused, or answered with a warning where the command is closed, as long as
\* it has changed nothing.
LEMMA TurnedAway ==
  ASSUME CommandsInv, NEW r \in Calls, NEW what \in {"refused", "warned"},
         Answers(r, calls[r], what), Untouched(calls[r]), calls[r].record = "none",
         what = "warned" => elevated, UNCHANGED <<front, elevated, fresh>>
  PROVE  CommandsInv'
<1>1. PICK d : d = [calls[r] EXCEPT !.at = "ended", !.answer = what]
  OBVIOUS
<1>2. calls[r] \in Call /\ calls' = [calls EXCEPT ![r] = d] /\ Release(r)
  BY <1>1 DEF CommandsInv, Proper, Answers
<1>3. /\ d \in Call /\ d.at = "ended" /\ d.point = "none" /\ d.work = "none"
      /\ d.record = "none" /\ d.answer = what
  <2>1. what \in {"refused", "ok", "warned", "error"}
    OBVIOUS
  <2>2. /\ d \in Call /\ d.at = "ended" /\ d.point = calls[r].point
        /\ d.work = calls[r].work /\ d.record = calls[r].record /\ d.answer = what
    BY <1>1, <1>2, <2>1 DEF Call, Stage
  <2> QED  BY <2>2 DEF Untouched
<1>4. Proper(d)
  BY <1>3 DEF Proper, Checked, Accounted, Settled, Untouched
<1>5. serverMu' \in Lock /\ appMu' \in Lock /\ restoreMu' \in Lock
  BY <1>2, LocksReleased
<1> QED  BY <1>2, <1>4, <1>5, OneCallMoves DEF CommandsInv

\* The checks of ServeHTTP.
LEMMA GateOK == ASSUME CommandsInv, NEW r \in Calls, Gate(r) PROVE CommandsInv'
<1>1. PICK c : c = calls[r]
  OBVIOUS
<1>2. /\ c.at = "gate" /\ UNCHANGED <<front, elevated, fresh>>
      /\ \/ Answers(r, c, "refused")
         \/ c.odd \notin c.row.gate /\ Goes(r, "check") /\ UNCHANGED <<serverMu, appMu, restoreMu>>
  BY <1>1 DEF Gate
<1>3. c \in Call /\ Untouched(c) /\ c.record = "none" /\ c.answer \in {"none", "accepted"}
  BY <1>1, <1>2 DEF CommandsInv, Proper, Checked, Accounted
<1>4. CASE Answers(r, c, "refused")
  BY <1>1, <1>2, <1>3, <1>4, TurnedAway
<1>5. CASE /\ c.odd \notin c.row.gate /\ Goes(r, "check") /\ UNCHANGED <<serverMu, appMu, restoreMu>>
  <2>1. PICK d : d = [c EXCEPT !.at = "check"]
    OBVIOUS
  <2>2. /\ d.at = "check" /\ d.row = c.row /\ d.odd = c.odd /\ d.point = c.point
        /\ d.work = c.work /\ d.record = c.record /\ d.answer = c.answer
    BY <1>3, <2>1, Advanced DEF Stage
  <2>3. Checked(d) /\ Accounted(d)
    BY <1>3, <1>5, <2>2 DEF Checked, Accounted, Untouched
  <2> QED  BY <1>1, <1>2, <1>5, <2>1, <2>3, GoesOn DEF Stage, CommandsInv
<1> QED  BY <1>2, <1>4, <1>5

\* The checks of the handler or the command line.
LEMMA CheckOK == ASSUME CommandsInv, NEW r \in Calls, Check(r) PROVE CommandsInv'
<1>1. PICK c : c = calls[r]
  OBVIOUS
<1>2. PICK next \in {"admit", "server", "open", "enter"} :
        /\ c.at = "check" /\ UNCHANGED <<front, elevated, fresh>>
        /\ \/ Answers(r, c, "refused")
           \/ elevated /\ Answers(r, c, "warned")
           \/ /\ c.odd \notin c.row.checks /\ ~(elevated /\ c.row.closed \in {"handler", "empty"})
              /\ Goes(r, next) /\ UNCHANGED <<serverMu, appMu, restoreMu>>
  <2>1. c.row \in Row
    BY <1>1, RowsTyped DEF CommandsInv, Proper, Call
  <2>2. c.row.via \in {"read", "direct", "job", "cli"}
    BY <2>1 DEF Row
  <2>3. PICK next : next = CASE c.row.via = "job" -> "admit" [] c.row.via = "direct" -> "server"
                             [] c.row.via \in {"read", "cli"} ->
                                  IF c.row.opens THEN "open" ELSE "enter"
    OBVIOUS
  <2>4. next \in {"admit", "server", "open", "enter"}
    BY <2>2, <2>3
  <2>5. /\ c.at = "check" /\ UNCHANGED <<front, elevated, fresh>>
        /\ IF c.odd \in c.row.checks \/ (elevated /\ c.row.closed = "handler")
           THEN Answers(r, c, "refused")
           ELSE IF elevated /\ c.row.closed = "empty"
           THEN Answers(r, c, "warned")
           ELSE Goes(r, next) /\ UNCHANGED <<serverMu, appMu, restoreMu>>
    BY <1>1, <2>3 DEF Check
  <2> QED  BY <2>4, <2>5
<1>3. /\ c \in Call /\ Untouched(c) /\ c.record = "none" /\ c.answer \in {"none", "accepted"}
      /\ c.odd \notin c.row.gate
  BY <1>1, <1>2 DEF CommandsInv, Proper, Checked, Accounted
<1>4. CASE Answers(r, c, "refused")
  BY <1>1, <1>2, <1>3, <1>4, TurnedAway
<1>5. CASE elevated /\ Answers(r, c, "warned")
  BY <1>1, <1>2, <1>3, <1>5, TurnedAway
<1>6. CASE /\ c.odd \notin c.row.checks /\ ~(elevated /\ c.row.closed \in {"handler", "empty"})
           /\ Goes(r, next) /\ UNCHANGED <<serverMu, appMu, restoreMu>>
  <2>1. PICK d : d = [c EXCEPT !.at = next]
    OBVIOUS
  <2>2. /\ d.at = next /\ d.row = c.row /\ d.odd = c.odd /\ d.point = c.point
        /\ d.work = c.work /\ d.record = c.record /\ d.answer = c.answer
    BY <1>3, <2>1, Advanced DEF Stage
  <2>3. Checked(d) /\ Accounted(d)
    BY <1>3, <1>6, <2>2 DEF Checked, Accounted, Untouched
  <2> QED  BY <1>1, <1>2, <1>6, <2>1, <2>3, GoesOn DEF Stage, CommandsInv
<1> QED  BY <1>2, <1>4, <1>5, <1>6

\* The application is built for a command of the command line.
LEMMA OpenAppOK == ASSUME CommandsInv, NEW r \in Calls, OpenApp(r) PROVE CommandsInv'
<1>1. PICK c : c = calls[r]
  OBVIOUS
<1>2. /\ c.at = "open" /\ UNCHANGED <<front, elevated, fresh>>
      /\ \/ Goes(r, "enter") /\ UNCHANGED <<serverMu, appMu, restoreMu>>
         \/ Answers(r, c, "refused")
  BY <1>1 DEF OpenApp
<1>3. /\ c \in Call /\ Untouched(c) /\ c.record = "none" /\ c.answer \in {"none", "accepted"}
      /\ c.odd \notin c.row.gate /\ c.odd \notin c.row.checks
      /\ c.work = "none" /\ c.point = "none"
      /\ ~(elevated /\ c.row.closed \in {"handler", "empty"})
  BY <1>1, <1>2 DEF CommandsInv, Proper, Checked, Accounted, Untouched
<1>4. CASE Answers(r, c, "refused")
  BY <1>1, <1>2, <1>3, <1>4, TurnedAway
<1>5. CASE Goes(r, "enter") /\ UNCHANGED <<serverMu, appMu, restoreMu>>
  <2>1. PICK d : d = [c EXCEPT !.at = "enter"]
    OBVIOUS
  <2>2. /\ d.at = "enter" /\ d.row = c.row /\ d.odd = c.odd /\ d.point = c.point
        /\ d.work = c.work /\ d.record = c.record /\ d.answer = c.answer
    BY <1>3, <2>1, Advanced DEF Stage
  <2>3. Checked(d) /\ Accounted(d)
    BY <1>3, <2>2 DEF Checked, Accounted, Untouched
  <2> QED  BY <1>1, <1>2, <1>5, <2>1, <2>3, GoesOn DEF Stage, CommandsInv
<1> QED  BY <1>2, <1>4, <1>5

\* A job is admitted, or the queue is full.
LEMMA AdmitOK == ASSUME CommandsInv, NEW r \in Calls, Admit(r) PROVE CommandsInv'
<1>1. PICK c : c = calls[r]
  OBVIOUS
<1>2. PICK d : d = [c EXCEPT !.at = "server", !.answer = "accepted"]
  OBVIOUS
<1>3. /\ c.at = "admit" /\ UNCHANGED <<front, elevated, fresh>>
      /\ \/ calls' = [calls EXCEPT ![r] = d] /\ UNCHANGED <<serverMu, appMu, restoreMu>>
         \/ Answers(r, c, "refused")
  BY <1>1, <1>2 DEF Admit
<1>4. /\ c \in Call /\ Untouched(c) /\ c.record = "none"
      /\ c.odd \notin c.row.gate /\ c.odd \notin c.row.checks
      /\ c.work = "none" /\ c.point = "none"
      /\ ~(elevated /\ c.row.closed \in {"handler", "empty"})
  BY <1>1, <1>3 DEF CommandsInv, Proper, Checked, Accounted, Untouched
<1>5. CASE Answers(r, c, "refused")
  BY <1>1, <1>3, <1>4, <1>5, TurnedAway
<1>6. CASE calls' = [calls EXCEPT ![r] = d] /\ UNCHANGED <<serverMu, appMu, restoreMu>>
  <2>1. /\ d \in Call /\ d.at = "server" /\ d.row = c.row /\ d.odd = c.odd
        /\ d.point = "none" /\ d.work = "none" /\ d.record = "none" /\ d.answer = "accepted"
    BY <1>2, <1>4 DEF Call, Stage
  <2>2. Proper(d)
    BY <1>4, <2>1 DEF Proper, Checked, Accounted, Settled, Untouched
  <2> QED  BY <1>3, <1>6, <2>2, OneCallMoves DEF CommandsInv
<1> QED  BY <1>3, <1>5, <1>6

\* The server's mutation lock is taken.
LEMMA LockServerOK == ASSUME CommandsInv, NEW r \in Calls, LockServer(r) PROVE CommandsInv'
<1>1. PICK c, d : c = calls[r] /\ d = [c EXCEPT !.at = "enter"]
  OBVIOUS
<1>2. /\ c.at = "server" /\ serverMu' = {r} /\ Goes(r, "enter")
      /\ UNCHANGED <<front, elevated, fresh, appMu, restoreMu>>
  BY <1>1 DEF LockServer
<1>3. /\ c \in Call /\ Untouched(c) /\ c.record = "none" /\ c.answer \in {"none", "accepted"}
      /\ c.odd \notin c.row.gate /\ c.odd \notin c.row.checks
      /\ c.work = "none" /\ c.point = "none"
      /\ ~(elevated /\ c.row.closed \in {"handler", "empty"})
  BY <1>1, <1>2 DEF CommandsInv, Proper, Checked, Accounted, Untouched
<1>4. /\ d.at = "enter" /\ d.row = c.row /\ d.odd = c.odd /\ d.point = c.point
      /\ d.work = c.work /\ d.record = c.record /\ d.answer = c.answer
  BY <1>1, <1>3, Advanced DEF Stage
<1>5. Checked(d) /\ Accounted(d)
  BY <1>3, <1>4 DEF Checked, Accounted, Untouched
<1>6. serverMu' \in Lock
  BY <1>2 DEF Lock
<1> QED  BY <1>1, <1>2, <1>5, <1>6, GoesOn DEF Stage, CommandsInv

\* A method of App takes its lock, or rejects the command.
LEMMA EnterOK == ASSUME CommandsInv, NEW r \in Calls, Enter(r) PROVE CommandsInv'
<1>1. PICK c : c = calls[r]
  OBVIOUS
<1>2. PICK next \in {"work", "point"} :
        /\ c.at = "enter" /\ UNCHANGED <<front, elevated, fresh>>
        /\ \/ Answers(r, c, "refused")
           \/ /\ c.odd \notin c.row.refuses /\ ~(elevated /\ c.row.closed = "app")
              /\ Goes(r, next) /\ appMu' \in {{r}, appMu} /\ UNCHANGED <<serverMu, restoreMu>>
  BY <1>1 DEF Enter
<1>3. /\ c \in Call /\ Untouched(c) /\ c.record = "none" /\ c.answer \in {"none", "accepted"}
      /\ c.odd \notin c.row.gate /\ c.odd \notin c.row.checks
      /\ c.work = "none" /\ c.point = "none"
      /\ ~(elevated /\ c.row.closed \in {"handler", "empty"})
  BY <1>1, <1>2 DEF CommandsInv, Proper, Checked, Accounted, Untouched
<1>4. CASE Answers(r, c, "refused")
  BY <1>1, <1>2, <1>3, <1>4, TurnedAway
<1>5. CASE /\ c.odd \notin c.row.refuses /\ ~(elevated /\ c.row.closed = "app")
           /\ Goes(r, next) /\ appMu' \in {{r}, appMu} /\ UNCHANGED <<serverMu, restoreMu>>
  <2>1. PICK d : d = [c EXCEPT !.at = next]
    OBVIOUS
  <2>2. /\ d.at = next /\ d.row = c.row /\ d.odd = c.odd /\ d.point = c.point
        /\ d.work = c.work /\ d.record = c.record /\ d.answer = c.answer
    BY <1>3, <2>1, Advanced DEF Stage
  <2>3. c.row.closed \in {"never", "empty", "handler", "app"}
    <3>1. c.row \in Row
      BY <1>3, RowsTyped DEF Call
    <3> QED  BY <3>1 DEF Row
  <2>4. ~Flawed(d)
    BY <1>3, <1>5, <2>2, <2>3 DEF Flawed
  <2>5. Checked(d) /\ Accounted(d)
    BY <1>3, <2>2, <2>4 DEF Checked, Accounted, Untouched
  <2>6. appMu' \in Lock
    BY <1>5 DEF Lock, CommandsInv
  <2> QED  BY <1>1, <1>2, <1>5, <2>1, <2>5, <2>6, GoesOn DEF Stage, CommandsInv
<1> QED  BY <1>2, <1>4, <1>5

\* EnsureRestorePoint, which only a command does that has no defect left.
LEMMA EnsureOK == ASSUME CommandsInv, NEW r \in Calls, EnsureRestorePoint(r) PROVE CommandsInv'
<1>1. PICK c : c = calls[r]
  OBVIOUS
<1>2. /\ c.at = "point" /\ UNCHANGED <<front, elevated, fresh, serverMu, appMu>>
      /\ \/ \E why \in {"off", "fresh"} :
               /\ calls' = [calls EXCEPT ![r] = [c EXCEPT !.at = "work", !.point = why]]
               /\ UNCHANGED restoreMu
         \/ Goes(r, "creating") /\ restoreMu' = {r}
  BY <1>1 DEF EnsureRestorePoint
<1>3. c \in Call /\ Checked(c) /\ Accounted(c)
  BY <1>1 DEF CommandsInv, Proper
<1>4. ASSUME NEW why \in {"off", "fresh"}, UNCHANGED restoreMu,
             calls' = [calls EXCEPT ![r] = [c EXCEPT !.at = "work", !.point = why]]
      PROVE  CommandsInv'
  <2>1. PICK d : d = [c EXCEPT !.at = "work", !.point = why]
    OBVIOUS
  <2>2. /\ d \in Call /\ d.at = "work" /\ d.row = c.row /\ d.odd = c.odd
        /\ d.work = c.work /\ d.record = c.record /\ d.answer = c.answer
    BY <1>3, <2>1 DEF Call, Stage
  <2>3. Proper(d)
    BY <1>2, <1>3, <2>2 DEF Proper, Checked, Accounted, Settled, Flawed
  <2> QED  BY <1>2, <1>4, <2>1, <2>3, OneCallMoves DEF CommandsInv
<1>5. CASE Goes(r, "creating") /\ restoreMu' = {r}
  <2>1. PICK d : d = [c EXCEPT !.at = "creating"]
    OBVIOUS
  <2>2. /\ d.at = "creating" /\ d.row = c.row /\ d.odd = c.odd /\ d.point = c.point
        /\ d.work = c.work /\ d.record = c.record /\ d.answer = c.answer
    BY <1>3, <2>1, Advanced DEF Stage
  <2>3. Checked(d) /\ Accounted(d)
    BY <1>2, <1>3, <2>2 DEF Checked, Accounted, Flawed
  <2>4. restoreMu' \in Lock
    BY <1>5 DEF Lock
  <2> QED  BY <1>1, <1>2, <1>5, <2>1, <2>3, <2>4, GoesOn DEF Stage, CommandsInv
<1> QED  BY <1>2, <1>4, <1>5

\* The restore point exists or failed.
LEMMA RestorePointOK == ASSUME CommandsInv, NEW r \in Calls, RestorePointEnds(r) PROVE CommandsInv'
<1>1. PICK c : c = calls[r]
  OBVIOUS
<1>2. PICK made \in BOOLEAN :
        /\ c.at = "creating" /\ restoreMu' = {} /\ fresh' = (fresh \/ made)
        /\ calls' = [calls EXCEPT ![r] =
                       [c EXCEPT !.at = "work", !.point = IF made THEN "made" ELSE "failed"]]
        /\ UNCHANGED <<front, elevated, serverMu, appMu>>
  BY <1>1 DEF RestorePointEnds
<1>3. c \in Call /\ Checked(c) /\ Accounted(c)
  BY <1>1 DEF CommandsInv, Proper
<1>4. PICK how, d : /\ how = IF made THEN "made" ELSE "failed"
                    /\ d = [c EXCEPT !.at = "work", !.point = how]
  OBVIOUS
<1>8. how \in {"made", "failed"}
  BY <1>4
<1>5. /\ d \in Call /\ d.at = "work" /\ d.row = c.row /\ d.odd = c.odd
      /\ d.work = c.work /\ d.record = c.record /\ d.answer = c.answer
  <2>1. "work" \in Stage
    BY DEF Stage
  <2>2. d \in Call
    BY <1>3, <1>4, <1>8, <2>1 DEF Call
  <2> QED  BY <1>3, <1>4, <2>2 DEF Call
<1>6. Proper(d)
  BY <1>2, <1>3, <1>5 DEF Proper, Checked, Accounted, Settled, Flawed
<1>7. restoreMu' \in Lock /\ fresh' \in BOOLEAN
  BY <1>2 DEF Lock
<1> QED  BY <1>2, <1>4, <1>6, <1>7, OneCallMoves DEF CommandsInv

\* CreateRestorePoint takes the second lock.
LEMMA LockRestoreOK == ASSUME CommandsInv, NEW r \in Calls, LockRestorePoint(r) PROVE CommandsInv'
<1>1. PICK c, d : c = calls[r] /\ d = [c EXCEPT !.at = "work"]
  OBVIOUS
<1>2. /\ c.at = "point" /\ restoreMu' = {r} /\ Goes(r, "work")
      /\ UNCHANGED <<front, elevated, fresh, serverMu, appMu>>
  BY <1>1 DEF LockRestorePoint
<1>3. c \in Call /\ Checked(c) /\ Accounted(c)
  BY <1>1 DEF CommandsInv, Proper
<1>4. /\ d.at = "work" /\ d.row = c.row /\ d.odd = c.odd /\ d.point = c.point
      /\ d.work = c.work /\ d.record = c.record /\ d.answer = c.answer
  BY <1>1, <1>3, Advanced DEF Stage
<1>5. Checked(d) /\ Accounted(d)
  BY <1>2, <1>3, <1>4 DEF Checked, Accounted, Flawed
<1>6. restoreMu' \in Lock
  BY <1>2 DEF Lock
<1> QED  BY <1>1, <1>2, <1>5, <1>6, GoesOn DEF Stage, CommandsInv

\* The operation ends.
LEMMA WorkOK == ASSUME CommandsInv, NEW r \in Calls, Work(r) PROVE CommandsInv'
<1>1. PICK c : c = calls[r]
  OBVIOUS
<1>2. c \in Call /\ Checked(c) /\ Accounted(c) /\ c.row \in Row
  BY <1>1, RowsTyped DEF CommandsInv, Proper, Call
<1>3. c.row.ends \subseteq {"done", "part", "failed"} /\ c.row.records \in BOOLEAN
  BY <1>2 DEF Row
<1>4. PICK next : next = IF MustRecord(c) THEN "record" ELSE "finish"
  OBVIOUS
<1>5. /\ c.at = "work" /\ UNCHANGED <<front, elevated, serverMu, appMu, restoreMu>>
      /\ \E end \in (IF c.odd = "dry" THEN {"done"} ELSE c.row.ends) :
            /\ calls' = [calls EXCEPT ![r] = [c EXCEPT !.at = next, !.work = end]]
            /\ fresh' = (fresh \/ (c.row.point = "created" /\ end = "done"))
  BY <1>1, <1>4 DEF Work, MustRecord
<1>6. PICK end \in {"done", "part", "failed"} :
        /\ calls' = [calls EXCEPT ![r] = [c EXCEPT !.at = next, !.work = end]]
        /\ fresh' = (fresh \/ (c.row.point = "created" /\ end = "done"))
  BY <1>3, <1>5
<1>7. PICK d : d = [c EXCEPT !.at = next, !.work = end]
  OBVIOUS
<1>8. /\ d \in Call /\ d.at = next /\ d.row = c.row /\ d.odd = c.odd /\ d.point = c.point
      /\ d.work = end /\ d.record = c.record /\ d.answer = c.answer
  <2>1. next \in {"record", "finish"}
    BY <1>4
  <2> QED  BY <1>2, <1>7, <2>1, ZenonT(40) DEF Call, Stage
<1>9. c.record = "none" /\ c.answer \in {"none", "accepted"} /\ ~Flawed(c)
      /\ c.odd \notin c.row.gate /\ c.odd \notin c.row.checks
      /\ ~(elevated /\ c.row.closed \in {"handler", "empty"})
  BY <1>2, <1>5 DEF Accounted, Checked
<1>10. MustRecord(d) <=> MustRecord(c)
  BY <1>8 DEF MustRecord
<1>11. Accounted(d)
  BY <1>4, <1>8, <1>9, <1>10 DEF Accounted
<1>12. Checked(d)
  BY <1>4, <1>8, <1>9 DEF Checked, Flawed
<1>13. Proper(d)
  BY <1>4, <1>8, <1>11, <1>12 DEF Proper, Settled
<1>14. fresh' \in BOOLEAN
  BY <1>6
<1> QED  BY <1>5, <1>6, <1>7, <1>13, <1>14, OneCallMoves DEF CommandsInv

\* The record of the outcome is kept or lost.
LEMMA RecordOK == ASSUME CommandsInv, NEW r \in Calls, Record(r) PROVE CommandsInv'
<1>1. PICK c : c = calls[r]
  OBVIOUS
<1>2. PICK kept \in {"kept", "lost"} :
        /\ c.at = "record" /\ UNCHANGED <<front, elevated, fresh, serverMu, appMu, restoreMu>>
        /\ calls' = [calls EXCEPT ![r].at = "finish", ![r].record = kept]
  BY <1>1 DEF Record
<1>3. c \in Call /\ Checked(c) /\ Accounted(c)
  BY <1>1 DEF CommandsInv, Proper
<1>4. PICK d : d = [c EXCEPT !.at = "finish", !.record = kept]
  OBVIOUS
<1>5. /\ d \in Call /\ d.at = "finish" /\ d.row = c.row /\ d.odd = c.odd /\ d.point = c.point
      /\ d.work = c.work /\ d.record = kept /\ d.answer = c.answer
  BY <1>3, <1>4, ZenonT(40) DEF Call, Stage
<1>6. MustRecord(c) /\ (MustRecord(d) <=> MustRecord(c))
  BY <1>2, <1>3, <1>5 DEF MustRecord, Accounted
<1>7. Proper(d)
  BY <1>2, <1>3, <1>5, <1>6 DEF Proper, Checked, Accounted, Settled, Flawed
<1>8. calls' = [calls EXCEPT ![r] = d]
  BY <1>1, <1>2, <1>4 DEF CommandsInv
<1> QED  BY <1>2, <1>7, <1>8, OneCallMoves DEF CommandsInv

\* The answer of a command whose operation has ended.
LEMMA FinishOK == ASSUME CommandsInv, NEW r \in Calls, Finish(r) PROVE CommandsInv'
<1>1. PICK c : c = calls[r]
  OBVIOUS
<1>2. c.at = "finish" /\ Answers(r, c, Report(c)) /\ UNCHANGED <<front, elevated, fresh>>
  BY <1>1 DEF Finish
<1>3. c \in Call /\ Checked(c) /\ Accounted(c) /\ c.row \in Row
  BY <1>1, RowsTyped DEF CommandsInv, Proper, Call
<1>4. c.row.part \in {"error", "warned"} /\ c.work \in {"done", "part", "failed"}
      /\ c.record \in {"none", "kept", "lost"}
  BY <1>2, <1>3 DEF Row, Call, Accounted
<1>5. PICK what : what = Report(c)
  OBVIOUS
<1>6. /\ what \in {"ok", "warned", "error"}
      /\ what = "ok" => c.work = "done" /\ c.record # "lost"
      /\ what = "warned" => c.work = "part"
      /\ c.work = "done" /\ c.record # "lost" => what = "ok"
  BY <1>4, <1>5 DEF Report
<1>7. PICK d : d = [c EXCEPT !.at = "ended", !.answer = what]
  OBVIOUS
<1>8. /\ d \in Call /\ d.at = "ended" /\ d.row = c.row /\ d.odd = c.odd /\ d.point = c.point
      /\ d.work = c.work /\ d.record = c.record /\ d.answer = what
  <2>1. what \in {"refused", "ok", "warned", "error"}
    BY <1>6
  <2> QED  BY <1>3, <1>7, <2>1, ZenonT(40) DEF Call, Stage
<1>9. ~Flawed(d)
  BY <1>2, <1>3, <1>8 DEF Checked, Flawed
<1>10. MustRecord(d) <=> c.record # "none"
  BY <1>2, <1>3, <1>8 DEF Accounted, MustRecord
<1>11. Settled(d)
  BY <1>4, <1>6, <1>8, <1>9, <1>10 DEF Settled
<1>12. Proper(d)
  BY <1>8, <1>11 DEF Proper, Checked, Accounted
<1>13. calls' = [calls EXCEPT ![r] = d] /\ Release(r)
  BY <1>2, <1>5, <1>7 DEF Answers
<1>14. serverMu' \in Lock /\ appMu' \in Lock /\ restoreMu' \in Lock
  BY <1>13, LocksReleased
<1> QED  BY <1>2, <1>12, <1>13, <1>14, OneCallMoves DEF CommandsInv

\* A step in which no request takes part.
LEMMA NoCallMoves ==
  ASSUME CommandsInv, fresh' \in BOOLEAN,
         UNCHANGED <<front, elevated, calls, serverMu, appMu, restoreMu>>
  PROVE  CommandsInv'
<1>1. ASSUME NEW r \in Calls PROVE Proper(calls[r])'
  <2>1. PICK c : c = calls[r]
    OBVIOUS
  <2>2. Proper(c) /\ c = calls'[r]
    BY <2>1 DEF CommandsInv
  <2>3. Checked(calls[r])' /\ Accounted(calls[r])' /\ Settled(calls[r])'
    BY <2>2 DEF Proper, Checked, Accounted, Settled, Flawed, Untouched, MustRecord
  <2> QED  BY <2>2, <2>3 DEF Proper
<1> QED  BY <1>1 DEF CommandsInv, Lock

\* Every step of the commands.
LEMMA CommandStep == CommandsInv /\ [CommandsNext]_cmdVars => CommandsInv'
<1> SUFFICES ASSUME CommandsInv, [CommandsNext]_cmdVars PROVE CommandsInv'
  OBVIOUS
<1>1. CASE UNCHANGED cmdVars
  BY <1>1, NoCallMoves DEF cmdVars, CommandsInv
<1>2. CASE RestorePointAges
  BY <1>2, NoCallMoves DEF RestorePointAges
<1>3. ASSUME NEW r \in Calls, Arrive(r) PROVE CommandsInv'
  BY <1>3, ArriveOK
<1>4. ASSUME NEW r \in Calls, Proceed(r) PROVE CommandsInv'
  BY <1>4, GateOK, CheckOK, OpenAppOK, AdmitOK, LockServerOK, EnterOK, EnsureOK, RestorePointOK,
     LockRestoreOK, WorkOK, RecordOK, FinishOK DEF Proceed
<1> QED  BY <1>1, <1>2, <1>3, <1>4 DEF CommandsNext

\* The invariant holds before the first command.
LEMMA CommandStart == CommandsInit => CommandsInv
<1> SUFFICES ASSUME CommandsInit PROVE CommandsInv
  OBVIOUS
<1>1. \A r \in Calls : calls[r] = NoCall
  BY DEF CommandsInit
<1>2. NoCall \in Call
  BY DEF NoCall, Call, Stage
<1>3. Proper(NoCall)
  BY <1>2 DEF Proper, NoCall, Checked, Accounted, Settled, Untouched
<1> QED  BY <1>1, <1>3 DEF CommandsInit, CommandsInv, Lock

\* What makes a state of the commands well typed.
LEMMA CommandsTyped ==
  ASSUME front \in {"dashboard", "cli"} /\ elevated \in BOOLEAN /\ fresh \in BOOLEAN,
         \A r \in Calls :
            /\ calls[r].row \in Dashboard \cup CommandLine \cup {Plain}
            /\ calls[r].at \in Stage
            /\ calls[r].point \in {"none", "off", "fresh", "made", "failed"}
            /\ calls[r].work \in {"none", "done", "part", "failed"}
            /\ calls[r].record \in {"none", "kept", "lost"}
            /\ calls[r].answer \in {"none", "accepted", "refused", "ok", "warned", "error"},
         \A lock \in {serverMu, appMu, restoreMu} : lock \subseteq Calls /\ Cardinality(lock) <= 1
  PROVE  CommandsTypeOK
BY DEF CommandsTypeOK

\* What the invariant says of the commands.
LEMMA CommandsSound ==
  CommandsInv => CommandsTypeOK /\ FlawedHarmless /\ AnswersTruthful
<1> SUFFICES ASSUME CommandsInv PROVE CommandsTypeOK /\ FlawedHarmless /\ AnswersTruthful
  OBVIOUS
<1>1. CommandsTypeOK
  <2>1. \A lock \in Lock : lock \subseteq Calls /\ Cardinality(lock) <= 1
    <3> SUFFICES ASSUME NEW lock \in Lock PROVE lock \subseteq Calls /\ Cardinality(lock) <= 1
      OBVIOUS
    <3>1. Cardinality({}) = 0 /\ \A r \in Calls : Cardinality({r}) = 1
      BY FS_EmptySet, FS_Singleton
    <3> QED  BY <3>1 DEF Lock
  <2>2. ASSUME NEW r \in Calls
        PROVE  /\ calls[r].row \in Dashboard \cup CommandLine \cup {Plain}
               /\ calls[r].at \in Stage
               /\ calls[r].point \in {"none", "off", "fresh", "made", "failed"}
               /\ calls[r].work \in {"none", "done", "part", "failed"}
               /\ calls[r].record \in {"none", "kept", "lost"}
               /\ calls[r].answer \in {"none", "accepted", "refused", "ok", "warned", "error"}
    BY DEF CommandsInv, Proper, Call
  <2>3. front \in {"dashboard", "cli"} /\ elevated \in BOOLEAN /\ fresh \in BOOLEAN
        /\ serverMu \in Lock /\ appMu \in Lock /\ restoreMu \in Lock
    BY DEF CommandsInv
  <2>4. \A lock \in {serverMu, appMu, restoreMu} : lock \subseteq Calls /\ Cardinality(lock) <= 1
    BY <2>1, <2>3
  <2>5. front \in {"dashboard", "cli"} /\ elevated \in BOOLEAN /\ fresh \in BOOLEAN
    BY <2>3
  <2> QED  BY <2>2, <2>4, <2>5, CommandsTyped
<1>2. FlawedHarmless
  <2> SUFFICES ASSUME NEW r \in Calls, Flawed(calls[r]) \/ calls[r].answer = "refused"
               PROVE  calls[r].work = "none" /\ calls[r].point = "none"
    BY DEF FlawedHarmless
  <2>1. calls[r].at \in Stage
    BY DEF CommandsInv, Proper, Call
  <2> QED  BY <2>1 DEF CommandsInv, Proper, Checked, Accounted, Settled, Untouched, Stage
<1>3. AnswersTruthful
  BY DEF AnswersTruthful, CommandsInv, Proper, Settled, MustRecord
<1> QED  BY <1>1, <1>2, <1>3

-----------------------------------------------------------------------------
(* Packs: what files and scripts are made of.                                *)

\* The operations and the tweaks a file or a script may hold, fit or not.
AnyOperation == Operations \cup {NullFlag}
AnyTweak == [id : {"", "a", "b"}, operations : Seq(AnyOperation), revert : Seq(AnyOperation),
             reversible : BOOLEAN, risk : {"", "extreme"}, long : BOOLEAN]

\* What a script may propose has been accepted one operation at a time.
Accepted == {o \in Operations : Acceptable(o)}

\* The tweaks a script can build up, and those it can commit.
ScriptTweak == [id : {"a", "b"}, operations : Seq(Accepted), revert : Seq(Accepted),
                reversible : BOOLEAN, risk : {""}, long : {FALSE}]
Committed == {t \in ScriptTweak : ValidTweak(t)}

\* The state of a script: at most one tweak is open.
Script == [open : {<<>>} \cup {<<t>> : t \in ScriptTweak}, committed : Seq(Committed),
           logs : 0..MaxLogEntries]

\* Validation and the fitness of an operation agree, one operation after the other.
LEMMA UnfitJudged == \A o \in Unfit : ~o.fit /\ ~ValidOperation(o)
<1> DEFINE Rejected(o) == ~o.fit /\ ~ValidOperation(o)
<1>1. Rejected([Operation("registry_set_dword") EXCEPT !.hive = "HKXX", !.fit = FALSE])
  BY DEF Operation, ValidOperation, RegistryTarget
<1>2. Rejected([Operation("registry_set_string") EXCEPT !.path = 0, !.value = "text", !.fit = FALSE])
  BY DEF Operation, ValidOperation, RegistryTarget
<1>3. Rejected([Operation("registry_set_qword") EXCEPT !.value = "negative", !.fit = FALSE])
  BY DEF Operation, ValidOperation, IsQword, Qwords, Dwords
<1>4. Rejected([Operation("registry_delete_key") EXCEPT !.name = "", !.path = 1, !.fit = FALSE])
  BY DEF Operation, ValidOperation
<1>5. Rejected([Operation("service_start_mode") EXCEPT !.value = "text", !.fit = FALSE])
  BY DEF Operation, ValidOperation
<1>6. Rejected([Operation("service_stop") EXCEPT !.name = "", !.fit = FALSE])
  BY DEF Operation, ValidOperation
<1>7. Rejected([Operation("task_delete") EXCEPT !.path = 0, !.fit = FALSE])
  BY DEF Operation, ValidOperation
<1>8. Rejected([Operation("power_scheme") EXCEPT !.value = "text", !.fit = FALSE])
  BY DEF Operation, ValidOperation
<1>9. Rejected([Operation("power_hibernate") EXCEPT !.fit = FALSE])
  BY DEF Operation, ValidOperation, IsFlag, Flags
<1>10. Rejected([Operation("power_processor_state") EXCEPT !.value = "percents swapped", !.fit = FALSE])
  BY DEF Operation, ValidOperation, IsPercents
<1>11. Rejected([Operation("netbios") EXCEPT !.value = "dword", !.fit = FALSE])
  BY DEF Operation, ValidOperation, IsNetbios
<1>12. Rejected([Operation("command") EXCEPT !.value = "program args", !.fit = FALSE])
  BY DEF Operation, ValidOperation
<1>13. Rejected([Operation("registry_delete") EXCEPT !.long = TRUE, !.fit = FALSE])
  BY DEF Operation, ValidOperation
<1>14. Rejected([Operation("format_disk") EXCEPT !.fit = FALSE])
  BY DEF Operation, ValidOperation
<1>15. Rejected([Operation("power_hibernate") EXCEPT !.value = "missing", !.fit = FALSE])
  BY DEF Operation, ValidOperation, IsFlag, Flags
<1>16. Rejected([Operation("power_processor_state") EXCEPT !.value = "null", !.fit = FALSE])
  BY DEF Operation, ValidOperation, IsPercents
<1>17. Rejected([Operation("command") EXCEPT !.value = "program", !.args = "quoted", !.fit = FALSE])
  BY DEF Operation, ValidOperation
<1> HIDE DEF Rejected
<1>18. \A o \in Unfit : Rejected(o)
  BY <1>1, <1>2, <1>3, <1>4, <1>5, <1>6, <1>7, <1>8, <1>9, <1>10, <1>11, <1>12, <1>13, <1>14, <1>15,
     <1>16, <1>17 DEF Unfit
<1> QED  BY <1>18 DEF Rejected

\* The engine's validation accepts exactly the fit operations, and a script may not propose to
\* run a program.
LEMMA OperationsJudged ==
  /\ \A o \in AnyOperation : ValidOperation(o) <=> o.fit
  /\ RunProgram \notin Accepted
<1>1. SetMarker.fit /\ ValidOperation(SetMarker)
  BY DEF SetMarker, Operation, ValidOperation, RegistryTarget, IsDword, Dwords
<1>2. RunProgram.fit /\ ValidOperation(RunProgram) /\ RunProgram.type = "command"
  BY DEF RunProgram, Operation, ValidOperation
<1>3. RunProgram \notin Accepted
  BY <1>2 DEF Accepted, Acceptable, AllowedPluginOpTypes, RegistryWrites
<1>4. NullFlag.fit /\ ValidOperation(NullFlag)
  BY DEF NullFlag, Operation, ValidOperation, IsFlag, Flags
<1> QED  BY <1>1, <1>2, <1>3, <1>4, UnfitJudged DEF Operations, AnyOperation

\* The elements of a concatenation are those of its parts.
LEMMA ElementsOfBoth ==
  ASSUME NEW S, NEW s \in Seq(S), NEW u \in Seq(S)
  PROVE  ToSet(s \o u) = ToSet(s) \cup ToSet(u)
<1>1. /\ s \o u \in Seq(S) /\ Len(s \o u) = Len(s) + Len(u) /\ Len(s) \in Nat /\ Len(u) \in Nat
      /\ \A i \in 1..Len(s) + Len(u) :
            (s \o u)[i] = IF i <= Len(s) THEN s[i] ELSE u[i - Len(s)]
  OBVIOUS
<1>2. DOMAIN (s \o u) = 1..Len(s) + Len(u) /\ DOMAIN s = 1..Len(s) /\ DOMAIN u = 1..Len(u)
  OBVIOUS
<1>3. ASSUME NEW i \in 1..Len(s) + Len(u)
      PROVE  (s \o u)[i] \in ToSet(s) \cup ToSet(u)
  <2>1. CASE i <= Len(s)
    BY <1>1, <1>2, <2>1 DEF ToSet
  <2>2. CASE i > Len(s)
    <3>1. i - Len(s) \in 1..Len(u) /\ (s \o u)[i] = u[i - Len(s)]
      BY <1>1, <2>2
    <3> QED  BY <1>2, <3>1 DEF ToSet
  <2> QED  BY <1>1, <2>1, <2>2
<1>4. ASSUME NEW i \in 1..Len(s) PROVE s[i] \in ToSet(s \o u)
  <2>1. i \in 1..Len(s) + Len(u) /\ (s \o u)[i] = s[i]
    BY <1>1
  <2> QED  BY <1>2, <2>1 DEF ToSet
<1>5. ASSUME NEW i \in 1..Len(u) PROVE u[i] \in ToSet(s \o u)
  <2>1. PICK j : j = Len(s) + i
    OBVIOUS
  <2>2. j \in 1..Len(s) + Len(u) /\ (s \o u)[j] = u[i]
    BY <1>1, <2>1
  <2> QED  BY <1>2, <2>2 DEF ToSet
<1> QED  BY <1>2, <1>3, <1>4, <1>5 DEF ToSet

\* A tweak is valid if and only if it can be applied and, if it says so, undone.
LEMMA TweaksJudged == \A t \in AnyTweak : ValidTweak(t) <=> FitTweak(t)
<1> SUFFICES ASSUME NEW t \in AnyTweak PROVE ValidTweak(t) <=> FitTweak(t)
  OBVIOUS
<1>1. /\ t.operations \in Seq(AnyOperation) /\ t.revert \in Seq(AnyOperation)
      /\ t.risk \in {"", "extreme"}
  BY DEF AnyTweak
<1>2. ToSet(t.operations \o t.revert) = ToSet(t.operations) \cup ToSet(t.revert)
  <2>1. \A s, u \in Seq(AnyOperation) : ToSet(s \o u) = ToSet(s) \cup ToSet(u)
    BY ElementsOfBoth
  <2> QED  BY <1>1, <2>1
<1>3. \A s \in Seq(AnyOperation) :
         (\A i \in DOMAIN s : ValidOperation(s[i])) <=> \A o \in ToSet(s) : o.fit
  <2> SUFFICES ASSUME NEW s \in Seq(AnyOperation)
               PROVE  (\A i \in DOMAIN s : ValidOperation(s[i])) <=> \A o \in ToSet(s) : o.fit
    OBVIOUS
  <2>1. \A i \in DOMAIN s : s[i] \in AnyOperation
    OBVIOUS
  <2> QED  BY <2>1, OperationsJudged DEF ToSet
<1>4. t.risk \in {"", "low", "medium", "high", "expert"} <=> t.risk # "extreme"
  BY <1>1
<1> QED  BY <1>1, <1>2, <1>3, <1>4 DEF ValidTweak, FitTweak

\* So a list of tweaks passes the validation of a catalog if and only if it is sound.
LEMMA ListsJudged == \A tweaks \in Seq(AnyTweak) : ValidTweaks(tweaks) <=> FitList(tweaks)
BY TweaksJudged DEF ValidTweaks, FitList, ToSet

\* The tweaks of the files.
LEMMA FilesTyped == \A f \in TweakFiles : f.entries \in Seq(AnyTweak)
<1>1. {SetMarker, RunProgram, NullFlag} \cup Unfit \subseteq AnyOperation
  BY DEF Operations, AnyOperation
<1>2. /\ <<SetMarker>> \in Seq(AnyOperation) /\ <<>> \in Seq(AnyOperation)
      /\ <<RunProgram, NullFlag>> \in Seq(AnyOperation) /\ \A o \in Unfit : <<o>> \in Seq(AnyOperation)
  BY <1>1
<1>3. \A id \in {"", "a", "b"}, s, u \in Seq(AnyOperation), r \in BOOLEAN : Tweak(id, s, u, r) \in AnyTweak
  BY DEF Tweak, AnyTweak
<1>4. Sound("a") \in AnyTweak /\ Sound("b") \in AnyTweak /\ Sound("") \in AnyTweak
      /\ OneWay("b") \in AnyTweak
  BY <1>2, <1>3 DEF Sound, OneWay
<1>5. FlawedTweaks \subseteq AnyTweak
  <2>1. [Sound("b") EXCEPT !.long = TRUE] \in AnyTweak
    BY <1>4 DEF AnyTweak
  <2>2. [Sound("b") EXCEPT !.risk = "extreme"] \in AnyTweak
    BY <1>4 DEF AnyTweak
  <2>3. Tweak("b", <<>>, <<SetMarker>>, TRUE) \in AnyTweak /\ Tweak("b", <<SetMarker>>, <<>>, TRUE) \in AnyTweak
    BY <1>2, <1>3
  <2>4. \A o \in Unfit : /\ Tweak("b", <<o>>, <<SetMarker>>, TRUE) \in AnyTweak
                         /\ Tweak("b", <<SetMarker>>, <<o>>, TRUE) \in AnyTweak
    BY <1>2, <1>3
  <2> QED  BY <1>4, <2>1, <2>2, <2>3, <2>4 DEF FlawedTweaks
<1>6. TweakLists \subseteq Seq(AnyTweak)
  <2>1. Tweak("b", <<RunProgram, NullFlag>>, <<>>, FALSE) \in AnyTweak
    BY <1>2, <1>3
  <2>2. \A x, y \in AnyTweak : <<x, y>> \in Seq(AnyTweak) /\ <<x>> \in Seq(AnyTweak)
    OBVIOUS
  <2>3. <<>> \in Seq(AnyTweak)
    OBVIOUS
  <2>5. /\ <<Tweak("b", <<RunProgram, NullFlag>>, <<>>, FALSE)>> \in Seq(AnyTweak)
        /\ <<Sound("a"), Sound("b")>> \in Seq(AnyTweak)
        /\ <<Sound("b"), OneWay("b")>> \in Seq(AnyTweak)
    BY <1>4, <2>1, <2>2
  <2>4. \A t \in FlawedTweaks : <<Sound("a"), t>> \in Seq(AnyTweak)
    BY <1>4, <1>5, <2>2
  <2> QED  BY Zenon, <2>3, <2>4, <2>5 DEF TweakLists
<1>7. <<>> \in Seq(AnyTweak)
  OBVIOUS
<1>8. ASSUME NEW f \in TweakFiles PROVE f.entries \in Seq(AnyTweak)
  <2>1. f \in {Absent, Unreadable, Malformed} \/ \E l \in TweakLists : f = File(l)
    BY Zenon DEF TweakFiles
  <2>2. CASE f \in {Absent, Unreadable, Malformed}
    <3>1. Absent.entries = <<>> /\ Unreadable.entries = <<>> /\ Malformed.entries = <<>>
      BY DEF Absent, Unreadable, Malformed
    <3>2. f.entries = <<>>
      BY <2>2, <3>1
    <3> QED  BY <1>7, <3>2
  <2>3. ASSUME NEW l \in TweakLists, f = File(l) PROVE f.entries \in Seq(AnyTweak)
    BY <1>6, <2>3 DEF File
  <2> QED  BY <2>1, <2>2, <2>3
<1> QED  BY <1>8

-----------------------------------------------------------------------------
(* Packs: the calls of a script.                                             *)

\* A call that raises leaves the API as it was.
LEMMA RaisesTyped == \A api \in Script : Raises(api).api \in Script
BY DEF Raises

\* A change of the open tweak leaves one tweak open.
LEMMA OpenTweakChanges ==
  ASSUME NEW api \in Script, NEW t \in ScriptTweak, api.open = <<t>>, NEW u \in ScriptTweak
  PROVE  [api EXCEPT !.open = [<<t>> EXCEPT ![1] = u]] \in Script
<1>1. [<<t>> EXCEPT ![1] = u] = <<u>>
  OBVIOUS
<1>2. [api EXCEPT !.open = <<u>>] \in Script
  BY DEF Script
<1> QED  BY <1>1, <1>2

\* winforge.tweak opens one of the tweaks proposed.
LEMMA BeginTyped ==
  ASSUME NEW api \in Script, NEW t \in ScriptTweak, NEW proper \in BOOLEAN
  PROVE  BeginTweak(api, t, proper).api \in Script
<1>1. [api EXCEPT !.open = <<t>>] \in Script
  BY DEF Script
<1> QED  BY <1>1 DEF BeginTweak, Raises, Returns

\* An operation is added to the open tweak, or to its undo, once it has been accepted.
LEMMA OperationsTyped ==
  ASSUME NEW api \in Script, NEW o \in Operations
  PROVE  /\ RecordOp(api, o).api \in Script
         /\ Revert(api, o).api \in Script
<1>1. CASE api.open = <<>> \/ ~Acceptable(o)
  BY <1>1 DEF RecordOp, Revert, Raises
<1>2. CASE api.open # <<>> /\ Acceptable(o)
  <2>1. PICK t \in ScriptTweak : api.open = <<t>>
    BY <1>2 DEF Script
  <2>2. o \in Accepted
    BY <1>2 DEF Accepted
  <2>3. /\ [t EXCEPT !.operations = Append(t.operations, o)] \in ScriptTweak
        /\ [t EXCEPT !.revert = Append(t.revert, o)] \in ScriptTweak
    <3>1. t.operations \in Seq(Accepted) /\ t.revert \in Seq(Accepted)
      BY DEF ScriptTweak
    <3>2. Append(t.operations, o) \in Seq(Accepted) /\ Append(t.revert, o) \in Seq(Accepted)
      BY <2>2, <3>1
    <3> QED  BY <3>2 DEF ScriptTweak
  <2>4. <<t>>[1] = t
    OBVIOUS
  <2>5. RecordOp(api, o).api
          = [api EXCEPT !.open = [<<t>> EXCEPT ![1] = [t EXCEPT !.operations = Append(t.operations, o)]]]
    BY <1>2, <2>1, <2>4 DEF RecordOp, Returns
  <2>6. Revert(api, o).api
          = [api EXCEPT !.open = [<<t>> EXCEPT ![1] = [t EXCEPT !.revert = Append(t.revert, o)]]]
    BY <1>2, <2>1, <2>4 DEF Revert, Returns
  <2>7. \A u \in ScriptTweak : [api EXCEPT !.open = [<<t>> EXCEPT ![1] = u]] \in Script
    BY <2>1, OpenTweakChanges
  <2>8. RecordOp(api, o).api \in Script
    BY <2>3, <2>5, <2>7
  <2>9. Revert(api, o).api \in Script
    BY <2>3, <2>6, <2>7
  <2> QED  BY <2>8, <2>9
<1> QED  BY <1>1, <1>2

\* winforge.log counts up to its limit.
LEMMA LogTyped == ASSUME NEW api \in Script PROVE Log(api).api \in Script
<1>1. MaxLogEntries \in Nat /\ api.logs \in 0..MaxLogEntries
  BY LuaAssumption DEF Script
<1>2. CASE api.logs >= MaxLogEntries
  BY <1>2 DEF Log, Raises
<1>3. CASE ~(api.logs >= MaxLogEntries)
  <2>1. api.logs + 1 \in 0..MaxLogEntries
    BY <1>1, <1>3
  <2>2. [api EXCEPT !.logs = api.logs + 1] \in Script
    BY <2>1 DEF Script
  <2> QED  BY <1>3, <2>2 DEF Log, Returns
<1> QED  BY <1>2, <1>3

\* commit closes the tweak; only a valid one is kept.
LEMMA CommitTyped == ASSUME NEW api \in Script PROVE Commit(api).api \in Script
<1>1. CASE api.open = <<>>
  BY <1>1 DEF Commit, Raises
<1>2. CASE api.open # <<>>
  <2>1. PICK t \in ScriptTweak : api.open = <<t>>
    BY <1>2 DEF Script
  <2>2. PICK closed : closed = [api EXCEPT !.open = <<>>]
    OBVIOUS
  <2>3. closed \in Script /\ closed.committed \in Seq(Committed)
    BY <2>2 DEF Script
  <2>4. CASE ValidTweaks(api.open)
    <3>1. <<t>>[1] = t /\ 1 \in DOMAIN <<t>>
      OBVIOUS
    <3>2. t \in Committed
      BY <2>1, <2>4, <3>1 DEF ValidTweaks, Committed
    <3>3. Append(closed.committed, t) \in Seq(Committed)
      BY <2>3, <3>2
    <3>4. [closed EXCEPT !.committed = Append(closed.committed, t)] \in Script
      BY <2>3, <3>3 DEF Script
    <3>5. api.open[1] = t
      BY <2>1, <3>1
    <3> QED  BY <1>2, <2>2, <2>4, <3>4, <3>5 DEF Commit, Returns
  <2>5. CASE ~ValidTweaks(api.open)
    BY <1>2, <2>2, <2>3, <2>5 DEF Commit, Raises
  <2> QED  BY <2>4, <2>5
<1> QED  BY <1>1, <1>2

\* Whatever a script calls, in whichever order, it has at most one tweak open, made of accepted
\* operations, and has committed valid tweaks only.
LEMMA CallsTyped ==
  ASSUME NEW api \in Script, NEW c \in Called(api, Proposals, Operations)
  PROVE  c.api \in Script
<1>1. Proposals \subseteq ScriptTweak
  <2>1. <<>> \in Seq(Accepted)
    OBVIOUS
  <2>2. \A id \in {"a", "b"}, r \in BOOLEAN : Tweak(id, <<>>, <<>>, r) \in ScriptTweak
    BY <2>1 DEF ScriptTweak, Tweak
  <2> QED  BY <2>2 DEF Proposals
<1>2. \/ \E t \in Proposals, p \in BOOLEAN : c = BeginTweak(api, t, p)
      \/ c \in {Log(api), Commit(api)}
      \/ \E o \in Operations : c \in {RegistrySet(api, o), RegistryDelete(api, o),
                                      ServiceSetStartMode(api, o), Revert(api, o)}
  <2> DEFINE Writes == {RegistrySet(api, o) : o \in Operations}
                         \cup {RegistryDelete(api, o) : o \in Operations}
                         \cup {ServiceSetStartMode(api, o) : o \in Operations}
             Reverts == {Revert(api, o) : o \in Operations}
  <2>1. \/ c \in {BeginTweak(api, t, p) : t \in Proposals, p \in BOOLEAN}
        \/ c \in {Log(api), Commit(api)}
        \/ c \in Writes
        \/ c \in Reverts
    BY DEF Called
  <2>2. c \in Writes => \E o \in Operations :
           c \in {RegistrySet(api, o), RegistryDelete(api, o), ServiceSetStartMode(api, o)}
    OBVIOUS
  <2>3. c \in Reverts => \E o \in Operations : c = Revert(api, o)
    OBVIOUS
  <2>4. c \in {BeginTweak(api, t, p) : t \in Proposals, p \in BOOLEAN} =>
           \E t \in Proposals, p \in BOOLEAN : c = BeginTweak(api, t, p)
    OBVIOUS
  <2> HIDE DEF Writes, Reverts
  <2> QED  BY <2>1, <2>2, <2>3, <2>4
<1>3. CASE \E t \in Proposals, p \in BOOLEAN : c = BeginTweak(api, t, p)
  BY <1>1, <1>3, BeginTyped
<1>4. CASE c \in {Log(api), Commit(api)}
  BY <1>4, LogTyped, CommitTyped
<1>5. ASSUME NEW o \in Operations,
             c \in {RegistrySet(api, o), RegistryDelete(api, o), ServiceSetStartMode(api, o),
                    Revert(api, o)}
      PROVE  c.api \in Script
  <2>1. c \in {RecordOp(api, o), Raises(api), Revert(api, o)}
    BY <1>5 DEF RegistrySet, RegistryDelete, ServiceSetStartMode
  <2> QED  BY <2>1, OperationsTyped, RaisesTyped
<1> QED  BY <1>2, <1>3, <1>4, <1>5

-----------------------------------------------------------------------------
(* Packs: the inductive invariant.                                           *)

\* The equation that defines the parts of a sequence of sequences put one after the other.
Flattens(f, parts, n) ==
    f = [i \in 1..n |-> IF i = 1 THEN parts[i] ELSE f[i - 1] \o parts[i]]

\* The elements of the parts make up what FlattenSeq returns.
LEMMA FlattenTyped ==
  ASSUME NEW S, NEW parts \in Seq(Seq(S))
  PROVE  FlattenSeq(parts) \in Seq(S)
<1> DEFINE Flat(f, n) == Flattens(f, parts, n) /\ \A i \in 1..n : f[i] \in Seq(S)
           Good == {n \in Nat : n <= Len(parts) => \E f : Flat(f, n)}
<1>1. Len(parts) \in Nat /\ \A i \in 1..Len(parts) : parts[i] \in Seq(S)
  OBVIOUS
<1>2. 0 \in Good
  <2>1. Flat([i \in 1..0 |-> parts[i]], 0)
    BY DEF Flattens
  <2> QED  BY <2>1
<1>3. ASSUME NEW n \in Good PROVE n + 1 \in Good
  <2>1. CASE n + 1 > Len(parts)
    BY <1>1, <2>1
  <2>2. CASE n + 1 <= Len(parts)
    <3>1. PICK f : Flat(f, n)
      BY <1>1, <2>2
    <3>2. PICK last : last = IF n = 0 THEN parts[n + 1] ELSE f[n] \o parts[n + 1]
      OBVIOUS
    <3>3. PICK g : g = [i \in 1..n + 1 |-> IF i = n + 1 THEN last ELSE f[i]]
      OBVIOUS
    <3>4. last \in Seq(S)
      BY <1>1, <2>2, <3>1, <3>2
    <3>5. \A i \in 1..n + 1 : g[i] \in Seq(S)
      BY <3>1, <3>3, <3>4
    <3>6. \A i \in 1..n + 1 : g[i] = IF i = 1 THEN parts[i] ELSE g[i - 1] \o parts[i]
      <4>1. \A i \in 1..n : f[i] = IF i = 1 THEN parts[i] ELSE f[i - 1] \o parts[i]
        BY <3>1 DEF Flattens
      <4>2. \A i \in 1..n : g[i] = f[i] /\ (i # 1 => g[i - 1] = f[i - 1])
        BY <3>3
      <4>3. g[n + 1] = last /\ (n # 0 => g[n] = f[n])
        BY <3>3
      <4> QED  BY <3>2, <4>1, <4>2, <4>3
    <3>7. Flattens(g, parts, n + 1)
      BY <3>3, <3>6 DEF Flattens
    <3> QED  BY <3>5, <3>7
  <2> QED  BY <1>1, <2>1, <2>2
<1>4. Len(parts) \in Good
  <2>1. Good \in SUBSET Nat
    OBVIOUS
  <2> HIDE DEF Good
  <2> QED  BY <1>1, <1>2, <1>3, <2>1, NumberInduction
<1>5. CASE Len(parts) = 0
  BY <1>1, <1>5 DEF FlattenSeq
<1>6. CASE Len(parts) # 0
  <2>1. PICK f : Flat(f, Len(parts))
    BY <1>1, <1>4
  <2>2. PICK g : g = CHOOSE h : Flattens(h, parts, Len(parts))
    OBVIOUS
  <2>3. Flattens(g, parts, Len(parts))
    BY <2>1, <2>2
  <2>4. FlattenSeq(parts) = g[Len(parts)]
    BY <1>6, <2>2 DEF FlattenSeq, Flattens
  <2>5. \A i \in 1..Len(parts) : g[i] \in Seq(S)
    <3> DEFINE Typed == {n \in Nat : n \in 1..Len(parts) => g[n] \in Seq(S)}
    <3>1. 0 \in Typed
      OBVIOUS
    <3>2. ASSUME NEW n \in Typed PROVE n + 1 \in Typed
      <4> SUFFICES ASSUME n + 1 \in 1..Len(parts) PROVE g[n + 1] \in Seq(S)
        OBVIOUS
      <4>1. PICK m \in 1..Len(parts) : m = n + 1
        OBVIOUS
      <4>2. g[m] = IF m = 1 THEN parts[m] ELSE g[m - 1] \o parts[m]
        BY <2>3 DEF Flattens
      <4>3. CASE m = 1
        BY <1>1, <4>1, <4>2, <4>3
      <4>4. CASE m # 1
        <5>1. n \in 1..Len(parts) /\ m - 1 = n
          BY <4>1, <4>4
        <5>2. g[n] \in Seq(S) /\ parts[m] \in Seq(S)
          BY <1>1, <5>1
        <5> QED  BY <4>1, <4>2, <4>4, <5>1, <5>2
      <4> QED  BY <4>3, <4>4
    <3>3. Nat \subseteq Typed
      <4>1. Typed \in SUBSET Nat
        OBVIOUS
      <4> HIDE DEF Typed
      <4> QED  BY <3>1, <3>2, <4>1, NumberInduction
    <3> QED  BY <3>3
  <2> QED  BY <1>1, <1>6, <2>4, <2>5
<1> QED  BY <1>5, <1>6

\* What the last folder held.
Folder == [tweaks : Seq(AnyTweak), wrong : BOOLEAN, from : {"none", "folder", "json", "lua"},
           taken : BOOLEAN]

\* While a script runs its folder is still to be counted, and its API is in one of the states its
\* calls can lead to; no pack was read before the folders are.
PacksInv ==
    /\ admin \in BOOLEAN /\ phase \in Phase /\ host \in ScriptHosts /\ left \in 0..MaxFolders
    /\ packs \in Seq(Seq(AnyTweak)) /\ Len(packs) <= MaxPacks
    /\ script \in Script /\ Len(script.committed) <= MaxCommits
    /\ IF phase = "script" THEN left > 0 ELSE script = NewLuaAPI
    /\ lastPack \in Folder
    /\ phase \in {"config", "plugins"} => lastPack.from = "none"
    /\ PacksContained

-----------------------------------------------------------------------------
(* Packs: the steps.                                                         *)

\* A script starts with nothing open and nothing committed.
LEMMA NewScript == NewLuaAPI \in Script /\ Len(NewLuaAPI.committed) <= MaxCommits
<1>1. MaxLogEntries \in Nat /\ MaxCommits \in Nat
  BY LuaAssumption, PackAssumption
<1>2. 0 \in 0..MaxLogEntries /\ <<>> \in Seq(Committed)
  BY <1>1
<1> QED  BY <1>1, <1>2 DEF NewLuaAPI, Script

\* What a script has committed, and what any file holds, is a list of tweaks.
LEMMA CommittedTyped == \A s \in Seq(Committed) : s \in Seq(AnyTweak)
<1>1. Committed \subseteq AnyTweak
  <2>1. \A s \in Seq(Accepted) : s \in Seq(AnyOperation)
    BY DEF Accepted, AnyOperation
  <2> QED  BY <2>1 DEF Committed, ScriptTweak, AnyTweak
<1> QED  BY <1>1

\* A folder that is left out changes nothing but how many are still to be read.
LEMMA SkipOK ==
  ASSUME PacksInv, left > 0, NEW content \in Folder, Skip(content), ~content.taken,
         content.from \in {"json", "lua"} => content.wrong \/ ~FitList(content.tweaks),
         script' = NewLuaAPI, UNCHANGED <<admin, host, base, catalog>>
  PROVE  PacksInv'
<1>1. left' = left - 1 /\ phase' = "folder" /\ lastPack' = content /\ packs' = packs
  BY DEF Skip
<1>2. left' \in 0..MaxFolders
  BY <1>1, PackAssumption DEF PacksInv
<1>3. PackWhole' /\ OnlyLimitsFail'
  BY <1>1 DEF PackWhole, OnlyLimitsFail
<1> QED  BY <1>1, <1>2, <1>3, NewScript DEF PacksInv, PacksContained, Phase

\* What is read of a folder, as long as it is not taken.
LEMMA ContentTyped ==
  ASSUME NEW tweaks \in Seq(AnyTweak), NEW wrong \in BOOLEAN, NEW from \in {"folder", "json", "lua"}
  PROVE  /\ Content(tweaks, wrong, from) \in Folder
         /\ ~Content(tweaks, wrong, from).taken
         /\ Content(tweaks, wrong, from).tweaks = tweaks
         /\ Content(tweaks, wrong, from).wrong = wrong
         /\ Content(tweaks, wrong, from).from = from
BY DEF Content, Folder

\* A sound pack is added, or the start fails because there are too many.
LEMMA AddOK ==
  ASSUME PacksInv, left > 0, NEW tweaks \in Seq(AnyTweak), NEW from \in {"json", "lua"},
         Add(Content(tweaks, FALSE, from)), FitList(tweaks),
         from = "lua" =>
            \A t \in ToSet(tweaks) : RunProgram \notin ToSet(t.operations \o t.revert),
         script' = NewLuaAPI, UNCHANGED <<admin, host, base, catalog>>
  PROVE  PacksInv'
<1>1. PICK content : content = Content(tweaks, FALSE, from)
  OBVIOUS
<1>2. /\ content \in Folder /\ content.tweaks = tweaks /\ ~content.wrong /\ content.from = from
  BY <1>1 DEF Content, Folder
<1>3. /\ lastPack'.tweaks = tweaks /\ ~lastPack'.wrong /\ lastPack'.from = from
      /\ lastPack'.taken
  BY <1>1, <1>2 DEF Add, Folder
<1>4. lastPack' \in Folder
  BY <1>1, <1>2 DEF Add, Folder
<1>5. PackWhole'
  BY <1>3 DEF PackWhole
<1>6. \/ /\ Len(packs) >= MaxPacks \/ Len(tweaks) > MaxPackTweaks - TotalTweaks
         /\ phase' = "failed" /\ UNCHANGED <<left, packs>>
      \/ /\ ~(Len(packs) >= MaxPacks) /\ packs' = Append(packs, tweaks)
         /\ left' = left - 1 /\ phase' = "folder"
  BY <1>1, <1>2 DEF Add
<1>7. CASE /\ Len(packs) >= MaxPacks \/ Len(tweaks) > MaxPackTweaks - TotalTweaks
           /\ phase' = "failed" /\ UNCHANGED <<left, packs>>
  <2>1. packs \in Seq(Seq(AnyTweak)) /\ Len(packs) <= MaxPacks /\ MaxPacks \in Nat /\ MaxPackTweaks \in Nat
    BY PackAssumption DEF PacksInv
  <2>2. TotalTweaks \in Nat /\ TotalTweaks' = TotalTweaks
    BY <1>7, <2>1, FlattenTyped DEF TotalTweaks
  <2>3. Len(packs) \in Nat /\ Len(tweaks) \in Nat
    BY <2>1
  <2>4. Len(packs) = MaxPacks \/ TotalTweaks + Len(tweaks) > MaxPackTweaks
    BY <1>7, <2>1, <2>2, <2>3
  <2>5. OnlyLimitsFail'
    BY <1>3, <1>7, <2>2, <2>4 DEF OnlyLimitsFail
  <2> QED  BY <1>4, <1>5, <1>7, <2>5, NewScript DEF PacksInv, PacksContained, Phase
<1>8. CASE /\ ~(Len(packs) >= MaxPacks) /\ packs' = Append(packs, tweaks)
           /\ left' = left - 1 /\ phase' = "folder"
  <2>1. packs \in Seq(Seq(AnyTweak)) /\ MaxPacks \in Nat
    BY PackAssumption DEF PacksInv
  <2>2. packs' \in Seq(Seq(AnyTweak)) /\ Len(packs') <= MaxPacks
    BY <1>8, <2>1
  <2>3. left' \in 0..MaxFolders
    BY <1>8, PackAssumption DEF PacksInv
  <2>4. OnlyLimitsFail'
    BY <1>8 DEF OnlyLimitsFail
  <2> QED  BY <1>4, <1>5, <1>8, <2>2, <2>3, <2>4, NewScript DEF PacksInv, PacksContained, Phase
<1> QED  BY <1>6, <1>7, <1>8

\* The catalogs are loaded, or the start ends.
LEMMA LoadConfigOK == PacksInv /\ LoadConfig => PacksInv'
<1> SUFFICES ASSUME PacksInv, LoadConfig PROVE PacksInv'
  OBVIOUS
<1>1. phase = "config" /\ phase' \in {"plugins", "failed"}
      /\ UNCHANGED <<admin, left, packs, script, host, lastPack, catalog>>
  BY DEF LoadConfig
<1>2. lastPack.from = "none"
  BY <1>1 DEF PacksInv
<1>3. PackWhole' /\ OnlyLimitsFail'
  BY <1>1, <1>2 DEF PackWhole, OnlyLimitsFail
<1> QED  BY <1>1, <1>2, <1>3 DEF PacksInv, PacksContained, Phase

\* The folders are counted, or the start ends.
LEMMA ScanOK == PacksInv /\ (ScanFolders \/ ScanFails) => PacksInv'
<1> SUFFICES ASSUME PacksInv, ScanFolders \/ ScanFails PROVE PacksInv'
  OBVIOUS
<1>0. MaxFolders \in Nat
  BY PackAssumption
<1>1. /\ phase = "plugins" /\ phase' \in {"folder", "failed"} /\ left' \in 0..MaxFolders
      /\ UNCHANGED <<admin, packs, script, host, lastPack, base, catalog>>
  <2>1. CASE ScanFolders
    BY <1>0, <2>1 DEF ScanFolders, PacksInv
  <2>2. CASE ScanFails
    BY <2>2 DEF ScanFails, PacksInv
  <2> QED  BY <2>1, <2>2
<1>2. lastPack.from = "none"
  BY <1>1 DEF PacksInv
<1>3. PackWhole' /\ OnlyLimitsFail'
  BY <1>1, <1>2 DEF PackWhole, OnlyLimitsFail
<1> QED  BY <1>1, <1>2, <1>3 DEF PacksInv, PacksContained, Phase

\* A folder that is no pack.
LEMMA SkipFolderOK == PacksInv /\ SkipFolder => PacksInv'
<1> SUFFICES ASSUME PacksInv, SkipFolder PROVE PacksInv'
  OBVIOUS
<1>1. /\ left > 0 /\ Skip(Content(<<>>, TRUE, "folder")) /\ phase = "folder"
      /\ UNCHANGED <<admin, script, host, base, catalog>>
  BY DEF SkipFolder
<1>2. script' = NewLuaAPI /\ <<>> \in Seq(AnyTweak)
  BY <1>1 DEF PacksInv
<1>3. PICK content : content = Content(<<>>, TRUE, "folder")
  OBVIOUS
<1>4. content \in Folder /\ ~content.taken /\ content.from = "folder"
  BY <1>2, <1>3, ContentTyped
<1> QED  BY <1>1, <1>2, <1>3, <1>4, SkipOK

\* A pack of a file of tweaks is taken whole or left out.
LEMMA LoadJSONOK == PacksInv /\ LoadJSONPlugin => PacksInv'
<1> SUFFICES ASSUME PacksInv, LoadJSONPlugin PROVE PacksInv'
  OBVIOUS
<1>1. PICK f \in TweakFiles :
        LET content == Content(f.entries, f \in {Unreadable, Malformed}, "json")
        IN IF f = Absent \/ LoadTweaks(f) THEN Add(content) ELSE Skip(content)
  BY DEF LoadJSONPlugin
<1>2. left > 0 /\ phase = "folder" /\ UNCHANGED <<admin, script, host, base, catalog>>
  BY DEF LoadJSONPlugin
<1>3. script' = NewLuaAPI
  BY <1>2 DEF PacksInv
<1>4. PICK tweaks \in Seq(AnyTweak) : tweaks = f.entries
  BY FilesTyped
<1>5. PICK wrong \in BOOLEAN : wrong = (f \in {Unreadable, Malformed})
  <2>1. (f \in {Unreadable, Malformed}) \in BOOLEAN
    OBVIOUS
  <2> QED  BY Zenon, <2>1
<1>6. CASE f = Absent \/ LoadTweaks(f)
  <2>1. wrong = FALSE
    <3>1. f.is \in {"absent", "list"}
      BY <1>6 DEF LoadTweaks, Absent
    <3>2. Unreadable.is = "unreadable" /\ Malformed.is = "malformed"
      BY DEF Unreadable, Malformed
    <3> QED  BY <1>5, <3>1, <3>2
  <2>2. FitList(tweaks)
    <3>1. CASE f = Absent
      <4>1. tweaks = <<>>
        BY <1>4, <3>1 DEF Absent
      <4> QED  BY <4>1 DEF FitList, Distinct, ToSet
    <3>2. CASE LoadTweaks(f)
      BY <1>4, <3>2, ListsJudged DEF LoadTweaks
    <3> QED  BY <1>6, <3>1, <3>2
  <2>3. Add(Content(tweaks, FALSE, "json"))
    BY <1>1, <1>4, <1>5, <1>6, <2>1
  <2> QED  BY <1>2, <1>3, <2>2, <2>3, AddOK
<1>7. CASE ~(f = Absent \/ LoadTweaks(f))
  <2>1. wrong \/ ~FitList(tweaks)
    <3>1. f.is = "list" \/ wrong
      <4>1. f \in {Absent, Unreadable, Malformed} \/ \E l \in TweakLists : f = File(l)
        BY Zenon DEF TweakFiles
      <4>2. \A l : File(l).is = "list"
        BY DEF File
      <4> QED  BY <1>5, <1>7, <4>1, <4>2
    <3>2. f.is = "list" => ~ValidTweaks(tweaks)
      BY <1>4, <1>7 DEF LoadTweaks
    <3> QED  BY <3>1, <3>2, ListsJudged
  <2>2. PICK content : content = Content(tweaks, wrong, "json")
    OBVIOUS
  <2>3. Skip(content)
    BY <1>1, <1>4, <1>5, <1>7, <2>2
  <2>4. content \in Folder /\ ~content.taken /\ content.wrong = wrong /\ content.tweaks = tweaks
    BY <2>2, ContentTyped
  <2> QED  BY <1>2, <1>3, <2>1, <2>3, <2>4, SkipOK
<1> QED  BY <1>6, <1>7

\* A script starts.
LEMMA StartScriptOK == PacksInv /\ StartScript => PacksInv'
<1> SUFFICES ASSUME PacksInv, StartScript PROVE PacksInv'
  OBVIOUS
<1>1. /\ left > 0 /\ phase' = "script" /\ script' = NewLuaAPI /\ lastPack' = NoPack
      /\ UNCHANGED <<admin, left, packs, host, base, catalog>>
  BY DEF StartScript
<1>2. NoPack \in Folder /\ NoPack.from = "none"
  BY DEF NoPack, Content, Folder
<1>3. PackWhole' /\ OnlyLimitsFail'
  BY <1>1, <1>2 DEF PackWhole, OnlyLimitsFail
<1> QED  BY <1>1, <1>2, <1>3, NewScript DEF PacksInv, PacksContained, Phase

\* The hook, or what keeps a script from running, ends it and drops its pack.
LEMMA ScriptStoppedOK == PacksInv /\ ScriptStopped => PacksInv'
<1> SUFFICES ASSUME PacksInv, ScriptStopped PROVE PacksInv'
  OBVIOUS
<1>1. /\ phase = "script" /\ script' = NewLuaAPI /\ Skip(Content(<<>>, TRUE, "lua"))
      /\ UNCHANGED <<admin, host, base, catalog>>
  BY DEF ScriptStopped
<1>2. left > 0 /\ <<>> \in Seq(AnyTweak)
  BY <1>1 DEF PacksInv
<1>3. PICK content : content = Content(<<>>, TRUE, "lua")
  OBVIOUS
<1>4. content \in Folder /\ ~content.taken /\ content.wrong
  BY <1>2, <1>3, ContentTyped
<1> QED  BY <1>1, <1>2, <1>3, <1>4, SkipOK

\* An error ends the script and drops its pack.
LEMMA ScriptFailsOK == PacksInv /\ ScriptFails => PacksInv'
<1> SUFFICES ASSUME PacksInv, ScriptFails PROVE PacksInv'
  OBVIOUS
<1>1. /\ phase = "script" /\ script' = NewLuaAPI /\ Skip(Content(script.committed, TRUE, "lua"))
      /\ UNCHANGED <<admin, host, base, catalog>>
  BY DEF ScriptFails
<1>2. left > 0 /\ script.committed \in Seq(AnyTweak)
  BY <1>1, CommittedTyped DEF PacksInv, Script
<1>3. PICK content : content = Content(script.committed, TRUE, "lua")
  OBVIOUS
<1>4. content \in Folder /\ ~content.taken /\ content.wrong
  BY <1>2, <1>3, ContentTyped
<1> QED  BY <1>1, <1>2, <1>3, <1>4, SkipOK

\* A call returns, or the script catches its error.
LEMMA ScriptCallsOK == PacksInv /\ ScriptCalls => PacksInv'
<1> SUFFICES ASSUME PacksInv, ScriptCalls PROVE PacksInv'
  OBVIOUS
<1>1. PICK c \in Called(script, Proposals, Operations) :
        Len(c.api.committed) <= MaxCommits /\ script' = c.api
  BY DEF ScriptCalls
<1>2. phase = "script" /\ UNCHANGED <<admin, phase, left, packs, host, lastPack, base, catalog>>
  BY DEF ScriptCalls
<1>3. script' \in Script
  BY <1>1, CallsTyped DEF PacksInv
<1>4. PackWhole' /\ OnlyLimitsFail'
  BY <1>2 DEF PackWhole, OnlyLimitsFail, PacksInv, PacksContained
<1> QED  BY <1>1, <1>2, <1>3, <1>4 DEF PacksInv, PacksContained

\* The script returns: what it committed is taken whole or left out.
LEMMA ScriptEndsOK == PacksInv /\ ScriptEnds => PacksInv'
<1> SUFFICES ASSUME PacksInv, ScriptEnds PROVE PacksInv'
  OBVIOUS
<1>1. /\ phase = "script" /\ script' = NewLuaAPI
      /\ UNCHANGED <<admin, host, base, catalog>>
      /\ IF ValidTweaks(script.committed)
         THEN Add(Content(script.committed, FALSE, "lua"))
         ELSE Skip(Content(script.committed, FALSE, "lua"))
  BY DEF ScriptEnds
<1>2. left > 0 /\ script.committed \in Seq(Committed)
  BY <1>1 DEF PacksInv, Script
<1>3. PICK tweaks \in Seq(AnyTweak) : tweaks = script.committed
  BY <1>2, CommittedTyped
<1>4. CASE ValidTweaks(tweaks)
  <2>1. \A t \in ToSet(tweaks) : RunProgram \notin ToSet(t.operations \o t.revert)
    <3> SUFFICES ASSUME NEW t \in ToSet(tweaks)
                 PROVE  RunProgram \notin ToSet(t.operations \o t.revert)
      OBVIOUS
    <3>1. t \in Committed
      BY <1>2, <1>3 DEF ToSet
    <3>2. t.operations \in Seq(Accepted) /\ t.revert \in Seq(Accepted)
      BY <3>1 DEF Committed, ScriptTweak
    <3>3. \A s \in Seq(Accepted) : ToSet(s) \subseteq Accepted
      BY DEF ToSet
    <3>4. t.operations \o t.revert \in Seq(Accepted)
      BY <3>2
    <3> QED  BY <3>3, <3>4, OperationsJudged
  <2>2. FitList(tweaks) /\ Add(Content(tweaks, FALSE, "lua"))
    BY <1>1, <1>3, <1>4, ListsJudged
  <2> QED  BY <1>1, <1>2, <2>1, <2>2, AddOK
<1>5. CASE ~ValidTweaks(tweaks)
  <2>1. PICK content : content = Content(tweaks, FALSE, "lua")
    OBVIOUS
  <2>2. ~FitList(tweaks) /\ Skip(content)
    BY <1>1, <1>3, <1>5, <2>1, ListsJudged
  <2>3. content \in Folder /\ ~content.taken /\ content.tweaks = tweaks
    BY <2>1, ContentTyped
  <2> QED  BY <1>1, <1>2, <2>2, <2>3, SkipOK
<1> QED  BY <1>4, <1>5

\* The packs are merged and the application is up.
LEMMA EndDiscoveryOK == PacksInv /\ EndDiscovery => PacksInv'
<1> SUFFICES ASSUME PacksInv, EndDiscovery PROVE PacksInv'
  OBVIOUS
<1>1. /\ phase = "folder" /\ phase' = "up"
      /\ UNCHANGED <<admin, left, packs, script, host, lastPack, base>>
  BY DEF EndDiscovery
<1>2. PackWhole' /\ OnlyLimitsFail'
  BY <1>1 DEF PackWhole, OnlyLimitsFail, PacksInv, PacksContained
<1> QED  BY <1>1, <1>2 DEF PacksInv, PacksContained, Phase

\* Every step of a start.
LEMMA PackStep == PacksInv /\ [PacksNext]_packVars => PacksInv'
<1> SUFFICES ASSUME PacksInv, [PacksNext]_packVars PROVE PacksInv'
  OBVIOUS
<1>1. CASE UNCHANGED packVars
  <2>1. UNCHANGED <<admin, phase, left, packs, script, host, lastPack>>
    BY <1>1 DEF packVars
  <2>2. PackWhole' /\ OnlyLimitsFail'
    BY <2>1 DEF PackWhole, OnlyLimitsFail, TotalTweaks, PacksInv, PacksContained
  <2> QED  BY <2>1, <2>2 DEF PacksInv, PacksContained
<1> QED  BY <1>1, LoadConfigOK, ScanOK, SkipFolderOK, LoadJSONOK, StartScriptOK, ScriptFailsOK,
            ScriptCallsOK, ScriptStoppedOK, ScriptEndsOK, EndDiscoveryOK DEF PacksNext

\* The invariant holds when a process starts.
LEMMA PackStart == PacksInit => PacksInv
<1> SUFFICES ASSUME PacksInit PROVE PacksInv
  OBVIOUS
<1>1. NoPack \in Folder /\ NoPack.from = "none"
  BY DEF NoPack, Content, Folder
<1>2. <<>> \in Seq(Seq(AnyTweak)) /\ Len(<<>>) <= MaxPacks /\ 0 \in 0..MaxFolders
  BY PackAssumption
<1>3. PackWhole /\ OnlyLimitsFail
  BY <1>1 DEF PacksInit, PackWhole, OnlyLimitsFail
<1> QED  BY <1>1, <1>2, <1>3, NewScript DEF PacksInit, PacksInv, PacksContained, Phase

\* What the invariant says of the types.
LEMMA PacksTyped == PacksInv => PacksTypeOK
<1> SUFFICES ASSUME PacksInv PROVE PacksTypeOK
  OBVIOUS
<1>1. Len(script.open) <= 1 /\ script.logs \in 0..MaxLogEntries
  <2>1. script.open = <<>> \/ \E t \in ScriptTweak : script.open = <<t>>
    BY DEF PacksInv, Script
  <2>2. Len(<<>>) = 0 /\ \A t : Len(<<t>>) = 1
    OBVIOUS
  <2>3. Len(script.open) <= 1
    <3>1. CASE script.open = <<>>
      BY <2>2, <3>1
    <3>2. ASSUME NEW t \in ScriptTweak, script.open = <<t>> PROVE Len(script.open) <= 1
      BY <2>2, <3>2
    <3> QED  BY <2>1, <3>1, <3>2
  <2> QED  BY <2>3 DEF PacksInv, Script
<1> QED  BY <1>1 DEF PacksInv, PacksTypeOK

-----------------------------------------------------------------------------
(* Packs: the merge of the catalog.                                          *)

\* The equations that define the tables of the two folds of the merge.
TweakTable(it, tweaks, extra) ==
    it = [s \in SUBSET DOMAIN extra |->
            IF s = {} THEN tweaks ELSE MergeTweak(it[s \ {Max(s)}], extra[Max(s)])]

PackTable(it, tweaks, lists) ==
    it = [s \in SUBSET DOMAIN lists |->
            IF s = {} THEN tweaks ELSE MergeTweaks(it[s \ {Max(s)}], lists[Max(s)])]

\* The folds are entries of such tables.
LEMMA MergeUnfolds ==
  ASSUME NEW tweaks, NEW extra
  PROVE  MergeTweaks(tweaks, extra) = (CHOOSE it : TweakTable(it, tweaks, extra))[DOMAIN extra]
BY DEF MergeTweaks, FoldLeft, MapThenFoldSet, TweakTable

LEMMA CatalogUnfolds ==
  ASSUME NEW tweaks, NEW lists
  PROVE  FoldLeft(MergeTweaks, tweaks, lists)
            = (CHOOSE it : PackTable(it, tweaks, lists))[DOMAIN lists]
BY DEF FoldLeft, MapThenFoldSet, PackTable

\* The elements of a sequence with one more at its end.
LEMMA ElementsAppended ==
  ASSUME NEW S, NEW s \in Seq(S), NEW t \in S
  PROVE  /\ Append(s, t) \in Seq(S) /\ Len(Append(s, t)) = Len(s) + 1
         /\ Append(s, t)[Len(s) + 1] = t
         /\ \A i \in 1..Len(s) : Append(s, t)[i] = s[i]
         /\ ToSet(Append(s, t)) = ToSet(s) \cup {t}
<1>1. /\ Append(s, t) \in Seq(S) /\ Len(Append(s, t)) = Len(s) + 1 /\ Len(s) \in Nat
      /\ Append(s, t)[Len(s) + 1] = t /\ \A i \in 1..Len(s) : Append(s, t)[i] = s[i]
  OBVIOUS
<1>2. DOMAIN Append(s, t) = 1..Len(s) + 1 /\ DOMAIN s = 1..Len(s)
  OBVIOUS
<1>3. PICK u : u = Append(s, t)
  OBVIOUS
<1>4. DOMAIN u = DOMAIN s \cup {Len(s) + 1} /\ u[Len(s) + 1] = t /\ \A i \in DOMAIN s : u[i] = s[i]
  BY <1>1, <1>2, <1>3
<1>5. ToSet(u) = ToSet(s) \cup {t}
  BY <1>4 DEF ToSet
<1> QED  BY <1>1, <1>3, <1>5

\* One more tweak keeps a list of tweaks one.
LEMMA MergeTweakTyped ==
  \A out \in Seq(AnyTweak), t \in AnyTweak : MergeTweak(out, t) \in Seq(AnyTweak)
<1> SUFFICES ASSUME NEW out \in Seq(AnyTweak), NEW t \in AnyTweak
             PROVE  MergeTweak(out, t) \in Seq(AnyTweak)
  OBVIOUS
<1>1. Append(out, t) \in Seq(AnyTweak)
  OBVIOUS
<1> QED  BY Zenon, <1>1 DEF MergeTweak

\* Merging goes through the pack, one tweak after the other.
LEMMA MergeRuns ==
  ASSUME NEW tweaks \in Seq(AnyTweak), NEW extra \in Seq(AnyTweak)
  PROVE  \E f \in [0..Len(extra) -> Seq(AnyTweak)] :
            /\ f[0] = tweaks
            /\ \A i \in 1..Len(extra) : f[i] = MergeTweak(f[i - 1], extra[i])
            /\ MergeTweaks(tweaks, extra) = f[Len(extra)]
<1>1. PICK n \in Nat : n = Len(extra)
  OBVIOUS
<1>2. DOMAIN extra = 1..n /\ \A i \in 1..n : extra[i] \in AnyTweak
  BY <1>1
<1>3. PICK X : X = Seq(AnyTweak)
  OBVIOUS
<1>4. PICK G : G = [i \in 1..n |-> [out \in X |-> MergeTweak(out, extra[i])]]
  OBVIOUS
<1>5. G \in [1..n -> [X -> X]]
  BY <1>2, <1>3, <1>4, MergeTweakTyped
<1>6. tweaks \in X
  BY <1>3
<1>8. PICK it \in [SUBSET (1..n) -> X] : IndexTable(it, tweaks, G, n)
  BY <1>5, <1>6, IndexFoldExists
<1>7. /\ it \in [SUBSET (1..n) -> X] /\ it[{}] = tweaks
      /\ \A s \in SUBSET (1..n) : s # {} =>
            Max(s) \in s /\ it[s] = G[Max(s)][it[s \ {Max(s)}]]
  BY <1>8 DEF IndexTable
<1>10. TweakTable(it, tweaks, extra)
  <2>1. ASSUME NEW s \in SUBSET (1..n), s # {}
        PROVE  it[s] = MergeTweak(it[s \ {Max(s)}], extra[Max(s)])
    <3>1. Max(s) \in 1..n
      BY <1>7, <2>1
    <3>2. it[s \ {Max(s)}] \in X
      BY <1>7, <2>1
    <3> QED  BY <1>4, <1>7, <2>1, <3>1, <3>2
  <2>2. it = [s \in SUBSET (1..n) |-> it[s]]
    BY <1>7
  <2> QED  BY <1>2, <1>7, <2>1, <2>2 DEF TweakTable
<1>11. PICK g : g = CHOOSE h : TweakTable(h, tweaks, extra)
  OBVIOUS
<1>12. TweakTable(g, tweaks, extra)
  BY <1>10, <1>11
<1>13. MergeTweaks(tweaks, extra) = g[1..n]
  BY <1>2, <1>11, MergeUnfolds
<1>14. /\ g[{}] = tweaks
       /\ \A s \in SUBSET (1..n) : s # {} => g[s] = MergeTweak(g[s \ {Max(s)}], extra[Max(s)])
  BY <1>2, <1>12 DEF TweakTable
<1>15. PICK f : f = [i \in 0..n |-> g[1..i]]
  OBVIOUS
<1>16. f[0] = tweaks
  <2>1. 1..0 = {}
    OBVIOUS
  <2> QED  BY <1>14, <1>15, <2>1
<1>17. ASSUME NEW i \in 1..n PROVE f[i] = MergeTweak(f[i - 1], extra[i])
  <2>1. 1..i \in SUBSET (1..n) /\ 1..i # {} /\ Max(1..i) = i /\ (1..i) \ {i} = 1..(i - 1)
    BY UpTo
  <2>2. f[i] = g[1..i] /\ f[i - 1] = g[1..(i - 1)]
    BY <1>15
  <2>3. g[1..i] = MergeTweak(g[(1..i) \ {Max(1..i)}], extra[Max(1..i)])
    BY <1>14, <2>1
  <2> QED  BY <2>1, <2>2, <2>3
<1>18. \A i \in 0..n : f[i] \in Seq(AnyTweak)
  <2> DEFINE Typed == {i \in 0..n : f[i] \in Seq(AnyTweak)}
  <2>1. 0 \in Typed
    BY <1>16
  <2>2. \A i \in 1..n : i - 1 \in Typed => i \in Typed
    <3> SUFFICES ASSUME NEW i \in 1..n, f[i - 1] \in Seq(AnyTweak) PROVE f[i] \in Seq(AnyTweak)
      OBVIOUS
    <3>1. f[i] = MergeTweak(f[i - 1], extra[i]) /\ extra[i] \in AnyTweak
      BY <1>2, <1>17
    <3> QED  BY <3>1, MergeTweakTyped
  <2>3. Typed = 0..n
    <3>1. Typed \in SUBSET (0..n)
      OBVIOUS
    <3> HIDE DEF Typed
    <3> QED  BY <2>1, <2>2, <3>1, PrefixInduction
  <2> QED  BY <2>3
<1>19. f \in [0..n -> Seq(AnyTweak)] /\ f[n] = g[1..n]
  BY <1>15, <1>18
<1> QED  BY <1>1, <1>13, <1>16, <1>17, <1>19

\* What merging a sound pack into a sound list of tweaks adds to it: its tweaks with a new id.
LEMMA MergeAdds ==
  ASSUME NEW tweaks \in Seq(AnyTweak), NEW extra \in Seq(AnyTweak),
         FitList(tweaks), FitList(extra)
  PROVE  LET m == MergeTweaks(tweaks, extra)
         IN  /\ m \in Seq(AnyTweak) /\ FitList(m)
             /\ Len(tweaks) <= Len(m) /\ \A i \in 1..Len(tweaks) : m[i] = tweaks[i]
             /\ ToSet(m) = ToSet(tweaks) \cup
                              {t \in ToSet(extra) : \A u \in ToSet(tweaks) : u.id # t.id}
<1>1. PICK f \in [0..Len(extra) -> Seq(AnyTweak)] :
         /\ f[0] = tweaks
         /\ \A i \in 1..Len(extra) : f[i] = MergeTweak(f[i - 1], extra[i])
         /\ MergeTweaks(tweaks, extra) = f[Len(extra)]
  BY MergeRuns
<1>2. PICK n \in Nat : n = Len(extra)
  OBVIOUS
<1>3. PICK new : new = {i \in 1..n : \A u \in ToSet(tweaks) : u.id # extra[i].id}
  OBVIOUS
<1>4. /\ DOMAIN extra = 1..n /\ \A i \in 1..n : extra[i] \in AnyTweak /\ extra[i].id # ""
      /\ \A i, j \in 1..n : i # j => extra[i].id # extra[j].id
  <2>1. DOMAIN extra = 1..n /\ \A i \in 1..n : extra[i] \in AnyTweak
    BY <1>2
  <2>2. \A i, j \in 1..n : i # j => extra[i].id # extra[j].id
    BY <2>1 DEF FitList, Distinct
  <2>3. \A i \in 1..n : extra[i] \in ToSet(extra)
    BY <2>1 DEF ToSet
  <2>4. \A i \in 1..n : extra[i].id # ""
    BY <2>3 DEF FitList, FitTweak
  <2> QED  BY <2>1, <2>2, <2>4
<1> DEFINE Merged(s, i) ==
              /\ Distinct(s) /\ Len(tweaks) <= Len(s) /\ \A k \in 1..Len(tweaks) : s[k] = tweaks[k]
              /\ ToSet(s) = ToSet(tweaks) \cup {extra[j] : j \in {j \in new : j <= i}}
           Good == {i \in 0..n : Merged(f[i], i)}
<1>5. 0 \in Good
  <2>1. {j \in new : j <= 0} = {}
    BY <1>3
  <2>2. Distinct(tweaks) /\ f[0] = tweaks /\ Len(tweaks) \in Nat
    BY <1>1 DEF FitList
  <2>3. {extra[j] : j \in {j \in new : j <= 0}} = {}
    BY <2>1
  <2> QED  BY <2>2, <2>3
<1>6. ASSUME NEW i \in 1..n, i - 1 \in Good PROVE i \in Good
  <2>1. PICK s \in Seq(AnyTweak) : s = f[i - 1]
    <3>1. i - 1 \in 0..n
      OBVIOUS
    <3>2. f[i - 1] \in Seq(AnyTweak)
      BY <1>2, <3>1
    <3> QED  BY <3>2
  <2>2. PICK t \in AnyTweak : t = extra[i]
    BY <1>4
  <2>3. Merged(s, i - 1)
    BY <1>6, <2>1
  <2>4. f[i] = MergeTweak(s, t) /\ t.id # ""
    BY <1>1, <1>2, <1>4, <2>1, <2>2
  <2>5. \A j \in {j \in new : j <= i - 1} : j \in 1..n /\ j # i
    BY <1>3
  <2>6. CASE \E u \in ToSet(s) : u.id = t.id
    <3>1. PICK u \in ToSet(s) : u.id = t.id
      BY <2>6
    <3>2. u \in ToSet(tweaks)
      <4>1. \A j \in {j \in new : j <= i - 1} : extra[j].id # t.id
        BY <1>4, <2>2, <2>5
      <4>2. u \in ToSet(tweaks) \/ \E j \in {j \in new : j <= i - 1} : u = extra[j]
        BY <2>3, <3>1
      <4> QED  BY <3>1, <4>1, <4>2
    <3>3. i \notin new
      BY <1>3, <2>2, <3>1, <3>2
    <3>4. {j \in new : j <= i} = {j \in new : j <= i - 1}
      BY <1>3, <3>3
    <3>5. f[i] = s
      BY <2>4, <2>6 DEF MergeTweak
    <3> QED  BY <2>3, <3>4, <3>5
  <2>7. CASE ~ \E u \in ToSet(s) : u.id = t.id
    <3>1. f[i] = Append(s, t)
      BY <2>4, <2>7 DEF MergeTweak
    <3>2. /\ Append(s, t) \in Seq(AnyTweak) /\ Len(Append(s, t)) = Len(s) + 1
          /\ Append(s, t)[Len(s) + 1] = t
          /\ \A k \in 1..Len(s) : Append(s, t)[k] = s[k]
          /\ ToSet(Append(s, t)) = ToSet(s) \cup {t}
      BY ElementsAppended
    <3>3. PICK q \in Seq(AnyTweak) : q = Append(s, t)
      BY <3>2
    <3>4. DOMAIN q = 1..Len(s) + 1 /\ DOMAIN s = 1..Len(s) /\ Len(s) \in Nat /\ Len(tweaks) \in Nat
      BY <3>2, <3>3
    <3>5. \A k \in 1..Len(s) : q[k] = s[k] /\ s[k].id # t.id
      <4>1. \A k \in 1..Len(s) : s[k] \in ToSet(s)
        BY <3>4 DEF ToSet
      <4> QED  BY <2>7, <3>2, <3>3, <4>1
    <3>6. Distinct(q)
      <4> SUFFICES ASSUME NEW a \in DOMAIN q, NEW b \in DOMAIN q, a # b PROVE q[a].id # q[b].id
        BY DEF Distinct
      <4>1. \A k \in DOMAIN q : k \in 1..Len(s) \/ (k = Len(s) + 1 /\ q[k] = t)
        BY <3>2, <3>3, <3>4
      <4>2. CASE a \in 1..Len(s) /\ b \in 1..Len(s)
        BY <2>3, <3>4, <3>5, <4>2 DEF Distinct
      <4>3. CASE a \notin 1..Len(s)
        BY <3>5, <4>1, <4>3
      <4>4. CASE b \notin 1..Len(s)
        BY <3>5, <4>1, <4>4
      <4> QED  BY <4>2, <4>3, <4>4
    <3>7. \A k \in 1..Len(tweaks) : q[k] = tweaks[k]
      <4>1. Len(tweaks) <= Len(s) /\ \A k \in 1..Len(tweaks) : s[k] = tweaks[k]
        BY <2>3
      <4>2. \A k \in 1..Len(tweaks) : k \in 1..Len(s)
        BY <3>4, <4>1
      <4> QED  BY <3>5, <4>1, <4>2
    <3>8. i \in new
      BY <1>3, <2>2, <2>3, <2>7
    <3>9. {j \in new : j <= i} = {j \in new : j <= i - 1} \cup {i}
      BY <1>3, <3>8
    <3>10. ToSet(q) = ToSet(tweaks) \cup {extra[j] : j \in {j \in new : j <= i}}
      <4>1. PICK old : old = {j \in new : j <= i - 1}
        OBVIOUS
      <4>2. ToSet(s) = ToSet(tweaks) \cup {extra[j] : j \in old}
        BY <2>3, <4>1
      <4>3. ToSet(q) = ToSet(s) \cup {t}
        BY <3>2, <3>3
      <4>4. {extra[j] : j \in old \cup {i}} = {extra[j] : j \in old} \cup {t}
        BY <2>2
      <4>5. {j \in new : j <= i} = old \cup {i}
        BY <3>9, <4>1
      <4>6. ToSet(q) = ToSet(tweaks) \cup {extra[j] : j \in old \cup {i}}
        BY <4>2, <4>3, <4>4
      <4> QED  BY <4>5, <4>6
    <3>11. Len(tweaks) <= Len(q)
      BY <2>3, <3>2, <3>3, <3>4
    <3>12. Merged(q, i)
      BY <3>6, <3>7, <3>10, <3>11
    <3>13. f[i] = q
      BY <3>1, <3>3
    <3> HIDE DEF Merged
    <3> QED  BY <3>12, <3>13
  <2> QED  BY <2>6, <2>7
<1>7. Good = 0..n
  <2>1. Good \in SUBSET (0..n)
    OBVIOUS
  <2> HIDE DEF Good
  <2> QED  BY <1>5, <1>6, <2>1, PrefixInduction
<1>8. PICK m \in Seq(AnyTweak) : m = MergeTweaks(tweaks, extra) /\ Merged(m, n)
  <2>0. n \in 0..n
    OBVIOUS
  <2>1. f[n] \in Seq(AnyTweak) /\ f[n] = MergeTweaks(tweaks, extra)
    BY <1>1, <1>2, <2>0
  <2>3. n \in Good
    BY <1>7, <2>0
  <2>2. Merged(f[n], n)
    BY <2>3
  <2> HIDE DEF Merged
  <2> QED  BY <2>1, <2>2
<1>9. {j \in new : j <= n} = new
  BY <1>3
<1>10. {extra[j] : j \in new} = {t \in ToSet(extra) : \A u \in ToSet(tweaks) : u.id # t.id}
  BY <1>3, <1>4 DEF ToSet
<1>11. ToSet(m) = ToSet(tweaks) \cup {t \in ToSet(extra) : \A u \in ToSet(tweaks) : u.id # t.id}
  BY <1>8, <1>9, <1>10
<1>12. FitList(m)
  BY <1>8, <1>11 DEF FitList
<1> QED  BY <1>8, <1>11, <1>12

\* Merging keeps lists of tweaks lists of tweaks.
LEMMA MergeTyped ==
  \A tweaks \in Seq(AnyTweak), extra \in Seq(AnyTweak) : MergeTweaks(tweaks, extra) \in Seq(AnyTweak)
<1> SUFFICES ASSUME NEW tweaks \in Seq(AnyTweak), NEW extra \in Seq(AnyTweak)
             PROVE  MergeTweaks(tweaks, extra) \in Seq(AnyTweak)
  OBVIOUS
<1>1. PICK f \in [0..Len(extra) -> Seq(AnyTweak)] :
         /\ f[0] = tweaks
         /\ \A i \in 1..Len(extra) : f[i] = MergeTweak(f[i - 1], extra[i])
         /\ MergeTweaks(tweaks, extra) = f[Len(extra)]
  BY MergeRuns
<1>2. Len(extra) \in 0..Len(extra)
  OBVIOUS
<1> QED  BY <1>1, <1>2

\* The catalog is merged from the base, one pack after the other.
LEMMA CatalogRuns ==
  ASSUME NEW tweaks \in Seq(AnyTweak), NEW lists \in Seq(Seq(AnyTweak))
  PROVE  \E f \in [0..Len(lists) -> Seq(AnyTweak)] :
            /\ f[0] = tweaks
            /\ \A i \in 1..Len(lists) : f[i] = MergeTweaks(f[i - 1], lists[i])
            /\ FoldLeft(MergeTweaks, tweaks, lists) = f[Len(lists)]
<1>1. PICK n \in Nat : n = Len(lists)
  OBVIOUS
<1>2. DOMAIN lists = 1..n /\ \A i \in 1..n : lists[i] \in Seq(AnyTweak)
  BY <1>1
<1>3. PICK X : X = Seq(AnyTweak)
  OBVIOUS
<1>4. PICK G : G = [i \in 1..n |-> [out \in X |-> MergeTweaks(out, lists[i])]]
  OBVIOUS
<1>5. G \in [1..n -> [X -> X]]
  BY <1>2, <1>3, <1>4, MergeTyped
<1>6. tweaks \in X
  BY <1>3
<1>8. PICK it \in [SUBSET (1..n) -> X] : IndexTable(it, tweaks, G, n)
  BY <1>5, <1>6, IndexFoldExists
<1>7. /\ it \in [SUBSET (1..n) -> X] /\ it[{}] = tweaks
      /\ \A s \in SUBSET (1..n) : s # {} =>
            Max(s) \in s /\ it[s] = G[Max(s)][it[s \ {Max(s)}]]
  BY <1>8 DEF IndexTable
<1>10. PackTable(it, tweaks, lists)
  <2>1. ASSUME NEW s \in SUBSET (1..n), s # {}
        PROVE  it[s] = MergeTweaks(it[s \ {Max(s)}], lists[Max(s)])
    <3>1. Max(s) \in 1..n
      BY <1>7, <2>1
    <3>2. it[s \ {Max(s)}] \in X
      BY <1>7, <2>1
    <3> QED  BY <1>4, <1>7, <2>1, <3>1, <3>2
  <2>2. it = [s \in SUBSET (1..n) |-> it[s]]
    BY <1>7
  <2> QED  BY <1>2, <1>7, <2>1, <2>2 DEF PackTable
<1>11. PICK g : g = CHOOSE h : PackTable(h, tweaks, lists)
  OBVIOUS
<1>12. PackTable(g, tweaks, lists)
  BY <1>10, <1>11
<1>13. FoldLeft(MergeTweaks, tweaks, lists) = g[1..n]
  BY <1>2, <1>11, CatalogUnfolds
<1>14. /\ g[{}] = tweaks
       /\ \A s \in SUBSET (1..n) : s # {} => g[s] = MergeTweaks(g[s \ {Max(s)}], lists[Max(s)])
  BY <1>2, <1>12 DEF PackTable
<1>15. PICK f : f = [i \in 0..n |-> g[1..i]]
  OBVIOUS
<1>16. f[0] = tweaks
  <2>1. 1..0 = {}
    OBVIOUS
  <2> QED  BY <1>14, <1>15, <2>1
<1>17. ASSUME NEW i \in 1..n PROVE f[i] = MergeTweaks(f[i - 1], lists[i])
  <2>1. 1..i \in SUBSET (1..n) /\ 1..i # {} /\ Max(1..i) = i /\ (1..i) \ {i} = 1..(i - 1)
    BY UpTo
  <2>2. f[i] = g[1..i] /\ f[i - 1] = g[1..(i - 1)]
    BY <1>15
  <2>3. g[1..i] = MergeTweaks(g[(1..i) \ {Max(1..i)}], lists[Max(1..i)])
    BY <1>14, <2>1
  <2> QED  BY <2>1, <2>2, <2>3
<1>18. \A i \in 0..n : f[i] \in Seq(AnyTweak)
  <2> DEFINE Typed == {i \in 0..n : f[i] \in Seq(AnyTweak)}
  <2>1. 0 \in Typed
    BY <1>16
  <2>2. \A i \in 1..n : i - 1 \in Typed => i \in Typed
    <3> SUFFICES ASSUME NEW i \in 1..n, f[i - 1] \in Seq(AnyTweak) PROVE f[i] \in Seq(AnyTweak)
      OBVIOUS
    <3>1. f[i] = MergeTweaks(f[i - 1], lists[i]) /\ lists[i] \in Seq(AnyTweak)
      BY <1>2, <1>17
    <3> QED  BY <3>1, MergeTyped
  <2>3. Typed = 0..n
    <3>1. Typed \in SUBSET (0..n)
      OBVIOUS
    <3> HIDE DEF Typed
    <3> QED  BY <2>1, <2>2, <3>1, PrefixInduction
  <2> QED  BY <2>3
<1>19. f \in [0..n -> Seq(AnyTweak)] /\ f[n] = g[1..n]
  BY <1>15, <1>18
<1> QED  BY <1>1, <1>13, <1>16, <1>17, <1>19


\* The tweaks of the packs that have been taken are sound, and an elevated start knows the
\* embedded tweaks only.
CatalogInv ==
    /\ base \in Seq(AnyTweak) /\ FitList(base)
    /\ \A i \in DOMAIN packs : FitList(packs[i])
    /\ admin => packs = <<>> /\ left = 0 /\ (phase \notin {"config", "failed"} => base = BuiltIn)
    /\ CatalogMerged

\* A sequence put after another one.
LEMMA Concatenated ==
  ASSUME NEW S, NEW one \in Seq(S), NEW s \in Seq(S)
  PROVE  /\ Len(s) \in Nat /\ one \o s \in Seq(S) /\ Len(one \o s) = Len(one) + Len(s)
         /\ DOMAIN (one \o s) = 1..Len(one) + Len(s)
         /\ \A k \in 1..Len(one) + Len(s) :
               (one \o s)[k] = IF k <= Len(one) THEN one[k] ELSE s[k - Len(one)]
<1>1. /\ one \o s \in Seq(S) /\ Len(one \o s) = Len(one) + Len(s) /\ Len(one) \in Nat /\ Len(s) \in Nat
      /\ \A k \in 1..Len(one) + Len(s) :
            (one \o s)[k] = IF k <= Len(one) THEN one[k] ELSE s[k - Len(one)]
  OBVIOUS
<1>2. DOMAIN (one \o s) = 1..Len(one) + Len(s)
  OBVIOUS
<1> QED  BY <1>1, <1>2

\* A sequence with one element put before it.
LEMMA ElementBefore ==
  ASSUME NEW S, NEW one \in Seq(S), Len(one) = 1, NEW s \in Seq(S)
  PROVE  /\ DOMAIN (one \o s) = 1..Len(s) + 1 /\ (one \o s)[1] = one[1]
         /\ \A k \in 1..Len(s) : (one \o s)[k + 1] = s[k]
<1>0. /\ Len(s) \in Nat /\ DOMAIN (one \o s) = 1..Len(one) + Len(s)
      /\ \A k \in 1..Len(one) + Len(s) :
            (one \o s)[k] = IF k <= Len(one) THEN one[k] ELSE s[k - Len(one)]
  BY Concatenated
<1>1. PICK n \in Nat : n = Len(s)
  BY <1>0
<1>2. DOMAIN (one \o s) = 1..Len(s) + 1
  BY <1>0, <1>1
<1>3. \A k \in 1..Len(s) + 1 : (one \o s)[k] = IF k <= 1 THEN one[k] ELSE s[k - 1]
  BY <1>0, <1>1
<1>4. (one \o s)[1] = one[1]
  BY <1>1, <1>3
<1>5. ASSUME NEW k \in 1..Len(s) PROVE (one \o s)[k + 1] = s[k]
  <2>1. k + 1 \in 1..Len(s) + 1 /\ ~(k + 1 <= 1) /\ (k + 1) - 1 = k
    BY <1>1
  <2> QED  BY <1>3, <2>1
<1> QED  BY <1>2, <1>4, <1>5

\* The lists that offer tweaks.
LEMMA OffersListed ==
  ASSUME base \in Seq(AnyTweak), packs \in Seq(Seq(AnyTweak))
  PROVE  /\ DOMAIN Offers = 1..Len(packs) + 1 /\ Offers[1] = base
         /\ \A k \in 1..Len(packs) : Offers[k + 1] = packs[k]
<1>1. PICK S : S = Seq(AnyTweak)
  OBVIOUS
<1>2. PICK one : one = <<base>>
  OBVIOUS
<1>3. one \in Seq(S) /\ Len(one) = 1 /\ one[1] = base
  BY <1>1, <1>2
<1>4. PICK s : s = packs
  OBVIOUS
<1>5. s \in Seq(S)
  BY <1>1, <1>4
<1>6. /\ DOMAIN (one \o s) = 1..Len(s) + 1 /\ (one \o s)[1] = one[1]
      /\ \A k \in 1..Len(s) : (one \o s)[k + 1] = s[k]
  BY <1>3, <1>5, ElementBefore
<1>7. Offers = one \o s
  BY <1>2, <1>4 DEF Offers
<1> QED  BY <1>3, <1>4, <1>6, <1>7

\* Merging all packs keeps the base in front and gives each id to the list that offers it first.
LEMMA CatalogMerges ==
  ASSUME base \in Seq(AnyTweak), packs \in Seq(Seq(AnyTweak)), FitList(base),
         \A i \in DOMAIN packs : FitList(packs[i])
  PROVE  LET c == FoldLeft(MergeTweaks, base, packs)
         IN  /\ c \in Seq(AnyTweak) /\ FitList(c)
             /\ Len(base) <= Len(c) /\ \A i \in 1..Len(base) : c[i] = base[i]
             /\ ToSet(c) = UNION {FirstOffered(k) : k \in DOMAIN Offers}
<1>1. PICK f \in [0..Len(packs) -> Seq(AnyTweak)] :
         /\ f[0] = base
         /\ \A i \in 1..Len(packs) : f[i] = MergeTweaks(f[i - 1], packs[i])
         /\ FoldLeft(MergeTweaks, base, packs) = f[Len(packs)]
  BY CatalogRuns
<1>2. PICK n \in Nat : n = Len(packs)
  OBVIOUS
<1>3. /\ \A i \in 1..n : packs[i] \in Seq(AnyTweak) /\ FitList(packs[i])
  <2>1. DOMAIN packs = 1..n
    BY <1>2
  <2>2. \A i \in 1..n : FitList(packs[i])
    BY <2>1
  <2>3. \A i \in 1..n : packs[i] \in Seq(AnyTweak)
    BY <2>1
  <2> QED  BY <2>2, <2>3
<1>4. /\ DOMAIN Offers = 1..n + 1 /\ Offers[1] = base /\ \A k \in 1..n : Offers[k + 1] = packs[k]
  BY <1>2, OffersListed
<1> DEFINE Merged(c, i) ==
              /\ FitList(c) /\ Len(base) <= Len(c) /\ \A k \in 1..Len(base) : c[k] = base[k]
              /\ ToSet(c) = UNION {FirstOffered(k) : k \in 1..i + 1}
              /\ \A k \in 1..i + 1 : \A u \in ToSet(Offers[k]) : \E v \in ToSet(c) : v.id = u.id
           Good == {i \in 0..n : Merged(f[i], i)}
<1>5. 0 \in Good
  <2>1. \A k \in 1..0 + 1 : k = 1
    OBVIOUS
  <2>2. FirstOffered(1) = ToSet(base)
    BY <1>4 DEF FirstOffered
  <2>3. UNION {FirstOffered(k) : k \in 1..0 + 1} = ToSet(base)
    BY <2>1, <2>2
  <2>4. \A k \in 1..0 + 1 : \A u \in ToSet(Offers[k]) : \E v \in ToSet(base) : v.id = u.id
    BY <1>4, <2>1
  <2>5. Len(base) \in Nat
    OBVIOUS
  <2>6. Merged(base, 0)
    BY <2>3, <2>4, <2>5
  <2>7. 0 \in 0..n /\ f[0] = base
    BY <1>1
  <2> HIDE DEF Merged
  <2> QED  BY <2>6, <2>7
<1>6. ASSUME NEW i \in 1..n, i - 1 \in Good PROVE i \in Good
  <2>1. PICK s \in Seq(AnyTweak) : s = f[i - 1]
    <3>1. i - 1 \in 0..n
      OBVIOUS
    <3>2. f[i - 1] \in Seq(AnyTweak)
      BY <1>2, <3>1
    <3> QED  BY <3>2
  <2>2. PICK extra \in Seq(AnyTweak) : extra = packs[i] /\ FitList(extra)
    BY <1>3
  <2>3. Merged(s, i - 1)
    BY <1>6, <2>1
  <2>4. PICK j \in 0..n : j = i - 1
    OBVIOUS
  <2>5. 1..(i - 1) + 1 = 1..i /\ 1..i + 1 = 1..i \cup {i + 1} /\ 1..(i + 1) - 1 = 1..i
    OBVIOUS
  <2>6. /\ FitList(s) /\ Len(base) <= Len(s) /\ \A k \in 1..Len(base) : s[k] = base[k]
        /\ ToSet(s) = UNION {FirstOffered(k) : k \in 1..i}
        /\ \A k \in 1..i : \A u \in ToSet(Offers[k]) : \E v \in ToSet(s) : v.id = u.id
    BY <2>3, <2>5
  <2>7. PICK m \in Seq(AnyTweak) :
           /\ m = MergeTweaks(s, extra) /\ FitList(m)
           /\ Len(s) <= Len(m) /\ \A k \in 1..Len(s) : m[k] = s[k]
           /\ ToSet(m) = ToSet(s) \cup {t \in ToSet(extra) : \A u \in ToSet(s) : u.id # t.id}
    BY <2>2, <2>6, MergeAdds
  <2>8. f[i] = m
    BY <1>1, <1>2, <2>1, <2>2, <2>7
  <2>9. Offers[i + 1] = extra
    BY <1>4, <2>2
  <2>10. FirstOffered(i + 1) = {t \in ToSet(extra) : \A u \in ToSet(s) : u.id # t.id}
    <3>1. FirstOffered(i + 1) = {t \in ToSet(extra) : \A k \in 1..i : \A u \in ToSet(Offers[k]) : u.id # t.id}
      BY <2>5, <2>9 DEF FirstOffered
    <3>2. \A u \in ToSet(s) : \E k \in 1..i : u \in ToSet(Offers[k])
      BY <2>6 DEF FirstOffered
    <3>3. \A t : (\A k \in 1..i : \A u \in ToSet(Offers[k]) : u.id # t.id) <=> (\A u \in ToSet(s) : u.id # t.id)
      BY <2>6, <3>2
    <3> QED  BY <3>1, <3>3
  <2>11. ToSet(m) = UNION {FirstOffered(k) : k \in 1..i + 1}
    <3>1. ToSet(m) = ToSet(s) \cup FirstOffered(i + 1)
      BY <2>7, <2>10
    <3>2. UNION {FirstOffered(k) : k \in 1..i + 1}
             = (UNION {FirstOffered(k) : k \in 1..i}) \cup FirstOffered(i + 1)
      BY <2>5
    <3> QED  BY <2>6, <3>1, <3>2
  <2>12. \A k \in 1..i + 1 : \A u \in ToSet(Offers[k]) : \E v \in ToSet(m) : v.id = u.id
    <3>1. \A k \in 1..i : \A u \in ToSet(Offers[k]) : \E v \in ToSet(m) : v.id = u.id
      BY <2>6, <2>7
    <3>2. \A u \in ToSet(extra) : \E v \in ToSet(m) : v.id = u.id
      BY <2>7
    <3> QED  BY <2>5, <2>9, <3>1, <3>2
  <2>13. Len(base) <= Len(m) /\ \A k \in 1..Len(base) : m[k] = base[k]
    <3>1. Len(base) \in Nat /\ Len(s) \in Nat /\ Len(m) \in Nat
      OBVIOUS
    <3>2. \A k \in 1..Len(base) : k \in 1..Len(s)
      BY <2>6, <3>1
    <3> QED  BY <2>6, <2>7, <3>1, <3>2
  <2>14. Merged(m, i)
    BY <2>7, <2>11, <2>12, <2>13
  <2> HIDE DEF Merged
  <2> QED  BY <2>8, <2>14
<1>7. Good = 0..n
  <2>1. Good \in SUBSET (0..n)
    OBVIOUS
  <2> HIDE DEF Good
  <2> QED  BY <1>5, <1>6, <2>1, PrefixInduction
<1>8. PICK c \in Seq(AnyTweak) : c = FoldLeft(MergeTweaks, base, packs) /\ Merged(c, n)
  <2>1. n \in 0..n
    OBVIOUS
  <2>2. f[n] \in Seq(AnyTweak) /\ f[n] = FoldLeft(MergeTweaks, base, packs)
    BY <1>1, <1>2, <2>1
  <2>3. n \in Good
    BY <1>7, <2>1
  <2>4. Merged(f[n], n)
    BY <2>3
  <2> HIDE DEF Merged
  <2> QED  BY <2>2, <2>4
<1> QED  BY <1>4, <1>8

\* The embedded catalog is sound.
LEMMA BuiltInTyped == BuiltIn \in Seq(AnyTweak) /\ FitList(BuiltIn)
<1>1. SetMarker \in AnyOperation
  BY DEF Operations, AnyOperation
<1>2. PICK t : t = Sound("a")
  OBVIOUS
<1>3. <<SetMarker>> \in Seq(AnyOperation) /\ <<SetMarker>> # <<>> /\ ToSet(<<SetMarker>>) = {SetMarker}
  BY <1>1 DEF ToSet
<1>4. PICK ops \in Seq(AnyOperation) : ops = <<SetMarker>>
  BY <1>3
<1>5. /\ t.id = "a" /\ t.operations = ops /\ t.revert = ops /\ t.reversible = TRUE
      /\ t.risk = "" /\ t.long = FALSE /\ t \in AnyTweak
  BY <1>2, <1>4 DEF Sound, Tweak, AnyTweak
<1>6. ToSet(ops \o ops) = {SetMarker}
  <2>1. ToSet(ops \o ops) = ToSet(ops) \cup ToSet(ops)
    BY ElementsOfBoth
  <2> QED  BY <1>3, <1>4, <2>1
<1>7. FitTweak(t)
  <2>1. SetMarker.fit
    BY DEF SetMarker, Operation
  <2>2. ops # <<>>
    BY <1>3, <1>4
  <2> QED  BY <1>5, <1>6, <2>1, <2>2 DEF FitTweak
<1>8. PICK list : list = <<t>>
  OBVIOUS
<1>9. list \in Seq(AnyTweak) /\ DOMAIN list = {1} /\ list[1] = t
  <2>1. list \in Seq(AnyTweak) /\ Len(list) = 1 /\ list[1] = t
    <3>1. \A x \in AnyTweak : <<x>> \in Seq(AnyTweak) /\ Len(<<x>>) = 1 /\ <<x>>[1] = x
      OBVIOUS
    <3> QED  BY <1>5, <1>8, <3>1
  <2>2. DOMAIN list = 1..Len(list) /\ 1..1 = {1}
    BY <2>1
  <2> QED  BY <2>1, <2>2
<1>10. FitList(list)
  BY <1>7, <1>9 DEF FitList, Distinct, ToSet
<1> QED  BY <1>2, <1>8, <1>9, <1>10 DEF BuiltIn

\* A loaded file is a sound list of tweaks, and without overrides it is the embedded one.
LEMMA LoadedCatalog ==
  ASSUME NEW tweaks \in TweakFiles, LoadTweaks(ReadFile(tweaks, File(BuiltIn)))
  PROVE  LET f == ReadFile(tweaks, File(BuiltIn))
         IN  /\ f.entries \in Seq(AnyTweak) /\ FitList(f.entries)
             /\ tweaks = Absent => f.entries = BuiltIn
<1>1. CASE tweaks = Absent
  <2>1. ReadFile(tweaks, File(BuiltIn)) = File(BuiltIn)
    BY <1>1 DEF ReadFile
  <2>2. File(BuiltIn).entries = BuiltIn
    BY DEF File
  <2> QED  BY <2>1, <2>2, BuiltInTyped
<1>2. CASE tweaks # Absent
  <2>1. ReadFile(tweaks, File(BuiltIn)) = tweaks
    BY <1>2 DEF ReadFile
  <2>2. tweaks.entries \in Seq(AnyTweak) /\ ValidTweaks(tweaks.entries)
    BY <2>1, FilesTyped DEF LoadTweaks
  <2> QED  BY <1>2, <2>1, <2>2, ListsJudged
<1> QED  BY <1>1, <1>2

\* A folder that is read, or a script that runs, adds at most one sound pack.
LEMMA FolderKeeps ==
  ASSUME PacksInv, CatalogInv, left > 0, phase' # "up", UNCHANGED <<admin, base>>,
         packs' = packs \/ \E tweaks \in Seq(AnyTweak) : FitList(tweaks) /\ packs' = Append(packs, tweaks)
  PROVE  CatalogInv'
<1>1. ~admin /\ ~admin'
  BY DEF CatalogInv, PacksInv
<1>2. CatalogMerged'
  BY DEF CatalogMerged
<1>3. \A i \in DOMAIN packs' : FitList(packs'[i])
  <2>1. CASE packs' = packs
    BY <2>1 DEF CatalogInv
  <2>2. ASSUME NEW tweaks \in Seq(AnyTweak), FitList(tweaks), packs' = Append(packs, tweaks)
        PROVE  \A i \in DOMAIN packs' : FitList(packs'[i])
    <3>1. PICK p \in Seq(Seq(AnyTweak)) : p = packs
      BY DEF PacksInv
    <3>2. /\ DOMAIN Append(p, tweaks) = 1..Len(p) + 1 /\ Append(p, tweaks)[Len(p) + 1] = tweaks
          /\ \A i \in 1..Len(p) : Append(p, tweaks)[i] = p[i]
      BY <3>1
    <3>3. \A i \in 1..Len(p) : FitList(p[i])
      <4>1. DOMAIN p = 1..Len(p)
        BY <3>1
      <4> QED  BY <3>1, <4>1 DEF CatalogInv
    <3>4. Len(p) \in Nat
      BY <3>1
    <3> QED  BY <2>2, <3>1, <3>2, <3>3, <3>4
  <2> QED  BY <2>1, <2>2
<1> QED  BY <1>1, <1>2, <1>3 DEF CatalogInv

\* What Add does to the packs.
LEMMA AddKeeps ==
  ASSUME NEW tweaks \in Seq(AnyTweak), NEW wrong, NEW from, Add(Content(tweaks, wrong, from)),
         FitList(tweaks)
  PROVE  /\ phase' # "up"
         /\ packs' = packs \/ \E t \in Seq(AnyTweak) : FitList(t) /\ packs' = Append(packs, t)
<1>1. Content(tweaks, wrong, from).tweaks = tweaks
  BY DEF Content
<1>2. PICK content : content = Content(tweaks, wrong, from)
  OBVIOUS
<1>3. \/ phase' = "failed" /\ packs' = packs
      \/ packs' = Append(packs, content.tweaks) /\ phase' = "folder"
  BY <1>2 DEF Add
<1> QED  BY <1>1, <1>2, <1>3

\* The catalogs are loaded.
LEMMA LoadConfigMerges == PacksInv /\ CatalogInv /\ LoadConfig => CatalogInv'
<1> SUFFICES ASSUME PacksInv, CatalogInv, LoadConfig PROVE CatalogInv'
  OBVIOUS
<1>1. /\ phase = "config" /\ UNCHANGED <<admin, left, packs, script, host, lastPack, catalog>>
  BY DEF LoadConfig
<1>2. PICK tweaks \in (IF admin THEN {Absent} ELSE TweakFiles),
           apps, dns, services \in (IF admin THEN {Absent} ELSE OtherFiles) :
         LET f == ReadFile(tweaks, File(BuiltIn))
             other(o) == ReadFile(o, File(<<Entry("x", "none")>>))
         IN IF /\ LoadTweaks(f) /\ LoadApps(other(apps)) /\ LoadDns(other(dns))
               /\ LoadProtectedServices(other(services))
            THEN phase' = "plugins" /\ base' = f.entries
            ELSE phase' = "failed" /\ UNCHANGED base
  BY DEF LoadConfig
<1>3. PICK f : f = ReadFile(tweaks, File(BuiltIn))
  OBVIOUS
<1>4. \/ LoadTweaks(f) /\ phase' = "plugins" /\ base' = f.entries
      \/ phase' = "failed" /\ UNCHANGED base
  BY <1>2, <1>3
<1>5. tweaks \in TweakFiles /\ (admin => tweaks = Absent)
  BY <1>2 DEF TweakFiles
<1>6. CASE LoadTweaks(f) /\ phase' = "plugins" /\ base' = f.entries
  <2>1. f.entries \in Seq(AnyTweak) /\ FitList(f.entries) /\ (tweaks = Absent => f.entries = BuiltIn)
    BY <1>3, <1>5, <1>6, LoadedCatalog
  <2>2. CatalogMerged'
    BY <1>6 DEF CatalogMerged
  <2>3. FitList(base')
    BY <1>6, <2>1
  <2> QED  BY <1>1, <1>5, <1>6, <2>1, <2>2, <2>3 DEF CatalogInv
<1>7. CASE phase' = "failed" /\ UNCHANGED base
  <2>1. CatalogMerged'
    BY <1>7 DEF CatalogMerged
  <2> QED  BY <1>1, <1>7, <2>1 DEF CatalogInv
<1> QED  BY <1>4, <1>6, <1>7

\* The packs are merged.
LEMMA EndDiscoveryMerges == PacksInv /\ CatalogInv /\ EndDiscovery => CatalogInv'
<1> SUFFICES ASSUME PacksInv, CatalogInv, EndDiscovery PROVE CatalogInv'
  OBVIOUS
<1>1. /\ phase = "folder" /\ phase' = "up" /\ catalog' = FoldLeft(MergeTweaks, base, packs)
      /\ UNCHANGED <<admin, left, packs, script, host, lastPack, base>>
  BY DEF EndDiscovery
<1>2. PICK c : c = FoldLeft(MergeTweaks, base, packs)
  OBVIOUS
<1>3. /\ c \in Seq(AnyTweak) /\ FitList(c)
      /\ Len(base) <= Len(c) /\ \A i \in 1..Len(base) : c[i] = base[i]
      /\ ToSet(c) = UNION {FirstOffered(k) : k \in DOMAIN Offers}
  BY <1>2, CatalogMerges DEF CatalogInv, PacksInv
<1>4. base \in Seq(AnyTweak)
  BY DEF CatalogInv
<1>5. SubSeq(c, 1, Len(base)) = base
  <2>1. Len(base) \in Nat /\ Len(c) \in Nat
    BY <1>3, <1>4
  <2>2. SubSeq(c, 1, Len(base)) = [i \in 1..Len(base) |-> c[i]]
    BY <1>3, <2>1
  <2>3. base = [i \in 1..Len(base) |-> base[i]]
    BY <1>4
  <2> QED  BY <1>3, <2>2, <2>3
<1>6. admin => c = BuiltIn
  <2> SUFFICES ASSUME admin PROVE c = BuiltIn
    OBVIOUS
  <2>1. packs = <<>> /\ base = BuiltIn
    BY <1>1 DEF CatalogInv
  <2>2. PICK f \in [0..Len(packs) -> Seq(AnyTweak)] :
           /\ f[0] = base /\ FoldLeft(MergeTweaks, base, packs) = f[Len(packs)]
    BY <1>4, CatalogRuns DEF PacksInv
  <2>3. Len(packs) = 0
    BY <2>1
  <2> QED  BY <1>2, <2>1, <2>2, <2>3
<1>7. ToSet(catalog') = (UNION {FirstOffered(k) : k \in DOMAIN Offers})'
  <2>1. Offers' = Offers
    BY <1>1 DEF Offers
  <2>2. \A k : FirstOffered(k)' = FirstOffered(k)
    BY <2>1 DEF FirstOffered
  <2> QED  BY <1>1, <1>2, <1>3, <2>1, <2>2
<1>8. CatalogMerged'
  BY <1>1, <1>2, <1>3, <1>5, <1>6, <1>7 DEF CatalogMerged
<1> QED  BY <1>1, <1>8 DEF CatalogInv

\* Every step of a start keeps it.
LEMMA CatalogStep == PacksInv /\ CatalogInv /\ [PacksNext]_packVars => CatalogInv'
<1> SUFFICES ASSUME PacksInv, CatalogInv, [PacksNext]_packVars PROVE CatalogInv'
  OBVIOUS
<1>1. CASE UNCHANGED packVars
  <2>1. UNCHANGED <<admin, phase, left, packs, base, catalog>>
    BY <1>1 DEF packVars
  <2>2. Offers' = Offers
    BY <2>1 DEF Offers
  <2>3. CatalogMerged'
    <3>1. \A k : FirstOffered(k)' = FirstOffered(k)
      BY <2>2 DEF FirstOffered
    <3> QED  BY <2>1, <2>2, <3>1 DEF CatalogMerged, CatalogInv
  <2> QED  BY <2>1, <2>3 DEF CatalogInv
<1>2. CASE ScanFolders \/ ScanFails
  <2>1. /\ phase' \in {"folder", "failed"} /\ UNCHANGED <<admin, packs, base>> /\ phase = "plugins"
        /\ admin => left' = 0
    <3>1. CASE ScanFolders
      <4>1. UNCHANGED <<admin, packs, base>> /\ phase' \in {"folder", "failed"} /\ phase = "plugins"
        BY <3>1 DEF ScanFolders
      <4>2. admin => left' = 0 \/ left' = left
        BY <3>1 DEF ScanFolders
      <4> QED  BY <4>1, <4>2 DEF CatalogInv
    <3>2. CASE ScanFails
      BY <3>2 DEF ScanFails
    <3> QED  BY <1>2, <3>1, <3>2
  <2>2. CatalogMerged'
    BY <2>1 DEF CatalogMerged
  <2> QED  BY <2>1, <2>2 DEF CatalogInv
<1>3. CASE SkipFolder
  <2>1. left > 0 /\ phase' # "up" /\ UNCHANGED <<admin, base>> /\ packs' = packs
    BY <1>3 DEF SkipFolder, Skip
  <2> QED  BY <2>1, FolderKeeps
<1>4. CASE LoadJSONPlugin
  <2>1. PICK f \in TweakFiles :
           IF f = Absent \/ LoadTweaks(f)
           THEN Add(Content(f.entries, f \in {Unreadable, Malformed}, "json"))
           ELSE Skip(Content(f.entries, f \in {Unreadable, Malformed}, "json"))
    BY <1>4 DEF LoadJSONPlugin
  <2>2. left > 0 /\ UNCHANGED <<admin, base>>
    BY <1>4 DEF LoadJSONPlugin
  <2>3. f.entries \in Seq(AnyTweak)
    BY FilesTyped
  <2>4. CASE f = Absent \/ LoadTweaks(f)
    <3>1. ValidTweaks(f.entries)
      <4>1. Absent.entries = <<>> /\ ValidTweaks(<<>>)
        BY DEF Absent, ValidTweaks, Distinct
      <4> QED  BY <2>4, <4>1 DEF LoadTweaks
    <3>2. FitList(f.entries)
      BY <2>3, <3>1, ListsJudged
    <3>3. PICK wrong : wrong = (f \in {Unreadable, Malformed})
      OBVIOUS
    <3>4. Add(Content(f.entries, wrong, "json"))
      BY <2>1, <2>4, <3>3
    <3>5. /\ phase' # "up"
          /\ packs' = packs \/ \E t \in Seq(AnyTweak) : FitList(t) /\ packs' = Append(packs, t)
      BY <2>3, <3>2, <3>4, AddKeeps
    <3> QED  BY <2>2, <3>5, FolderKeeps
  <2>5. CASE ~(f = Absent \/ LoadTweaks(f))
    <3>1. phase' # "up" /\ packs' = packs
      BY <2>1, <2>5 DEF Skip
    <3> QED  BY <2>2, <3>1, FolderKeeps
  <2> QED  BY <2>4, <2>5
<1>5. CASE StartScript
  <2>1. left > 0 /\ phase' # "up" /\ UNCHANGED <<admin, base>> /\ packs' = packs
    BY <1>5 DEF StartScript
  <2> QED  BY <2>1, FolderKeeps
<1>6. CASE ScriptFails \/ ScriptCalls \/ ScriptStopped
  <2>1. phase = "script" /\ phase' # "up" /\ UNCHANGED <<admin, base>> /\ packs' = packs
    <3>1. CASE ScriptFails
      BY <3>1 DEF ScriptFails, Skip
    <3>2. CASE ScriptCalls
      BY <3>2 DEF ScriptCalls
    <3>3. CASE ScriptStopped
      BY <3>3 DEF ScriptStopped, Skip
    <3> QED  BY <1>6, <3>1, <3>2, <3>3
  <2>2. left > 0
    BY <2>1 DEF PacksInv
  <2> QED  BY <2>1, <2>2, FolderKeeps
<1>7. CASE ScriptEnds
  <2>1. /\ phase = "script" /\ UNCHANGED <<admin, base>>
        /\ IF ValidTweaks(script.committed)
           THEN Add(Content(script.committed, FALSE, "lua"))
           ELSE Skip(Content(script.committed, FALSE, "lua"))
    BY <1>7 DEF ScriptEnds
  <2>2. left > 0 /\ script.committed \in Seq(Committed)
    BY <2>1 DEF PacksInv, Script
  <2>3. PICK tweaks \in Seq(AnyTweak) : tweaks = script.committed
    BY <2>2, CommittedTyped
  <2>4. CASE ValidTweaks(tweaks)
    <3>1. FitList(tweaks)
      BY <2>4, ListsJudged
    <3>2. PICK wrong, from : wrong = FALSE /\ from = "lua"
      OBVIOUS
    <3>3. Add(Content(tweaks, wrong, from))
      BY <2>1, <2>3, <2>4, <3>2
    <3>4. /\ phase' # "up"
          /\ packs' = packs \/ \E t \in Seq(AnyTweak) : FitList(t) /\ packs' = Append(packs, t)
      BY <3>1, <3>3, AddKeeps
    <3> QED  BY <2>1, <2>2, <3>4, FolderKeeps
  <2>5. CASE ~ValidTweaks(tweaks)
    <3>1. phase' # "up" /\ packs' = packs
      BY <2>1, <2>3, <2>5 DEF Skip
    <3> QED  BY <2>1, <2>2, <3>1, FolderKeeps
  <2> QED  BY <2>4, <2>5
<1> QED  BY <1>1, <1>2, <1>3, <1>4, <1>5, <1>6, <1>7, LoadConfigMerges, EndDiscoveryMerges DEF PacksNext

\* It holds when a process starts.
LEMMA CatalogStart == PacksInit => CatalogInv
<1> SUFFICES ASSUME PacksInit PROVE CatalogInv
  OBVIOUS
<1>1. base = <<>> /\ packs = <<>> /\ left = 0 /\ phase = "config"
  BY DEF PacksInit
<1>2. FitList(<<>>) /\ <<>> \in Seq(AnyTweak)
  BY DEF FitList, Distinct, ToSet
<1>3. CatalogMerged
  BY <1>1 DEF CatalogMerged
<1> QED  BY <1>1, <1>2, <1>3 DEF CatalogInv

-----------------------------------------------------------------------------
(* The sessions.                                                             *)

\* The limiter, the commands and the start, each in a state its own steps can lead to.
SessionInv ==
    /\ session \in {"limiter", "commands", "packs"}
    /\ LimiterTypeOK /\ BudgetInv /\ CommandsInv /\ PacksInv /\ CatalogInv

\* A step of one session leaves the state of the others alone.
LEMMA SessionStep == SessionInv /\ [Next]_vars => SessionInv'
<1> SUFFICES ASSUME SessionInv, [Next]_vars PROVE SessionInv'
  OBVIOUS
<1>1. /\ session' = session
      /\ [LimiterNext]_limiterVars /\ [CommandsNext]_cmdVars /\ [PacksNext]_packVars
  BY DEF Next, LimiterSession, CommandSession, PackSession, vars
<1>2. LimiterTypeOK' /\ BudgetInv'
  BY <1>1, LimiterTypeStep, BudgetStep DEF SessionInv
<1>3. CommandsInv'
  BY <1>1, CommandStep DEF SessionInv
<1>4. PacksInv'
  BY <1>1, PackStep DEF SessionInv
<1>5. CatalogInv'
  BY <1>1, CatalogStep DEF SessionInv
<1> QED  BY <1>1, <1>2, <1>3, <1>4, <1>5 DEF SessionInv

\* It holds when a session starts.
LEMMA SessionStart == Init => SessionInv
BY LimiterTypeInit, BudgetInit, CommandStart, PackStart, CatalogStart DEF Init, SessionInv

\* The invariant holds always.
THEOREM SessionsSound == Spec => []SessionInv
BY SessionStart, SessionStep, PTL DEF Spec

\* Every state of the limiter, of the requests and of the start is well typed: no bucket is
\* overdrawn, no lock has two holders, no script has two tweaks open, and no start holds more
\* packs than the loader admits.
THEOREM FrontEndTypes == Spec => []TypeOK
<1>1. SessionInv => TypeOK
  BY CommandsSound, PacksTyped DEF SessionInv, TypeOK
<1> QED  BY <1>1, SessionsSound, PTL

\* For any number of requests and any mix of commands, a request that is flawed or refused
\* changes nothing, not even by a restore point made for it (app.go:379-381, 522-524).
THEOREM FlawedChangesNothing == Spec => []FlawedHarmless
<1>1. SessionInv => FlawedHarmless
  BY CommandsSound DEF SessionInv
<1> QED  BY <1>1, SessionsSound, PTL

\* For any number of requests and any mix of commands, an answer says what happened: ok only
\* after a success that was recorded where it has to be, and no error after one.
THEOREM AnswersHold == Spec => []AnswersTruthful
<1>1. SessionInv => AnswersTruthful
  BY CommandsSound DEF SessionInv
<1> QED  BY <1>1, SessionsSound, PTL

\* The budget of the limiter holds in the composition, too.
THEOREM BudgetHolds == Spec => []BudgetHonoured
<1>1. SessionInv => BudgetHonoured
  BY RefillIsEnough DEF SessionInv, BudgetInv, BudgetHonoured
<1> QED  BY <1>1, SessionsSound, PTL

\* For any number of folders and scripts of any length, in this program's script host as in any
\* that keeps to the interface, a pack is taken whole or not at all, whichever calls its script
\* makes in which order and whichever errors it catches; and once folders are read the start fails
\* only at a sound pack that exceeds one of the two limits (plugin.go:156-157, 183-191,
\* lua.go:294-297).
THEOREM BrokenPacksContained == Spec => []PacksContained
<1>1. SessionInv => PacksContained
  BY DEF SessionInv, PacksInv
<1> QED  BY <1>1, SessionsSound, PTL

\* For any number of packs of any length, the catalog of a started application has unique ids and
\* sound tweaks only, begins with the base unchanged, gives every id to the list that offers it
\* first, and is the embedded one if the process is elevated (app.go:95-101, 141-144,
\* plugin.go:348-350).
THEOREM CatalogIsMerged == Spec => []CatalogMerged
<1>1. SessionInv => CatalogMerged
  BY DEF SessionInv, CatalogInv
<1> QED  BY <1>1, SessionsSound, PTL

\* The limiter of the composition answers like one token bucket per address.
THEOREM BucketsImplemented == Spec => BucketPerAddress
<1>1. LimiterTypeOK /\ [LimiterNext]_limiterVars 
        => [Bucket!Next]_<<[k \in Keys |-> Level(k)], verdict>>
  BY BucketStep
<1>2. SessionInv /\ [Next]_vars => LimiterTypeOK /\ [LimiterNext]_limiterVars
  BY DEF SessionInv, Next, LimiterSession, CommandSession, PackSession, vars
<1>3. Init => Bucket!Init
  BY BucketInit DEF Init
<1> QED  BY <1>1, <1>2, <1>3, SessionsSound, PTL DEF Spec, BucketPerAddress, Bucket!Spec

=============================================================================
