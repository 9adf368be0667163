---------------------------- MODULE CommandTable ----------------------------
(***************************************************************************)
(* Every command of the two front ends, the dashboard's HTTP handlers       *)
(* (internal/httpapi/server.go) and the command line (internal/cli/cli.go), *)
(* and the operations of the application service behind them                *)
(* (internal/app/app.go), by what distinguishes one from another:           *)
(*                                                                         *)
(*   via      how the front end runs it: while the client waits ("read"     *)
(*            without and "direct" under the server's mutation lock), as a  *)
(*            background job ("job"), or in a process of its own ("cli")    *)
(*   gate     the defects ServeHTTP rejects before the handler runs         *)
(*   checks   the defects the front end itself rejects: of the body or the  *)
(*            arguments, and of a field in them                            *)
(*   opens    the command line builds the whole application first          *)
(*   closed   what an elevated process does: runs it ("never"), rejects it   *)
(*            in the handler or in App, or answers with an empty list       *)
(*   app      App.mutationMu is held                                       *)
(*   refuses  the defects App and the orchestrator reject under the lock    *)
(*   point    the restore point: "none", best effort before the change      *)
(*            ("ensured"), or the purpose of the command ("created")        *)
(*   records  an audit record of the outcome is part of the outcome        *)
(*   ends     how the operation behind it may end                          *)
(*   part     how a partial success is reported                            *)
(*   dry      the request may ask for a simulation                         *)
(*                                                                         *)
(* What the operations do to the machine is modelled by the modules of      *)
(* those operations; here they end well, partly or badly.                   *)
(***************************************************************************)

\* The defects isLoopbackAuthority, isSameOrigin, the token comparison and the rate limiter find.
GateChecks == {"host", "origin", "token", "budget"}

Plain == [via |-> "read", gate |-> {}, checks |-> {}, opens |-> FALSE, closed |-> "never",
          app |-> FALSE, refuses |-> {}, point |-> "none", records |-> FALSE,
          ends |-> {"done"}, part |-> "error", dry |-> FALSE]

\* A change of the machine that can fail, made with a best-effort restore point.
Change == [Plain EXCEPT !.point = "ensured", !.ends = {"done", "failed"}]

-----------------------------------------------------------------------------
(* The application service.                                                  *)

AppApply == [Change EXCEPT !.app = TRUE, !.refuses = {"unknown"}, !.records = TRUE, !.dry = TRUE]

\* The restore point is for reversible tweaks only; the orchestrator rejects the others.
AppUndo == [Change EXCEPT !.app = TRUE, !.refuses = {"unknown", "irreversible"}, !.records = TRUE]

AppUndoEntry ==
    [Change EXCEPT !.app = TRUE, !.closed = "app", !.records = TRUE,
                   !.refuses = {"unreadable", "undone", "ambiguous", "unknown", "irreversible"}]

AppInstallPackage == [Change EXCEPT !.app = TRUE, !.closed = "app", !.records = TRUE]

AppSearchPackages == [Plain EXCEPT !.closed = "app", !.ends = {"done", "failed"}]

AppCreateRestorePoint == [Change EXCEPT !.app = TRUE, !.point = "created", !.records = TRUE]

AppListRestorePoints == [Plain EXCEPT !.ends = {"done", "part", "failed"}]

\* Failed tweaks and upgrades are collected and make the pass a failed one.
AppRunMaintenance == [Change EXCEPT !.app = TRUE, !.records = TRUE]

AppScheduleMaintenance == [Change EXCEPT !.app = TRUE]

AppUnscheduleMaintenance == [Change EXCEPT !.app = TRUE]

\* An unreadable audit file leaves the entries of the others.
AppHistory == [Plain EXCEPT !.ends = {"done", "part", "failed"}]

-----------------------------------------------------------------------------
(* The dashboard.                                                            *)

Get(row)    == [row EXCEPT !.gate = {"host"}]
Post(row)   == [row EXCEPT !.gate = GateChecks]
Direct(row) == [Post(row) EXCEPT !.via = "direct"]
Job(row)    == [Post(row) EXCEPT !.via = "job"]

HandleStatus == Get(Plain)
HandleHealth == Get(Plain)
HandleBloatware == Get(Plain)
HandleListTweaks == Get(Plain)
HandleListPlugins == Get(Plain)
HandleListApps == Get(Plain)
HandleDnsPresets == Get(Plain)

\* Whether the job exists is the only thing that can be wrong with the request.
HandleJobStatus == [Get(Plain) EXCEPT !.checks = {"field"}]

\* Elevated, the history is empty and says so; entries that could be read come with a warning.
HandleHistory == [Get(AppHistory) EXCEPT !.closed = "empty", !.part = "warned"]

HandleListRestorePoints == Get(AppListRestorePoints)

HandleISOEditions == [Post(Plain) EXCEPT !.checks = {"body", "field"}, !.closed = "handler",
                                        !.ends = {"done", "failed"}]

\* The body is optional, and none of its fields is.
HandleUpdatesSearch == [Post(Plain) EXCEPT !.checks = {"body"}, !.ends = {"done", "failed"}]

HandleApplyTweak == [Direct(AppApply) EXCEPT !.checks = {"body", "field"}]
HandleUndoTweak == [Direct(AppUndo) EXCEPT !.checks = {"body", "field"}]
HandleUndoEntry == [Direct(AppUndoEntry) EXCEPT !.checks = {"body", "field"}]
HandleRestorePoint == [Direct(AppCreateRestorePoint) EXCEPT !.checks = {"body"}]
HandleScheduleMaintenance == Direct(AppScheduleMaintenance)
HandleUnscheduleMaintenance == Direct(AppUnscheduleMaintenance)

HandleDnsApply == [Direct(Change) EXCEPT !.checks = {"body", "field"}]

HandleInstall == [Job(AppInstallPackage) EXCEPT !.checks = {"body", "field"}]
HandleResetWindowsUpdate == Job(Change)
HandleRepairImage == Job(Change)

\* Flushing the resolver's cache needs no restore point.
HandleFlushDNS == [Job(Change) EXCEPT !.point = "none"]

HandleNetworkReset == Job(Change)
HandleRunMaintenance == Job(AppRunMaintenance)

\* Building an ISO changes no setting of the machine.  Its options are validated inside the job.
HandleISOBuild == [Job(Change) EXCEPT !.checks = {"body"}, !.closed = "handler", !.point = "none"]

\* A partial installation is logged as such.
HandleUpdatesInstall == [Job(Change) EXCEPT !.ends = {"done", "part", "failed"}, !.part = "warned"]

FeatureHandler == [Job(Change) EXCEPT !.checks = {"body", "field"}]

Dashboard ==
    {HandleStatus, HandleHealth, HandleBloatware, HandleListTweaks, HandleListPlugins, HandleListApps,
     HandleDnsPresets, HandleJobStatus, HandleHistory, HandleListRestorePoints, HandleISOEditions,
     HandleUpdatesSearch, HandleApplyTweak, HandleUndoTweak, HandleUndoEntry, HandleRestorePoint,
     HandleScheduleMaintenance, HandleUnscheduleMaintenance, HandleDnsApply, HandleInstall,
     HandleResetWindowsUpdate, HandleRepairImage, HandleFlushDNS, HandleNetworkReset,
     HandleRunMaintenance, HandleISOBuild, HandleUpdatesInstall, FeatureHandler}

-----------------------------------------------------------------------------
(* The command line.                                                         *)

\* A command that works on the application, and one that needs only its own package.
Opened(row)     == [row EXCEPT !.via = "cli", !.opens = TRUE]
Standalone(row) == [row EXCEPT !.via = "cli"]

ApplyCmd == [Opened(AppApply) EXCEPT !.checks = {"body", "field"}]
UndoCmd == [Opened(AppUndo) EXCEPT !.checks = {"body", "field"}]
ListCmd == Opened(Plain)
ScanCmd == Opened(Plain)
PluginsCmd == Opened(Plain)
HistoryCmd == Opened(AppHistory)
InstallCmd == [Opened(AppInstallPackage) EXCEPT !.checks = {"body", "field"}]
SearchCmd == [Opened(AppSearchPackages) EXCEPT !.checks = {"body"}]
RestorePointCmd == [Opened(AppCreateRestorePoint) EXCEPT !.checks = {"body"}]
ListRestorePointsCmd == Standalone(AppListRestorePoints)
RunMaintenanceCmd == Opened(AppRunMaintenance)
ScheduleCmd == Opened(AppScheduleMaintenance)

BuildIsoCmd == [Standalone(Change) EXCEPT !.checks = {"body", "field"}, !.point = "none"]
UpdatesCmd == [Standalone(Plain) EXCEPT !.checks = {"body"}, !.ends = {"done", "failed"}]
InstallUpdatesCmd == [Standalone(Change) EXCEPT !.ends = {"done", "part", "failed"},
                                               !.part = "warned"]
MaintenanceCmd == Standalone(Change)
FlushDnsCmd == [Standalone(Change) EXCEPT !.point = "none"]
SetDnsCmd == [Standalone(Change) EXCEPT !.checks = {"body", "field"}]
FeatureCmd == [Standalone(Change) EXCEPT !.checks = {"body", "field"}]

CommandLine ==
    {ApplyCmd, UndoCmd, ListCmd, ScanCmd, PluginsCmd, HistoryCmd, InstallCmd, SearchCmd,
     RestorePointCmd, ListRestorePointsCmd, RunMaintenanceCmd, ScheduleCmd, BuildIsoCmd, UpdatesCmd,
     InstallUpdatesCmd, MaintenanceCmd, FlushDnsCmd, SetDnsCmd, FeatureCmd}
=============================================================================
