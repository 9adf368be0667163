---------------------------- MODULE Orchestrator ----------------------------
(***************************************************************************)
(* Applying tweaks, undoing them and re-applying them in a maintenance     *)
(* pass (internal/tweak/orchestrator.go, driven by internal/app/app.go).   *)
(*                                                                         *)
(* A WinForge process owns one App and one Orchestrator.  Every mutating   *)
(* entry point of App takes App.mutationMu for its whole duration, so the  *)
(* callers (goroutines) of one process take turns; the settings and the    *)
(* audit log are shared by all processes and nothing serialises those.     *)
(* Orchestrator.mutationMu is only ever taken inside App.mutationMu and is *)
(* the same variable here.                                                 *)
(*                                                                         *)
(* One step reads one setting, writes one operation or appends one audit   *)
(* entry.  A read, a write and an append may each fail, a process may be   *)
(* killed between any two steps, and another program may change a setting  *)
(* while no call is in progress.                                           *)
(***************************************************************************)
EXTENDS Integers, Sequences, FiniteSets

CONSTANTS
    Process,      \* WinForge processes: the dashboard, a CLI command, the weekly task
    Caller,       \* goroutines that call App's mutating methods
    Home,         \* [Caller -> Process]
    Elevated,     \* processes run as administrator: App.Logger is nil there
    NoCaller,     \* the owner of a free mutex
    Target,       \* registry values, service start modes, power settings, tasks
    Compound,     \* targets written in several steps, the last of which may fail:
                  \* the processor state (two values, then the scheme is re-applied)
    Value,        \* what a target can hold
    Absent,       \* a registry value that does not exist
    Tweak,        \* the catalog's tweaks
    Operations,   \* [Tweak -> Seq(Op)]: Tweak.Operations
    Revert,       \* [Tweak -> Seq(Op)]: Tweak.Revert
    Reversible,   \* tweaks with Reversible = true
    Catalog,      \* Seq(Tweak): App.Tweaks, the order EnsureApplied follows
    Factory,      \* [Target -> Setting]: the settings WinForge first finds
    Kinds,        \* bound: the entry points of App a run exercises
    MaxCalls,     \* bound: calls issued in a behaviour
    MaxCrashes,   \* bound: processes killed
    MaxDrifts     \* bound: changes made by other programs

Setting == Value \cup {Absent}
OpKind == {"set", "delete", "delete_key", "netbios", "unary"}

\* registry_set_*, service_start_mode and power_* are "set"; registry_delete is
\* "delete"; execUnary's operations are "unary".  delete_key and netbios work on
\* several targets: the values below a key, the NetBT interfaces.
Op == [kind : OpKind, on : SUBSET Target, to : Setting]

ASSUME Parameters ==
    /\ Home \in [Caller -> Process]
    /\ NoCaller \notin Caller
    /\ Elevated \subseteq Process
    /\ Compound \subseteq Target
    /\ Absent \notin Value
    /\ Tweak # {}
    /\ Operations \in [Tweak -> Seq(Op)]
    /\ Revert \in [Tweak -> Seq(Op)]
    /\ Reversible \subseteq Tweak
    /\ Catalog \in Seq(Tweak)
    /\ Factory \in [Target -> Setting]
    /\ Kinds \subseteq {"apply", "dryrun", "undo", "undoEntry", "maintenance"}
    /\ MaxCalls \in Nat /\ MaxCrashes \in Nat /\ MaxDrifts \in Nat

\* A captured operation has exactly one target: its snapshot is one value.
ASSUME CapturedOnOneTarget ==
    \A t \in Tweak : \A k \in DOMAIN Operations[t] :
        Operations[t][k].kind \in {"set", "delete"} =>
            \E x \in Target : Operations[t][k].on = {x}

VARIABLES
    setting,      \* [Target -> Setting]: the machine
    log,          \* Seq(Entry): audit.Logger's history, an entry's ID is its position
    mutationMu,   \* [Process -> Caller \cup {NoCaller}]
    pc,           \* [Caller -> control point]
    job,          \* [Caller -> Job]: the call in progress
    eff,          \* [Caller -> Effect]: applyOp's eff, or the restore in progress
    budget,       \* calls, crashes and drifts so far
    before,       \* history: for each undoable entry the settings its write replaced
    restores,     \* history: for each entry how often it was restored
    lost,         \* history: for each entry how many of those were not recorded
    unlogged,     \* history: targets whose last change no entry explains
    orderly       \* history: targets changed only by undoable, recorded operations
                  \* and by recorded newest-first undos

vars == <<setting, log, mutationMu, pc, job, eff, budget,
          before, restores, lost, unlogged, orderly>>
history == <<before, restores, lost, unlogged, orderly>>

Entry == [on : SUBSET Target, prev : Setting, new : Setting, success : BOOLEAN,
          canUndo : BOOLEAN, undoOf : Nat]
Kind == {"apply", "dryrun", "undo", "undoEntry", "maintenance"}
Job == [kind : Kind, tweak : Tweak, id : Nat, i : Nat \ {0}, queue : Seq(Tweak),
        clean : BOOLEAN]
Effect == [on : SUBSET Target, prev : Setting, new : Setting, canUndo : BOOLEAN,
           ok : BOOLEAN, touched : SUBSET Target, was : [Target -> Setting]]
Control == {"idle", "waiting", "verify", "op", "write", "record", "lookup",
            "recheck", "restore", "recordUndo", "summary"}

NoJob == [kind |-> "apply", tweak |-> CHOOSE t \in Tweak : TRUE, id |-> 0, i |-> 1,
          queue |-> <<>>, clean |-> TRUE]
NoEffect == [on |-> {}, prev |-> Absent, new |-> Absent, canUndo |-> FALSE,
             ok |-> FALSE, touched |-> {}, was |-> Factory]

TypeOK ==
    /\ setting \in [Target -> Setting]
    /\ log \in Seq(Entry)
    /\ mutationMu \in [Process -> Caller \cup {NoCaller}]
    /\ pc \in [Caller -> Control]
    /\ job \in [Caller -> Job]
    /\ eff \in [Caller -> Effect]
    /\ budget \in [calls : Nat, crashes : Nat, drifts : Nat]
    /\ before \in Seq([Target -> Setting]) /\ Len(before) = Len(log)
    /\ restores \in Seq(Nat) /\ Len(restores) = Len(log)
    /\ lost \in Seq(Nat) /\ Len(lost) = Len(log)
    /\ unlogged \subseteq Target
    /\ orderly \subseteq Target

Init ==
    /\ setting = Factory
    /\ log = <<>>
    /\ mutationMu = [p \in Process |-> NoCaller]
    /\ pc = [c \in Caller |-> "idle"]
    /\ job = [c \in Caller |-> NoJob]
    /\ eff = [c \in Caller |-> NoEffect]
    /\ budget = [calls |-> 0, crashes |-> 0, drifts |-> 0]
    /\ before = <<>> /\ restores = <<>> /\ lost = <<>>
    /\ unlogged = {}
    /\ orderly = Target

-----------------------------------------------------------------------------
(* What an operation asks for, reads and captures.                         *)

Desired(op) == IF op.kind \in {"delete", "delete_key"} THEN Absent ELSE op.to

\* Effect.Changed: the unary operations cannot be read and always run.
Changed(op) == op.kind = "unary" \/ \E x \in op.on : setting[x] # Desired(op)

\* Effect.PreviousValueCaptured.
Captured(op) == op.kind \in {"set", "delete"}

\* CanVerify: every operation exposes readable target state.
CanVerify(t) == \A k \in DOMAIN Operations[t] : Operations[t][k].kind # "unary"

\* The previous value a captured operation records.
Snapshot(op) == IF Captured(op) THEN setting[CHOOSE x \in op.on : TRUE] ELSE Absent

\* The operations the call walks through: Undo refuses a tweak that is not
\* reversible, or that has no revert list, before it touches anything.
Program(c) ==
    IF job[c].kind = "undo"
    THEN IF job[c].tweak \in Reversible THEN Revert[job[c].tweak] ELSE <<>>
    ELSE Operations[job[c].tweak]
CurrentOp(c) == Program(c)[job[c].i]

\* Mutant: looks for the flag of the undone entry on the undo record.
UndoneByUndoableRecord(k) == \E n \in DOMAIN log : log[n].canUndo /\ log[n].undoOf = k

\* Some successful "undo" record names entry k.
Undone(k) == \E n \in DOMAIN log : log[n].success /\ log[n].undoOf = k

\* Entries that History still offers for undo, for one target.
Live(x) == {k \in DOMAIN log :
              log[k].success /\ log[k].canUndo /\ log[k].on = {x} /\ ~Undone(k)}

NewestLive(k) == \A x \in log[k].on : \A n \in Live(x) : n <= k

Goto(c, label) == pc' = [pc EXCEPT ![c] = label]

\* The deferred unlock, and the return to the caller.
Return(c) ==
    /\ Goto(c, "idle")
    /\ mutationMu' = [mutationMu EXCEPT ![Home[c]] = NoCaller]
    /\ job' = [job EXCEPT ![c] = NoJob]
    /\ eff' = [eff EXCEPT ![c] = NoEffect]

AppendEntry(e, was) ==
    /\ log' = Append(log, e)
    /\ before' = Append(before, was)
    /\ restores' = Append(restores, 0)
    /\ lost' = Append(lost, 0)

\* audit.Logger.Append either leaves the entry in the file (even when it then
\* reports a failed sync or prune) or does not; an elevated process has no log.
AppendOutcome(c) == IF Home[c] \in Elevated THEN {FALSE} ELSE BOOLEAN

-----------------------------------------------------------------------------
(* App: the calls and the mutex they take.                                 *)

Requests ==
    [kind : {"apply", "dryrun", "undo"}, tweak : Tweak, id : {0}, i : {1},
     queue : {<<>>}, clean : {TRUE}]
    \cup {[NoJob EXCEPT !.kind = "undoEntry", !.id = k] : k \in DOMAIN log}
    \cup {[NoJob EXCEPT !.kind = "maintenance", !.queue = Catalog]}

Request(c, j) ==
    /\ pc[c] = "idle"
    /\ budget.calls < MaxCalls
    /\ j.kind \in Kinds
    /\ budget' = [budget EXCEPT !.calls = @ + 1]
    /\ job' = [job EXCEPT ![c] = j]
    /\ Goto(c, "waiting")
    /\ UNCHANGED <<setting, log, mutationMu, eff, history>>

\* Mutant: the mutex is not waited for.
AcquireUnlocked(c) ==
    /\ pc[c] = "waiting"
    /\ mutationMu' = [mutationMu EXCEPT ![Home[c]] = c]
    /\ Goto(c, CASE job[c].kind = "undoEntry" -> "lookup"
                 [] job[c].kind = "maintenance" -> "verify"
                 [] OTHER -> "op")
    /\ UNCHANGED <<setting, log, job, eff, budget, history>>

Acquire(c) ==
    /\ pc[c] = "waiting"
    /\ mutationMu[Home[c]] = NoCaller
    /\ mutationMu' = [mutationMu EXCEPT ![Home[c]] = c]
    /\ Goto(c, CASE job[c].kind = "undoEntry" -> "lookup"
                 [] job[c].kind = "maintenance" -> "verify"
                 [] OTHER -> "op")
    /\ UNCHANGED <<setting, log, job, eff, budget, history>>

-----------------------------------------------------------------------------
(* Orchestrator.Apply: read, write and record each operation in turn.  A   *)
(* failed operation does not stop the ones after it.                       *)

\* Mutant: the index runs the wrong way.
SkipOpBackwards(c, failed) ==
    /\ job' = [job EXCEPT ![c].i = @ - 1, ![c].clean = IF failed THEN FALSE ELSE @]
    /\ UNCHANGED <<setting, log, mutationMu, pc, eff, budget, history>>

SkipOp(c, failed) ==
    /\ job' = [job EXCEPT ![c].i = @ + 1, ![c].clean = IF failed THEN FALSE ELSE @]
    /\ UNCHANGED <<setting, log, mutationMu, pc, eff, budget, history>>

ReadOp(c) ==
    /\ pc[c] = "op" /\ job[c].kind # "undo"
    /\ job[c].i <= Len(Program(c))
    /\ LET op == CurrentOp(c)
       IN  IF job[c].kind = "dryrun" \/ ~Changed(op)
           THEN SkipOp(c, FALSE)
           ELSE /\ eff' = [eff EXCEPT ![c] =
                     [on |-> op.on, prev |-> Snapshot(op), new |-> Desired(op),
                      canUndo |-> Captured(op) /\ job[c].tweak \in Reversible,
                      ok |-> FALSE, touched |-> {}, was |-> Factory]]
                /\ Goto(c, "write")
                /\ UNCHANGED <<setting, log, mutationMu, job, budget, history>>

\* The read before an operation fails: nothing is attempted and nothing logged.
ReadFails(c) ==
    /\ pc[c] = "op" /\ job[c].kind # "undo"
    /\ job[c].i <= Len(Program(c))
    /\ CurrentOp(c).kind # "unary"
    /\ SkipOp(c, TRUE)

\* The executor writes all of the operation's targets.
Execute(c, op, e) ==
    /\ setting' = [x \in Target |-> IF x \in op.on THEN Desired(op) ELSE setting[x]]
    /\ eff' = [eff EXCEPT ![c] = [e EXCEPT !.ok = TRUE, !.touched = op.on,
                                      !.was = IF e.canUndo THEN setting ELSE Factory]]
    /\ Goto(c, "record")
    /\ UNCHANGED <<log, mutationMu, job, budget, history>>

\* What a write that reports an error may have changed all the same: of a captured
\* operation only a compound target, of one on several targets any of them.
Unsure(op) == IF Captured(op) THEN op.on \cap Compound ELSE op.on

ExecuteFails(c, op, e) ==
    \E part \in SUBSET Unsure(op) :
        /\ setting' = [x \in Target |-> IF x \in part THEN Desired(op) ELSE setting[x]]
        /\ eff' = [eff EXCEPT ![c] =
                     [e EXCEPT !.ok = FALSE, !.touched = part, !.canUndo = FALSE]]
        /\ Goto(c, "record")
        /\ job' = [job EXCEPT ![c].clean = FALSE]
        /\ UNCHANGED <<log, mutationMu, budget, history>>

\* Deleting a value or a key that is not there is an error (ErrNotFound).
Executable(op) ==
    op.kind \in {"delete", "delete_key"} => \E x \in op.on : setting[x] # Absent

WriteOp(c) ==
    /\ pc[c] = "write"
    /\ \/ Executable(CurrentOp(c)) /\ Execute(c, CurrentOp(c), eff[c])
       \/ ExecuteFails(c, CurrentOp(c), eff[c])

\* Orchestrator.Undo runs the revert list blindly, without reading first.
UndoOp(c) ==
    /\ pc[c] = "op" /\ job[c].kind = "undo"
    /\ job[c].i <= Len(Program(c))
    /\ LET op == CurrentOp(c)
           e == [NoEffect EXCEPT !.on = op.on, !.new = Desired(op)]
       IN  \/ Executable(op) /\ Execute(c, op, e)
           \/ ExecuteFails(c, op, e)

\* Mutant: a failed operation is recorded as a success.
EffectEntryAlwaysSuccess(c) ==
    [on |-> eff[c].on, prev |-> eff[c].prev, new |-> eff[c].new, success |-> TRUE,
     canUndo |-> eff[c].canUndo, undoOf |-> 0]

\* What Orchestrator.record writes about the operation just attempted.
EffectEntry(c) ==
    [on |-> eff[c].on, prev |-> eff[c].prev, new |-> eff[c].new, success |-> eff[c].ok,
     canUndo |-> eff[c].canUndo, undoOf |-> 0]

\* Orchestrator.record: a failed append is only a warning.
Record(c) ==
    /\ pc[c] = "record"
    /\ \E logged \in AppendOutcome(c) :
          /\ IF logged
             THEN AppendEntry(EffectEntry(c), eff[c].was)
             ELSE UNCHANGED <<log, before, restores, lost>>
          /\ unlogged' = IF logged /\ eff[c].ok THEN unlogged \ eff[c].on
                         ELSE unlogged \cup eff[c].touched
          /\ orderly' = IF logged /\ eff[c].canUndo THEN orderly
                        ELSE orderly \ eff[c].touched
    /\ job' = [job EXCEPT ![c].i = @ + 1]
    /\ eff' = [eff EXCEPT ![c] = NoEffect]
    /\ Goto(c, "op")
    /\ UNCHANGED <<setting, mutationMu, budget>>

EndOfTweak(c) ==
    /\ pc[c] = "op"
    /\ job[c].i > Len(Program(c))
    /\ IF job[c].kind = "maintenance"
       THEN /\ job' = [job EXCEPT ![c].queue = Tail(@), ![c].i = 1]
            /\ Goto(c, "verify")
            /\ UNCHANGED <<mutationMu, eff>>
       ELSE Return(c)
    /\ UNCHANGED <<setting, log, budget, history>>

-----------------------------------------------------------------------------
(* App.RunMaintenance and Orchestrator.EnsureApplied.                      *)

InTarget(op) == \A x \in op.on : setting[x] = Desired(op)

NextTweak(c) ==
    /\ job' = [job EXCEPT ![c].queue = Tail(@), ![c].i = 1]
    /\ UNCHANGED <<setting, log, mutationMu, pc, eff, budget, history>>

\* Mutant: the last operation of a tweak is never looked at.
VerifyOpShort(c) ==
    /\ pc[c] = "verify" /\ job[c].queue # <<>>
    /\ LET t == Head(job[c].queue)
       IN  \/ /\ ~CanVerify(t) \/ job[c].i >= Len(Operations[t])
              /\ NextTweak(c)
           \/ /\ CanVerify(t) /\ job[c].i < Len(Operations[t])
              /\ InTarget(Operations[t][job[c].i])
              /\ SkipOp(c, FALSE)
           \/ /\ CanVerify(t) /\ job[c].i < Len(Operations[t])
              /\ job' = [job EXCEPT ![c].tweak = t, ![c].i = 1]
              /\ Goto(c, "op")
              /\ UNCHANGED <<setting, log, mutationMu, eff, budget, history>>

\* IsApplied reads one operation after the other and stops at the first one
\* that is not in its target state, or that it cannot read.
VerifyOp(c) ==
    /\ pc[c] = "verify" /\ job[c].queue # <<>>
    /\ LET t == Head(job[c].queue)
       IN  \/ /\ ~CanVerify(t) \/ job[c].i > Len(Operations[t])
              /\ NextTweak(c)
           \/ /\ CanVerify(t) /\ job[c].i <= Len(Operations[t])
              /\ InTarget(Operations[t][job[c].i])
              /\ SkipOp(c, FALSE)
           \/ /\ CanVerify(t) /\ job[c].i <= Len(Operations[t])
              /\ job' = [job EXCEPT ![c].tweak = t, ![c].i = 1]
              /\ Goto(c, "op")
              /\ UNCHANGED <<setting, log, mutationMu, eff, budget, history>>

EndOfCatalog(c) ==
    /\ pc[c] = "verify" /\ job[c].queue = <<>>
    /\ Goto(c, "summary")
    /\ UNCHANGED <<setting, log, mutationMu, job, eff, budget, history>>

\* The pass upgrades the installed apps, which may fail, records its outcome and
\* returns.
Summary(c) ==
    /\ pc[c] = "summary"
    /\ \E logged \in AppendOutcome(c), ok \in {job[c].clean, FALSE} :
          IF logged
          THEN AppendEntry([on |-> {}, prev |-> Absent, new |-> Absent,
                            success |-> ok, canUndo |-> FALSE, undoOf |-> 0], Factory)
          ELSE UNCHANGED <<log, before, restores, lost>>
    /\ Return(c)
    /\ UNCHANGED <<setting, budget, unlogged, orderly>>

-----------------------------------------------------------------------------
(* App.UndoEntry and Orchestrator.UndoEntry: two reads of the history with *)
(* the restore point between them, then the restore and its record.        *)

\* App refuses an entry already undone; an elevated process refuses them all.
Lookup(c) ==
    /\ pc[c] = "lookup"
    /\ IF Undone(job[c].id) \/ Home[c] \in Elevated
       THEN Return(c)
       ELSE Goto(c, "recheck") /\ UNCHANGED <<mutationMu, job, eff>>
    /\ UNCHANGED <<setting, log, budget, history>>

\* Orchestrator refuses what is not undoable, and checks the history again.
Recheck(c) ==
    /\ pc[c] = "recheck"
    /\ IF log[job[c].id].success /\ log[job[c].id].canUndo /\ ~Undone(job[c].id)
       THEN Goto(c, "restore") /\ UNCHANGED <<mutationMu, job, eff>>
       ELSE Return(c)
    /\ UNCHANGED <<setting, log, budget, history>>

\* Mutant: this error path returns without unlocking.
HistoryUnreadableLocked(c) ==
    /\ pc[c] \in {"lookup", "recheck"}
    /\ Goto(c, "idle")
    /\ UNCHANGED <<setting, log, mutationMu, job, eff, budget, history>>

\* ReadAll reports an error: undo never decides from an incomplete history.
HistoryUnreadable(c) ==
    /\ pc[c] \in {"lookup", "recheck"}
    /\ Return(c)
    /\ UNCHANGED <<setting, log, budget, history>>

RestoreEffect(c, done, part) ==
    LET e == log[job[c].id]
    IN  [on |-> e.on, prev |-> e.prev, new |-> e.prev, canUndo |-> FALSE, ok |-> done,
         touched |-> part, was |-> Factory]

\* Mutant: a snapshot of an absent value restores nothing.
RestoredValueUnlessAbsent(k, x) == IF log[k].prev = Absent THEN setting[x] ELSE log[k].prev

\* What restoreEntry leaves in target x of entry k.
RestoredValue(k, x) == log[k].prev

\* restoreEntry writes the snapshot back; a value that must be absent and is
\* already absent counts as restored.  A failed write may have changed a compound
\* target all the same.
Restore(c) ==
    /\ pc[c] = "restore"
    /\ \E done \in BOOLEAN, part \in SUBSET log[job[c].id].on :
          /\ IF done THEN part = log[job[c].id].on ELSE part \subseteq Compound
          /\ setting' = [x \in Target |-> IF x \in part
                                          THEN RestoredValue(job[c].id, x) ELSE setting[x]]
          /\ eff' = [eff EXCEPT ![c] = RestoreEffect(c, done, part)]
          /\ restores' = [restores EXCEPT ![job[c].id] = IF done THEN @ + 1 ELSE @]
    /\ Goto(c, "recordUndo")
    /\ UNCHANGED <<log, mutationMu, job, budget, before, lost, unlogged, orderly>>

\* The record of a restore.
UndoEntryOf(c) ==
    [on |-> eff[c].on, prev |-> Absent, new |-> Absent,
     success |-> eff[c].ok, canUndo |-> FALSE, undoOf |-> job[c].id]

\* A restore that could not be recorded reports an error and stays undoable.
RecordUndo(c) ==
    /\ pc[c] = "recordUndo"
    /\ LET id == job[c].id
       IN  \E logged \in AppendOutcome(c) :
             /\ IF logged
                THEN AppendEntry(UndoEntryOf(c), eff[c].was)
                ELSE /\ lost' = [lost EXCEPT ![id] = IF eff[c].ok THEN @ + 1 ELSE @]
                     /\ UNCHANGED <<log, before, restores>>
             /\ unlogged' = IF logged /\ eff[c].ok THEN unlogged \ eff[c].on
                            ELSE unlogged \cup eff[c].touched
             /\ orderly' = IF logged /\ eff[c].ok /\ NewestLive(id) THEN orderly
                           ELSE orderly \ eff[c].touched
    /\ Return(c)
    /\ UNCHANGED <<setting, budget>>

-----------------------------------------------------------------------------
(* The outside world.                                                      *)

Busy(c) == pc[c] \notin {"idle", "waiting"}

\* A process is killed: its callers and mutex vanish, its last write may be
\* in the settings without an entry.
Crash(p) ==
    /\ budget.crashes < MaxCrashes
    /\ budget' = [budget EXCEPT !.crashes = @ + 1]
    /\ LET dead == {c \in Caller : Home[c] = p}
           torn == UNION {eff[c].touched : c \in dead}
       IN  /\ \E c \in dead : Busy(c)
           /\ pc' = [c \in Caller |-> IF c \in dead THEN "idle" ELSE pc[c]]
           /\ job' = [c \in Caller |-> IF c \in dead THEN NoJob ELSE job[c]]
           /\ eff' = [c \in Caller |-> IF c \in dead THEN NoEffect ELSE eff[c]]
           /\ unlogged' = unlogged \cup torn
           /\ orderly' = orderly \ torn
           /\ lost' = [k \in DOMAIN lost |->
                 IF \E c \in dead : pc[c] = "recordUndo" /\ eff[c].ok /\ job[c].id = k
                 THEN lost[k] + 1 ELSE lost[k]]
    /\ mutationMu' = [mutationMu EXCEPT ![p] = NoCaller]
    /\ UNCHANGED <<setting, log, before, restores>>

\* Another program changes a setting while WinForge is not working.
Drift(x, v) ==
    /\ budget.drifts < MaxDrifts
    /\ \A c \in Caller : ~Busy(c)
    /\ setting[x] # v
    /\ budget' = [budget EXCEPT !.drifts = @ + 1]
    /\ setting' = [setting EXCEPT ![x] = v]
    /\ unlogged' = unlogged \cup {x}
    /\ orderly' = orderly \ {x}
    /\ UNCHANGED <<log, mutationMu, pc, job, eff, before, restores, lost>>

\* The bound on calls is used up and every call has returned.
Finished ==
    /\ budget.calls = MaxCalls
    /\ \A c \in Caller : pc[c] = "idle"
    /\ UNCHANGED vars

Step(c) ==
    \/ ReadOp(c) \/ ReadFails(c) \/ WriteOp(c) \/ UndoOp(c) \/ Record(c) \/ EndOfTweak(c)
    \/ VerifyOp(c) \/ EndOfCatalog(c) \/ Summary(c)
    \/ Lookup(c) \/ Recheck(c) \/ HistoryUnreadable(c) \/ Restore(c) \/ RecordUndo(c)

Next ==
    \/ \E c \in Caller, j \in Requests : Request(c, j)
    \/ \E c \in Caller : Acquire(c)
    \/ \E c \in Caller : Step(c)
    \/ \E p \in Process : Crash(p)
    \/ \E x \in Target, v \in Setting : Drift(x, v)
    \/ Finished

Spec == Init /\ [][Next]_vars

\* The Go scheduler runs every runnable goroutine, and sync.Mutex hands the
\* lock to a waiter that has starved for a millisecond.
Fairness ==
    /\ \A c \in Caller : WF_vars(Step(c))
    /\ \A c \in Caller : SF_vars(Acquire(c))

FairSpec == Spec /\ Fairness

-----------------------------------------------------------------------------
(* What the component promises.                                            *)

\* Every entry that offers undo recorded the value its own write replaced:
\* nothing came between the snapshot and the write.
SnapshotFaithful ==
    \A k \in DOMAIN log : log[k].canUndo =>
        \A x \in log[k].on : log[k].prev = before[k][x]

\* The entries of changes that were made and are not recorded yet.
PendingEntries ==
    {EffectEntry(c) : c \in {c \in Caller : pc[c] = "record"}}
    \cup {UndoEntryOf(c) : c \in {c \in Caller : pc[c] = "recordUndo"}}

History ==
    INSTANCE UndoHistory WITH machine <- setting, entries <- log, pending <- PendingEntries

\* However the callers of one process take turns, and whatever fails or is killed, the
\* settings and the history change as UndoHistory says: one change at a time, an entry that
\* can be undone holds what the change it records replaced, and only an entry that no
\* recorded undo has undone is put back (orchestrator.go:97-105, 449-522, app.go:500-545).
ChangesRecorded == History!Spec

\* An entry is restored a second time only if the record of an earlier restore
\* was lost (a failed append, or a crash before it).
UndoOnce == \A k \in DOMAIN log : restores[k] <= 1 + lost[k]

\* The value the successful entry k left in its targets.
ValueAfter(k) == IF log[k].undoOf = 0 THEN log[k].new ELSE log[log[k].undoOf].prev

MaxOf(S) == CHOOSE n \in S : \A m \in S : m <= n

\* Between calls the history explains the machine: unless a write of its own was
\* not recorded (or was cut short, or came from outside), a target holds what its
\* last successful entry left there.
HistoryExplainsSettings ==
    (\A c \in Caller : ~Busy(c)) =>
        \A x \in Target \ unlogged :
            LET ks == {k \in DOMAIN log : log[k].success /\ x \in log[k].on}
            IN  setting[x] = IF ks = {} THEN Factory[x] ELSE ValueAfter(MaxOf(ks))

\* Between calls, the undoable entries of a target that was only changed by
\* recorded undoable operations and newest-first undos form a chain from the
\* value WinForge first found to the present value, so undoing them newest first
\* leads back to the start.
UndoChain ==
    (\A c \in Caller : ~Busy(c)) =>
        \A x \in orderly :
            /\ Live(x) = {} => setting[x] = Factory[x]
            /\ Live(x) # {} => setting[x] = log[MaxOf(Live(x))].new
            /\ \A k \in Live(x) :
                  LET older == {n \in Live(x) : n < k}
                  IN  log[k].prev = IF older = {} THEN Factory[x] ELSE log[MaxOf(older)].new

IsApplied(t) == \A k \in DOMAIN Operations[t] : InTarget(Operations[t][k])

Conflict(t, u) ==
    \E m \in DOMAIN Operations[t], n \in DOMAIN Operations[u] :
        /\ Operations[t][m].on \cap Operations[u][n].on # {}
        /\ Desired(Operations[t][m]) # Desired(Operations[u][n])

\* A maintenance pass about to report success has brought every verifiable tweak
\* to its target state, except those that itself or a later tweak contradicts.
MaintenanceConverges ==
    \A c \in Caller : pc[c] = "summary" /\ job[c].clean =>
        \A n \in DOMAIN Catalog :
            \/ ~CanVerify(Catalog[n])
            \/ \E m \in n..Len(Catalog) : /\ CanVerify(Catalog[m])
                                          /\ Conflict(Catalog[n], Catalog[m])
            \/ IsApplied(Catalog[n])

\* Every call returns: no error path keeps the mutex.
EveryCallReturns == \A c \in Caller : pc[c] = "waiting" ~> pc[c] = "idle"

=============================================================================
