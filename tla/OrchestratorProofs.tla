------------------------- MODULE OrchestratorProofs -------------------------
(* Theorems about Orchestrator, for every value of its constants.          *)
EXTENDS Orchestrator, SetTheorems, SequenceTheorems

\* One WinForge process: all its callers share one App and its mutex.
OneProcessOnly == \A c, d \in Caller : Home[c] = Home[d]

Undoing(c) == pc[c] \in {"lookup", "recheck", "restore", "recordUndo"}

\* The strengthening of TypeOK that its own induction needs.
IndexOK ==
    /\ \A c \in Caller : job[c].kind = "undoEntry" => job[c].id \in DOMAIN log
    /\ \A c \in Caller : Undoing(c) => job[c].kind = "undoEntry"
    /\ \A c \in Caller : pc[c] = "write" =>
           job[c].kind # "undo" /\ job[c].i <= Len(Operations[job[c].tweak])
    /\ \A c \in Caller : pc[c] \in {"op", "write", "record"} /\ job[c].kind = "maintenance" =>
           job[c].queue # <<>>

TypeInv == TypeOK /\ IndexOK

\* The initial state, in which no call is in progress, is well typed.
THEOREM TypeInvInit == Init => TypeInv
<1> SUFFICES ASSUME Init PROVE TypeInv
  OBVIOUS
<1> USE Parameters
<1>1. NoJob \in Job
  BY DEF NoJob, Job, Kind
<1>2. NoEffect \in Effect
  BY DEF NoEffect, Effect, Setting
<1>3. TypeOK
  BY <1>1, <1>2 DEF Init, TypeOK, Control
<1>4. IndexOK
  BY DEF Init, IndexOK, NoJob, Undoing
<1> QED
  BY <1>3, <1>4 DEF TypeInv

\* The job and the effect of an idle caller are well typed.
LEMMA DefaultsTyped == NoJob \in Job /\ NoJob.kind = "apply" /\ NoEffect \in Effect
<1> USE Parameters
<1>1. NoJob \in Job /\ NoJob.kind = "apply"
  BY DEF NoJob, Job, Kind
<1>2. NoEffect \in Effect
  BY DEF NoEffect, Effect, Setting
<1> QED
  BY <1>1, <1>2

\* An append keeps every earlier entry and its position.
LEMMA AppendEntryTyped ==
  ASSUME TypeOK, NEW e \in Entry, NEW was \in [Target -> Setting], AppendEntry(e, was)
  PROVE  /\ log' \in Seq(Entry)
         /\ before' \in Seq([Target -> Setting]) /\ Len(before') = Len(log')
         /\ restores' \in Seq(Nat) /\ Len(restores') = Len(log')
         /\ lost' \in Seq(Nat) /\ Len(lost') = Len(log')
         /\ DOMAIN log' = DOMAIN log \cup {Len(log) + 1}
         /\ \A k \in DOMAIN log : log'[k] = log[k] /\ before'[k] = before[k]
         /\ log'[Len(log) + 1] = e /\ before'[Len(log) + 1] = was
  BY DEF TypeOK, AppendEntry

\* The end of a call (the deferred unlock) frees the mutex and clears the caller.
LEMMA ReturnTyped ==
  ASSUME TypeOK, NEW c \in Caller, Return(c)
  PROVE  /\ pc' \in [Caller -> Control] /\ pc' = [pc EXCEPT ![c] = "idle"]
         /\ mutationMu' \in [Process -> Caller \cup {NoCaller}]
         /\ job' \in [Caller -> Job] /\ job' = [job EXCEPT ![c] = NoJob]
         /\ eff' \in [Caller -> Effect] /\ eff' = [eff EXCEPT ![c] = NoEffect]
  BY DefaultsTyped, Parameters DEF TypeOK, Return, Goto, Control

\* Issuing a call to App preserves the type invariant.
LEMMA RequestType ==
  ASSUME TypeInv, NEW c \in Caller, NEW j \in Requests, Request(c, j)
  PROVE  TypeInv'
<1> USE DEF TypeInv
<1>1. j \in Job /\ (j.kind = "undoEntry" => j.id \in DOMAIN log)
  <2>1. CASE j \in [kind : {"apply", "dryrun", "undo"}, tweak : Tweak, id : {0}, i : {1},
                    queue : {<<>>}, clean : {TRUE}]
    <3> DEFINE K == {"apply", "dryrun", "undo"}
               Q == {<<>>}
               B == {TRUE}
    <3>1. K \subseteq Kind /\ "undoEntry" \notin K /\ {0} \subseteq Nat /\ {1} \subseteq Nat \ {0}
      BY DEF Kind
    <3>2. Q \subseteq Seq(Tweak)
      OBVIOUS
    <3>3. B \subseteq BOOLEAN
      BY Zenon
    <3>4. j \in [kind : K, tweak : Tweak, id : {0}, i : {1}, queue : Q, clean : B]
      BY <2>1
    <3> HIDE DEF K, Q, B
    <3>5. j \in Job
      BY ONLY <3>1, <3>2, <3>3, <3>4 DEF Job
    <3>6. j.kind \in K
      BY <3>4
    <3> QED
      BY <3>1, <3>5, <3>6
  <2>2. ASSUME NEW k \in DOMAIN log, j = [NoJob EXCEPT !.kind = "undoEntry", !.id = k]
        PROVE  j \in Job /\ j.id \in DOMAIN log
    <3>1. k \in Nat
      BY DEF TypeOK
    <3> QED
      BY <2>2, <3>1, DefaultsTyped DEF Job, Kind
  <2>3. CASE j = [NoJob EXCEPT !.kind = "maintenance", !.queue = Catalog]
    BY <2>3, DefaultsTyped, Parameters DEF Job, Kind
  <2> QED
    BY <2>1, <2>2, <2>3 DEF Requests
<1>2. TypeOK'
  BY <1>1 DEF TypeOK, Request, Goto, Control, history
<1>3. IndexOK'
  BY <1>1 DEF IndexOK, TypeOK, Request, Goto, history, Undoing
<1> QED
  BY <1>2, <1>3

\* Locking mutationMu preserves the type invariant.
LEMMA AcquireType ==
  ASSUME TypeInv, NEW c \in Caller, Acquire(c)
  PROVE  TypeInv'
<1> USE DEF TypeInv
<1> DEFINE label == CASE job[c].kind = "undoEntry" -> "lookup"
                      [] job[c].kind = "maintenance" -> "verify"
                      [] OTHER -> "op"
<1>1. label \in {"lookup", "verify", "op"}
      /\ (label = "lookup" <=> job[c].kind = "undoEntry")
      /\ (label = "op" => job[c].kind # "maintenance")
  OBVIOUS
<1>2. pc' = [pc EXCEPT ![c] = label]
  BY DEF Acquire, Goto
<1> HIDE DEF label
<1>3. TypeOK'
  BY <1>1, <1>2, Parameters DEF TypeOK, Acquire, Control, history
<1>4. IndexOK'
  BY <1>1, <1>2 DEF IndexOK, TypeOK, Acquire, history, Undoing
<1> QED
  BY <1>3, <1>4

\* Advancing the operation index of a call leaves its job well typed.
LEMMA JobEdited ==
  ASSUME NEW j \in Job, NEW n \in Nat \ {0}
  PROVE  /\ [j EXCEPT !.i = n] \in Job
         /\ \A b \in BOOLEAN : [j EXCEPT !.clean = b] \in Job
         /\ \A b \in BOOLEAN : [j EXCEPT !.i = n, !.clean = b] \in Job
         /\ \A t \in Tweak : [j EXCEPT !.tweak = t, !.i = n] \in Job
         /\ \A q \in Seq(Tweak) : [j EXCEPT !.queue = q, !.i = n] \in Job
  BY DEF Job

\* Passing over an operation preserves the type invariant.
LEMMA SkipOpType ==
  ASSUME TypeInv, NEW c \in Caller, NEW failed \in BOOLEAN, SkipOp(c, failed), pc[c] # "write"
  PROVE  TypeInv'
<1> USE DEF TypeInv
<1> DEFINE clean == IF failed THEN FALSE ELSE job[c].clean
           next == [job[c] EXCEPT !.i = job[c].i + 1, !.clean = clean]
<1>0. job[c] \in Job /\ job[c].clean \in BOOLEAN /\ job[c].i + 1 \in Nat \ {0}
  BY DEF TypeOK, Job
<1>1. clean \in BOOLEAN
  BY <1>0, Zenon
<1>2. job' = [job EXCEPT ![c] = next]
  BY DEF SkipOp, TypeOK
<1> HIDE DEF clean
<1>3. /\ next \in Job /\ next.kind = job[c].kind /\ next.id = job[c].id
      /\ next.queue = job[c].queue
  BY <1>0, <1>1, JobEdited DEF Job
<1> HIDE DEF next
<1>4. TypeOK'
  BY <1>2, <1>3 DEF TypeOK, SkipOp, history
<1>5. IndexOK'
  BY <1>2, <1>3 DEF IndexOK, TypeOK, SkipOp, history, Undoing
<1> QED
  BY <1>4, <1>5

-----------------------------------------------------------------------------
(* One lemma per action: each preserves TypeInv.                           *)

\* The operation a call is at is an operation of the catalog.
LEMMA CurrentOpTyped ==
  ASSUME TypeInv, NEW c \in Caller, job[c].i <= Len(Program(c))
  PROVE  /\ CurrentOp(c) \in Op
         /\ Desired(CurrentOp(c)) \in Setting
<1> USE Parameters DEF TypeInv
<1>1. /\ job[c].tweak \in Tweak /\ job[c].i \in Nat \ {0}
      /\ Operations[job[c].tweak] \in Seq(Op) /\ Revert[job[c].tweak] \in Seq(Op)
  BY DEF TypeOK, Job
<1>2. Program(c) \in Seq(Op)
  BY <1>1 DEF Program
<1>3. CurrentOp(c) \in Op
  BY <1>1, <1>2 DEF CurrentOp
<1> QED
  BY <1>3 DEF Desired, Op, Setting

\* What ReadOp captures of an operation of the catalog is a setting.
LEMMA SnapshotTyped ==
  ASSUME TypeInv, NEW t \in Tweak, NEW k \in DOMAIN Operations[t]
  PROVE  Snapshot(Operations[t][k]) \in Setting
<1> DEFINE op == Operations[t][k]
<1>1. CASE Captured(op)
  <2>1. PICK x \in Target : op.on = {x}
    BY <1>1, CapturedOnOneTarget DEF Captured
  <2>2. Snapshot(op) = setting[x]
    BY <1>1, <2>1 DEF Snapshot
  <2> QED
    BY <2>2 DEF TypeInv, TypeOK
<1>2. CASE ~Captured(op)
  BY <1>2 DEF Snapshot, Setting
<1> QED
  BY <1>1, <1>2

\* Reading and comparing a setting (applyOp) preserves the type invariant.
LEMMA ReadOpType ==
  ASSUME TypeInv, NEW c \in Caller, ReadOp(c)
  PROVE  TypeInv'
<1> USE DEF TypeInv
<1> DEFINE op == CurrentOp(c)
           new == [on |-> op.on, prev |-> Snapshot(op), new |-> Desired(op),
                   canUndo |-> Captured(op) /\ job[c].tweak \in Reversible,
                   ok |-> FALSE, touched |-> {}, was |-> Factory]
<1>1. CASE job[c].kind = "dryrun" \/ ~Changed(op)
  <2>1. SkipOp(c, FALSE) /\ pc[c] # "write"
    BY <1>1 DEF ReadOp
  <2> QED
    BY <2>1, SkipOpType
<1>2. CASE ~(job[c].kind = "dryrun" \/ ~Changed(op))
  <2>1. /\ pc[c] = "op" /\ job[c].kind # "undo" /\ job[c].i <= Len(Program(c))
        /\ eff' = [eff EXCEPT ![c] = new] /\ pc' = [pc EXCEPT ![c] = "write"]
        /\ UNCHANGED <<setting, log, mutationMu, job, budget, history>>
    BY <1>2 DEF ReadOp, Goto
  <2>2. /\ job[c].tweak \in Tweak /\ job[c].i \in DOMAIN Operations[job[c].tweak]
        /\ op = Operations[job[c].tweak][job[c].i]
    BY <2>1, Parameters DEF TypeOK, Job, Program, CurrentOp
  <2>3. op \in Op /\ Desired(op) \in Setting
    BY <2>1, CurrentOpTyped
  <2>4. Snapshot(op) \in Setting
    BY <2>2, SnapshotTyped
  <2>5. op.on \in SUBSET Target
    BY <2>3 DEF Op
  <2>6. (Captured(op) /\ job[c].tweak \in Reversible) \in BOOLEAN
    BY Zenon
  <2>7. new \in Effect
    BY <2>3, <2>4, <2>5, <2>6, Parameters DEF Effect
  <2> HIDE DEF new
  <2>8. TypeOK'
    BY <2>1, <2>7 DEF TypeOK, Control, history
  <2>9. IndexOK'
    BY <2>1, <2>2, Parameters, SMTT(30) DEF TypeOK, IndexOK, history, Undoing
  <2> QED
    BY <2>8, <2>9
<1> QED
  BY <1>1, <1>2

\* A failed read preserves the type invariant.
LEMMA ReadFailsType ==
  ASSUME TypeInv, NEW c \in Caller, ReadFails(c)
  PROVE  TypeInv'
  BY SkipOpType DEF ReadFails

\* A write, successful or not, preserves the type invariant.
LEMMA ExecuteType ==
  ASSUME TypeInv, NEW c \in Caller, NEW op \in Op, NEW e \in Effect,
         pc[c] \in {"op", "write"},
         Execute(c, op, e) \/ ExecuteFails(c, op, e)
  PROVE  TypeInv'
<1> USE DEF TypeInv
<1>1. setting' \in [Target -> Setting]
  <2>1. Desired(op) \in Setting
    BY DEF Desired, Op, Setting
  <2> QED
    BY <2>1 DEF TypeOK, Execute, ExecuteFails
<1>2. /\ job' \in [Caller -> Job]
      /\ \A d \in Caller : /\ job'[d].kind = job[d].kind /\ job'[d].id = job[d].id
                           /\ job'[d].tweak = job[d].tweak /\ job'[d].i = job[d].i
                           /\ job'[d].queue = job[d].queue
  <2>1. CASE Execute(c, op, e)
    BY <2>1 DEF Execute, TypeOK
  <2>2. CASE ExecuteFails(c, op, e)
    <3>1. job' = [job EXCEPT ![c] = [job[c] EXCEPT !.clean = FALSE]]
      BY <2>2 DEF ExecuteFails
    <3>2. [job[c] EXCEPT !.clean = FALSE] \in Job /\ job[c] \in Job
      BY DEF TypeOK, Job
    <3> QED
      BY <3>1, <3>2 DEF TypeOK, Job
  <2> QED
    BY <2>1, <2>2
<1>3. eff' \in [Caller -> Effect]
  <2>1. CASE Execute(c, op, e)
    <3> DEFINE was == IF e.canUndo THEN setting ELSE Factory
               new == [e EXCEPT !.ok = TRUE, !.touched = op.on, !.was = was]
    <3>1. was \in [Target -> Setting] /\ op.on \in SUBSET Target
      BY Parameters DEF TypeOK, Op
    <3>2. eff' = [eff EXCEPT ![c] = new]
      BY <2>1 DEF Execute
    <3> HIDE DEF was
    <3>3. new \in Effect
      BY <3>1 DEF Effect
    <3> HIDE DEF new
    <3> QED
      BY <3>2, <3>3 DEF TypeOK
  <2>2. CASE ExecuteFails(c, op, e)
    <3>1. PICK part \in SUBSET Unsure(op) :
            eff' = [eff EXCEPT ![c] = [e EXCEPT !.ok = FALSE, !.touched = part,
                                                !.canUndo = FALSE]]
      BY <2>2 DEF ExecuteFails
    <3>2. part \in SUBSET Target
      BY DEF Op, Unsure
    <3>3. [e EXCEPT !.ok = FALSE, !.touched = part, !.canUndo = FALSE] \in Effect
      BY <3>2 DEF Effect
    <3> QED
      BY <3>1, <3>3 DEF TypeOK
  <2> QED
    BY <2>1, <2>2
<1>4. /\ pc' = [pc EXCEPT ![c] = "record"]
      /\ UNCHANGED <<log, mutationMu, budget, history>>
  BY DEF Execute, ExecuteFails, Goto
<1>5. TypeOK'
  BY <1>1, <1>2, <1>3, <1>4 DEF TypeOK, Control, history
<1>6. IndexOK'
  BY <1>2, <1>4, SMTT(30) DEF TypeOK, IndexOK, history, Undoing
<1> QED
  BY <1>5, <1>6

\* The write of an apply preserves the type invariant.
LEMMA WriteOpType ==
  ASSUME TypeInv, NEW c \in Caller, WriteOp(c)
  PROVE  TypeInv'
<1>1. job[c].i <= Len(Program(c))
  BY DEF TypeInv, IndexOK, WriteOp, Program
<1>2. CurrentOp(c) \in Op /\ eff[c] \in Effect
  BY <1>1, CurrentOpTyped DEF TypeInv, TypeOK
<1> QED
  BY <1>2, ExecuteType DEF WriteOp

\* A write of a revert list preserves the type invariant.
LEMMA UndoOpType ==
  ASSUME TypeInv, NEW c \in Caller, UndoOp(c)
  PROVE  TypeInv'
<1> DEFINE op == CurrentOp(c)
           e == [NoEffect EXCEPT !.on = op.on, !.new = Desired(op)]
<1>1. op \in Op /\ Desired(op) \in Setting
  BY CurrentOpTyped DEF UndoOp
<1>2. e \in Effect
  BY <1>1, DefaultsTyped DEF Effect, Op
<1>3. pc[c] = "op" /\ (Execute(c, op, e) \/ ExecuteFails(c, op, e))
  BY DEF UndoOp
<1> HIDE DEF op, e
<1> QED
  BY <1>1, <1>2, <1>3, ExecuteType

\* Orchestrator.record preserves the type invariant: earlier entries keep their place.
LEMMA RecordType ==
  ASSUME TypeInv, NEW c \in Caller, Record(c)
  PROVE  TypeInv'
<1> USE DEF TypeInv
<1>1. PICK logged \in BOOLEAN :
        /\ IF logged THEN AppendEntry(EffectEntry(c), eff[c].was)
           ELSE UNCHANGED <<log, before, restores, lost>>
        /\ unlogged' = IF logged /\ eff[c].ok THEN unlogged \ eff[c].on
                       ELSE unlogged \cup eff[c].touched
        /\ orderly' = IF logged /\ eff[c].canUndo THEN orderly
                      ELSE orderly \ eff[c].touched
  BY DEF Record, AppendOutcome
<1>2. eff[c] \in Effect
  BY DEF TypeOK
<1>3. EffectEntry(c) \in Entry /\ eff[c].was \in [Target -> Setting]
  BY <1>2 DEF EffectEntry, Effect, Entry
<1>4. unlogged' \subseteq Target /\ orderly' \subseteq Target
  BY <1>1, <1>2 DEF TypeOK, Effect
<1>5. /\ log' \in Seq(Entry) /\ DOMAIN log \subseteq DOMAIN log'
      /\ before' \in Seq([Target -> Setting]) /\ Len(before') = Len(log')
      /\ restores' \in Seq(Nat) /\ Len(restores') = Len(log')
      /\ lost' \in Seq(Nat) /\ Len(lost') = Len(log')
  <2>1. CASE logged
    BY <1>1, <1>3, <2>1, AppendEntryTyped
  <2>2. CASE ~logged
    BY <1>1, <2>2 DEF TypeOK
  <2> QED
    BY <2>1, <2>2
<1>6. /\ pc[c] = "record"
      /\ job' = [job EXCEPT ![c] = [job[c] EXCEPT !.i = job[c].i + 1]]
      /\ eff' = [eff EXCEPT ![c] = NoEffect] /\ pc' = [pc EXCEPT ![c] = "op"]
      /\ UNCHANGED <<setting, mutationMu, budget>>
  BY DEF Record, Goto
<1>7. job[c] \in Job /\ job[c].i + 1 \in Nat \ {0}
  BY DEF TypeOK, Job
<1>8. [job[c] EXCEPT !.i = job[c].i + 1] \in Job
  BY <1>7, JobEdited
<1>9. TypeOK'
  BY <1>4, <1>5, <1>6, <1>8, DefaultsTyped DEF TypeOK, Control
<1>10. IndexOK'
  BY <1>5, <1>6, <1>7 DEF TypeOK, Job, IndexOK, Undoing
<1> QED
  BY <1>9, <1>10

\* A step that only ends the call, or moves it to another point with the same job.
LEMMA ReturnType ==
  ASSUME TypeInv, NEW c \in Caller, Return(c),
         UNCHANGED <<setting, log, budget, history>>
  PROVE  TypeInv'
<1> USE DEF TypeInv
<1>1. TypeOK'
  BY ReturnTyped DEF TypeOK, history
<1>2. IndexOK'
  BY ReturnTyped, DefaultsTyped DEF TypeOK, IndexOK, Undoing, history
<1> QED
  BY <1>1, <1>2

\* Moving on within an undo preserves the type invariant.
LEMMA GotoType ==
  ASSUME TypeInv, NEW c \in Caller, NEW label \in {"recheck", "restore", "summary"},
         Goto(c, label), label # "summary" => Undoing(c),
         UNCHANGED <<setting, log, mutationMu, job, eff, budget, history>>
  PROVE  TypeInv'
<1> USE DEF TypeInv
<1>1. TypeOK'
  BY DEF TypeOK, Goto, Control, history
<1>2. IndexOK'
  BY DEF TypeOK, Goto, IndexOK, Undoing, history
<1> QED
  BY <1>1, <1>2

\* Going on to the next tweak of a maintenance pass preserves the type invariant.
LEMMA NextTweakType ==
  ASSUME TypeInv, NEW c \in Caller, job[c].queue # <<>>,
         job' = [job EXCEPT ![c].queue = Tail(@), ![c].i = 1],
         \/ pc' = pc /\ pc[c] = "verify"
         \/ pc' = [pc EXCEPT ![c] = "verify"],
         UNCHANGED <<setting, log, mutationMu, eff, budget, history>>
  PROVE  TypeInv'
<1> USE DEF TypeInv
<1> DEFINE rest == Tail(job[c].queue)
           next == [job[c] EXCEPT !.queue = rest, !.i = 1]
<1>1. job[c] \in Job /\ rest \in Seq(Tweak)
  BY DEF TypeOK, Job
<1> HIDE DEF rest
<1>2. next \in Job /\ next.kind = job[c].kind /\ next.id = job[c].id
  <2>1. next \in Job
    BY <1>1, 1 \in Nat \ {0}, JobEdited
  <2> QED
    BY <1>1, <2>1 DEF Job
<1>3. job' = [job EXCEPT ![c] = next]
  BY DEF rest
<1> HIDE DEF next
<1>4. TypeOK'
  <2>1. job \in [Caller -> Job] /\ pc' \in [Caller -> Control]
    BY DEF TypeOK, Control
  <2>2. job' \in [Caller -> Job]
    BY ONLY <1>2, <1>3, <2>1
  <2>3. UNCHANGED <<setting, log, mutationMu, eff, budget, history>>
    OBVIOUS
  <2> QED
    BY ONLY TypeInv, <2>1, <2>2, <2>3 DEF TypeInv, TypeOK, history
<1>5. IndexOK'
  BY <1>2, <1>3 DEF TypeOK, IndexOK, Undoing, history
<1> QED
  BY <1>4, <1>5

\* The end of a list of operations preserves the type invariant.
LEMMA EndOfTweakType ==
  ASSUME TypeInv, NEW c \in Caller, EndOfTweak(c)
  PROVE  TypeInv'
<1>1. CASE job[c].kind = "maintenance"
  <2>1. job[c].queue # <<>>
    BY <1>1 DEF TypeInv, IndexOK, EndOfTweak
  <2> QED
    BY <1>1, <2>1, NextTweakType DEF EndOfTweak, Goto
<1>2. CASE job[c].kind # "maintenance"
  BY <1>2, ReturnType DEF EndOfTweak
<1> QED
  BY <1>1, <1>2

\* IsApplied and the decision to apply preserve the type invariant.
LEMMA VerifyOpType ==
  ASSUME TypeInv, NEW c \in Caller, VerifyOp(c)
  PROVE  TypeInv'
<1> USE DEF TypeInv
<1> DEFINE t == Head(job[c].queue)
<1>1. pc[c] = "verify" /\ job[c].queue # <<>>
  BY DEF VerifyOp
<1>2. CASE NextTweak(c)
  BY <1>1, <1>2, NextTweakType DEF NextTweak
<1>3. CASE SkipOp(c, FALSE)
  BY <1>1, <1>3, SkipOpType
<1>4. ASSUME job' = [job EXCEPT ![c].tweak = t, ![c].i = 1], Goto(c, "op"),
             UNCHANGED <<setting, log, mutationMu, eff, budget, history>>
      PROVE  TypeInv'
  <2> DEFINE next == [job[c] EXCEPT !.tweak = t, !.i = 1]
  <2>1. job[c] \in Job /\ t \in Tweak
    BY <1>1 DEF TypeOK, Job
  <2> HIDE DEF t
  <2>2. next \in Job /\ next.kind = job[c].kind /\ next.id = job[c].id
        /\ next.queue = job[c].queue
    <3>1. next \in Job
      BY <2>1, 1 \in Nat \ {0}, JobEdited
    <3> QED
      BY <2>1, <3>1 DEF Job
  <2>3. job' = [job EXCEPT ![c] = next]
    BY <1>4 DEF t
  <2> HIDE DEF next
  <2>4. TypeOK'
    <3>1. job \in [Caller -> Job] /\ pc' \in [Caller -> Control]
      BY <1>4 DEF TypeOK, Goto, Control
    <3>2. job' \in [Caller -> Job]
      BY ONLY <2>2, <2>3, <3>1
    <3>3. UNCHANGED <<setting, log, mutationMu, eff, budget, history>>
      BY <1>4
    <3> QED
      BY ONLY TypeInv, <3>1, <3>2, <3>3 DEF TypeInv, TypeOK, history
  <2>5. IndexOK'
    BY <1>1, <1>4, <2>2, <2>3 DEF TypeOK, IndexOK, Undoing, history, Goto
  <2> QED
    BY <2>4, <2>5
<1> QED
  BY <1>2, <1>3, <1>4 DEF VerifyOp

\* The end of EnsureApplied preserves the type invariant.
LEMMA EndOfCatalogType ==
  ASSUME TypeInv, NEW c \in Caller, EndOfCatalog(c)
  PROVE  TypeInv'
  BY GotoType DEF EndOfCatalog

\* The record of a maintenance pass preserves the type invariant.
LEMMA SummaryType ==
  ASSUME TypeInv, NEW c \in Caller, Summary(c)
  PROVE  TypeInv'
<1> USE DEF TypeInv
<1> DEFINE Pass(ok) == [on |-> {}, prev |-> Absent, new |-> Absent,
                        success |-> ok, canUndo |-> FALSE, undoOf |-> 0]
<1>a. PICK logged \in BOOLEAN, ok \in {job[c].clean, FALSE} :
        IF logged THEN AppendEntry(Pass(ok), Factory)
        ELSE UNCHANGED <<log, before, restores, lost>>
  BY DEF Summary, AppendOutcome
<1> DEFINE e == Pass(ok)
<1>1. IF logged THEN AppendEntry(e, Factory) ELSE UNCHANGED <<log, before, restores, lost>>
  BY <1>a
<1>b. ok \in BOOLEAN
  BY DEF TypeOK, Job
<1>2. e \in Entry /\ Factory \in [Target -> Setting]
  BY <1>b, Parameters DEF Entry, Setting
<1> HIDE DEF e
<1>3. /\ log' \in Seq(Entry) /\ DOMAIN log \subseteq DOMAIN log'
      /\ before' \in Seq([Target -> Setting]) /\ Len(before') = Len(log')
      /\ restores' \in Seq(Nat) /\ Len(restores') = Len(log')
      /\ lost' \in Seq(Nat) /\ Len(lost') = Len(log')
  <2>1. CASE logged
    BY <1>1, <1>2, <2>1, AppendEntryTyped
  <2>2. CASE ~logged
    BY <1>1, <2>2 DEF TypeOK
  <2> QED
    BY <2>1, <2>2
<1>4. Return(c) /\ UNCHANGED <<setting, budget, unlogged, orderly>>
  BY DEF Summary
<1>5. TypeOK'
  BY <1>3, <1>4, ReturnTyped DEF TypeOK
<1>6. IndexOK'
  BY <1>3, <1>4, ReturnTyped, DefaultsTyped, ZenonT(40) DEF TypeOK, IndexOK, Undoing
<1> QED
  BY <1>5, <1>6

\* The checks of the history by both UndoEntry methods preserve the type invariant.
LEMMA LookupType ==
  ASSUME TypeInv, NEW c \in Caller, Lookup(c) \/ Recheck(c) \/ HistoryUnreadable(c)
  PROVE  TypeInv'
<1>1. Undoing(c)
  BY DEF Lookup, Recheck, HistoryUnreadable, Undoing
<1> QED
  BY <1>1, ReturnType, GotoType DEF Lookup, Recheck, HistoryUnreadable

\* restoreEntry preserves the type invariant.
LEMMA RestoreType ==
  ASSUME TypeInv, NEW c \in Caller, Restore(c)
  PROVE  TypeInv'
<1> USE DEF TypeInv
<1> DEFINE id == job[c].id
<1>1. pc[c] = "restore" /\ id \in DOMAIN log /\ log[id] \in Entry
  BY DEF TypeOK, IndexOK, Restore, Undoing
<1>2. PICK done \in BOOLEAN, part \in SUBSET log[id].on :
        /\ setting' = [x \in Target |-> IF x \in part
                                        THEN RestoredValue(id, x) ELSE setting[x]]
        /\ eff' = [eff EXCEPT ![c] = RestoreEffect(c, done, part)]
        /\ restores' = [restores EXCEPT ![id] = IF done THEN @ + 1 ELSE @]
  BY DEF Restore
<1>3. /\ pc' = [pc EXCEPT ![c] = "recordUndo"]
      /\ UNCHANGED <<log, mutationMu, job, budget, before, lost, unlogged, orderly>>
  BY DEF Restore, Goto
<1>4. log[id].prev \in Setting /\ log[id].on \in SUBSET Target
  BY <1>1 DEF Entry
<1>5. setting' \in [Target -> Setting]
  BY <1>2, <1>4 DEF TypeOK, RestoredValue
<1>6. RestoreEffect(c, done, part) \in Effect
  BY <1>4, Parameters DEF RestoreEffect, Effect
<1>7. restores' \in Seq(Nat) /\ Len(restores') = Len(log)
  <2>1. restores[id] \in Nat
    BY <1>1 DEF TypeOK
  <2> QED
    BY <1>1, <1>2, <2>1, SMTT(30) DEF TypeOK
<1>8. TypeOK'
  BY <1>2, <1>3, <1>5, <1>6, <1>7 DEF TypeOK, Control
<1>9. IndexOK'
  BY <1>1, <1>3 DEF TypeOK, IndexOK, Undoing
<1> QED
  BY <1>8, <1>9

\* The append of an undo record preserves the type invariant.
LEMMA RecordUndoType ==
  ASSUME TypeInv, NEW c \in Caller, RecordUndo(c)
  PROVE  TypeInv'
<1> USE DEF TypeInv
<1> DEFINE id == job[c].id
           e == UndoEntryOf(c)
<1>1. id \in DOMAIN log /\ id \in Nat /\ eff[c] \in Effect
  BY DEF TypeOK, IndexOK, RecordUndo, Undoing
<1>2. PICK logged \in BOOLEAN :
        /\ IF logged
           THEN AppendEntry(e, eff[c].was)
           ELSE /\ lost' = [lost EXCEPT ![id] = IF eff[c].ok THEN @ + 1 ELSE @]
                /\ UNCHANGED <<log, before, restores>>
        /\ unlogged' = IF logged /\ eff[c].ok THEN unlogged \ eff[c].on
                       ELSE unlogged \cup eff[c].touched
        /\ orderly' = IF logged /\ eff[c].ok /\ NewestLive(id) THEN orderly
                      ELSE orderly \ eff[c].touched
  BY DEF RecordUndo, AppendOutcome
<1>3. Return(c) /\ UNCHANGED <<setting, budget>>
  BY DEF RecordUndo
<1>4. unlogged' \subseteq Target /\ orderly' \subseteq Target
  BY <1>1, <1>2 DEF TypeOK, Effect
<1>5. e \in Entry /\ eff[c].was \in [Target -> Setting]
  BY <1>1 DEF Entry, Effect, Setting, UndoEntryOf
<1> HIDE DEF e
<1>6. /\ log' \in Seq(Entry) /\ DOMAIN log \subseteq DOMAIN log'
      /\ before' \in Seq([Target -> Setting]) /\ Len(before') = Len(log')
      /\ restores' \in Seq(Nat) /\ Len(restores') = Len(log')
      /\ lost' \in Seq(Nat) /\ Len(lost') = Len(log')
  <2>1. CASE logged
    BY <1>2, <1>5, <2>1, AppendEntryTyped
  <2>2. CASE ~logged
    <3>1. lost[id] \in Nat /\ id \in DOMAIN lost
      BY <1>1 DEF TypeOK
    <3>2. PICK n \in Nat : lost' = [lost EXCEPT ![id] = n]
      BY <1>2, <2>2, <3>1
    <3>3. lost' \in Seq(Nat) /\ Len(lost') = Len(lost)
      BY <3>1, <3>2 DEF TypeOK
    <3> QED
      BY <1>2, <2>2, <3>3 DEF TypeOK
  <2> QED
    BY <2>1, <2>2
<1>7. TypeOK'
  BY <1>3, <1>4, <1>6, ReturnTyped DEF TypeOK
<1>8. IndexOK'
  BY <1>3, <1>6, ReturnTyped, DefaultsTyped, ZenonT(40) DEF TypeOK, IndexOK, Undoing
<1> QED
  BY <1>7, <1>8

\* The end of a process preserves the type invariant.
LEMMA CrashType ==
  ASSUME TypeInv, NEW p \in Process, Crash(p)
  PROVE  TypeInv'
<1> USE DEF TypeInv
<1> DEFINE dead == {c \in Caller : Home[c] = p}
           torn == UNION {eff[c].touched : c \in dead}
<1>1. /\ budget' = [budget EXCEPT !.crashes = @ + 1]
      /\ pc' = [c \in Caller |-> IF c \in dead THEN "idle" ELSE pc[c]]
      /\ job' = [c \in Caller |-> IF c \in dead THEN NoJob ELSE job[c]]
      /\ eff' = [c \in Caller |-> IF c \in dead THEN NoEffect ELSE eff[c]]
      /\ unlogged' = unlogged \cup torn
      /\ orderly' = orderly \ torn
      /\ lost' = [k \in DOMAIN lost |->
            IF \E c \in dead : pc[c] = "recordUndo" /\ eff[c].ok /\ job[c].id = k
            THEN lost[k] + 1 ELSE lost[k]]
      /\ mutationMu' = [mutationMu EXCEPT ![p] = NoCaller]
      /\ UNCHANGED <<setting, log, before, restores>>
  BY DEF Crash
<1>2. torn \subseteq Target
  BY DEF TypeOK, Effect
<1>3. lost' \in Seq(Nat) /\ Len(lost') = Len(log)
  <2>1. DOMAIN lost = 1..Len(lost) /\ Len(lost) \in Nat /\ Len(lost) = Len(log)
    BY DEF TypeOK
  <2>2. \A k \in 1..Len(lost) : lost[k] \in Nat
    BY DEF TypeOK
  <2>3. lost' \in [1..Len(lost) -> Nat]
    BY <1>1, <2>1, <2>2
  <2> QED
    BY <2>1, <2>3, LenProperties, SeqDef
<1> HIDE DEF dead, torn
<1>4. TypeOK'
  <2>1. pc' \in [Caller -> Control] /\ job' \in [Caller -> Job] /\ eff' \in [Caller -> Effect]
    BY <1>1, DefaultsTyped DEF TypeOK, Control
  <2>2. budget' \in [calls : Nat, crashes : Nat, drifts : Nat]
    BY <1>1 DEF TypeOK
  <2>3. mutationMu' \in [Process -> Caller \cup {NoCaller}]
    BY <1>1 DEF TypeOK
  <2> QED
    BY <1>1, <1>2, <1>3, <2>1, <2>2, <2>3 DEF TypeOK
<1>5. IndexOK'
  BY <1>1, DefaultsTyped DEF TypeOK, IndexOK, Undoing
<1> QED
  BY <1>4, <1>5

\* A change made by another program preserves the type invariant.
LEMMA DriftType ==
  ASSUME TypeInv, NEW x \in Target, NEW v \in Setting, Drift(x, v)
  PROVE  TypeInv'
<1> USE DEF TypeInv
<1>1. TypeOK'
  <2>0. budget' = [budget EXCEPT !.drifts = @ + 1]
    BY DEF Drift
  <2>1. budget' \in [calls : Nat, crashes : Nat, drifts : Nat]
    BY <2>0 DEF TypeOK
  <2>2. setting' \in [Target -> Setting]
    BY DEF TypeOK, Drift
  <2>3. unlogged' \subseteq Target /\ orderly' \subseteq Target
    BY DEF TypeOK, Drift
  <2> QED
    BY <2>1, <2>2, <2>3 DEF TypeOK, Drift
<1>2. IndexOK'
  BY DEF TypeOK, IndexOK, Undoing, Drift
<1> QED
  BY <1>1, <1>2

\* Every step of a call preserves the type invariant.
LEMMA StepType ==
  ASSUME TypeInv, NEW c \in Caller, Step(c)
  PROVE  TypeInv'
  BY ReadOpType, ReadFailsType, WriteOpType, UndoOpType, RecordType, EndOfTweakType,
     VerifyOpType, EndOfCatalogType, SummaryType, LookupType, RestoreType, RecordUndoType
     DEF Step

\* Every step of the system preserves the type invariant.
LEMMA NextType == TypeInv /\ [Next]_vars => TypeInv'
<1> SUFFICES ASSUME TypeInv, [Next]_vars PROVE TypeInv'
  OBVIOUS
<1>1. CASE UNCHANGED vars
  BY <1>1 DEF vars, TypeInv, TypeOK, IndexOK, Undoing
<1>2. CASE Finished
  BY <1>1, <1>2 DEF Finished
<1> QED
  BY <1>1, <1>2, RequestType, AcquireType, StepType, CrashType, DriftType DEF Next

\* Every reachable state is well typed: entry numbers name entries of the log,
\* the operation a call is at exists, and the history variables keep pace.
THEOREM TypeCorrect == Spec => []TypeOK
<1>1. TypeInv => TypeOK
  BY DEF TypeInv
<1> QED
  BY <1>1, TypeInvInit, NextType, PTL DEF Spec

-----------------------------------------------------------------------------
(* Within one process nothing comes between a snapshot and its write.      *)

\* A caller that is past the entry of its call owns its process's mutex.
LockHeld == \A c \in Caller : Busy(c) => mutationMu[Home[c]] = c

\* Until the write, the snapshot is still what the setting holds ...
Fresh == \A c \in Caller : pc[c] = "write" /\ eff[c].canUndo =>
             \A x \in eff[c].on : eff[c].prev = setting[x]

\* ... and after it, what the write replaced.
Replaced == \A c \in Caller : pc[c] = "record" /\ eff[c].canUndo =>
                \A x \in eff[c].on : eff[c].prev = eff[c].was[x]

FaithInv == TypeInv /\ LockHeld /\ Fresh /\ Replaced /\ SnapshotFaithful

\* What one step of a caller leaves alone.
LEMMA StepFrame ==
  ASSUME TypeInv, NEW c \in Caller, Step(c)
  PROVE  /\ Busy(c)
         /\ \A d \in Caller \ {c} : pc'[d] = pc[d] /\ eff'[d] = eff[d]
         /\ \/ mutationMu' = mutationMu
            \/ mutationMu' = [mutationMu EXCEPT ![Home[c]] = NoCaller] /\ pc'[c] = "idle"
<1> DEFINE Frame == /\ Busy(c)
                    /\ \A d \in Caller \ {c} : pc'[d] = pc[d] /\ eff'[d] = eff[d]
                    /\ \/ mutationMu' = mutationMu
                       \/ /\ mutationMu' = [mutationMu EXCEPT ![Home[c]] = NoCaller]
                          /\ pc'[c] = "idle"
<1>1. pc \in [Caller -> Control] /\ eff \in [Caller -> Effect]
  BY DEF TypeInv, TypeOK
<1>2. CASE ReadOp(c) \/ ReadFails(c)
  BY <1>1, <1>2 DEF ReadOp, ReadFails, SkipOp, Goto, Busy
<1>3. CASE WriteOp(c) \/ UndoOp(c)
  <2>1. PICK op, e : (Execute(c, op, e) \/ ExecuteFails(c, op, e)) /\ Busy(c)
    BY <1>3, Zenon DEF WriteOp, UndoOp, Busy
  <2> QED
    BY <1>1, <2>1 DEF Execute, ExecuteFails, Goto
<1>4. CASE Record(c)
  BY <1>1, <1>4 DEF Record, Goto, Busy
<1>5. CASE EndOfTweak(c) \/ VerifyOp(c) \/ EndOfCatalog(c)
  BY <1>1, <1>5 DEF EndOfTweak, VerifyOp, NextTweak, SkipOp, EndOfCatalog, Return, Goto, Busy
<1>6. CASE Summary(c) \/ Lookup(c) \/ Recheck(c) \/ HistoryUnreadable(c) \/ RecordUndo(c)
  BY <1>1, <1>6 DEF Summary, Lookup, Recheck, HistoryUnreadable, RecordUndo, Return, Goto, Busy
<1>7. CASE Restore(c)
  BY <1>1, <1>7 DEF Restore, Goto, Busy
<1> QED
  BY <1>2, <1>3, <1>4, <1>5, <1>6, <1>7 DEF Step

\* Two calls of one process are never in progress together.
LEMMA Exclusive ==
  ASSUME OneProcessOnly, LockHeld, NEW c \in Caller, NEW d \in Caller, Busy(c), Busy(d)
  PROVE  c = d
  BY DEF OneProcessOnly, LockHeld

\* A caller at work owns the mutex of its process: every step preserves this.
LEMMA LockHeldNext == TypeInv /\ LockHeld /\ [Next]_vars => LockHeld'
<1> SUFFICES ASSUME TypeInv, LockHeld, [Next]_vars, NEW d \in Caller, Busy(d)'
             PROVE  mutationMu'[Home[d]] = d
  BY DEF LockHeld
<1>1. /\ pc \in [Caller -> Control] /\ mutationMu \in [Process -> Caller \cup {NoCaller}]
      /\ Home \in [Caller -> Process] /\ NoCaller \notin Caller
  BY Parameters DEF TypeInv, TypeOK
<1>2. ASSUME NEW c \in Caller, NEW j \in Requests, Request(c, j)
      PROVE  mutationMu'[Home[d]] = d
  BY <1>1, <1>2 DEF Request, Goto, Busy, LockHeld
<1>3. ASSUME NEW c \in Caller, Acquire(c)
      PROVE  mutationMu'[Home[d]] = d
  BY <1>1, <1>3 DEF Acquire, Goto, Busy, LockHeld
<1>4. ASSUME NEW c \in Caller, Step(c)
      PROVE  mutationMu'[Home[d]] = d
  BY <1>1, <1>4, StepFrame DEF Busy, LockHeld
<1>5. ASSUME NEW p \in Process, Crash(p)
      PROVE  mutationMu'[Home[d]] = d
  BY <1>1, <1>5 DEF Crash, Busy, LockHeld
<1>6. CASE UNCHANGED <<pc, mutationMu>>
  BY <1>6 DEF Busy, LockHeld
<1> QED
  BY <1>2, <1>3, <1>4, <1>5, <1>6 DEF Next, Drift, Finished, vars

\* An appended entry that offers undo keeps SnapshotFaithful if it is faithful.
LEMMA AppendFaithful ==
  ASSUME TypeOK, SnapshotFaithful, NEW e \in Entry, NEW was \in [Target -> Setting],
         AppendEntry(e, was), e.canUndo => \A x \in e.on : e.prev = was[x]
  PROVE  SnapshotFaithful'
<1> SUFFICES ASSUME NEW k \in DOMAIN log', log'[k].canUndo, NEW x \in log'[k].on
             PROVE  log'[k].prev = before'[k][x]
  BY DEF SnapshotFaithful
<1>1. CASE k \in DOMAIN log
  <2>1. log'[k] = log[k] /\ before'[k] = before[k]
    BY <1>1, AppendEntryTyped
  <2> QED
    BY <1>1, <2>1 DEF SnapshotFaithful
<1>2. CASE k = Len(log) + 1
  <2>1. log'[k] = e /\ before'[k] = was
    BY <1>2, AppendEntryTyped
  <2> QED
    BY <2>1
<1> QED
  BY <1>1, <1>2, AppendEntryTyped

\* What a step of c does to its own snapshot and to the log.
LEMMA StepFaithful ==
  ASSUME FaithInv, NEW c \in Caller, Step(c)
  PROVE  /\ SnapshotFaithful'
         /\ pc'[c] = "write" /\ eff'[c].canUndo =>
              \A x \in eff'[c].on : eff'[c].prev = setting'[x]
         /\ pc'[c] = "record" /\ eff'[c].canUndo =>
              \A x \in eff'[c].on : eff'[c].prev = eff'[c].was[x]
<1> USE DEF FaithInv, TypeInv
<1>1. pc \in [Caller -> Control] /\ eff \in [Caller -> Effect]
  BY DEF TypeOK
<1> DEFINE KeepsLog == log' = log /\ before' = before
<1>2. KeepsLog => SnapshotFaithful'
  BY DEF SnapshotFaithful
<1>3. CASE ReadOp(c)
  <2>1. KeepsLog /\ pc[c] = "op"
    BY <1>3 DEF ReadOp, SkipOp, history
  <2>2. CASE pc' = pc
    BY <1>2, <2>1, <2>2
  <2>3. CASE pc' # pc
    <3> DEFINE op == CurrentOp(c)
    <3>1. /\ eff' = [eff EXCEPT ![c] =
               [on |-> op.on, prev |-> Snapshot(op), new |-> Desired(op),
                canUndo |-> Captured(op) /\ job[c].tweak \in Reversible,
                ok |-> FALSE, touched |-> {}, was |-> Factory]]
          /\ pc'[c] = "write" /\ setting' = setting
          /\ job[c].kind # "undo" /\ job[c].i <= Len(Program(c))
      BY <1>1, <1>3, <2>3 DEF ReadOp, SkipOp, Goto
    <3>2. /\ eff'[c].canUndo = (Captured(op) /\ job[c].tweak \in Reversible)
          /\ eff'[c].on = op.on /\ eff'[c].prev = Snapshot(op)
      BY <1>1, <3>1
    <3>3. ASSUME Captured(op), NEW x \in op.on PROVE Snapshot(op) = setting[x]
      <4>1. /\ job[c].tweak \in Tweak /\ job[c].i \in DOMAIN Operations[job[c].tweak]
            /\ op = Operations[job[c].tweak][job[c].i]
        BY <3>1, Parameters DEF TypeOK, Job, Program, CurrentOp
      <4>2. \E y \in Target : op.on = {y}
        BY <3>3, <4>1, CapturedOnOneTarget DEF Captured
      <4> QED
        BY <3>3, <4>2 DEF Snapshot
    <3> HIDE DEF op
    <3> QED
      BY <1>2, <2>1, <3>1, <3>2, <3>3
  <2> QED
    BY <2>2, <2>3
<1>4. CASE ReadFails(c)
  BY <1>2, <1>4 DEF ReadFails, SkipOp, history
<1>5. ASSUME NEW op, NEW e \in Effect, Execute(c, op, e) \/ ExecuteFails(c, op, e),
             e.canUndo => \A x \in e.on : e.prev = setting[x]
      PROVE  /\ KeepsLog /\ pc'[c] = "record"
             /\ eff'[c].canUndo => \A x \in eff'[c].on : eff'[c].prev = eff'[c].was[x]
  <2>1. KeepsLog /\ pc'[c] = "record"
    BY <1>1, <1>5 DEF Execute, ExecuteFails, Goto, history
  <2>2. CASE Execute(c, op, e)
    <3> DEFINE was == IF e.canUndo THEN setting ELSE Factory
    <3>1. eff'[c] = [e EXCEPT !.ok = TRUE, !.touched = op.on, !.was = was]
      BY <1>1, <2>2 DEF Execute
    <3>2. e.canUndo => was = setting
      OBVIOUS
    <3> HIDE DEF was
    <3>3. /\ eff'[c].canUndo = e.canUndo /\ eff'[c].on = e.on /\ eff'[c].prev = e.prev
          /\ eff'[c].was = was
      BY <3>1 DEF Effect
    <3> QED
      BY <1>5, <2>1, <3>2, <3>3
  <2>3. CASE ExecuteFails(c, op, e)
    <3>1. PICK part : eff'[c] = [e EXCEPT !.ok = FALSE, !.touched = part, !.canUndo = FALSE]
      BY <1>1, <2>3 DEF ExecuteFails
    <3>2. ~eff'[c].canUndo
      BY <3>1 DEF Effect
    <3> QED
      BY <2>1, <3>2
  <2> QED
    BY <1>5, <2>2, <2>3
<1>6. CASE WriteOp(c)
  <2>1. eff[c] \in Effect /\ (eff[c].canUndo => \A x \in eff[c].on : eff[c].prev = setting[x])
    BY <1>1, <1>6 DEF WriteOp, Fresh
  <2>2. Execute(c, CurrentOp(c), eff[c]) \/ ExecuteFails(c, CurrentOp(c), eff[c])
    BY <1>6 DEF WriteOp
  <2> QED
    BY <1>2, <1>5, <2>1, <2>2
<1>7. CASE UndoOp(c)
  <2> DEFINE op == CurrentOp(c)
             e == [NoEffect EXCEPT !.on = op.on, !.new = Desired(op)]
  <2>1. op \in Op /\ Desired(op) \in Setting
    BY <1>7, CurrentOpTyped DEF UndoOp
  <2>2. e \in Effect /\ ~e.canUndo
    BY <2>1, DefaultsTyped DEF Effect, Op, NoEffect
  <2>3. Execute(c, op, e) \/ ExecuteFails(c, op, e)
    BY <1>7 DEF UndoOp
  <2> HIDE DEF op, e
  <2> QED
    BY <1>2, <1>5, <2>2, <2>3
<1>8. CASE Record(c)
  <2>1. pc'[c] = "op" /\ pc[c] = "record" /\ eff[c] \in Effect
    BY <1>1, <1>8 DEF Record, Goto
  <2>2. EffectEntry(c) \in Entry /\ eff[c].was \in [Target -> Setting]
    BY <2>1 DEF EffectEntry, Effect, Entry
  <2>3. EffectEntry(c).canUndo =>
          \A x \in EffectEntry(c).on : EffectEntry(c).prev = eff[c].was[x]
    BY <2>1 DEF EffectEntry, Replaced
  <2>4. AppendEntry(EffectEntry(c), eff[c].was) \/ KeepsLog
    BY <1>8 DEF Record
  <2>5. SnapshotFaithful'
    BY <1>2, <2>2, <2>3, <2>4, AppendFaithful
  <2> QED
    BY <2>1, <2>5
<1>9. CASE EndOfTweak(c) \/ VerifyOp(c) \/ EndOfCatalog(c)
  <2>1. KeepsLog /\ pc'[c] \notin {"write", "record"}
    BY <1>1, <1>9 DEF EndOfTweak, VerifyOp, NextTweak, SkipOp, EndOfCatalog, Return, Goto,
       history
  <2> QED
    BY <1>2, <2>1
<1>10. CASE Summary(c)
  <2> DEFINE Pass(ok) == [on |-> {}, prev |-> Absent, new |-> Absent,
                          success |-> ok, canUndo |-> FALSE, undoOf |-> 0]
  <2>1. pc'[c] = "idle"
    BY <1>1, <1>10 DEF Summary, Return, Goto
  <2>a. PICK ok \in {job[c].clean, FALSE} : AppendEntry(Pass(ok), Factory) \/ KeepsLog
    BY <1>10 DEF Summary
  <2> DEFINE e == Pass(ok)
  <2>2. AppendEntry(e, Factory) \/ KeepsLog
    BY <2>a
  <2>b. ok \in BOOLEAN
    BY DEF TypeOK, Job
  <2>3. e \in Entry /\ ~e.canUndo /\ Factory \in [Target -> Setting]
    BY <2>b, Parameters DEF Entry, Setting
  <2> HIDE DEF e
  <2>4. SnapshotFaithful'
    BY <1>2, <2>2, <2>3, AppendFaithful
  <2> QED
    BY <2>1, <2>4
<1>11. CASE Lookup(c) \/ Recheck(c) \/ HistoryUnreadable(c)
  <2>1. KeepsLog /\ pc'[c] \notin {"write", "record"}
    BY <1>1, <1>11 DEF Lookup, Recheck, HistoryUnreadable, Return, Goto, history
  <2> QED
    BY <1>2, <2>1
<1>12. CASE Restore(c)
  <2>1. KeepsLog /\ pc'[c] \notin {"write", "record"}
    BY <1>1, <1>12 DEF Restore, Goto
  <2> QED
    BY <1>2, <2>1
<1>13. CASE RecordUndo(c)
  <2> DEFINE e == UndoEntryOf(c)
  <2>1. pc'[c] = "idle"
    BY <1>1, <1>13 DEF RecordUndo, Return, Goto
  <2>2. AppendEntry(e, eff[c].was) \/ KeepsLog
    BY <1>13 DEF RecordUndo
  <2>3. eff[c] \in Effect /\ job[c] \in Job
    BY <1>1 DEF TypeOK
  <2>4. e \in Entry /\ ~e.canUndo /\ eff[c].was \in [Target -> Setting]
    BY <2>3 DEF Entry, Setting, Effect, Job, UndoEntryOf
  <2> HIDE DEF e
  <2>5. SnapshotFaithful'
    BY <1>2, <2>2, <2>4, AppendFaithful
  <2> QED
    BY <2>1, <2>5
<1> QED
  BY <1>3, <1>4, <1>6, <1>7, <1>8, <1>9, <1>10, <1>11, <1>12, <1>13 DEF Step

\* With one process, every step preserves the strengthening of SnapshotFaithful.
LEMMA FaithInvNext == OneProcessOnly /\ FaithInv /\ [Next]_vars => FaithInv'
<1> SUFFICES ASSUME OneProcessOnly, FaithInv, [Next]_vars PROVE FaithInv'
  OBVIOUS
<1>1. TypeInv' /\ LockHeld'
  BY NextType, LockHeldNext DEF FaithInv
<1>2. pc \in [Caller -> Control] /\ eff \in [Caller -> Effect]
  BY DEF FaithInv, TypeInv, TypeOK
<1>3. ASSUME NEW c \in Caller, NEW j \in Requests, Request(c, j)
      PROVE  (Fresh /\ Replaced /\ SnapshotFaithful)'
  BY <1>2, <1>3 DEF FaithInv, Fresh, Replaced, SnapshotFaithful, Request, Goto, history
<1>4. ASSUME NEW c \in Caller, Acquire(c)
      PROVE  (Fresh /\ Replaced /\ SnapshotFaithful)'
  BY <1>2, <1>4 DEF FaithInv, Fresh, Replaced, SnapshotFaithful, Acquire, Goto, history
<1>5. ASSUME NEW c \in Caller, Step(c)
      PROVE  (Fresh /\ Replaced /\ SnapshotFaithful)'
  <2>1. \A d \in Caller \ {c} : pc'[d] \notin {"write", "record"}
    BY <1>5, StepFrame, Exclusive DEF FaithInv, Busy
  <2> QED
    BY <1>5, <2>1, StepFaithful DEF Fresh, Replaced
<1>6. ASSUME NEW p \in Process, Crash(p)
      PROVE  (Fresh /\ Replaced /\ SnapshotFaithful)'
  <2>1. /\ \A d \in Caller : pc'[d] \in {"write", "record"} => pc'[d] = pc[d] /\ eff'[d] = eff[d]
        /\ UNCHANGED <<setting, log, before>>
    BY <1>2, <1>6 DEF Crash
  <2> QED
    BY <2>1 DEF FaithInv, Fresh, Replaced, SnapshotFaithful
<1>7. ASSUME NEW x \in Target, NEW v \in Setting, Drift(x, v)
      PROVE  (Fresh /\ Replaced /\ SnapshotFaithful)'
  BY <1>7 DEF FaithInv, Fresh, Replaced, SnapshotFaithful, Drift, Busy
<1>8. ASSUME UNCHANGED vars
      PROVE  (Fresh /\ Replaced /\ SnapshotFaithful)'
  BY <1>8 DEF FaithInv, Fresh, Replaced, SnapshotFaithful, vars
<1>9. (Fresh /\ Replaced /\ SnapshotFaithful)'
  <2>1. CASE Next
    BY <2>1, <1>3, <1>4, <1>5, <1>6, <1>7, <1>8 DEF Next, Finished
  <2> QED
    BY <1>8, <2>1
<1> QED
  BY <1>1, <1>9 DEF FaithInv

\* Nothing is pending at the start.
LEMMA FaithInvInit == Init => FaithInv
<1> SUFFICES ASSUME Init PROVE FaithInv
  OBVIOUS
<1>1. TypeInv
  BY TypeInvInit
<1>2. LockHeld /\ Fresh /\ Replaced /\ SnapshotFaithful
  BY DEF Init, LockHeld, Fresh, Replaced, SnapshotFaithful, Busy
<1> QED
  BY <1>1, <1>2 DEF FaithInv

\* Within one process, whatever the catalog, the number of callers, the failures
\* and the crashes, an entry that offers undo recorded what its write replaced.
THEOREM SnapshotIsFaithful ==
  ASSUME OneProcessOnly
  PROVE  Spec => []SnapshotFaithful
<1>1. Init => FaithInv
  BY FaithInvInit
<1>2. FaithInv /\ [Next]_vars => FaithInv'
  BY FaithInvNext
<1>3. FaithInv => SnapshotFaithful
  BY DEF FaithInv
<1> QED
  BY <1>1, <1>2, <1>3, PTL DEF Spec

-----------------------------------------------------------------------------
(* What a call in progress and the log have in common.                     *)

\* What a caller's effect says at each control point: nothing is written yet, or what
\* was written is what the effect asks for.
Pending ==
    \A c \in Caller :
        /\ pc[c] \notin {"record", "recordUndo"} => eff[c].touched = {}
        /\ pc[c] = "write" => /\ eff[c].on = CurrentOp(c).on
                              /\ eff[c].new = Desired(CurrentOp(c))
        /\ pc[c] \in {"write", "record"} /\ eff[c].canUndo =>
              \E x \in Target : eff[c].on = {x}
        /\ pc[c] = "record" /\ eff[c].canUndo => eff[c].ok
        /\ eff[c].ok => eff[c].touched = eff[c].on
        /\ pc[c] \in {"record", "recordUndo"} =>
              \A x \in eff[c].touched : setting[x] = eff[c].new
        /\ pc[c] \in {"restore", "recordUndo"} =>
              log[job[c].id].success /\ log[job[c].id].canUndo /\ ~Undone(job[c].id)
        /\ pc[c] = "recordUndo" => /\ eff[c].on = log[job[c].id].on
                                   /\ eff[c].new = log[job[c].id].prev

\* What holds of every entry: an undo record names an earlier entry and its targets, and
\* what can be undone succeeded on one target.
Entries ==
    \A k \in DOMAIN log :
        /\ log[k].undoOf < k
        /\ log[k].undoOf # 0 => log[k].on = log[log[k].undoOf].on
        /\ log[k].canUndo => log[k].success /\ \E x \in Target : log[k].on = {x}

\* A restore of k that no record tells of yet.
InFlight(k) == \E c \in Caller : pc[c] = "recordUndo" /\ eff[c].ok /\ job[c].id = k

\* How often an entry was restored, by what has become of it.
Restored ==
    \A k \in DOMAIN log : /\ restores[k] <= 1 + lost[k]
                          /\ ~Undone(k) /\ ~InFlight(k) => restores[k] <= lost[k]

\* The targets no call has written to and not recorded yet.
Settled(x) == \A c \in Caller : x \notin eff[c].touched

\* The value the log explains.
Successes(x) == {k \in DOMAIN log : log[k].success /\ x \in log[k].on}
Explained(x) == IF Successes(x) = {} THEN Factory[x] ELSE ValueAfter(MaxOf(Successes(x)))

Explains == \A x \in Target \ unlogged : Settled(x) => setting[x] = Explained(x)

\* The value at the end of the chain of undoable entries of a target.
Top(x) == IF Live(x) = {} THEN Factory[x] ELSE log[MaxOf(Live(x))].new

\* Each of those entries starts where the one before it ended.
Linked(x) ==
    \A k \in Live(x) :
        LET older == {n \in Live(x) : n < k}
        IN  log[k].prev = IF older = {} THEN Factory[x] ELSE log[MaxOf(older)].new

Chained ==
    \A x \in orderly :
        /\ Linked(x)
        /\ Settled(x) => setting[x] = Top(x)
        /\ \A c \in Caller : pc[c] = "record" /\ eff[c].canUndo /\ x \in eff[c].touched =>
              eff[c].prev = Top(x)

\* The first k operations of a tweak are in their target state, unless the tweak
\* contradicts itself.
AppliedUpTo(t, k) == Conflict(t, t) \/ \A n \in 1..k : InTarget(Operations[t][n])

\* The n-th tweak of the catalog is applied, unless one up to the m-th contradicts it.
Converged(n, m) ==
    \/ ~CanVerify(Catalog[n])
    \/ \E u \in n..m : CanVerify(Catalog[u]) /\ Conflict(Catalog[n], Catalog[u])
    \/ IsApplied(Catalog[n])

\* How far a maintenance pass is: m tweaks are done, and of the next one as many
\* operations as the pass is past.  What is done is converged, unless the pass failed.
PassAt(c, m) ==
    /\ job[c].queue = SubSeq(Catalog, m + 1, Len(Catalog))
    /\ pc[c] = "summary" => m = Len(Catalog)
    /\ pc[c] \in {"op", "write", "record"} =>
          m < Len(Catalog) /\ job[c].tweak = Catalog[m + 1] /\ CanVerify(Catalog[m + 1])
    /\ job[c].clean =>
          /\ pc[c] \in {"verify", "summary"} => \A n \in 1..m : Converged(n, m)
          /\ pc[c] = "verify" /\ m < Len(Catalog) /\ CanVerify(Catalog[m + 1]) =>
                AppliedUpTo(Catalog[m + 1], job[c].i - 1)
          /\ pc[c] \in {"op", "write", "record"} => \A n \in 1..m : Converged(n, m + 1)
          /\ pc[c] \in {"op", "write"} => AppliedUpTo(Catalog[m + 1], job[c].i - 1)
          /\ pc[c] = "record" => AppliedUpTo(Catalog[m + 1], job[c].i)

InPass(c) == job[c].kind = "maintenance" /\ pc[c] \in {"verify", "op", "write", "record", "summary"}

\* Only a maintenance pass verifies, and one that waits for the mutex has the whole
\* catalog before it.
PassShape(c) ==
    /\ pc[c] \in {"verify", "summary"} => job[c].kind = "maintenance"
    /\ job[c].kind = "maintenance" /\ pc[c] = "waiting" => job[c].queue = Catalog /\ job[c].i = 1

Passed ==
    \A c \in Caller : /\ PassShape(c)
                      /\ InPass(c) => \E m \in 0..Len(Catalog) : PassAt(c, m)

-----------------------------------------------------------------------------
(* The shapes a step of a call can have.                                   *)

\* A step that neither writes a setting nor touches the log.
Quiet(c) ==
    /\ UNCHANGED <<setting, log, restores, lost, unlogged, orderly>>
    /\ pc[c] \notin {"record", "recordUndo"} /\ pc'[c] \notin {"record", "recordUndo"}
    /\ eff'[c] = eff[c] \/ (eff'[c].touched = {} /\ ~eff'[c].ok)
    /\ pc'[c] = "write" =>
          /\ eff'[c].on = CurrentOp(c)'.on /\ eff'[c].new = Desired(CurrentOp(c)')
          /\ eff'[c].canUndo => \E x \in Target : eff'[c].on = {x}
    /\ pc'[c] = "restore" =>
          /\ job'[c] = job[c] /\ job[c].kind = "undoEntry"
          /\ log[job[c].id].success /\ log[job[c].id].canUndo /\ ~Undone(job[c].id)

\* A write of an operation, whole or in part.
Wrote(c) ==
    /\ UNCHANGED <<log, restores, lost, unlogged, orderly>>
    /\ pc[c] \in {"op", "write"} /\ pc'[c] = "record"
    /\ setting' = [x \in Target |-> IF x \in eff'[c].touched THEN eff'[c].new ELSE setting[x]]
    /\ eff'[c].touched \subseteq eff'[c].on /\ (eff'[c].ok => eff'[c].touched = eff'[c].on)
    /\ eff'[c].canUndo => /\ eff'[c].ok /\ pc[c] = "write" /\ eff[c].canUndo
                          /\ eff'[c].on = eff[c].on /\ eff'[c].prev = eff[c].prev

\* A restore of an entry, whole or in part.
WroteBack(c) ==
    /\ UNCHANGED <<log, lost, unlogged, orderly>>
    /\ job[c].id \in DOMAIN log
    /\ pc[c] = "restore" /\ pc'[c] = "recordUndo" /\ job'[c] = job[c]
    /\ setting' = [x \in Target |-> IF x \in eff'[c].touched THEN eff'[c].new ELSE setting[x]]
    /\ eff'[c].on = log[job[c].id].on /\ eff'[c].new = log[job[c].id].prev
    /\ eff'[c].touched \subseteq eff'[c].on /\ (eff'[c].ok => eff'[c].touched = eff'[c].on)
    /\ restores' = [restores EXCEPT ![job[c].id] = IF eff'[c].ok THEN @ + 1 ELSE @]

\* Every step of a call is quiet, writes, restores or appends.
LEMMA StepShapes ==
  ASSUME TypeInv, Pending, NEW c \in Caller, Step(c)
  PROVE  Quiet(c) \/ Wrote(c) \/ WroteBack(c) \/ Record(c) \/ Summary(c) \/ RecordUndo(c)
<1> USE DEF TypeInv
<1>1. pc \in [Caller -> Control] /\ eff \in [Caller -> Effect] /\ job \in [Caller -> Job]
  BY DEF TypeOK
<1>2. ~NoEffect.ok /\ NoEffect.touched = {}
  BY DEF NoEffect
<1>3. CASE ReadOp(c)
  <2> DEFINE op == CurrentOp(c)
             new == [on |-> op.on, prev |-> Snapshot(op), new |-> Desired(op),
                     canUndo |-> Captured(op) /\ job[c].tweak \in Reversible,
                     ok |-> FALSE, touched |-> {}, was |-> Factory]
  <2>1. /\ pc[c] = "op" /\ job[c].kind # "undo" /\ job[c].i <= Len(Program(c))
        /\ UNCHANGED <<setting, log, restores, lost, unlogged, orderly>>
    BY <1>3 DEF ReadOp, SkipOp, history
  <2>2. CASE SkipOp(c, FALSE)
    BY <1>1, <2>1, <2>2 DEF SkipOp, Quiet
  <2>3. CASE eff' = [eff EXCEPT ![c] = new] /\ Goto(c, "write") /\ job' = job
    <3>1. eff'[c] = new /\ pc'[c] = "write"
      BY <1>1, <2>3 DEF Goto
    <3>2. CurrentOp(c)' = op
      BY <2>3 DEF CurrentOp, Program
    <3>3. new.canUndo => Captured(op)
      OBVIOUS
    <3>4. Captured(op) => \E x \in Target : op.on = {x}
      <4>1. /\ job[c].tweak \in Tweak /\ job[c].i \in DOMAIN Operations[job[c].tweak]
            /\ op = Operations[job[c].tweak][job[c].i]
        BY <2>1, Parameters DEF TypeOK, Job, Program, CurrentOp
      <4> QED
        BY <4>1, CapturedOnOneTarget DEF Captured
    <3>5. new.on = op.on /\ new.new = Desired(op) /\ new.touched = {} /\ ~new.ok
      OBVIOUS
    <3> HIDE DEF op, new
    <3> QED
      BY <2>1, <3>1, <3>2, <3>3, <3>4, <3>5 DEF Quiet
  <2> QED
    BY <1>3, <2>2, <2>3 DEF ReadOp
<1>4. CASE ReadFails(c)
  BY <1>1, <1>4 DEF ReadFails, SkipOp, history, Quiet
<1>5. ASSUME NEW op \in Op, NEW e \in Effect, Execute(c, op, e) \/ ExecuteFails(c, op, e),
             pc[c] \in {"op", "write"}, e.on = op.on, e.new = Desired(op),
             e.canUndo => pc[c] = "write" /\ e = eff[c]
      PROVE  Wrote(c)
  <2>1. pc'[c] = "record" /\ UNCHANGED <<log, restores, lost, unlogged, orderly>>
    BY <1>1, <1>5 DEF Execute, ExecuteFails, Goto, history
  <2>2. CASE Execute(c, op, e)
    <3> DEFINE was == IF e.canUndo THEN setting ELSE Factory
    <3>1. eff'[c] = [e EXCEPT !.ok = TRUE, !.touched = op.on, !.was = was]
      BY <1>1, <2>2 DEF Execute
    <3> HIDE DEF was
    <3>2. /\ eff'[c].ok /\ eff'[c].touched = op.on /\ eff'[c].on = e.on /\ eff'[c].new = e.new
          /\ eff'[c].canUndo = e.canUndo /\ eff'[c].prev = e.prev
      BY <3>1 DEF Effect
    <3>3. setting' = [x \in Target |-> IF x \in op.on THEN Desired(op) ELSE setting[x]]
      BY <2>2 DEF Execute
    <3> QED
      BY <1>5, <2>1, <3>2, <3>3 DEF Wrote
  <2>3. CASE ExecuteFails(c, op, e)
    <3>1. PICK part \in SUBSET Unsure(op) :
            /\ setting' = [x \in Target |-> IF x \in part THEN Desired(op) ELSE setting[x]]
            /\ eff' = [eff EXCEPT ![c] =
                         [e EXCEPT !.ok = FALSE, !.touched = part, !.canUndo = FALSE]]
      BY <2>3 DEF ExecuteFails
    <3>2. /\ ~eff'[c].ok /\ eff'[c].touched = part /\ eff'[c].new = e.new /\ ~eff'[c].canUndo
          /\ eff'[c].on = op.on /\ part \subseteq op.on
      BY <1>1, <1>5, <3>1 DEF Effect, Unsure
    <3> QED
      BY <1>5, <2>1, <3>1, <3>2 DEF Wrote
  <2> QED
    BY <1>5, <2>2, <2>3
<1>6. CASE WriteOp(c)
  <2>1. /\ CurrentOp(c) \in Op /\ eff[c] \in Effect
        /\ eff[c].on = CurrentOp(c).on /\ eff[c].new = Desired(CurrentOp(c))
    <3>1. job[c].i <= Len(Program(c))
      BY <1>6 DEF IndexOK, WriteOp, Program
    <3> QED
      BY <1>1, <1>6, <3>1, CurrentOpTyped DEF WriteOp, Pending
  <2> QED
    BY <1>5, <1>6, <2>1 DEF WriteOp
<1>7. CASE UndoOp(c)
  <2> DEFINE op == CurrentOp(c)
             e == [NoEffect EXCEPT !.on = op.on, !.new = Desired(op)]
  <2>1. op \in Op /\ Desired(op) \in Setting
    BY <1>7, CurrentOpTyped DEF UndoOp
  <2>2. e \in Effect /\ ~e.canUndo /\ e.on = op.on /\ e.new = Desired(op)
    BY <2>1, DefaultsTyped DEF Effect, Op, NoEffect
  <2>3. pc[c] = "op" /\ (Execute(c, op, e) \/ ExecuteFails(c, op, e))
    BY <1>7 DEF UndoOp
  <2> HIDE DEF op, e
  <2> QED
    BY <1>5, <2>1, <2>2, <2>3
<1>8. CASE EndOfTweak(c) \/ VerifyOp(c) \/ EndOfCatalog(c)
  BY <1>1, <1>2, <1>8 DEF EndOfTweak, VerifyOp, NextTweak, SkipOp, EndOfCatalog, Return, Goto,
     history, Quiet
<1>9. CASE Lookup(c) \/ Recheck(c) \/ HistoryUnreadable(c)
  <2>1. job[c].kind = "undoEntry"
    BY <1>9 DEF Lookup, Recheck, HistoryUnreadable, IndexOK, Undoing
  <2> QED
    BY <1>1, <1>2, <1>9, <2>1 DEF Lookup, Recheck, HistoryUnreadable, Return, Goto, history, Quiet
<1>10. CASE Restore(c)
  <2>1. PICK done \in BOOLEAN, part \in SUBSET log[job[c].id].on :
          /\ IF done THEN part = log[job[c].id].on ELSE part \subseteq Compound
          /\ setting' = [x \in Target |-> IF x \in part
                                          THEN RestoredValue(job[c].id, x) ELSE setting[x]]
          /\ eff' = [eff EXCEPT ![c] = RestoreEffect(c, done, part)]
          /\ restores' = [restores EXCEPT ![job[c].id] = IF done THEN @ + 1 ELSE @]
    BY <1>10 DEF Restore
  <2>2. /\ pc[c] = "restore" /\ pc'[c] = "recordUndo" /\ job' = job
        /\ UNCHANGED <<log, lost, unlogged, orderly>>
    BY <1>1, <1>10 DEF Restore, Goto
  <2>a. job[c].id \in DOMAIN log
    BY <1>10 DEF Restore, IndexOK, Undoing
  <2>3. /\ eff'[c].on = log[job[c].id].on /\ eff'[c].new = log[job[c].id].prev
        /\ eff'[c].ok = done /\ eff'[c].touched = part
    BY <1>1, <2>1 DEF RestoreEffect
  <2> QED
    BY <2>1, <2>2, <2>3, <2>a DEF WroteBack, RestoredValue
<1> QED
  BY <1>3, <1>4, <1>6, <1>7, <1>8, <1>9, <1>10 DEF Step

\* With one process, the calls that take no step are not in progress.
LEMMA OthersRest ==
  ASSUME OneProcessOnly, TypeInv, LockHeld, NEW c \in Caller, Step(c), NEW d \in Caller, d # c
  PROVE  pc[d] \in {"idle", "waiting"} /\ pc'[d] = pc[d] /\ eff'[d] = eff[d] /\ job'[d] = job[d]
<1>1. pc'[d] = pc[d] /\ eff'[d] = eff[d] /\ Busy(c)
  BY StepFrame
<1>2. pc[d] \in {"idle", "waiting"}
  BY <1>1, Exclusive DEF Busy
<1>3. job \in [Caller -> Job]
  BY DEF TypeInv, TypeOK
<1>4. job'[d] = job[d]
  <2>1. CASE ReadOp(c) \/ ReadFails(c) \/ VerifyOp(c) \/ Record(c) \/ EndOfTweak(c)
    BY <1>3, <2>1 DEF ReadOp, ReadFails, VerifyOp, NextTweak, SkipOp, Record, EndOfTweak, Return
  <2>2. CASE WriteOp(c) \/ UndoOp(c)
    <3>1. PICK op, e : Execute(c, op, e) \/ ExecuteFails(c, op, e)
      BY <2>2, Zenon DEF WriteOp, UndoOp
    <3> QED
      BY <1>3, <3>1 DEF Execute, ExecuteFails
  <2>3. CASE Summary(c) \/ Lookup(c) \/ Recheck(c) \/ HistoryUnreadable(c) \/ RecordUndo(c)
             \/ EndOfCatalog(c) \/ Restore(c)
    BY <1>3, <2>3 DEF Summary, Lookup, Recheck, HistoryUnreadable, RecordUndo, Return,
       EndOfCatalog, Restore
  <2> QED
    BY <2>1, <2>2, <2>3 DEF Step
<1> QED
  BY <1>1, <1>2, <1>4

\* MaxOf is the only greatest number.
LEMMA MaxOfIs ==
  ASSUME NEW S \in SUBSET Nat, NEW m \in S, \A n \in S : n <= m
  PROVE  MaxOf(S) = m
<1>1. MaxOf(S) \in S /\ \A n \in S : n <= MaxOf(S)
  BY DEF MaxOf
<1>2. m <= MaxOf(S) /\ MaxOf(S) <= m /\ m \in Nat /\ MaxOf(S) \in Nat
  BY <1>1
<1> QED
  BY <1>2

\* A finite, non-empty set of numbers has a greatest one, and MaxOf is it.
LEMMA MaxOfIn ==
  ASSUME NEW S \in SUBSET Nat, IsFiniteSet(S), S # {}
  PROVE  MaxOf(S) \in S /\ \A n \in S : n <= MaxOf(S)
<1>1. Max(S) \in S /\ \A n \in S : n <= Max(S)
  BY MaxOfFinite
<1> QED
  BY <1>1 DEF MaxOf

\* What an append does to the entries that count as undone.
LEMMA UndoneAppend ==
  ASSUME TypeOK, NEW e \in Entry, NEW was \in [Target -> Setting], AppendEntry(e, was), NEW k
  PROVE  Undone(k)' <=> Undone(k) \/ (e.success /\ e.undoOf = k)
  BY AppendEntryTyped DEF Undone

-----------------------------------------------------------------------------
(* The calls in progress and the log agree.                                *)

\* Pending, for one caller.
PendingOf(c) ==
    /\ pc[c] \notin {"record", "recordUndo"} => eff[c].touched = {}
    /\ pc[c] = "write" => /\ eff[c].on = CurrentOp(c).on
                          /\ eff[c].new = Desired(CurrentOp(c))
    /\ pc[c] \in {"write", "record"} /\ eff[c].canUndo => \E x \in Target : eff[c].on = {x}
    /\ pc[c] = "record" /\ eff[c].canUndo => eff[c].ok
    /\ eff[c].ok => eff[c].touched = eff[c].on
    /\ pc[c] \in {"record", "recordUndo"} => \A x \in eff[c].touched : setting[x] = eff[c].new
    /\ pc[c] \in {"restore", "recordUndo"} =>
          log[job[c].id].success /\ log[job[c].id].canUndo /\ ~Undone(job[c].id)
    /\ pc[c] = "recordUndo" => /\ eff[c].on = log[job[c].id].on
                               /\ eff[c].new = log[job[c].id].prev

LEMMA PendingByCaller == Pending <=> \A c \in Caller : PendingOf(c)
  BY DEF Pending, PendingOf

\* Nothing is pending for a caller that is not in a call.
LEMMA PendingAtRest ==
  ASSUME NEW c \in Caller, pc[c] \in {"idle", "waiting"}, eff[c].touched = {},
         eff[c].ok => eff[c].on = {}
  PROVE  PendingOf(c)
  BY DEF PendingOf

\* What one process preserves of the calls in progress and the log.
Agree == TypeInv /\ LockHeld /\ Pending /\ Entries

\* The call that takes a step keeps its part of the agreement.
LEMMA StepPending ==
  ASSUME Agree, NEW c \in Caller, Step(c)
  PROVE  PendingOf(c)'
<1> USE DEF Agree
<1>1. PendingOf(c) /\ TypeOK' /\ TypeOK /\ job[c].id \in Nat
  BY StepType, PendingByCaller DEF TypeInv, TypeOK, Job
<1>2. ~NoEffect.ok /\ NoEffect.touched = {} /\ ~NoEffect.canUndo
  BY DEF NoEffect
<1>3. pc \in [Caller -> Control] /\ eff \in [Caller -> Effect] /\ job \in [Caller -> Job]
  BY <1>1 DEF TypeOK
<1>4. CASE Quiet(c)
  <2>1. pc'[c] = "restore" => ~Undone(job[c].id)'
    BY <1>4 DEF Quiet, Undone
  <2> QED
    BY <1>1, <1>4, <2>1 DEF Quiet, PendingOf
<1>5. CASE Wrote(c)
  <2>1. \A x \in eff'[c].touched : setting'[x] = eff'[c].new
    <3>1. eff'[c].touched \subseteq Target
      BY <1>1 DEF TypeOK, Effect
    <3> QED
      BY <1>5, <3>1 DEF Wrote
  <2> QED
    BY <1>1, <1>5, <2>1 DEF Wrote, PendingOf
<1>6. CASE WroteBack(c)
  <2>1. \A x \in eff'[c].touched : setting'[x] = eff'[c].new
    <3>1. eff'[c].touched \subseteq Target
      BY <1>1 DEF TypeOK, Effect
    <3> QED
      BY <1>6, <3>1 DEF WroteBack
  <2>2. ~Undone(job[c].id)'
    BY <1>1, <1>6 DEF WroteBack, PendingOf, Undone
  <2> QED
    BY <1>1, <1>6, <2>1, <2>2 DEF WroteBack, PendingOf
<1>7. CASE Record(c)
  <2>1. pc'[c] = "op" /\ eff'[c] = NoEffect
    BY <1>3, <1>7 DEF Record, Goto
  <2> QED
    BY <1>2, <2>1 DEF PendingOf
<1>8. CASE Summary(c) \/ RecordUndo(c)
  <2>1. pc'[c] = "idle" /\ eff'[c] = NoEffect
    BY <1>3, <1>8 DEF Summary, RecordUndo, Return, Goto
  <2> QED
    BY <1>2, <2>1 DEF PendingOf
<1> QED
  BY <1>4, <1>5, <1>6, <1>7, <1>8, StepShapes

\* An append keeps every entry well formed if the new one is.
LEMMA AppendEntries ==
  ASSUME TypeOK, Entries, NEW e \in Entry, NEW was \in [Target -> Setting], AppendEntry(e, was),
         e.undoOf < Len(log) + 1, e.undoOf # 0 => e.on = log[e.undoOf].on,
         e.canUndo => e.success /\ \E x \in Target : e.on = {x}
  PROVE  Entries'
<1>1. /\ DOMAIN log' = DOMAIN log \cup {Len(log) + 1} /\ DOMAIN log = 1..Len(log)
      /\ \A k \in DOMAIN log : log'[k] = log[k]
      /\ log'[Len(log) + 1] = e /\ Len(log) \in Nat /\ e.undoOf \in Nat
      /\ \A k \in DOMAIN log : log[k].undoOf \in Nat
  <2>1. /\ DOMAIN log' = DOMAIN log \cup {Len(log) + 1}
        /\ \A k \in DOMAIN log : log'[k] = log[k]
        /\ log'[Len(log) + 1] = e
    BY AppendEntryTyped
  <2>2. DOMAIN log = 1..Len(log) /\ Len(log) \in Nat /\ \A k \in DOMAIN log : log[k] \in Entry
    BY DEF TypeOK
  <2> QED
    BY <2>1, <2>2 DEF Entry
<1> SUFFICES ASSUME NEW k \in DOMAIN log'
             PROVE  /\ log'[k].undoOf < k
                    /\ log'[k].undoOf # 0 => log'[k].on = log'[log'[k].undoOf].on
                    /\ log'[k].canUndo =>
                          log'[k].success /\ \E x \in Target : log'[k].on = {x}
  BY DEF Entries
<1>2. CASE k \in DOMAIN log
  <2>1. log[k].undoOf # 0 => log[k].undoOf \in DOMAIN log
    BY <1>1, <1>2 DEF Entries
  <2> QED
    BY <1>1, <1>2, <2>1 DEF Entries
<1>3. CASE k = Len(log) + 1
  <2>1. e.undoOf # 0 => e.undoOf \in DOMAIN log
    BY <1>1
  <2> QED
    BY <1>1, <1>3, <2>1
<1> QED
  BY <1>1, <1>2, <1>3

\* What Orchestrator.record appends.
LEMMA RecordShape ==
  ASSUME Agree, NEW c \in Caller, Record(c)
  PROVE  /\ pc[c] = "record" /\ pc'[c] = "op" /\ eff'[c] = NoEffect /\ setting' = setting
         /\ EffectEntry(c) \in Entry /\ eff[c].was \in [Target -> Setting]
         /\ EffectEntry(c).undoOf = 0 /\ EffectEntry(c).on = eff[c].on
         /\ EffectEntry(c).prev = eff[c].prev /\ EffectEntry(c).new = eff[c].new
         /\ EffectEntry(c).success = eff[c].ok /\ EffectEntry(c).canUndo = eff[c].canUndo
         /\ \E logged \in BOOLEAN :
              /\ logged => AppendEntry(EffectEntry(c), eff[c].was)
              /\ ~logged => UNCHANGED <<log, before, restores, lost>>
              /\ unlogged' = IF logged /\ eff[c].ok THEN unlogged \ eff[c].on
                             ELSE unlogged \cup eff[c].touched
              /\ orderly' = IF logged /\ eff[c].canUndo THEN orderly
                            ELSE orderly \ eff[c].touched
<1>1. pc \in [Caller -> Control] /\ eff \in [Caller -> Effect]
  BY DEF Agree, TypeInv, TypeOK
<1>2. pc[c] = "record" /\ pc'[c] = "op" /\ eff'[c] = NoEffect /\ setting' = setting
  BY <1>1 DEF Record, Goto
<1>3. /\ EffectEntry(c) \in Entry /\ eff[c].was \in [Target -> Setting]
      /\ EffectEntry(c).undoOf = 0 /\ EffectEntry(c).on = eff[c].on
      /\ EffectEntry(c).prev = eff[c].prev /\ EffectEntry(c).new = eff[c].new
      /\ EffectEntry(c).success = eff[c].ok /\ EffectEntry(c).canUndo = eff[c].canUndo
  BY <1>1 DEF EffectEntry, Effect, Entry
<1>4. \E logged \in BOOLEAN :
              /\ logged => AppendEntry(EffectEntry(c), eff[c].was)
              /\ ~logged => UNCHANGED <<log, before, restores, lost>>
              /\ unlogged' = IF logged /\ eff[c].ok THEN unlogged \ eff[c].on
                             ELSE unlogged \cup eff[c].touched
              /\ orderly' = IF logged /\ eff[c].canUndo THEN orderly
                            ELSE orderly \ eff[c].touched
  BY DEF Record, AppendOutcome
<1> QED
  BY <1>2, <1>3, <1>4

\* The entry a maintenance pass appends.
PassEntry(ok) == [on |-> {}, prev |-> Absent, new |-> Absent,
                  success |-> ok, canUndo |-> FALSE, undoOf |-> 0]

\* What a maintenance pass appends.
LEMMA SummaryShape ==
  ASSUME Agree, NEW c \in Caller, Summary(c)
  PROVE  /\ pc[c] = "summary" /\ pc'[c] = "idle" /\ eff'[c] = NoEffect
         /\ UNCHANGED <<setting, unlogged, orderly>>
         /\ Factory \in [Target -> Setting]
         /\ \E ok \in BOOLEAN : /\ PassEntry(ok) \in Entry
                                /\ \/ AppendEntry(PassEntry(ok), Factory)
                                   \/ UNCHANGED <<log, before, restores, lost>>
<1>1. pc \in [Caller -> Control] /\ eff \in [Caller -> Effect] /\ job[c].clean \in BOOLEAN
  BY DEF Agree, TypeInv, TypeOK, Job
<1>2. /\ pc[c] = "summary" /\ pc'[c] = "idle" /\ eff'[c] = NoEffect
      /\ UNCHANGED <<setting, unlogged, orderly>>
  BY <1>1 DEF Summary, Return, Goto
<1>3. PICK ok \in {job[c].clean, FALSE} : \/ AppendEntry(PassEntry(ok), Factory)
                                         \/ UNCHANGED <<log, before, restores, lost>>
  BY DEF Summary, PassEntry
<1>4. ok \in BOOLEAN
  BY <1>1
<1>5. PassEntry(ok) \in Entry
  BY <1>4 DEF PassEntry, Entry, Setting
<1> QED
  BY <1>2, <1>3, <1>4, <1>5, Parameters

\* What UndoEntry appends.
LEMMA RecordUndoShape ==
  ASSUME Agree, NEW c \in Caller, RecordUndo(c)
  PROVE  /\ pc[c] = "recordUndo" /\ pc'[c] = "idle" /\ eff'[c] = NoEffect /\ setting' = setting
         /\ UndoEntryOf(c) \in Entry /\ eff[c].was \in [Target -> Setting]
         /\ job[c].id \in DOMAIN log /\ eff[c].on = log[job[c].id].on
         /\ \E logged \in BOOLEAN :
              /\ logged => AppendEntry(UndoEntryOf(c), eff[c].was)
              /\ ~logged => /\ lost' = [lost EXCEPT ![job[c].id] = IF eff[c].ok THEN @ + 1 ELSE @]
                            /\ UNCHANGED <<log, before, restores>>
              /\ unlogged' = IF logged /\ eff[c].ok THEN unlogged \ eff[c].on
                             ELSE unlogged \cup eff[c].touched
              /\ orderly' = IF logged /\ eff[c].ok /\ NewestLive(job[c].id) THEN orderly
                            ELSE orderly \ eff[c].touched
<1>1. pc \in [Caller -> Control] /\ eff \in [Caller -> Effect] /\ job[c] \in Job
  BY DEF Agree, TypeInv, TypeOK
<1>2. pc[c] = "recordUndo" /\ pc'[c] = "idle" /\ eff'[c] = NoEffect /\ setting' = setting
  BY <1>1 DEF RecordUndo, Return, Goto
<1>3. job[c].id \in DOMAIN log /\ eff[c].on = log[job[c].id].on
  BY <1>2 DEF Agree, TypeInv, IndexOK, Undoing, Pending
<1>4. UndoEntryOf(c) \in Entry /\ eff[c].was \in [Target -> Setting]
  BY <1>1 DEF UndoEntryOf, Entry, Setting, Effect, Job
<1>5. \E logged \in BOOLEAN :
              /\ logged => AppendEntry(UndoEntryOf(c), eff[c].was)
              /\ ~logged => /\ lost' = [lost EXCEPT ![job[c].id] = IF eff[c].ok THEN @ + 1 ELSE @]
                            /\ UNCHANGED <<log, before, restores>>
              /\ unlogged' = IF logged /\ eff[c].ok THEN unlogged \ eff[c].on
                             ELSE unlogged \cup eff[c].touched
              /\ orderly' = IF logged /\ eff[c].ok /\ NewestLive(job[c].id) THEN orderly
                            ELSE orderly \ eff[c].touched
  BY DEF RecordUndo, AppendOutcome, UndoEntryOf
<1> QED
  BY <1>2, <1>3, <1>4, <1>5

\* Every entry a step appends is well formed.
LEMMA StepEntries ==
  ASSUME Agree, NEW c \in Caller, Step(c)
  PROVE  Entries'
<1>1. TypeOK /\ Entries /\ PendingOf(c)
  BY PendingByCaller DEF Agree, TypeInv
<1>2. log' = log => Entries'
  BY <1>1 DEF Entries
<1>3. CASE Quiet(c) \/ Wrote(c) \/ WroteBack(c)
  BY <1>2, <1>3 DEF Quiet, Wrote, WroteBack
<1>4. CASE Record(c)
  <2>1. /\ EffectEntry(c) \in Entry /\ eff[c].was \in [Target -> Setting]
        /\ EffectEntry(c).undoOf = 0 /\ EffectEntry(c).on = eff[c].on
        /\ EffectEntry(c).success = eff[c].ok /\ EffectEntry(c).canUndo = eff[c].canUndo
        /\ AppendEntry(EffectEntry(c), eff[c].was) \/ log' = log
        /\ pc[c] = "record"
    BY <1>4, RecordShape
  <2>2. eff[c].canUndo => eff[c].ok /\ \E x \in Target : eff[c].on = {x}
    BY <1>1, <2>1 DEF PendingOf
  <2>3. 0 < Len(log) + 1
    BY <1>1 DEF TypeOK
  <2> QED
    BY <1>1, <1>2, <2>1, <2>2, <2>3, AppendEntries
<1>5. CASE Summary(c)
  <2>1. PICK ok \in BOOLEAN : /\ PassEntry(ok) \in Entry /\ Factory \in [Target -> Setting]
                              /\ AppendEntry(PassEntry(ok), Factory) \/ log' = log
    BY <1>5, SummaryShape
  <2>2. PassEntry(ok).undoOf = 0 /\ ~PassEntry(ok).canUndo /\ 0 < Len(log) + 1
    BY <1>1 DEF PassEntry, TypeOK
  <2> QED
    BY <1>1, <1>2, <2>1, <2>2, AppendEntries
<1>6. CASE RecordUndo(c)
  <2>1. /\ UndoEntryOf(c) \in Entry /\ eff[c].was \in [Target -> Setting]
        /\ job[c].id \in DOMAIN log /\ eff[c].on = log[job[c].id].on
        /\ AppendEntry(UndoEntryOf(c), eff[c].was) \/ log' = log
    BY <1>6, RecordUndoShape
  <2>2. /\ UndoEntryOf(c).undoOf = job[c].id /\ ~UndoEntryOf(c).canUndo
        /\ UndoEntryOf(c).on = eff[c].on /\ job[c].id < Len(log) + 1
    BY <1>1, <2>1 DEF UndoEntryOf, TypeOK
  <2> QED
    BY <1>1, <1>2, <2>1, <2>2, AppendEntries
<1> QED
  BY <1>3, <1>4, <1>5, <1>6, StepShapes DEF Agree

\* With one process, the calls in progress and the log go on agreeing.
LEMMA AgreeNext == OneProcessOnly /\ Agree /\ [Next]_vars => Agree'
<1> SUFFICES ASSUME OneProcessOnly, Agree, [Next]_vars PROVE Agree'
  OBVIOUS
<1> USE DEF Agree
<1>1. TypeInv' /\ LockHeld'
  BY NextType, LockHeldNext
<1>2. pc \in [Caller -> Control] /\ eff \in [Caller -> Effect] /\ job \in [Caller -> Job]
  BY DEF TypeInv, TypeOK
<1>3. ~NoEffect.ok /\ NoEffect.touched = {}
  BY DEF NoEffect
<1>4. \A c \in Caller : PendingOf(c)
  BY PendingByCaller
<1>5. ASSUME NEW c \in Caller, Step(c) PROVE Pending' /\ Entries'
  <2>1. ASSUME NEW d \in Caller, d # c PROVE PendingOf(d)'
    <3>1. pc[d] \in {"idle", "waiting"} /\ pc'[d] = pc[d] /\ eff'[d] = eff[d]
      BY <1>5, <2>1, OthersRest
    <3> QED
      BY <1>4, <3>1 DEF PendingOf
  <2> QED
    BY <1>5, <2>1, StepPending, StepEntries, PendingByCaller DEF Pending, PendingOf
<1>6. ASSUME UNCHANGED <<log, setting>>,
             \A c \in Caller : \/ pc'[c] = pc[c] /\ eff'[c] = eff[c] /\ job'[c] = job[c]
                               \/ pc'[c] \notin {"write", "record", "restore", "recordUndo"}
                                  /\ eff[c].touched = {} /\ eff'[c] = eff[c]
                               \/ pc'[c] = "idle" /\ eff'[c] = NoEffect
      PROVE  Pending' /\ Entries'
  <2>1. ASSUME NEW c \in Caller PROVE PendingOf(c)'
    <3>1. CASE pc'[c] = pc[c] /\ eff'[c] = eff[c] /\ job'[c] = job[c]
      <4>1. CurrentOp(c)' = CurrentOp(c) /\ Undone(job[c].id)' = Undone(job[c].id)
        BY <1>6, <3>1 DEF CurrentOp, Program, Undone
      <4>2. Desired(CurrentOp(c))' = Desired(CurrentOp(c))
        BY <4>1 DEF Desired
      <4> QED
        BY <1>4, <1>6, <3>1, <4>1, <4>2 DEF PendingOf
    <3>2. CASE /\ pc'[c] \notin {"write", "record", "restore", "recordUndo"}
               /\ eff[c].touched = {} /\ eff'[c] = eff[c]
      BY <1>4, <3>2 DEF PendingOf
    <3>3. CASE pc'[c] = "idle" /\ eff'[c] = NoEffect
      BY <1>3, <3>3 DEF PendingOf
    <3> QED
      BY <1>6, <3>1, <3>2, <3>3
  <2> QED
    BY <1>6, <2>1 DEF Pending, PendingOf, Entries
<1>7. ASSUME NEW c \in Caller, NEW j \in Requests, Request(c, j) PROVE Pending' /\ Entries'
  <2>1. eff[c].touched = {}
    BY <1>4, <1>7 DEF Request, PendingOf
  <2> QED
    BY <1>2, <1>6, <1>7, <2>1 DEF Request, Goto
<1>8. ASSUME NEW c \in Caller, Acquire(c) PROVE Pending' /\ Entries'
  <2>1. eff[c].touched = {}
    BY <1>4, <1>8 DEF Acquire, PendingOf
  <2> QED
    BY <1>2, <1>6, <1>8, <2>1 DEF Acquire, Goto
<1>9. ASSUME NEW p \in Process, Crash(p) PROVE Pending' /\ Entries'
  <2>1. /\ \A c \in Caller : \/ pc'[c] = pc[c] /\ eff'[c] = eff[c] /\ job'[c] = job[c]
                             \/ pc'[c] = "idle" /\ eff'[c] = NoEffect
        /\ UNCHANGED <<log, setting>>
    BY <1>9 DEF Crash
  <2> QED
    BY <1>6, <2>1
<1>10. ASSUME NEW x \in Target, NEW v \in Setting, Drift(x, v) PROVE Pending' /\ Entries'
  <2>1. /\ \A c \in Caller : pc[c] \in {"idle", "waiting"}
        /\ UNCHANGED <<log, pc, job, eff>>
    BY <1>10 DEF Drift, Busy
  <2> QED
    BY <1>4, <2>1 DEF Pending, PendingOf, Entries
<1>11. CASE UNCHANGED vars
  <2>1. UNCHANGED <<log, setting>> /\ UNCHANGED <<pc, eff, job>>
    BY <1>11 DEF vars
  <2>2. \A c \in Caller : \/ pc'[c] = pc[c] /\ eff'[c] = eff[c] /\ job'[c] = job[c]
                          \/ pc'[c] = "idle" /\ eff'[c] = NoEffect
    BY <2>1
  <2> QED
    BY <1>1, <1>6, <2>1, <2>2
<1>12. Pending' /\ Entries'
  <2>1. CASE Next
    BY <2>1, <1>5, <1>7, <1>8, <1>9, <1>10, <1>11 DEF Next, Finished
  <2> QED
    BY <1>11, <2>1
<1> QED
  BY <1>1, <1>12

\* Initially nothing is in progress and the log is empty.
LEMMA AgreeInit == Init => Agree
<1> SUFFICES ASSUME Init PROVE Agree
  OBVIOUS
<1>1. TypeInv
  BY TypeInvInit
<1>2. LockHeld
  BY DEF Init, LockHeld, Busy
<1>3. Pending
  <2>1. ~NoEffect.ok /\ NoEffect.touched = {}
    BY DEF NoEffect
  <2> QED
    BY <2>1 DEF Init, Pending
<1>4. Entries
  BY DEF Init, Entries
<1> QED
  BY <1>1, <1>2, <1>3, <1>4 DEF Agree

-----------------------------------------------------------------------------
(* An entry is restored once.                                              *)

\* Restored, for one entry.
RestoredOf(k) ==
    /\ restores[k] <= 1 + lost[k]
    /\ ~Undone(k) /\ ~InFlight(k) => restores[k] <= lost[k]

\* An append leaves the counts of the earlier entries and starts its own at nothing.
LEMMA AppendRestored ==
  ASSUME TypeOK, Restored, NEW e \in Entry, NEW was \in [Target -> Setting],
         AppendEntry(e, was),
         \A k \in DOMAIN log : InFlight(k) => InFlight(k)' \/ Undone(k)'
  PROVE  Restored'
<1>1. /\ DOMAIN log' = DOMAIN log \cup {Len(log) + 1}
      /\ \A k \in DOMAIN log : Undone(k) => Undone(k)'
  BY AppendEntryTyped, UndoneAppend
<1>2. /\ \A k \in DOMAIN log : restores'[k] = restores[k] /\ lost'[k] = lost[k]
      /\ restores'[Len(log) + 1] = 0 /\ lost'[Len(log) + 1] = 0
  BY DEF TypeOK, AppendEntry
<1> SUFFICES ASSUME NEW k \in DOMAIN log' PROVE RestoredOf(k)'
  BY DEF Restored, RestoredOf
<1>3. CASE k \in DOMAIN log
  BY <1>1, <1>2, <1>3 DEF Restored, RestoredOf
<1>4. CASE k = Len(log) + 1
  BY <1>2, <1>4 DEF RestoredOf
<1> QED
  BY <1>1, <1>3, <1>4

\* The call that takes a step counts its restore once.
LEMMA StepRestored ==
  ASSUME OneProcessOnly, Agree, Restored, NEW c \in Caller, Step(c)
  PROVE  Restored'
<1> USE DEF Agree
<1>1. TypeOK /\ PendingOf(c)
  BY PendingByCaller DEF TypeInv
<1>2. ASSUME NEW k PROVE /\ InFlight(k) <=> pc[c] = "recordUndo" /\ eff[c].ok /\ job[c].id = k
                         /\ InFlight(k)' <=> pc'[c] = "recordUndo" /\ eff'[c].ok /\ job'[c].id = k
  BY OthersRest DEF InFlight
<1>3. \A k \in DOMAIN log : restores[k] \in Nat /\ lost[k] \in Nat /\ k \in DOMAIN restores
                            /\ k \in DOMAIN lost
  BY <1>1 DEF TypeOK
<1>4. CASE Quiet(c) \/ Wrote(c)
  <2>1. /\ UNCHANGED <<log, restores, lost>>
        /\ \A k : ~InFlight(k) /\ (Undone(k)' <=> Undone(k))
    BY <1>2, <1>4 DEF Quiet, Wrote, Undone
  <2> QED
    BY <2>1 DEF Restored
<1>5. CASE WroteBack(c)
  <2> DEFINE id == job[c].id
  <2>1. /\ UNCHANGED <<log, lost>> /\ id \in DOMAIN log
        /\ restores' = [restores EXCEPT ![id] = IF eff'[c].ok THEN @ + 1 ELSE @]
        /\ pc[c] = "restore" /\ pc'[c] = "recordUndo" /\ job'[c].id = id
    BY <1>5 DEF WroteBack
  <2>2. ~Undone(id) /\ ~InFlight(id) /\ \A k : Undone(k)' <=> Undone(k)
    BY <1>1, <1>2, <2>1 DEF PendingOf, Undone
  <2>3. restores[id] <= lost[id]
    BY <2>1, <2>2 DEF Restored
  <2> SUFFICES ASSUME NEW k \in DOMAIN log PROVE RestoredOf(k)'
    BY <2>1 DEF Restored, RestoredOf
  <2>4. CASE k = id
    BY <1>2, <1>3, <2>1, <2>3, <2>4 DEF RestoredOf
  <2>5. CASE k # id
    <3>1. restores'[k] = restores[k] /\ lost'[k] = lost[k] /\ ~InFlight(k)
      BY <1>2, <1>3, <2>1, <2>5
    <3> QED
      BY <2>2, <3>1 DEF Restored, RestoredOf
  <2> QED
    BY <2>4, <2>5
<1>6. CASE Record(c)
  <2>1. /\ pc[c] = "record" /\ EffectEntry(c) \in Entry /\ eff[c].was \in [Target -> Setting]
        /\ AppendEntry(EffectEntry(c), eff[c].was) \/ UNCHANGED <<log, restores, lost>>
    BY <1>6, RecordShape
  <2>2. \A k : ~InFlight(k)
    BY <1>2, <2>1
  <2>3. CASE AppendEntry(EffectEntry(c), eff[c].was)
    BY <1>1, <2>1, <2>2, <2>3, AppendRestored
  <2>4. CASE UNCHANGED <<log, restores, lost>>
    <3>1. \A k : Undone(k)' <=> Undone(k)
      BY <2>4 DEF Undone
    <3> QED
      BY <2>2, <2>4, <3>1 DEF Restored
  <2> QED
    BY <2>1, <2>3, <2>4
<1>7. CASE Summary(c)
  <2>1. PICK ok \in BOOLEAN :
          /\ PassEntry(ok) \in Entry /\ Factory \in [Target -> Setting] /\ pc[c] = "summary"
          /\ AppendEntry(PassEntry(ok), Factory) \/ UNCHANGED <<log, restores, lost>>
    BY <1>7, SummaryShape
  <2>2. \A k : ~InFlight(k)
    BY <1>2, <2>1
  <2>3. CASE AppendEntry(PassEntry(ok), Factory)
    BY <1>1, <2>1, <2>2, <2>3, AppendRestored
  <2>4. CASE UNCHANGED <<log, restores, lost>>
    <3>1. \A k : Undone(k)' <=> Undone(k)
      BY <2>4 DEF Undone
    <3> QED
      BY <2>2, <2>4, <3>1 DEF Restored
  <2> QED
    BY <2>1, <2>3, <2>4
<1>8. CASE RecordUndo(c)
  <2> DEFINE id == job[c].id
  <2>1. /\ pc[c] = "recordUndo" /\ pc'[c] = "idle" /\ id \in DOMAIN log
        /\ UndoEntryOf(c) \in Entry /\ eff[c].was \in [Target -> Setting]
    BY <1>8, RecordUndoShape
  <2>2. CASE AppendEntry(UndoEntryOf(c), eff[c].was)
    <3>1. ASSUME NEW k \in DOMAIN log, InFlight(k) PROVE Undone(k)'
      <4>1. UndoEntryOf(c).success /\ UndoEntryOf(c).undoOf = k
        BY <1>2, <3>1 DEF UndoEntryOf
      <4> QED
        BY <1>1, <2>1, <2>2, <4>1, UndoneAppend
    <3> QED
      BY <1>1, <2>1, <2>2, <3>1, AppendRestored
  <2>3. CASE /\ lost' = [lost EXCEPT ![id] = IF eff[c].ok THEN @ + 1 ELSE @]
             /\ UNCHANGED <<log, before, restores>>
    <3> SUFFICES ASSUME NEW k \in DOMAIN log PROVE RestoredOf(k)'
      BY <2>3 DEF Restored, RestoredOf
    <3>1. Undone(k)' <=> Undone(k)
      BY <2>3 DEF Undone
    <3>2. CASE InFlight(k)
      <4>1. k = id /\ lost'[k] = lost[k] + 1
        BY <1>2, <1>3, <2>3, <3>2
      <4> QED
        BY <1>3, <2>3, <4>1 DEF Restored, RestoredOf
    <3>3. CASE ~InFlight(k)
      <4>1. lost'[k] = lost[k] \/ lost'[k] = lost[k] + 1
        BY <1>3, <2>3
      <4> QED
        BY <1>3, <2>3, <3>1, <3>3, <4>1 DEF Restored, RestoredOf
    <3> QED
      BY <3>2, <3>3
  <2> QED
    BY <1>8, <2>2, <2>3, RecordUndoShape
<1> QED
  BY <1>4, <1>5, <1>6, <1>7, <1>8, StepShapes

\* Every step preserves the counts.
LEMMA RestoredNext == OneProcessOnly /\ Agree /\ Restored /\ [Next]_vars => Restored'
<1> SUFFICES ASSUME OneProcessOnly, Agree, Restored, [Next]_vars PROVE Restored'
  OBVIOUS
<1>1. pc \in [Caller -> Control] /\ eff \in [Caller -> Effect] /\ job \in [Caller -> Job]
  BY DEF Agree, TypeInv, TypeOK
<1>2. ASSUME UNCHANGED <<log, restores, lost>>,
             \A k : InFlight(k) => InFlight(k)'
      PROVE  Restored'
  <2>1. \A k : Undone(k)' <=> Undone(k)
    BY <1>2 DEF Undone
  <2> QED
    BY <1>2, <2>1 DEF Restored
<1>3. ASSUME NEW c \in Caller, NEW j \in Requests, Request(c, j) PROVE Restored'
  <2>1. UNCHANGED <<log, restores, lost>> /\ \A k : InFlight(k) => InFlight(k)'
    BY <1>1, <1>3 DEF Request, Goto, InFlight, history
  <2> QED
    BY <1>2, <2>1
<1>4. ASSUME NEW c \in Caller, Acquire(c) PROVE Restored'
  <2>1. UNCHANGED <<log, restores, lost>> /\ \A k : InFlight(k) => InFlight(k)'
    BY <1>1, <1>4 DEF Acquire, Goto, InFlight, history
  <2> QED
    BY <1>2, <2>1
<1>5. ASSUME NEW c \in Caller, Step(c) PROVE Restored'
  BY <1>5, StepRestored
<1>6. ASSUME NEW p \in Process, Crash(p) PROVE Restored'
  <2> SUFFICES ASSUME NEW k \in DOMAIN log PROVE RestoredOf(k)'
    BY <1>6 DEF Restored, RestoredOf, Crash
  <2>0. DOMAIN lost = DOMAIN log /\ lost[k] \in Nat /\ restores[k] \in Nat
    BY DEF Agree, TypeInv, TypeOK
  <2>1. \A c \in Caller : Home[c] = p
    BY <1>6, Parameters DEF Crash, OneProcessOnly
  <2>2. /\ UNCHANGED <<log, restores>> /\ (Undone(k)' <=> Undone(k))
        /\ lost'[k] = IF InFlight(k) THEN lost[k] + 1 ELSE lost[k]
    BY <1>6, <2>0, <2>1 DEF Crash, InFlight, Undone
  <2> QED
    BY <2>0, <2>2 DEF Restored, RestoredOf
<1>7. ASSUME NEW x \in Target, NEW v \in Setting, Drift(x, v) PROVE Restored'
  BY <1>2, <1>7 DEF Drift, InFlight
<1>8. CASE UNCHANGED vars
  BY <1>2, <1>8 DEF vars, InFlight
<1>9. CASE Next
  BY <1>3, <1>4, <1>5, <1>6, <1>7, <1>8, <1>9 DEF Next, Finished
<1> QED
  BY <1>8, <1>9

\* Within one process an entry is restored a second time only when the record of an
\* earlier restore was lost.
THEOREM RestoredOnce ==
  ASSUME OneProcessOnly
  PROVE  Spec => []UndoOnce
<1>1. Init => Agree /\ Restored
  BY AgreeInit DEF Init, Restored
<1>2. Agree /\ Restored /\ [Next]_vars => (Agree /\ Restored)'
  BY AgreeNext, RestoredNext
<1>3. Restored => UndoOnce
  BY DEF Restored, UndoOnce
<1> QED
  BY <1>1, <1>2, <1>3, PTL DEF Spec

-----------------------------------------------------------------------------
(* The history explains the settings.                                      *)

\* The greatest of some of the entries.
LEMMA GreatestEntry ==
  ASSUME TypeOK, NEW S \in SUBSET DOMAIN log, S # {}
  PROVE  MaxOf(S) \in S /\ MaxOf(S) \in DOMAIN log /\ \A n \in S : n <= MaxOf(S)
<1>1. DOMAIN log \subseteq Nat /\ IsFiniteSet(DOMAIN log)
  <2>1. DOMAIN log = 1..Len(log) /\ Len(log) \in Int
    BY DEF TypeOK
  <2> QED
    BY <2>1, FS_Interval
<1>2. S \in SUBSET Nat /\ IsFiniteSet(S)
  BY <1>1, FS_Subset
<1> QED
  BY <1>2, MaxOfIn

\* An append explains the targets it names, and leaves the explanation of the others.
LEMMA AppendExplains ==
  ASSUME TypeOK, Entries, NEW e \in Entry, NEW was \in [Target -> Setting],
         AppendEntry(e, was), e.undoOf < Len(log) + 1, NEW x \in Target
  PROVE  Explained(x)' = IF e.success /\ x \in e.on
                         THEN IF e.undoOf = 0 THEN e.new ELSE log[e.undoOf].prev
                         ELSE Explained(x)
<1>0. PICK new \in Nat : new = Len(log) + 1
  BY DEF TypeOK
<1>1. /\ DOMAIN log' = DOMAIN log \cup {new} /\ \A k \in DOMAIN log : log'[k] = log[k]
      /\ log'[new] = e
  BY <1>0, AppendEntryTyped
<1>2. /\ DOMAIN log = 1..Len(log) /\ Len(log) \in Nat
      /\ \A k \in DOMAIN log : log[k].undoOf \in Nat
      /\ e.undoOf \in Nat
  <2>1. \A k \in DOMAIN log : log[k] \in Entry
    BY DEF TypeOK
  <2>2. \A f \in Entry : f.undoOf \in Nat
    BY DEF Entry
  <2> QED
    BY <2>1, <2>2 DEF TypeOK
<1>3. \A k \in DOMAIN log : k <= new /\ k # new /\ k \in Nat
  BY <1>0, <1>2
<1>4. \A k \in DOMAIN log : ValueAfter(k)' = ValueAfter(k)
  <2>1. \A k \in DOMAIN log : log[k].undoOf # 0 => log[k].undoOf \in DOMAIN log
    BY <1>2 DEF Entries
  <2> QED
    BY <1>1, <2>1 DEF ValueAfter
<1>5. e.undoOf # 0 => e.undoOf \in DOMAIN log
  BY <1>2
<1>6. Successes(x) \subseteq DOMAIN log
  BY DEF Successes
<1>7. CASE e.success /\ x \in e.on
  <2>1. Successes(x)' = Successes(x) \cup {new}
    BY <1>1, <1>3, <1>7 DEF Successes
  <2>2. /\ Successes(x)' \in SUBSET Nat /\ new \in Successes(x)'
        /\ \A n \in Successes(x)' : n <= new
    BY <1>2, <1>3, <1>6, <2>1
  <2>3. MaxOf(Successes(x)') = new
    BY <2>2, MaxOfIs
  <2>4. ValueAfter(new)' = IF e.undoOf = 0 THEN e.new ELSE log[e.undoOf].prev
    <3>1. e.undoOf # 0 => log'[e.undoOf] = log[e.undoOf]
      BY <1>1, <1>5
    <3> QED
      BY <1>1, <3>1 DEF ValueAfter
  <2>5. Successes(x)' # {} /\ MaxOf(Successes(x))' = new
    BY <2>2, <2>3 DEF MaxOf
  <2>6. Explained(x)' = ValueAfter(new)'
    BY <2>5 DEF Explained, ValueAfter
  <2> QED
    BY <1>7, <2>4, <2>6
<1>8. CASE ~(e.success /\ x \in e.on)
  <2>1. Successes(x)' = Successes(x)
    BY <1>1, <1>3, <1>8 DEF Successes
  <2>2. Successes(x) # {} => MaxOf(Successes(x)) \in DOMAIN log
    BY <1>6, GreatestEntry
  <2>3. Successes(x) # {} =>
          ValueAfter(MaxOf(Successes(x)))' = ValueAfter(MaxOf(Successes(x)))
    <3>1. ASSUME Successes(x) # {}
          PROVE  MaxOf(Successes(x))' = MaxOf(Successes(x))
      BY <2>1 DEF MaxOf
    <3> QED
      BY <1>4, <2>2, <3>1 DEF ValueAfter
  <2> QED
    BY <1>8, <2>1, <2>3 DEF Explained
<1> QED
  BY <1>7, <1>8

\* With the log as it is, so is the explanation.
LEMMA SameExplained ==
  ASSUME log' = log, NEW x \in Target
  PROVE  Explained(x)' = Explained(x)
  BY DEF Explained, Successes, ValueAfter

\* While c works, a target is settled when c is done with it.
LEMMA SettledByOne ==
  ASSUME OneProcessOnly, Agree, NEW c \in Caller, Step(c), NEW x
  PROVE  /\ Settled(x) <=> x \notin eff[c].touched
         /\ Settled(x)' <=> x \notin eff'[c].touched
<1>1. ASSUME NEW d \in Caller, d # c PROVE eff[d].touched = {} /\ eff'[d].touched = {}
  BY <1>1, OthersRest DEF Agree, Pending
<1> QED
  BY <1>1 DEF Settled

\* The call that takes a step leaves the settings explained.
LEMMA StepExplains ==
  ASSUME OneProcessOnly, Agree, Explains, NEW c \in Caller, Step(c)
  PROVE  Explains'
<1> USE DEF Agree
<1>1. TypeOK /\ PendingOf(c) /\ TypeOK'
  BY PendingByCaller, StepType DEF TypeInv
<1>2. \A x : (Settled(x) <=> x \notin eff[c].touched) /\ (Settled(x)' <=> x \notin eff'[c].touched)
  BY SettledByOne
<1>3. NoEffect.touched = {}
  BY DEF NoEffect
<1> SUFFICES ASSUME NEW x \in Target, x \notin unlogged', Settled(x)'
             PROVE  setting'[x] = Explained(x)'
  BY DEF Explains
<1>4. CASE Quiet(c)
  <2>1. log' = log /\ setting' = setting /\ unlogged' = unlogged
        /\ eff[c].touched = {}
    BY <1>1, <1>4 DEF Quiet, PendingOf
  <2> QED
    BY <1>2, <2>1, SameExplained DEF Explains
<1>5. CASE Wrote(c) \/ WroteBack(c)
  <2>1. /\ log' = log /\ unlogged' = unlogged /\ eff[c].touched = {}
        /\ setting' = [y \in Target |-> IF y \in eff'[c].touched
                                        THEN eff'[c].new ELSE setting[y]]
    BY <1>1, <1>5 DEF Wrote, WroteBack, PendingOf
  <2> QED
    BY <1>2, <2>1, SameExplained DEF Explains
<1>6. CASE Record(c)
  <2>1. /\ pc[c] = "record" /\ setting' = setting
        /\ EffectEntry(c) \in Entry /\ eff[c].was \in [Target -> Setting]
        /\ EffectEntry(c).undoOf = 0 /\ EffectEntry(c).on = eff[c].on
        /\ EffectEntry(c).new = eff[c].new /\ EffectEntry(c).success = eff[c].ok
    BY <1>6, RecordShape
  <2>2. PICK logged \in BOOLEAN :
          /\ logged => AppendEntry(EffectEntry(c), eff[c].was)
          /\ ~logged => UNCHANGED <<log, before, restores, lost>>
          /\ unlogged' = IF logged /\ eff[c].ok THEN unlogged \ eff[c].on
                         ELSE unlogged \cup eff[c].touched
    BY <1>6, RecordShape
  <2>3. /\ \A y \in eff[c].touched : setting[y] = eff[c].new
        /\ eff[c].ok => eff[c].touched = eff[c].on
    BY <1>1, <2>1 DEF PendingOf
  <2>4. CASE logged
    <3>1. Explained(x)' = IF eff[c].ok /\ x \in eff[c].on THEN eff[c].new ELSE Explained(x)
      <4>1. 0 < Len(log) + 1
        BY <1>1 DEF TypeOK
      <4> QED
        BY <1>1, <2>1, <2>2, <2>4, <4>1, AppendExplains
    <3> QED
      BY <1>2, <2>1, <2>2, <2>3, <2>4, <3>1 DEF Explains
  <2>5. CASE ~logged
    BY <1>2, <2>1, <2>2, <2>5, SameExplained DEF Explains
  <2> QED
    BY <2>4, <2>5
<1>7. CASE Summary(c)
  <2>1. /\ pc[c] = "summary" /\ setting' = setting /\ unlogged' = unlogged
        /\ Factory \in [Target -> Setting]
    BY <1>7, SummaryShape
  <2>2. PICK ok \in BOOLEAN : /\ PassEntry(ok) \in Entry
                              /\ \/ AppendEntry(PassEntry(ok), Factory)
                                 \/ UNCHANGED <<log, before, restores, lost>>
    BY <1>7, SummaryShape
  <2>3. eff[c].touched = {}
    BY <1>1, <2>1 DEF PendingOf
  <2>4. Explained(x)' = Explained(x)
    <3>1. PassEntry(ok).on = {} /\ PassEntry(ok).undoOf = 0 /\ 0 < Len(log) + 1
      BY <1>1 DEF PassEntry, TypeOK
    <3>2. CASE AppendEntry(PassEntry(ok), Factory)
      BY <1>1, <2>1, <2>2, <3>1, <3>2, AppendExplains
    <3> QED
      BY <2>2, <3>2, SameExplained
  <2> QED
    BY <1>2, <2>1, <2>3, <2>4 DEF Explains
<1>8. CASE RecordUndo(c)
  <2> DEFINE id == job[c].id
  <2>1. /\ pc[c] = "recordUndo" /\ setting' = setting /\ id \in DOMAIN log
        /\ UndoEntryOf(c) \in Entry /\ eff[c].was \in [Target -> Setting]
    BY <1>8, RecordUndoShape
  <2>2. PICK logged \in BOOLEAN :
          /\ logged => AppendEntry(UndoEntryOf(c), eff[c].was)
          /\ ~logged => log' = log
          /\ unlogged' = IF logged /\ eff[c].ok THEN unlogged \ eff[c].on
                         ELSE unlogged \cup eff[c].touched
    BY <1>8, RecordUndoShape
  <2>3. /\ \A y \in eff[c].touched : setting[y] = log[id].prev
        /\ eff[c].ok => eff[c].touched = eff[c].on
    BY <1>1, <2>1 DEF PendingOf
  <2>4. CASE logged
    <3>1. Explained(x)' = IF eff[c].ok /\ x \in eff[c].on THEN log[id].prev ELSE Explained(x)
      <4>1. id < Len(log) + 1 /\ id # 0
        BY <1>1, <2>1, SMTT(30) DEF TypeOK
      <4>2. UndoEntryOf(c).undoOf = id /\ UndoEntryOf(c).on = eff[c].on
            /\ UndoEntryOf(c).success = eff[c].ok
        BY DEF UndoEntryOf
      <4> HIDE DEF id
      <4> QED
        BY <1>1, <2>1, <2>2, <2>4, <4>1, <4>2, AppendExplains
    <3> QED
      BY <1>2, <2>1, <2>2, <2>3, <2>4, <3>1 DEF Explains
  <2>5. CASE ~logged
    BY <1>2, <2>1, <2>2, <2>5, SameExplained DEF Explains
  <2> QED
    BY <2>4, <2>5
<1> QED
  BY <1>4, <1>5, <1>6, <1>7, <1>8, StepShapes

\* Every step leaves the settings explained.
LEMMA ExplainsNext == OneProcessOnly /\ Agree /\ Explains /\ [Next]_vars => Explains'
<1> SUFFICES ASSUME OneProcessOnly, Agree, Explains, [Next]_vars PROVE Explains'
  OBVIOUS
<1>1. pc \in [Caller -> Control] /\ eff \in [Caller -> Effect] /\ setting \in [Target -> Setting]
  BY DEF Agree, TypeInv, TypeOK
<1>2. ASSUME UNCHANGED <<setting, log, unlogged>>, \A x : Settled(x)' => Settled(x)
      PROVE  Explains'
  BY <1>2, SameExplained DEF Explains
<1>3. ASSUME NEW c \in Caller, NEW j \in Requests, Request(c, j) PROVE Explains'
  <2>1. UNCHANGED <<setting, log, unlogged, eff>>
    BY <1>3 DEF Request, history
  <2> QED
    BY <1>2, <2>1 DEF Settled
<1>4. ASSUME NEW c \in Caller, Acquire(c) PROVE Explains'
  <2>1. UNCHANGED <<setting, log, unlogged, eff>>
    BY <1>4 DEF Acquire, history
  <2> QED
    BY <1>2, <2>1 DEF Settled
<1>5. ASSUME NEW c \in Caller, Step(c) PROVE Explains'
  BY <1>5, StepExplains
<1>6. ASSUME NEW p \in Process, Crash(p) PROVE Explains'
  <2>1. /\ UNCHANGED <<setting, log>>
        /\ unlogged' = unlogged \cup UNION {eff[c].touched : c \in {d \in Caller : Home[d] = p}}
        /\ \A c \in Caller : Home[c] # p => eff'[c] = eff[c]
    BY <1>6 DEF Crash
  <2> SUFFICES ASSUME NEW x \in Target, x \notin unlogged', Settled(x)'
               PROVE  setting'[x] = Explained(x)'
    BY DEF Explains
  <2>2. x \notin unlogged /\ \A c \in Caller : Home[c] = p => x \notin eff[c].touched
    BY <2>1
  <2>3. Settled(x)
    BY <2>1, <2>2 DEF Settled
  <2> QED
    BY <2>1, <2>2, <2>3, SameExplained DEF Explains
<1>7. ASSUME NEW y \in Target, NEW v \in Setting, Drift(y, v) PROVE Explains'
  <2>1. /\ UNCHANGED <<log, eff>> /\ unlogged' = unlogged \cup {y}
        /\ setting' = [setting EXCEPT ![y] = v]
    BY <1>7 DEF Drift
  <2> SUFFICES ASSUME NEW x \in Target, x \notin unlogged', Settled(x)'
               PROVE  setting'[x] = Explained(x)'
    BY DEF Explains
  <2>2. x # y /\ x \notin unlogged /\ Settled(x) /\ setting'[x] = setting[x]
    BY <1>1, <2>1 DEF Settled
  <2> QED
    BY <2>1, <2>2, SameExplained DEF Explains
<1>8. CASE UNCHANGED vars
  <2>1. UNCHANGED <<setting, log, unlogged, eff>>
    BY <1>8 DEF vars
  <2> QED
    BY <1>2, <2>1 DEF Settled
<1>9. CASE Next
  BY <1>3, <1>4, <1>5, <1>6, <1>7, <1>8, <1>9 DEF Next, Finished
<1> QED
  BY <1>8, <1>9

\* Within one process, between calls, every setting that no unrecorded write and no other
\* program touched last holds what its last successful entry left there.
THEOREM SettingsExplained ==
  ASSUME OneProcessOnly
  PROVE  Spec => []HistoryExplainsSettings
<1>1. Init => Agree /\ Explains
  <2> SUFFICES ASSUME Init PROVE Explains
    BY AgreeInit
  <2>1. \A x \in Target : Successes(x) = {}
    BY DEF Init, Successes
  <2> QED
    BY <2>1 DEF Init, Explains, Explained
<1>2. Agree /\ Explains /\ [Next]_vars => (Agree /\ Explains)'
  BY AgreeNext, ExplainsNext
<1>3. Agree /\ Explains => HistoryExplainsSettings
  <2> SUFFICES ASSUME Agree, Explains, \A c \in Caller : ~Busy(c), NEW x \in Target \ unlogged
               PROVE  setting[x] = Explained(x)
    BY DEF HistoryExplainsSettings, Explained, Successes
  <2>1. Settled(x)
    BY DEF Agree, Pending, Busy, Settled
  <2> QED
    BY <2>1 DEF Explains
<1> QED
  BY <1>1, <1>2, <1>3, PTL DEF Spec

-----------------------------------------------------------------------------
(* The undoable entries of a target form a chain.                          *)

\* An append adds its own entry to the live ones of its target, or takes away the one it
\* undoes.
LEMMA LiveAppend ==
  ASSUME TypeOK, Entries, NEW e \in Entry, NEW was \in [Target -> Setting],
         AppendEntry(e, was), e.undoOf < Len(log) + 1, NEW x \in Target
  PROVE  /\ Live(x) \subseteq DOMAIN log /\ \A k \in DOMAIN log : log'[k] = log[k]
         /\ log'[Len(log) + 1] = e
         /\ Live(x)' = {k \in Live(x) : ~(e.success /\ e.undoOf = k)}
                       \cup {k \in {Len(log) + 1} : e.success /\ e.canUndo /\ e.on = {x}}
<1>0. PICK new \in Nat : new = Len(log) + 1
  BY DEF TypeOK
<1>1. /\ DOMAIN log' = DOMAIN log \cup {new} /\ \A k \in DOMAIN log : log'[k] = log[k]
      /\ log'[new] = e
  BY <1>0, AppendEntryTyped
<1>2. /\ DOMAIN log = 1..Len(log) /\ Len(log) \in Nat
      /\ \A k \in DOMAIN log : log[k].undoOf \in Nat
      /\ e.undoOf \in Nat
  <2>1. \A k \in DOMAIN log : log[k] \in Entry
    BY DEF TypeOK
  <2>2. \A f \in Entry : f.undoOf \in Nat
    BY DEF Entry
  <2> QED
    BY <2>1, <2>2 DEF TypeOK
<1>3. new \notin DOMAIN log
  BY <1>0, <1>2
<1>4. \A k : Undone(k)' <=> Undone(k) \/ (e.success /\ e.undoOf = k)
  BY UndoneAppend
<1>5. ~Undone(new)'
  <2>1. \A k \in DOMAIN log : log[k].undoOf # new
    BY <1>0, <1>2 DEF Entries
  <2>2. ~Undone(new)
    BY <2>1 DEF Undone
  <2>3. e.undoOf # new
    BY <1>0, <1>2
  <2> QED
    BY <1>4, <2>2, <2>3
<1>6. Live(x) \subseteq DOMAIN log
  BY DEF Live
<1>7. Live(x)' = {k \in Live(x) : ~(e.success /\ e.undoOf = k)}
                 \cup {k \in {new} : e.success /\ e.canUndo /\ e.on = {x}}
  BY <1>1, <1>3, <1>4, <1>5 DEF Live
<1> QED
  BY <1>0, <1>1, <1>6, <1>7

\* What the chain reaches with the entries in S.
TopOf(S, x) == IF S = {} THEN Factory[x] ELSE log[MaxOf(S)].new

\* Top and Linked, by TopOf.
LEMMA ByTopOf ==
  ASSUME NEW x \in Target
  PROVE  /\ Top(x) = TopOf(Live(x), x)
         /\ Linked(x) <=> \A k \in Live(x) : log[k].prev = TopOf({n \in Live(x) : n < k}, x)
  BY DEF Top, Linked, TopOf

\* ByTopOf, after a step.
LEMMA ByTopOfNext ==
  ASSUME NEW x \in Target
  PROVE  /\ Top(x)' = TopOf(Live(x), x)'
         /\ Linked(x)' <=>
              \A k \in Live(x)' : log'[k].prev = TopOf({n \in Live(x) : n < k}, x)'
  BY DEF Top, Linked, TopOf

\* An entry that stays as it is leaves what is reached with it as it is.
LEMMA SameTopOf ==
  ASSUME TypeOK, NEW x \in Target, NEW S \in SUBSET DOMAIN log,
         \A k \in DOMAIN log : log'[k] = log[k]
  PROVE  TopOf(S, x)' = TopOf(S, x)
<1>1. S # {} => MaxOf(S) \in DOMAIN log
  BY GreatestEntry
<1> QED
  BY <1>1 DEF TopOf

\* The chain of a target depends on its live entries only.
LEMMA SameChain ==
  ASSUME TypeOK, NEW x \in Target, Live(x)' = Live(x), \A k \in DOMAIN log : log'[k] = log[k]
  PROVE  (Linked(x) => Linked(x)') /\ Top(x)' = Top(x)
<1>1. PICK live : live = Live(x)
  OBVIOUS
<1>2. live \in SUBSET DOMAIN log
  BY <1>1 DEF Live
<1>3. Top(x)' = Top(x)
  <2>1. Top(x)' = TopOf(live, x)'
    BY <1>1, ByTopOfNext, SMTT(30) DEF TopOf, MaxOf
  <2> QED
    BY <1>1, <1>2, <2>1, SameTopOf, ByTopOf
<1>4. ASSUME Linked(x) PROVE Linked(x)'
  <2>1. ASSUME NEW k \in live
        PROVE  log'[k].prev = TopOf({n \in live : n < k}, x)'
    <3>1. log[k].prev = TopOf({n \in live : n < k}, x)
      BY <1>1, <1>4, ByTopOf
    <3>2. {n \in live : n < k} \in SUBSET DOMAIN log
      BY <1>2
    <3> QED
      BY <1>2, <3>1, <3>2, SameTopOf
  <2>2. \A k \in live : TopOf({n \in live : n < k}, x)' = TopOf({n \in Live(x) : n < k}, x)'
    BY <1>1 DEF TopOf, MaxOf
  <2> QED
    BY <1>1, <2>1, <2>2, ByTopOfNext
<1> QED
  BY <1>3, <1>4

\* The newest live entry of a target is added to the end of its chain.
LEMMA LongerChain ==
  ASSUME TypeOK, NEW x \in Target, Linked(x), NEW new \in Nat,
         \A k \in DOMAIN log : log'[k] = log[k] /\ k < new,
         Live(x)' = Live(x) \cup {new}, log'[new].prev = Top(x)
  PROVE  Linked(x)' /\ Top(x)' = log'[new].new
<1>1. PICK live : live = Live(x)
  OBVIOUS
<1>2. live \in SUBSET DOMAIN log /\ new \notin live /\ DOMAIN log \subseteq Nat
      /\ \A k \in live : k < new
  BY <1>1, SMTT(30) DEF Live, TypeOK
<1>3. ASSUME NEW k \in live
      PROVE  log'[k].prev = TopOf({n \in live : n < k}, x)'
             /\ {n \in live \cup {new} : n < k} = {n \in live : n < k}
  <2>1. log[k].prev = TopOf({n \in live : n < k}, x)
    BY <1>1, ByTopOf
  <2>2. {n \in live : n < k} \in SUBSET DOMAIN log
    BY <1>2
  <2> QED
    BY <1>2, <2>1, <2>2, SameTopOf
<1>4. log'[new].prev = TopOf(live, x)' /\ {n \in live \cup {new} : n < new} = live
  <2>1. TopOf(live, x)' = Top(x)
    BY <1>1, <1>2, SameTopOf, ByTopOf
  <2>2. {n \in live \cup {new} : n < new} = live
    BY <1>2
  <2> QED
    BY <2>1, <2>2
<1>5. \A k \in live \cup {new} :
         TopOf({n \in Live(x) : n < k}, x)' = TopOf({n \in live \cup {new} : n < k}, x)'
  BY <1>1 DEF TopOf, MaxOf
<1>6. Linked(x)'
  <2>1. \A k \in live \cup {new} : log'[k].prev = TopOf({n \in live \cup {new} : n < k}, x)'
    BY <1>3, <1>4
  <2> QED
    BY <1>1, <1>5, <2>1, ByTopOfNext
<1>7. Top(x)' = log'[new].new
  <2>1. MaxOf(live \cup {new}) = new
    <3>1. live \cup {new} \in SUBSET Nat /\ \A n \in live \cup {new} : n <= new
      BY <1>2
    <3> QED
      BY <3>1, MaxOfIs
  <2>2. Top(x)' = TopOf(live \cup {new}, x)'
    BY <1>1, ByTopOfNext DEF TopOf, MaxOf
  <2> QED
    BY <2>1, <2>2 DEF TopOf
<1> QED
  BY <1>6, <1>7

\* Undoing the newest entry of a chain leads back to where it started.
LEMMA ShorterChain ==
  ASSUME TypeOK, NEW x \in Target, Linked(x), NEW id \in Live(x),
         \A n \in Live(x) : n <= id,
         \A k \in DOMAIN log : log'[k] = log[k],
         Live(x)' = {k \in Live(x) : k # id}
  PROVE  Linked(x)' /\ Top(x)' = log[id].prev
<1>1. PICK live : live = {k \in Live(x) : k # id}
  OBVIOUS
<1>2. live \in SUBSET DOMAIN log /\ DOMAIN log \subseteq Nat /\ Live(x) \subseteq DOMAIN log
  BY <1>1 DEF Live, TypeOK
<1>3. ASSUME NEW k \in live
      PROVE  log'[k].prev = TopOf({n \in live : n < k}, x)'
  <2>1. log[k].prev = TopOf({n \in Live(x) : n < k}, x)
    BY <1>1, ByTopOf
  <2>2. {n \in Live(x) : n < k} = {n \in live : n < k}
    BY <1>1, <1>2
  <2>3. {n \in live : n < k} \in SUBSET DOMAIN log
    BY <1>2
  <2> QED
    BY <1>2, <2>1, <2>2, <2>3, SameTopOf
<1>4. \A k \in live : TopOf({n \in Live(x) : n < k}, x)' = TopOf({n \in live : n < k}, x)'
  BY <1>1 DEF TopOf, MaxOf
<1>5. Linked(x)'
  BY <1>1, <1>3, <1>4, ByTopOfNext
<1>6. Top(x)' = log[id].prev
  <2>1. {n \in Live(x) : n < id} = live
    BY <1>1, <1>2
  <2>2. log[id].prev = TopOf(live, x)
    BY <2>1, ByTopOf
  <2>3. Top(x)' = TopOf(live, x)'
    BY <1>1, ByTopOfNext, SMTT(30) DEF TopOf, MaxOf
  <2> QED
    BY <1>2, <2>2, <2>3, SameTopOf
<1> QED
  BY <1>5, <1>6

\* What holds of one target of the chains.
ChainOf(x) ==
    /\ Linked(x)
    /\ Settled(x) => setting[x] = Top(x)
    /\ \A c \in Caller : pc[c] = "record" /\ eff[c].canUndo /\ x \in eff[c].touched =>
          eff[c].prev = Top(x)

\* The call that takes a step keeps the chains.
LEMMA StepChains ==
  ASSUME OneProcessOnly, Agree, Fresh, Chained, NEW c \in Caller, Step(c)
  PROVE  Chained'
<1> USE DEF Agree
<1>1. TypeOK /\ PendingOf(c) /\ PendingOf(c)' /\ Entries
  BY PendingByCaller, StepPending DEF TypeInv
<1>2. \A x : (Settled(x) <=> x \notin eff[c].touched) /\ (Settled(x)' <=> x \notin eff'[c].touched)
  BY SettledByOne
<1>3. \A d \in Caller : d # c => pc'[d] # "record"
  BY OthersRest
<1>4. orderly \subseteq Target /\ orderly' \subseteq orderly
  <2>1. orderly \subseteq Target
    BY <1>1 DEF TypeOK
  <2>2. orderly' \subseteq orderly
    <3>1. Record(c) => orderly' \subseteq orderly
      BY DEF Record
    <3>2. Summary(c) => orderly' = orderly
      BY DEF Summary
    <3>3. RecordUndo(c) => orderly' \subseteq orderly
      BY DEF RecordUndo
    <3> QED
      BY <3>1, <3>2, <3>3, StepShapes DEF Quiet, Wrote, WroteBack
  <2> QED
    BY <2>1, <2>2
<1> SUFFICES ASSUME NEW x \in Target, x \in orderly, x \in orderly' PROVE ChainOf(x)'
  BY <1>4 DEF Chained, ChainOf
<1>5. ChainOf(x)
  BY DEF Chained, ChainOf
<1>6. log' = log => Live(x)' = Live(x)
  BY DEF Live, Undone
<1>7. log' = log => (Linked(x)' /\ Top(x)' = Top(x))
  BY <1>1, <1>5, <1>6, SameChain DEF ChainOf
<1>8. CASE Quiet(c)
  <2>1. /\ log' = log /\ setting' = setting /\ pc'[c] # "record"
        /\ eff[c].touched = {}
    BY <1>1, <1>8 DEF Quiet, PendingOf
  <2> QED
    BY <1>2, <1>3, <1>5, <1>7, <2>1 DEF ChainOf
<1>9. CASE Wrote(c) \/ WroteBack(c)
  <2>1. /\ log' = log /\ eff[c].touched = {}
        /\ setting' = [y \in Target |-> IF y \in eff'[c].touched
                                        THEN eff'[c].new ELSE setting[y]]
    BY <1>1, <1>9 DEF Wrote, WroteBack, PendingOf
  <2>2. setting[x] = Top(x)
    BY <1>2, <1>5, <2>1 DEF ChainOf
  <2>3. pc'[c] = "record" /\ eff'[c].canUndo /\ x \in eff'[c].touched => eff'[c].prev = Top(x)
    BY <1>9, <2>2 DEF Wrote, WroteBack, Fresh
  <2> QED
    BY <1>2, <1>3, <1>7, <2>1, <2>2, <2>3 DEF ChainOf
<1>10. ASSUME NEW e \in Entry, NEW was \in [Target -> Setting], AppendEntry(e, was),
              e.undoOf < Len(log) + 1, ~(e.success /\ e.canUndo /\ e.on = {x}),
              e.success => e.undoOf \notin Live(x)
       PROVE  Linked(x)' /\ Top(x)' = Top(x)
  <2>0. /\ \A k \in DOMAIN log : log'[k] = log[k]
        /\ Live(x)' = {k \in Live(x) : ~(e.success /\ e.undoOf = k)}
                      \cup {k \in {Len(log) + 1} : e.success /\ e.canUndo /\ e.on = {x}}
    BY <1>1, <1>10, LiveAppend
  <2>1. Live(x)' = Live(x) /\ \A k \in DOMAIN log : log'[k] = log[k]
    BY <1>10, <2>0
  <2> QED
    BY <1>1, <1>5, <2>1, SameChain DEF ChainOf
<1>11. CASE Record(c)
  <2>1. /\ pc[c] = "record" /\ pc'[c] # "record" /\ setting' = setting
        /\ EffectEntry(c) \in Entry /\ eff[c].was \in [Target -> Setting]
        /\ EffectEntry(c).undoOf = 0 /\ EffectEntry(c).on = eff[c].on
        /\ EffectEntry(c).new = eff[c].new /\ EffectEntry(c).prev = eff[c].prev
        /\ EffectEntry(c).success = eff[c].ok /\ EffectEntry(c).canUndo = eff[c].canUndo
    BY <1>11, RecordShape
  <2>2. PICK logged \in BOOLEAN :
          /\ logged => AppendEntry(EffectEntry(c), eff[c].was)
          /\ ~logged => UNCHANGED <<log, before, restores, lost>>
          /\ orderly' = IF logged /\ eff[c].canUndo THEN orderly
                        ELSE orderly \ eff[c].touched
    BY <1>11, RecordShape
  <2>3. Len(log) \in Nat /\ DOMAIN log = 1..Len(log) /\ Live(x) \subseteq DOMAIN log
    BY <1>1 DEF TypeOK, Live
  <2>4. 0 \notin Live(x) /\ 0 < Len(log) + 1
    BY <2>3
  <2>5. eff[c].canUndo => /\ eff[c].ok /\ eff[c].touched = eff[c].on
                          /\ \E y \in Target : eff[c].on = {y}
    BY <1>1, <2>1 DEF PendingOf
  <2>6. x \in eff[c].touched => setting[x] = eff[c].new
    BY <1>1, <2>1 DEF PendingOf
  <2>7. CASE logged /\ eff[c].canUndo /\ x \in eff[c].touched
    <3>1. PICK new \in Nat : new = Len(log) + 1
      BY <2>3
    <3>2. eff[c].on = {x} /\ eff[c].prev = Top(x)
      BY <1>5, <2>1, <2>5, <2>7 DEF ChainOf
    <3>3. PICK e \in Entry : e = EffectEntry(c)
      BY <2>1
    <3>4. /\ e.undoOf = 0 /\ e.success /\ e.canUndo /\ e.on = {x}
          /\ AppendEntry(e, eff[c].was)
      BY <2>1, <2>2, <2>5, <2>7, <3>2, <3>3
    <3>5. /\ \A k \in DOMAIN log : log'[k] = log[k]
          /\ log'[new] = e
          /\ Live(x)' = {k \in Live(x) : ~(e.success /\ e.undoOf = k)}
                        \cup {k \in {new} : e.success /\ e.canUndo /\ e.on = {x}}
      BY <1>1, <2>1, <2>4, <3>1, <3>4, LiveAppend
    <3>6. /\ Live(x)' = Live(x) \cup {new}
          /\ \A k \in DOMAIN log : log'[k] = log[k] /\ k < new
          /\ log'[new] = EffectEntry(c)
      BY <2>3, <2>4, <3>1, <3>3, <3>4, <3>5
    <3>7. Linked(x)' /\ Top(x)' = eff[c].new
      BY <1>1, <1>5, <2>1, <3>2, <3>6, LongerChain DEF ChainOf
    <3> QED
      BY <1>3, <2>1, <2>6, <2>7, <3>7 DEF ChainOf
  <2>8. CASE x \notin eff[c].touched
    <3>1. setting[x] = Top(x)
      BY <1>2, <1>5, <2>8 DEF ChainOf
    <3>2. CASE logged
      <4>1. ~(eff[c].ok /\ eff[c].canUndo /\ eff[c].on = {x})
        BY <2>5, <2>8
      <4>2. Linked(x)' /\ Top(x)' = Top(x)
        BY <1>10, <2>1, <2>2, <2>4, <3>2, <4>1
      <4> QED
        BY <1>3, <2>1, <3>1, <4>2 DEF ChainOf
    <3>3. CASE ~logged
      BY <1>3, <1>7, <2>1, <2>2, <3>1, <3>3 DEF ChainOf
    <3> QED
      BY <3>2, <3>3
  <2> QED
    BY <2>2, <2>7, <2>8
<1>12. CASE Summary(c)
  <2>1. /\ pc[c] = "summary" /\ pc'[c] = "idle" /\ setting' = setting
        /\ Factory \in [Target -> Setting]
    BY <1>12, SummaryShape
  <2>2. PICK ok \in BOOLEAN : /\ PassEntry(ok) \in Entry
                              /\ \/ AppendEntry(PassEntry(ok), Factory)
                                 \/ UNCHANGED <<log, before, restores, lost>>
    BY <1>12, SummaryShape
  <2>3. setting[x] = Top(x)
    BY <1>1, <1>2, <1>5, <2>1 DEF PendingOf, ChainOf
  <2>4. /\ ~PassEntry(ok).canUndo /\ PassEntry(ok).undoOf = 0
        /\ 0 \notin Live(x) /\ 0 < Len(log) + 1
    BY <1>1 DEF PassEntry, Live, TypeOK
  <2>5. Linked(x)' /\ Top(x)' = Top(x)
    BY <1>7, <1>10, <2>1, <2>2, <2>4
  <2> QED
    BY <1>3, <2>1, <2>3, <2>5 DEF ChainOf
<1>13. CASE RecordUndo(c)
  <2> DEFINE id == job[c].id
  <2>1. /\ pc[c] = "recordUndo" /\ pc'[c] = "idle" /\ setting' = setting
        /\ UndoEntryOf(c) \in Entry /\ eff[c].was \in [Target -> Setting]
        /\ id \in DOMAIN log /\ eff[c].on = log[id].on
    BY <1>13, RecordUndoShape
  <2>2. PICK logged \in BOOLEAN :
          /\ logged => AppendEntry(UndoEntryOf(c), eff[c].was)
          /\ ~logged => log' = log
          /\ orderly' = IF logged /\ eff[c].ok /\ NewestLive(id) THEN orderly
                        ELSE orderly \ eff[c].touched
    BY <1>13, RecordUndoShape
  <2>3. /\ log[id].success /\ log[id].canUndo /\ ~Undone(id)
        /\ eff[c].new = log[id].prev /\ (eff[c].ok => eff[c].touched = eff[c].on)
        /\ \E y \in Target : log[id].on = {y}
    BY <1>1, <2>1 DEF PendingOf, Entries
  <2>4. /\ UndoEntryOf(c).undoOf = id /\ ~UndoEntryOf(c).canUndo
        /\ UndoEntryOf(c).success = eff[c].ok /\ id < Len(log) + 1
    BY <1>1, <2>1 DEF UndoEntryOf, TypeOK
  <2> HIDE DEF id
  <2>5. CASE logged /\ eff[c].ok /\ x \in eff[c].touched
    <3>1. NewestLive(id) /\ log[id].on = {x}
      BY <2>1, <2>2, <2>3, <2>5
    <3>2. id \in Live(x) /\ \A n \in Live(x) : n <= id
      BY <2>1, <2>3, <3>1 DEF NewestLive, Live
    <3>3. /\ Live(x)' = {k \in Live(x) : k # id}
          /\ \A k \in DOMAIN log : log'[k] = log[k]
      <4>1. PICK e \in Entry : e = UndoEntryOf(c)
        BY <2>1
      <4>2. e.undoOf = id /\ e.success /\ ~e.canUndo /\ AppendEntry(e, eff[c].was)
        BY <2>2, <2>4, <2>5, <4>1
      <4>3. /\ \A k \in DOMAIN log : log'[k] = log[k]
            /\ Live(x)' = {k \in Live(x) : ~(e.success /\ e.undoOf = k)}
                          \cup {k \in {Len(log) + 1} : e.success /\ e.canUndo /\ e.on = {x}}
        BY <1>1, <2>1, <2>4, <4>2, LiveAppend
      <4> QED
        BY <4>2, <4>3
    <3>4. Linked(x)' /\ Top(x)' = log[id].prev
      BY <1>1, <1>5, <3>2, <3>3, ShorterChain DEF ChainOf
    <3>5. setting[x] = log[id].prev
      BY <1>1, <2>1, <2>3, <2>5 DEF PendingOf
    <3> QED
      BY <1>3, <2>1, <3>4, <3>5 DEF ChainOf
  <2>6. CASE x \notin eff[c].touched
    <3>1. setting[x] = Top(x)
      BY <1>2, <1>5, <2>6 DEF ChainOf
    <3>2. CASE logged
      <4>1. eff[c].ok => id \notin Live(x)
        BY <2>1, <2>3, <2>6 DEF Live
      <4>2. Linked(x)' /\ Top(x)' = Top(x)
        BY <1>10, <2>1, <2>2, <2>4, <3>2, <4>1
      <4> QED
        BY <1>3, <2>1, <3>1, <4>2 DEF ChainOf
    <3>3. CASE ~logged
      BY <1>3, <1>7, <2>1, <2>2, <3>1, <3>3 DEF ChainOf
    <3> QED
      BY <3>2, <3>3
  <2> QED
    BY <2>2, <2>5, <2>6
<1> QED
  BY <1>8, <1>9, <1>11, <1>12, <1>13, StepShapes

\* Every step keeps the chains.
LEMMA ChainedNext == OneProcessOnly /\ Agree /\ Fresh /\ Chained /\ [Next]_vars => Chained'
<1> SUFFICES ASSUME OneProcessOnly, Agree, Fresh, Chained, [Next]_vars PROVE Chained'
  OBVIOUS
<1>1. /\ TypeOK /\ orderly \subseteq Target
      /\ pc \in [Caller -> Control] /\ eff \in [Caller -> Effect] /\ setting \in [Target -> Setting]
  BY DEF Agree, TypeInv, TypeOK
<1>2. ASSUME log' = log, orderly' \subseteq orderly,
             \A c \in Caller : eff'[c] = eff[c] \/ eff'[c] = NoEffect,
             \A x \in orderly' : setting'[x] = setting[x] /\ (Settled(x)' => Settled(x)),
             \A c \in Caller : pc'[c] = "record" => pc[c] = "record" /\ eff'[c] = eff[c]
      PROVE  Chained'
  <2> SUFFICES ASSUME NEW x \in Target, x \in orderly, x \in orderly' PROVE ChainOf(x)'
    BY <1>1, <1>2 DEF Chained, ChainOf
  <2>1. Live(x)' = Live(x)
    BY <1>2 DEF Live, Undone
  <2>2. ChainOf(x)
    BY DEF Chained, ChainOf
  <2>3. Linked(x)' /\ Top(x)' = Top(x)
    BY <1>1, <1>2, <2>1, <2>2, SameChain DEF ChainOf
  <2> QED
    BY <1>2, <2>2, <2>3 DEF ChainOf
<1>3. ASSUME NEW c \in Caller, NEW j \in Requests, Request(c, j) PROVE Chained'
  <2>1. /\ UNCHANGED <<log, orderly, setting, eff>>
        /\ \A d \in Caller : pc'[d] = "record" => pc[d] = "record"
    BY <1>1, <1>3 DEF Request, Goto, history
  <2> QED
    BY <1>2, <2>1 DEF Settled
<1>4. ASSUME NEW c \in Caller, Acquire(c) PROVE Chained'
  <2>1. /\ UNCHANGED <<log, orderly, setting, eff>>
        /\ \A d \in Caller : pc'[d] = "record" => pc[d] = "record"
    BY <1>1, <1>4 DEF Acquire, Goto, history
  <2> QED
    BY <1>2, <2>1 DEF Settled
<1>5. ASSUME NEW c \in Caller, Step(c) PROVE Chained'
  BY <1>5, StepChains
<1>6. ASSUME NEW p \in Process, Crash(p) PROVE Chained'
  <2>1. /\ UNCHANGED <<log, setting>>
        /\ \A c \in Caller : Home[c] = p
        /\ \A c \in Caller : pc'[c] = "idle" /\ eff'[c] = NoEffect
        /\ orderly' = orderly \ UNION {eff[c].touched : c \in Caller}
    <3>1. \A c \in Caller : Home[c] = p
      BY <1>6, Parameters DEF Crash, OneProcessOnly
    <3>2. {c \in Caller : Home[c] = p} = Caller
      BY <3>1
    <3> QED
      BY <1>6, <3>1, <3>2 DEF Crash
  <2>2. \A x \in orderly' : Settled(x)
    BY <2>1 DEF Settled
  <2> QED
    BY <1>2, <2>1, <2>2
<1>7. ASSUME NEW x \in Target, NEW v \in Setting, Drift(x, v) PROVE Chained'
  <2>1. /\ UNCHANGED <<log, pc, eff>> /\ orderly' = orderly \ {x}
        /\ \A y \in orderly' : setting'[y] = setting[y]
    BY <1>1, <1>7 DEF Drift
  <2> QED
    BY <1>2, <2>1 DEF Settled
<1>8. CASE UNCHANGED vars
  BY <1>2, <1>8 DEF vars, Settled
<1>9. CASE Next
  BY <1>3, <1>4, <1>5, <1>6, <1>7, <1>8, <1>9 DEF Next, Finished
<1> QED
  BY <1>8, <1>9

\* Within one process, the undoable entries of a target that only recorded undoable
\* operations and newest-first undos have changed lead from the value WinForge found to the
\* one it left.
THEOREM UndoLeadsBack ==
  ASSUME OneProcessOnly
  PROVE  Spec => []UndoChain
<1>1. Init => Agree /\ FaithInv /\ Chained
  <2>1. ASSUME Init PROVE Chained
    <3>1. \A x \in Target : Live(x) = {} /\ setting[x] = Factory[x]
      BY <2>1 DEF Init, Live
    <3>2. orderly \subseteq Target /\ \A c \in Caller : pc[c] = "idle"
      BY <2>1 DEF Init
    <3> QED
      BY <3>1, <3>2 DEF Chained, Linked, Top
  <2>2. Init => FaithInv
    BY FaithInvInit
  <2> QED
    BY <2>1, <2>2, AgreeInit
<1>2. Agree /\ FaithInv /\ Chained /\ [Next]_vars => (Agree /\ FaithInv /\ Chained)'
  BY AgreeNext, FaithInvNext, ChainedNext DEF FaithInv
<1>3. Agree /\ Chained => UndoChain
  <2> SUFFICES ASSUME Agree, Chained, \A c \in Caller : ~Busy(c), NEW x \in orderly
               PROVE  /\ Live(x) = {} => setting[x] = Factory[x]
                      /\ Live(x) # {} => setting[x] = log[MaxOf(Live(x))].new
                      /\ Linked(x)
    BY DEF UndoChain, Linked
  <2>1. Settled(x)
    BY DEF Settled, Agree, Pending, Busy
  <2> QED
    BY <2>1 DEF Chained, Top
<1> QED
  BY <1>1, <1>2, <1>3, PTL DEF Spec

-----------------------------------------------------------------------------
(* A maintenance pass converges.                                           *)

\* What a pass has before it after m tweaks.
LEMMA RestOfCatalog ==
  ASSUME NEW m \in 0..Len(Catalog)
  PROVE  /\ Len(Catalog) \in Nat /\ m \in Nat
         /\ SubSeq(Catalog, m + 1, Len(Catalog)) = <<>> <=> m = Len(Catalog)
         /\ m < Len(Catalog) =>
              /\ m + 1 \in 0..Len(Catalog) /\ Catalog[m + 1] \in Tweak
              /\ Head(SubSeq(Catalog, m + 1, Len(Catalog))) = Catalog[m + 1]
              /\ Tail(SubSeq(Catalog, m + 1, Len(Catalog))) =
                   SubSeq(Catalog, (m + 1) + 1, Len(Catalog))
<1>1. Catalog \in Seq(Tweak) /\ Len(Catalog) \in Nat /\ m \in Nat /\ m <= Len(Catalog)
  BY Parameters
<1>2. CASE m = Len(Catalog)
  <2>1. SubSeq(Catalog, m + 1, Len(Catalog)) = <<>>
    BY <1>1, <1>2, SubSeqEmpty
  <2> QED
    BY <1>1, <1>2, <2>1
<1>3. CASE m < Len(Catalog)
  <2>1. m + 1 \in 1..Len(Catalog) /\ Len(Catalog) \in (m + 1)..Len(Catalog)
    BY <1>1, <1>3
  <2>2. /\ Head(SubSeq(Catalog, m + 1, Len(Catalog))) = Catalog[m + 1]
        /\ Tail(SubSeq(Catalog, m + 1, Len(Catalog))) =
             SubSeq(Catalog, (m + 1) + 1, Len(Catalog))
    BY <1>1, <2>1, HeadTailOfSubSeq
  <2>3. SubSeq(Catalog, m + 1, Len(Catalog)) # <<>>
    <3>1. \A i \in (m + 1)..Len(Catalog) : Catalog[i] \in Tweak
      BY <1>1
    <3>2. m + 1 \in Int /\ Len(Catalog) \in Int
      BY <1>1
    <3>3. Len(SubSeq(Catalog, m + 1, Len(Catalog))) =
             IF m + 1 <= Len(Catalog) THEN Len(Catalog) - (m + 1) + 1 ELSE 0
      BY <3>1, <3>2, SubSeqProperties
    <3>4. Len(SubSeq(Catalog, m + 1, Len(Catalog))) # 0
      BY <1>1, <1>3, <3>3
    <3>5. Len(<<>>) = 0
      OBVIOUS
    <3> QED
      BY <3>4, <3>5
  <2>4. Catalog[m + 1] \in Tweak
    BY <1>1, <2>1
  <2> QED
    BY <1>1, <1>3, <2>1, <2>2, <2>3, <2>4
<1> QED
  BY <1>1, <1>2, <1>3

\* A later tweak is one more that may contradict a converged one.
LEMMA ConvergedLonger ==
  ASSUME NEW m \in Nat, NEW n \in 1..m, Converged(n, m)
  PROVE  Converged(n, m + 1)
<1>1. n..m \subseteq n..(m + 1)
  OBVIOUS
<1> QED
  BY <1>1 DEF Converged

\* A tweak whose operations are all in their target state has converged.
LEMMA ConvergedNow ==
  ASSUME NEW m \in 1..Len(Catalog), NEW k \in Nat,
         CanVerify(Catalog[m]) => AppliedUpTo(Catalog[m], k) /\ k >= Len(Operations[Catalog[m]])
  PROVE  Converged(m, m)
<1>1. CASE CanVerify(Catalog[m]) /\ Conflict(Catalog[m], Catalog[m])
  <2>1. m \in m..m
    OBVIOUS
  <2> QED
    BY <1>1, <2>1 DEF Converged
<1>2. CASE CanVerify(Catalog[m]) /\ \A n \in 1..k : InTarget(Operations[Catalog[m]][n])
  <2>1. Catalog[m] \in Tweak /\ Operations[Catalog[m]] \in Seq(Op)
    BY Parameters
  <2>2. \A n \in DOMAIN Operations[Catalog[m]] : n \in 1..k
    BY <1>2, <2>1
  <2> QED
    BY <1>2, <2>2 DEF Converged, IsApplied
<1> QED
  BY <1>1, <1>2 DEF AppliedUpTo, Converged

\* A write that wants the same of the targets it shares with an operation keeps that one in
\* its target state.
LEMMA InTargetKept ==
  ASSUME setting \in [Target -> Setting], NEW op \in Op, NEW other \in Op,
         NEW part \in SUBSET op.on,
         setting' = [x \in Target |-> IF x \in part THEN Desired(op) ELSE setting[x]],
         other.on \cap op.on # {} => Desired(other) = Desired(op), InTarget(other)
  PROVE  InTarget(other)'
<1> SUFFICES ASSUME NEW x \in other.on PROVE setting'[x] = Desired(other)
  BY DEF InTarget, Desired
<1>1. x \in Target /\ setting[x] = Desired(other)
  BY DEF Op, InTarget
<1> QED
  BY <1>1

\* What a write of a tweak leaves of the pass: the tweaks it does not contradict, and those
\* of its own operations that came before.
LEMMA WriteKeeps ==
  ASSUME setting \in [Target -> Setting], NEW t \in Tweak, NEW i \in DOMAIN Operations[t],
         NEW part \in SUBSET Operations[t][i].on,
         setting' = [x \in Target |-> IF x \in part THEN Desired(Operations[t][i]) ELSE setting[x]]
  PROVE  /\ \A u \in Tweak : ~Conflict(u, t) /\ IsApplied(u) => IsApplied(u)'
         /\ AppliedUpTo(t, i - 1) /\ part = Operations[t][i].on => AppliedUpTo(t, i)'
<1>1. \A u \in Tweak : \A k \in DOMAIN Operations[u] : Operations[u][k] \in Op
  BY Parameters
<1>2. ASSUME NEW u \in Tweak, NEW k \in DOMAIN Operations[u], ~Conflict(u, t),
             InTarget(Operations[u][k])
      PROVE  InTarget(Operations[u][k])'
  <2>1. Operations[u][k].on \cap Operations[t][i].on # {} =>
           Desired(Operations[u][k]) = Desired(Operations[t][i])
    BY <1>2 DEF Conflict
  <2> QED
    BY <1>1, <1>2, <2>1, InTargetKept
<1>3. ASSUME NEW u \in Tweak, ~Conflict(u, t), IsApplied(u) PROVE IsApplied(u)'
  BY <1>2, <1>3 DEF IsApplied
<1>4. ASSUME AppliedUpTo(t, i - 1), part = Operations[t][i].on PROVE AppliedUpTo(t, i)'
  <2>1. CASE Conflict(t, t)
    BY <2>1 DEF AppliedUpTo, Conflict, Desired
  <2>2. CASE ~Conflict(t, t)
    <3>1. Operations[t] \in Seq(Op) /\ i \in Nat
      BY Parameters
    <3>2. \A n \in 1..(i - 1) : InTarget(Operations[t][n])'
      <4>1. \A n \in 1..(i - 1) : n \in DOMAIN Operations[t]
        BY <3>1
      <4> QED
        BY <1>2, <1>4, <2>2, <4>1 DEF AppliedUpTo
    <3>3. InTarget(Operations[t][i])'
      <4>1. Operations[t][i].on \subseteq Target
        BY <1>1 DEF Op
      <4> QED
        BY <1>4, <4>1 DEF InTarget, Desired
    <3>4. \A n \in 1..i : n \in 1..(i - 1) \/ n = i
      BY <3>1
    <3> QED
      BY <3>2, <3>3, <3>4 DEF AppliedUpTo
  <2> QED
    BY <2>1, <2>2
<1> QED
  BY <1>3, <1>4

\* With the settings as they are, what is applied or converged stays so.
LEMMA SameSettings ==
  ASSUME setting' = setting, NEW n, NEW m, NEW t
  PROVE  (Converged(n, m)' <=> Converged(n, m)) /\ (AppliedUpTo(t, n)' <=> AppliedUpTo(t, n))
  BY DEF Converged, AppliedUpTo, IsApplied, InTarget, Conflict, CanVerify, Desired

\* The steps of a pass that has reached the tweak after the first m: it goes past an
\* operation, starts to apply the tweak, finishes it, or finishes the catalog.
LEMMA StepPasses ==
  ASSUME OneProcessOnly, Agree, NEW c \in Caller, Step(c), InPass(c), InPass(c)',
         NEW m \in 0..Len(Catalog), PassAt(c, m)
  PROVE  \E k \in 0..Len(Catalog) : PassAt(c, k)'
<1> USE DEF Agree
<1>1. /\ pc \in [Caller -> Control] /\ job \in [Caller -> Job] /\ eff \in [Caller -> Effect]
      /\ setting \in [Target -> Setting]
  BY DEF TypeInv, TypeOK
<1>2. /\ job[c].kind = "maintenance" /\ pc[c] \in {"verify", "op", "write", "record", "summary"}
      /\ pc'[c] \in {"verify", "op", "write", "record", "summary"}
  BY DEF InPass
<1>3. PICK i \in Nat \ {0} : i = job[c].i
  BY <1>1 DEF Job
<1>4. Len(Catalog) \in Nat /\ m \in Nat /\ m <= Len(Catalog)
  BY RestOfCatalog
<1>5. ASSUME m < Len(Catalog)
      PROVE  /\ m + 1 \in 1..Len(Catalog) /\ Catalog[m + 1] \in Tweak
             /\ Operations[Catalog[m + 1]] \in Seq(Op)
             /\ Head(job[c].queue) = Catalog[m + 1]
             /\ Tail(job[c].queue) = SubSeq(Catalog, (m + 1) + 1, Len(Catalog))
  <2>1. /\ Head(job[c].queue) = Catalog[m + 1] /\ Catalog[m + 1] \in Tweak
        /\ Tail(job[c].queue) = SubSeq(Catalog, (m + 1) + 1, Len(Catalog))
    BY <1>5, RestOfCatalog DEF PassAt
  <2>2. m + 1 \in 1..Len(Catalog)
    BY <1>4, <1>5
  <2> QED
    BY <2>1, <2>2, Parameters
<1>6. pc[c] \in {"op", "write", "record"} =>
        /\ m < Len(Catalog) /\ Program(c) = Operations[Catalog[m + 1]]
        /\ CurrentOp(c) = Operations[Catalog[m + 1]][i]
  BY <1>2, <1>3 DEF PassAt, Program, CurrentOp
<1>7. ASSUME setting' = setting, m < Len(Catalog), pc'[c] = "verify",
             job' = [job EXCEPT ![c].queue = Tail(@), ![c].i = 1],
             job[c].clean => /\ \A n \in 1..m : Converged(n, m + 1)
                             /\ Converged(m + 1, m + 1)
      PROVE  PassAt(c, m + 1)'
  <2>1. /\ job'[c].queue = SubSeq(Catalog, (m + 1) + 1, Len(Catalog)) /\ job'[c].i = 1
        /\ job'[c].clean = job[c].clean
    BY <1>1, <1>5, <1>7 DEF Job
  <2>2. job[c].clean => \A n \in 1..(m + 1) : Converged(n, m + 1)'
    <3>1. \A n \in 1..(m + 1) : n \in 1..m \/ n = m + 1
      BY <1>4
    <3> QED
      BY <1>7, <3>1, SameSettings
  <2>3. \A t : AppliedUpTo(t, 0)'
    BY DEF AppliedUpTo
  <2>4. job'[c].i - 1 = 0
    BY <2>1
  <2> QED
    BY <1>7, <2>1, <2>2, <2>3, <2>4 DEF PassAt
<1>8. ASSUME NEW failed \in BOOLEAN, SkipOp(c, failed), pc[c] \in {"verify", "op"},
             m < Len(Catalog),
             ~failed /\ job[c].clean /\ CanVerify(Catalog[m + 1]) => AppliedUpTo(Catalog[m + 1], i)
      PROVE  PassAt(c, m)'
  <2>1. /\ job'[c].queue = job[c].queue /\ job'[c].tweak = job[c].tweak /\ job'[c].i = i + 1
        /\ job'[c].clean => job[c].clean /\ ~failed
        /\ setting' = setting /\ pc' = pc
    BY <1>1, <1>3, <1>8 DEF SkipOp, Job
  <2>2. job'[c].i - 1 = i
    BY <1>3, <2>1
  <2> QED
    BY <1>8, <2>1, <2>2, SameSettings DEF PassAt
<1>9. CASE VerifyOp(c)
  <2> DEFINE t == Head(job[c].queue)
  <2>1. pc[c] = "verify" /\ job[c].queue # <<>>
    BY <1>9 DEF VerifyOp
  <2>2. m < Len(Catalog)
    BY <1>4, <2>1, RestOfCatalog DEF PassAt
  <2>3. t = Catalog[m + 1] /\ Operations[t] \in Seq(Op)
    BY <1>5, <2>2
  <2> HIDE DEF t
  <2>4. job[c].clean => \A n \in 1..m : Converged(n, m + 1)
    BY <1>4, <2>1, ConvergedLonger DEF PassAt
  <2>5. job[c].clean /\ CanVerify(t) => AppliedUpTo(t, i - 1)
    BY <1>3, <2>1, <2>2, <2>3 DEF PassAt
  <2>6. CASE (~CanVerify(t) \/ i > Len(Operations[t])) /\ NextTweak(c)
    <3>1. job[c].clean => Converged(m + 1, m + 1)
      <4>1. i - 1 \in Nat /\ (CanVerify(t) => i - 1 >= Len(Operations[t]))
        BY <1>3, <2>3, <2>6, SMTT(30)
      <4> QED
        BY <1>5, <2>2, <2>3, <2>5, <4>1, ConvergedNow
    <3>2. setting' = setting /\ pc'[c] = "verify"
      BY <2>1, <2>6 DEF NextTweak
    <3>3. PassAt(c, m + 1)'
      BY <1>7, <2>2, <2>4, <2>6, <3>1, <3>2 DEF NextTweak
    <3> QED
      BY <1>5, <2>2, <3>3
  <2>7. CASE CanVerify(t) /\ i <= Len(Operations[t]) /\ InTarget(Operations[t][i])
             /\ SkipOp(c, FALSE)
    <3>1. job[c].clean => AppliedUpTo(t, i)
      <4>1. \A n \in 1..i : n \in 1..(i - 1) \/ n = i
        BY <1>3
      <4> QED
        BY <2>5, <2>7, <4>1 DEF AppliedUpTo
    <3> QED
      BY <1>8, <2>1, <2>2, <2>3, <2>7, <3>1
  <2>8. CASE /\ CanVerify(t) /\ job' = [job EXCEPT ![c].tweak = t, ![c].i = 1]
             /\ Goto(c, "op") /\ setting' = setting
    <3>1. /\ job'[c].queue = job[c].queue /\ job'[c].tweak = t /\ job'[c].i = 1
          /\ job'[c].clean = job[c].clean /\ pc'[c] = "op"
      BY <1>1, <2>8 DEF Goto, Job
    <3>2. AppliedUpTo(Catalog[m + 1], 0)' /\ job'[c].i - 1 = 0
      BY <3>1 DEF AppliedUpTo
    <3>3. job[c].clean => \A n \in 1..m : Converged(n, m + 1)'
      BY <2>4, <2>8, SameSettings
    <3>4. CanVerify(Catalog[m + 1])'
      BY <2>3, <2>8 DEF CanVerify
    <3> QED
      BY <2>2, <2>3, <3>1, <3>2, <3>3, <3>4 DEF PassAt
  <2> QED
    BY <1>3, <1>9, <2>6, <2>7, <2>8 DEF VerifyOp, t
<1>10. CASE EndOfCatalog(c)
  <2>1. /\ pc[c] = "verify" /\ job[c].queue = <<>> /\ pc'[c] = "summary"
        /\ UNCHANGED <<setting, job>>
    BY <1>1, <1>10 DEF EndOfCatalog, Goto
  <2>2. m = Len(Catalog)
    BY <2>1, RestOfCatalog DEF PassAt
  <2> QED
    BY <2>1, <2>2, SameSettings DEF PassAt
<1>11. CASE ReadOp(c)
  <2>1. pc[c] = "op" /\ i <= Len(Operations[Catalog[m + 1]])
    BY <1>3, <1>6, <1>11 DEF ReadOp
  <2>2. /\ m < Len(Catalog) /\ CurrentOp(c) = Operations[Catalog[m + 1]][i]
        /\ CanVerify(Catalog[m + 1])
    BY <1>6, <2>1 DEF PassAt
  <2>3. CASE SkipOp(c, FALSE) /\ ~Changed(CurrentOp(c))
    <3>1. InTarget(CurrentOp(c))
      BY <2>3 DEF Changed, InTarget
    <3>2. job[c].clean => AppliedUpTo(Catalog[m + 1], i)
      <4>1. \A n \in 1..i : n \in 1..(i - 1) \/ n = i
        BY <1>3
      <4> QED
        BY <1>3, <2>1, <2>2, <3>1, <4>1 DEF AppliedUpTo, PassAt
    <3> QED
      BY <1>8, <2>1, <2>2, <2>3, <3>2
  <2>4. CASE Goto(c, "write") /\ job' = job /\ setting' = setting
    <3>1. pc'[c] = "write"
      BY <1>1, <2>4 DEF Goto
    <3>2. CanVerify(Catalog[m + 1])'
      BY <2>2 DEF CanVerify
    <3> QED
      BY <1>3, <2>1, <2>2, <2>4, <3>1, <3>2, SameSettings DEF PassAt
  <2> QED
    BY <1>2, <1>11, <2>3, <2>4 DEF ReadOp
<1>12. CASE ReadFails(c)
  <2>1. pc[c] = "op" /\ SkipOp(c, TRUE)
    BY <1>12 DEF ReadFails
  <2> QED
    BY <1>6, <1>8, <2>1
<1>13. CASE WriteOp(c)
  <2> DEFINE t == Catalog[m + 1]
  <2>1. pc[c] = "write" /\ i <= Len(Operations[job[c].tweak])
    BY <1>3, <1>13 DEF WriteOp, TypeInv, IndexOK
  <2>2. /\ m < Len(Catalog) /\ t \in Tweak /\ CurrentOp(c) = Operations[t][i]
        /\ CanVerify(t) /\ i \in DOMAIN Operations[t] /\ m + 1 \in 1..Len(Catalog)
    <3>1. m < Len(Catalog) /\ CurrentOp(c) = Operations[t][i] /\ CanVerify(t) /\ job[c].tweak = t
      BY <1>6, <2>1 DEF PassAt
    <3> QED
      BY <1>3, <1>5, <2>1, <3>1
  <2>3. CASE ExecuteFails(c, CurrentOp(c), eff[c])
    <3>1. pc'[c] = "record" /\ job' = [job EXCEPT ![c].clean = FALSE]
      BY <1>1, <2>3 DEF ExecuteFails, Goto
    <3>2. job'[c].queue = job[c].queue /\ job'[c].tweak = job[c].tweak /\ ~job'[c].clean
      BY <1>1, <3>1 DEF Job
    <3>3. CanVerify(t)'
      BY <2>2 DEF CanVerify
    <3> QED
      BY <2>1, <2>2, <3>1, <3>2, <3>3 DEF PassAt
  <2>4. CASE Execute(c, CurrentOp(c), eff[c])
    <3>1. /\ pc'[c] = "record" /\ job' = job
          /\ setting' = [x \in Target |-> IF x \in CurrentOp(c).on
                                          THEN Desired(CurrentOp(c)) ELSE setting[x]]
      BY <1>1, <2>4 DEF Execute, Goto
    <3>2. /\ \A u \in Tweak : ~Conflict(u, t) /\ IsApplied(u) => IsApplied(u)'
          /\ AppliedUpTo(t, i - 1) => AppliedUpTo(t, i)'
      BY <1>1, <2>2, <3>1, WriteKeeps
    <3>3. job[c].clean => AppliedUpTo(t, i)'
      BY <1>3, <2>1, <3>2 DEF PassAt
    <3>4. ASSUME NEW n \in 1..m, Converged(n, m + 1) PROVE Converged(n, m + 1)'
      <4>1. n \in 1..Len(Catalog) /\ m + 1 \in n..(m + 1)
        BY <1>4, <2>2
      <4>2. Catalog[n] \in Tweak
        BY <4>1, Parameters
      <4>3. IsApplied(Catalog[n]) => Conflict(Catalog[n], t) \/ IsApplied(Catalog[n])'
        BY <3>2, <4>2
      <4>4. (CanVerify(t)' <=> CanVerify(t)) /\ (Conflict(Catalog[n], t)' <=> Conflict(Catalog[n], t))
        BY DEF CanVerify, Conflict, Desired
      <4> QED
        BY <2>2, <3>4, <4>1, <4>3, <4>4 DEF Converged, CanVerify, Conflict, Desired
    <3>5. job[c].clean => \A n \in 1..m : Converged(n, m + 1)'
      BY <2>1, <3>4 DEF PassAt
    <3>6. CanVerify(t)'
      BY <2>2 DEF CanVerify
    <3> QED
      BY <1>3, <2>1, <2>2, <3>1, <3>3, <3>5, <3>6 DEF PassAt
  <2> QED
    BY <1>13, <2>3, <2>4 DEF WriteOp
<1>14. CASE Record(c)
  <2>1. /\ pc[c] = "record" /\ pc'[c] = "op" /\ setting' = setting
        /\ job' = [job EXCEPT ![c].i = @ + 1]
    BY <1>1, <1>14 DEF Record, Goto
  <2>2. /\ job'[c].queue = job[c].queue /\ job'[c].tweak = job[c].tweak /\ job'[c].i = i + 1
        /\ job'[c].clean = job[c].clean
    BY <1>1, <1>3, <2>1 DEF Job
  <2>3. job'[c].i - 1 = i
    BY <1>3, <2>2
  <2>4. CanVerify(Catalog[m + 1])' <=> CanVerify(Catalog[m + 1])
    BY DEF CanVerify
  <2> QED
    BY <1>3, <2>1, <2>2, <2>3, <2>4, SameSettings, ZenonT(40) DEF PassAt
<1>15. CASE EndOfTweak(c)
  <2>1. /\ pc[c] = "op" /\ i > Len(Operations[Catalog[m + 1]]) /\ pc'[c] = "verify"
        /\ setting' = setting /\ job' = [job EXCEPT ![c].queue = Tail(@), ![c].i = 1]
        /\ m < Len(Catalog)
    BY <1>1, <1>2, <1>3, <1>6, <1>15 DEF EndOfTweak, Goto
  <2>2. job[c].clean => /\ \A n \in 1..m : Converged(n, m + 1)
                        /\ AppliedUpTo(Catalog[m + 1], i - 1)
    BY <1>3, <2>1 DEF PassAt
  <2>3. i - 1 \in Nat /\ i - 1 >= Len(Operations[Catalog[m + 1]])
    BY <1>3, <1>5, <2>1, SMTT(30)
  <2>4. PassAt(c, m + 1)'
    BY <1>5, <1>7, <2>1, <2>2, <2>3, ConvergedNow
  <2> QED
    BY <1>5, <2>1, <2>4
<1>16. CASE UndoOp(c) \/ Lookup(c) \/ Recheck(c) \/ HistoryUnreadable(c) \/ Restore(c)
            \/ RecordUndo(c)
  BY <1>2, <1>16 DEF UndoOp, Lookup, Recheck, HistoryUnreadable, Restore, RecordUndo
<1>17. CASE Summary(c)
  BY <1>1, <1>2, <1>17 DEF Summary, Return, Goto
<1> QED
  BY <1>9, <1>10, <1>11, <1>12, <1>13, <1>14, <1>15, <1>16, <1>17 DEF Step

\* A step stays within its call, or returns from it.
LEMMA StepKind ==
  ASSUME TypeInv, NEW c \in Caller, Step(c)
  PROVE  /\ job'[c].kind = job[c].kind \/ pc'[c] = "idle"
         /\ pc[c] \notin {"idle", "waiting"} /\ pc'[c] # "waiting"
         /\ pc'[c] \in {"verify", "summary"} =>
              pc[c] = "verify" \/ job[c].kind = "maintenance"
<1>1. pc \in [Caller -> Control] /\ job \in [Caller -> Job]
  BY DEF TypeInv, TypeOK
<1>2. \A failed \in BOOLEAN : SkipOp(c, failed) => job'[c].kind = job[c].kind /\ pc' = pc
  BY <1>1 DEF SkipOp, Job
<1>3. CASE ReadOp(c) \/ ReadFails(c)
  BY <1>1, <1>2, <1>3 DEF ReadOp, ReadFails, Goto
<1>4. CASE WriteOp(c) \/ UndoOp(c)
  <2>1. PICK op, e : Execute(c, op, e) \/ ExecuteFails(c, op, e)
    BY <1>4, Zenon DEF WriteOp, UndoOp
  <2>2. pc'[c] = "record" /\ (job' = job \/ job' = [job EXCEPT ![c].clean = FALSE])
    BY <1>1, <2>1 DEF Execute, ExecuteFails, Goto
  <2>3. job'[c].kind = job[c].kind
    BY <1>1, <2>2 DEF Job
  <2> QED
    BY <1>4, <2>2, <2>3 DEF WriteOp, UndoOp
<1>5. CASE Record(c)
  BY <1>1, <1>5 DEF Record, Goto, Job
<1>6. CASE EndOfTweak(c)
  BY <1>1, <1>6 DEF EndOfTweak, Return, Goto, Job
<1>7. CASE VerifyOp(c)
  BY <1>1, <1>2, <1>7, ZenonT(40) DEF VerifyOp, NextTweak, Goto, Job
<1>8. CASE EndOfCatalog(c) \/ Restore(c) \/ Lookup(c) \/ Recheck(c)
  BY <1>1, <1>8 DEF EndOfCatalog, Restore, Lookup, Recheck, Return, Goto
<1>9. CASE Summary(c) \/ HistoryUnreadable(c) \/ RecordUndo(c)
  BY <1>1, <1>9 DEF Summary, HistoryUnreadable, RecordUndo, Return, Goto
<1> QED
  BY <1>3, <1>4, <1>5, <1>6, <1>7, <1>8, <1>9 DEF Step

\* Every step keeps what the passes have done.
LEMMA PassedNext == OneProcessOnly /\ Agree /\ Passed /\ [Next]_vars => Passed'
<1> SUFFICES ASSUME OneProcessOnly, Agree, Passed, [Next]_vars PROVE Passed'
  OBVIOUS
<1> USE DEF Agree
<1>1. /\ pc \in [Caller -> Control] /\ job \in [Caller -> Job] /\ setting \in [Target -> Setting]
  BY DEF TypeInv, TypeOK
<1> DEFINE Done(c) == (InPass(c) => \E m \in 0..Len(Catalog) : PassAt(c, m)) /\ PassShape(c)
<1>2. ASSUME NEW c \in Caller, setting' = setting, pc'[c] = pc[c], job'[c] = job[c]
      PROVE  Done(c)'
  <2>1. Done(c)
    BY DEF Passed, PassShape
  <2>2. ASSUME NEW m \in 0..Len(Catalog), PassAt(c, m) PROVE PassAt(c, m)'
    <3>1. CanVerify(Catalog[m + 1])' <=> CanVerify(Catalog[m + 1])
      BY DEF CanVerify
    <3> QED
      BY <1>2, <2>2, <3>1, SameSettings DEF PassAt
  <2> QED
    BY <1>2, <2>1, <2>2 DEF InPass, PassShape
<1>3. ASSUME NEW c \in Caller, pc'[c] = "idle" PROVE Done(c)'
  BY <1>3 DEF PassShape, InPass
<1>4. ASSUME NEW c \in Caller, NEW j \in Requests, Request(c, j) PROVE Passed'
  <2>1. setting' = setting /\ pc'[c] = "waiting" /\ job'[c] = j
        /\ \A d \in Caller \ {c} : pc'[d] = pc[d] /\ job'[d] = job[d]
    BY <1>1, <1>4 DEF Request, Goto
  <2>2. j.kind = "maintenance" => j.queue = Catalog /\ j.i = 1
    BY DEF Requests, NoJob
  <2>3. Done(c)'
    BY <2>1, <2>2 DEF InPass, PassShape
  <2> QED
    BY <1>2, <2>1, <2>3 DEF Passed, PassShape
<1>5. ASSUME NEW c \in Caller, Acquire(c) PROVE Passed'
  <2>1. /\ setting' = setting /\ job' = job /\ pc[c] = "waiting"
        /\ \A d \in Caller \ {c} : pc'[d] = pc[d]
        /\ job[c].kind = "maintenance" => pc'[c] = "verify"
        /\ job[c].kind # "maintenance" => pc'[c] \in {"lookup", "op"}
    BY <1>1, <1>5 DEF Acquire, Goto
  <2>2. CASE job[c].kind = "maintenance"
    <3>1. pc'[c] = "verify" /\ job'[c].queue = Catalog /\ job'[c].i = 1
      BY <2>1, <2>2 DEF Passed, PassShape
    <3>2. Catalog = SubSeq(Catalog, 0 + 1, Len(Catalog)) /\ 0 \in 0..Len(Catalog)
      BY SubSeqFull, Parameters
    <3>3. AppliedUpTo(Catalog[0 + 1], 0)' /\ job'[c].i - 1 = 0
      BY <3>1 DEF AppliedUpTo
    <3>4. PassAt(c, 0)'
      BY <3>1, <3>2, <3>3 DEF PassAt
    <3>5. PassShape(c)'
      BY <2>1, <2>2, <3>1 DEF PassShape
    <3> QED
      BY <1>2, <2>1, <3>2, <3>4, <3>5 DEF Passed
  <2>3. CASE job[c].kind # "maintenance"
    <3>1. pc'[c] \in {"lookup", "op"}
      BY <2>1, <2>3
    <3>2. Done(c)'
      BY <2>1, <2>3, <3>1 DEF InPass, PassShape
    <3> QED
      BY <1>2, <2>1, <3>2 DEF Passed
  <2> QED
    BY <2>2, <2>3
<1>6. ASSUME NEW c \in Caller, Step(c) PROVE Passed'
  <2>1. ASSUME NEW d \in Caller, d # c PROVE Done(d)'
    <3>1. pc'[d] = pc[d] /\ job'[d] = job[d] /\ pc[d] \in {"idle", "waiting"}
      BY <1>6, <2>1, OthersRest
    <3> QED
      BY <3>1 DEF Passed, PassShape, InPass
  <2>2. PassShape(c)'
    BY <1>6, StepKind DEF Passed, PassShape
  <2>3. InPass(c)' => InPass(c)
    <3>1. job[c].kind = "maintenance" =>
            pc[c] \notin {"lookup", "recheck", "restore", "recordUndo"}
      BY DEF TypeInv, IndexOK, Undoing
    <3> QED
      BY <1>1, <1>6, <3>1, StepKind DEF InPass, Control
  <2>4. InPass(c)' => \E m \in 0..Len(Catalog) : PassAt(c, m)'
    BY <1>6, <2>3, StepPasses DEF Passed
  <2> QED
    BY <2>1, <2>2, <2>4 DEF Passed, PassShape
<1>7. ASSUME NEW p \in Process, Crash(p) PROVE Passed'
  <2>1. setting' = setting /\ \A c \in Caller : \/ pc'[c] = pc[c] /\ job'[c] = job[c]
                                                \/ pc'[c] = "idle"
    BY <1>7 DEF Crash
  <2> QED
    BY <1>2, <1>3, <2>1 DEF Passed, PassShape, InPass
<1>8. ASSUME NEW x \in Target, NEW v \in Setting, Drift(x, v) PROVE Passed'
  <2>1. UNCHANGED <<pc, job>> /\ \A c \in Caller : pc[c] \in {"idle", "waiting"}
    BY <1>8 DEF Drift, Busy
  <2> QED
    BY <2>1 DEF Passed, InPass, PassShape
<1>9. CASE UNCHANGED vars
  <2>1. setting' = setting /\ UNCHANGED <<pc, job>>
    BY <1>9 DEF vars
  <2> QED
    BY <1>2, <2>1 DEF Passed, PassShape
<1>10. CASE Next
  BY <1>4, <1>5, <1>6, <1>7, <1>8, <1>9, <1>10 DEF Next, Finished
<1> QED
  BY <1>9, <1>10

\* Within one process, a maintenance pass about to report success has brought every
\* verifiable tweak to its target state, but those that a later tweak contradicts.
THEOREM PassesConverge ==
  ASSUME OneProcessOnly
  PROVE  Spec => []MaintenanceConverges
<1>1. Init => Agree /\ Passed
  <2>1. Init => Passed
    BY DEF Init, Passed, InPass, PassShape
  <2> QED
    BY <2>1, AgreeInit
<1>2. Agree /\ Passed /\ [Next]_vars => (Agree /\ Passed)'
  BY AgreeNext, PassedNext
<1>3. Agree /\ Passed => MaintenanceConverges
  <2> SUFFICES ASSUME Agree, Passed, NEW c \in Caller, pc[c] = "summary", job[c].clean,
                      NEW n \in DOMAIN Catalog
               PROVE  \/ ~CanVerify(Catalog[n])
                      \/ \E m \in n..Len(Catalog) : /\ CanVerify(Catalog[m])
                                                    /\ Conflict(Catalog[n], Catalog[m])
                      \/ IsApplied(Catalog[n])
    BY DEF MaintenanceConverges
  <2>1. job[c].kind = "maintenance"
    BY DEF Passed, PassShape
  <2>2. PICK m \in 0..Len(Catalog) : PassAt(c, m)
    BY <2>1 DEF Passed, InPass
  <2>3. m = Len(Catalog) /\ n \in 1..m
    BY <2>2, Parameters DEF PassAt
  <2> QED
    BY <2>2, <2>3 DEF PassAt, Converged
<1> QED
  BY <1>1, <1>2, <1>3, PTL DEF Spec

-----------------------------------------------------------------------------
(* The changes of a process, one at a time.                                *)

Recording(c) == pc[c] \in {"record", "recordUndo"}

\* Nobody else is about to record something: what c is about to record is all there is.
Alone(c) ==
    (\A d \in Caller \ {c} : ~Recording(d)) =>
        /\ pc[c] = "record" => PendingEntries = {EffectEntry(c)}
        /\ pc[c] = "recordUndo" => PendingEntries = {UndoEntryOf(c)}
        /\ ~Recording(c) => PendingEntries = {}

\* That is so in every state, and in the next one.
LEMMA AloneHolds == ASSUME NEW c \in Caller PROVE Alone(c) /\ Alone(c)'
<1>1. Alone(c)
  BY DEF Alone, Recording, PendingEntries
<1>2. Alone(c)'
  BY DEF Alone, Recording, PendingEntries
<1> QED  BY <1>1, <1>2

\* Nothing is to be recorded if nobody records.
LEMMA NonePending ==
  /\ (\A c \in Caller : ~Recording(c)) => PendingEntries = {}
  /\ (\A c \in Caller : ~Recording(c))' => PendingEntries' = {}
  BY DEF Recording, PendingEntries

\* A step of a call is one change, its record, or nothing.
LEMMA StepRecorded ==
  ASSUME OneProcessOnly, Agree, TypeInv', Fresh, NEW c \in Caller, Step(c)
  PROVE  [History!Next]_(History!historyVars)
<1>1. \A d \in Caller \ {c} : ~Recording(d) /\ ~Recording(d)'
  BY OthersRest DEF Agree, Recording
<1>2. /\ pc[c] = "record" => PendingEntries = {EffectEntry(c)}
      /\ pc[c] = "recordUndo" => PendingEntries = {UndoEntryOf(c)}
      /\ ~Recording(c) => PendingEntries = {}
      /\ pc'[c] = "record" => PendingEntries' = {EffectEntry(c)'}
      /\ pc'[c] = "recordUndo" => PendingEntries' = {UndoEntryOf(c)'}
      /\ ~Recording(c)' => PendingEntries' = {}
  BY <1>1, AloneHolds DEF Alone
<1>3. /\ PendingOf(c) /\ eff'[c] \in Effect /\ eff[c] \in Effect /\ job'[c] \in Job
      /\ job[c] \in Job /\ log \in Seq(Entry)
  BY PendingByCaller DEF Agree, TypeInv, TypeOK
<1>4. CASE Quiet(c)
  <2>1. UNCHANGED <<setting, log>> /\ ~Recording(c) /\ ~Recording(c)'
    BY <1>4 DEF Quiet, Recording
  <2> QED  BY <1>2, <2>1 DEF History!historyVars
<1>5. CASE Wrote(c)
  <2>1. PICK e : e = EffectEntry(c)'
    OBVIOUS
  <2>2. /\ e \in History!Entry(0) /\ e.on = eff'[c].on /\ e.new = eff'[c].new
        /\ e.success = eff'[c].ok /\ e.canUndo = eff'[c].canUndo /\ e.prev = eff'[c].prev
    BY <1>3, <2>1 DEF EffectEntry, History!Entry, Effect
  <2>3. PendingEntries = {} /\ PendingEntries' = {e} /\ log' = log
    BY <1>2, <1>5, <2>1 DEF Wrote, Recording
  <2>4. e.canUndo => e.success /\ \E x \in Target : e.on = {x} /\ e.prev = setting[x]
    BY <1>3, <1>5, <2>2 DEF Wrote, PendingOf, Fresh
  <2>5. \E part \in SUBSET e.on :
          /\ e.success => part = e.on
          /\ setting' = [x \in Target |-> IF x \in part THEN e.new ELSE setting[x]]
    BY <1>5, <2>2 DEF Wrote
  <2>6. History!Change(e)
    BY <2>3, <2>4, <2>5 DEF History!Change, History!Put
  <2>7. History!Make
    BY <2>2, <2>3, <2>6 DEF History!Make
  <2> QED  BY <2>7 DEF History!Next
<1>6. CASE WroteBack(c)
  <2>1. PICK e : e = UndoEntryOf(c)'
    OBVIOUS
  <2>2. PICK k : k = job[c].id
    OBVIOUS
  <2>3. /\ e \in History!Entry(k) /\ e.on = eff'[c].on /\ e.success = eff'[c].ok /\ ~e.canUndo
    BY <1>3, <1>6, <2>1, <2>2 DEF WroteBack, UndoEntryOf, History!Entry, Effect, Job, Setting
  <2>4. PendingEntries = {} /\ PendingEntries' = {e} /\ log' = log
    BY <1>2, <1>6, <2>1 DEF WroteBack, Recording
  <2>5. k \in History!Undoable
    BY <1>3, <1>6, <2>2 DEF WroteBack, PendingOf, Undone, History!Undoable
  <2>6. e.on = log[k].on /\ \E part \in SUBSET e.on :
          /\ e.success => part = e.on
          /\ setting' = [x \in Target |-> IF x \in part THEN log[k].prev ELSE setting[x]]
    BY <1>6, <2>2, <2>3 DEF WroteBack
  <2>7. History!Undo(k, e)
    BY <2>3, <2>4, <2>6 DEF History!Undo, History!Put
  <2>8. History!Make
    BY <2>3, <2>4, <2>5, <2>7 DEF History!Make
  <2> QED  BY <2>8 DEF History!Next
<1>7. CASE Record(c)
  <2>1. /\ pc[c] = "record" /\ pc'[c] = "op" /\ setting' = setting
        /\ log' = Append(log, EffectEntry(c)) \/ log' = log
    BY <1>7, RecordShape DEF AppendEntry
  <2>2. PendingEntries = {EffectEntry(c)} /\ PendingEntries' = {}
    BY <1>2, <2>1 DEF Recording
  <2>3. History!Record \/ History!Forget
    BY <2>1, <2>2 DEF History!Record, History!Forget
  <2> QED  BY <2>3 DEF History!Next
<1>8. CASE Summary(c)
  <2>1. PICK ok \in BOOLEAN :
          /\ PassEntry(ok) \in Entry /\ pc[c] = "summary" /\ pc'[c] = "idle"
          /\ setting' = setting
          /\ log' = Append(log, PassEntry(ok)) \/ log' = log
    BY <1>8, SummaryShape DEF AppendEntry
  <2>2. PendingEntries = {} /\ PendingEntries' = {}
    BY <1>2, <2>1 DEF Recording
  <2>3. PICK e : e = PassEntry(ok)
    OBVIOUS
  <2>4. e \in History!Entry(0) /\ e.on = {} /\ ~e.canUndo
    BY <2>1, <2>3 DEF PassEntry, Entry, History!Entry
  <2>5. log' = Append(log, e) => History!Note(e)
    BY <2>1, <2>2, <2>4 DEF History!Note
  <2>6. log' = log => UNCHANGED History!historyVars
    BY <2>1, <2>2 DEF History!historyVars
  <2> QED  BY <2>1, <2>3, <2>4, <2>5, <2>6 DEF History!Next
<1>9. CASE RecordUndo(c)
  <2>1. /\ pc[c] = "recordUndo" /\ pc'[c] = "idle" /\ setting' = setting
        /\ log' = Append(log, UndoEntryOf(c)) \/ log' = log
    BY <1>9, RecordUndoShape DEF AppendEntry
  <2>2. PendingEntries = {UndoEntryOf(c)} /\ PendingEntries' = {}
    BY <1>2, <2>1 DEF Recording
  <2>3. History!Record \/ History!Forget
    BY <2>1, <2>2 DEF History!Record, History!Forget
  <2> QED  BY <2>3 DEF History!Next
<1> QED  BY <1>4, <1>5, <1>6, <1>7, <1>8, <1>9, StepShapes DEF Agree

\* The end of the process: what was not recorded will not be.
LEMMA CrashForgets ==
  ASSUME OneProcessOnly, NEW p \in Process, Crash(p)
  PROVE  [History!Next]_(History!historyVars)
<1>1. \A c \in Caller : Home[c] = p
  BY DEF OneProcessOnly, Crash
<1>2. \A c \in Caller : pc'[c] = "idle"
  BY <1>1 DEF Crash
<1>3. PendingEntries' = {} /\ UNCHANGED <<setting, log>>
  BY <1>2, NonePending DEF Crash, Recording
<1> QED  BY <1>3 DEF History!Next, History!Forget, History!historyVars

\* Calls that begin change nothing, and another program only when nothing is to be recorded.
LEMMA OutsideRecorded ==
  ASSUME TypeInv, [Next]_vars, ~\E c \in Caller : Step(c), ~\E p \in Process : Crash(p)
  PROVE  [History!Next]_(History!historyVars)
<1>1. ASSUME NEW c \in Caller, UNCHANGED <<setting, log, eff>>, ~Recording(c), ~Recording(c)',
             \A d \in Caller \ {c} : pc'[d] = pc[d] /\ job'[d] = job[d]
      PROVE  UNCHANGED History!historyVars
  <2>1. \A d \in Caller : /\ Recording(d)' <=> Recording(d)
                          /\ pc'[d] = "record" <=> pc[d] = "record"
                          /\ pc'[d] = "recordUndo" <=> pc[d] = "recordUndo"
                          /\ Recording(d) => job'[d] = job[d]
    BY <1>1 DEF Recording
  <2>2. \A d \in Caller : /\ EffectEntry(d)' = EffectEntry(d)
                          /\ pc[d] = "recordUndo" => UndoEntryOf(d)' = UndoEntryOf(d)
    BY <1>1, <2>1 DEF EffectEntry, UndoEntryOf, Recording
  <2>3. PendingEntries' = PendingEntries
    BY <2>1, <2>2 DEF PendingEntries
  <2> QED  BY <1>1, <2>3 DEF History!historyVars
<1>2. ASSUME NEW c \in Caller, NEW j \in Requests, Request(c, j)
      PROVE  UNCHANGED History!historyVars
  <2>1. pc \in [Caller -> Control] /\ job \in [Caller -> Job]
    BY DEF TypeInv, TypeOK
  <2> QED  BY <1>1, <1>2, <2>1 DEF Request, Goto, Recording
<1>3. ASSUME NEW c \in Caller, Acquire(c)
      PROVE  UNCHANGED History!historyVars
  <2>1. pc \in [Caller -> Control]
    BY DEF TypeInv, TypeOK
  <2> QED  BY <1>1, <1>3, <2>1 DEF Acquire, Goto, Recording
<1>4. ASSUME NEW x \in Target, NEW v \in Setting, Drift(x, v)
      PROVE  History!Next
  <2>1. \A c \in Caller : ~Recording(c) /\ ~Recording(c)'
    BY <1>4 DEF Drift, Busy, Recording
  <2>2. PendingEntries = {} /\ PendingEntries' = {}
    BY <2>1, NonePending
  <2>3. History!Interfere(x, v)
    BY <1>4, <2>2 DEF Drift, History!Interfere
  <2> QED  BY <2>3 DEF History!Next
<1>5. CASE UNCHANGED vars
  <2>1. UNCHANGED <<setting, log, eff, pc, job>>
    BY <1>5 DEF vars
  <2>2. PendingEntries' = PendingEntries
    BY <2>1 DEF PendingEntries, EffectEntry, UndoEntryOf
  <2> QED  BY <2>1, <2>2 DEF History!historyVars
<1> QED  BY <1>2, <1>3, <1>4, <1>5 DEF Next, Finished

\* The settings and the history of a process change as UndoHistory says, however its callers
\* take turns and whatever fails or is killed: one change at a time, recorded as it was or not
\* at all before the next one; an entry that can be undone holds what its change replaced, and
\* only an entry that no recorded undo has undone is put back.
THEOREM HistoryOfChanges ==
  ASSUME OneProcessOnly
  PROVE  Spec => ChangesRecorded
<1>1. Init => History!Init
  BY NonePending DEF Init, History!Init, Recording
<1>2. FaithInv /\ Agree /\ FaithInv' /\ [Next]_vars => [History!Next]_(History!historyVars)
  BY StepRecorded, CrashForgets, OutsideRecorded DEF FaithInv
<1> QED
  BY <1>1, <1>2, FaithInvInit, FaithInvNext, AgreeInit, AgreeNext, PTL
     DEF Spec, ChangesRecorded, History!Spec

=============================================================================
