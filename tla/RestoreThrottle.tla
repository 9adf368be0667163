-------------------------- MODULE RestoreThrottle --------------------------
(***************************************************************************)
(* When the application creates restore points (internal/app): before a    *)
(* mutation, but at most once an hour, and whenever the user asks for one. *)
(* Both hold App.mu for the whole creation, so one runs at a time.  A      *)
(* mutation goes on in any case: with a new point, a recent one, or none.  *)
(***************************************************************************)
EXTENDS RestorePoint

CONSTANTS
    Hour,    \* the length of the throttle's window in ticks of the clock
    MaxTime  \* bound: ticks that pass

ASSUME ThrottleAssumption == Hour \in Nat \ {0} /\ MaxTime \in Nat

VARIABLES
    now,        \* the clock, which time.Now reads and which never goes back
    logger,     \* App.Logger is there: the process is not elevated
    last,       \* App.lastRestorePoint, {} while it is zero
    asker,      \* who is creating a restore point, and since when
    reply,      \* what the last of them was told
    successes   \* history: when each successful creation began and ended

throttleVars == <<rpVars, now, logger, last, asker, reply, successes>>

Nobody == [at |-> "idle", how |-> "auto", since |-> 0]
NoReply == [how |-> "none", err |-> FALSE, recorded |-> FALSE, since |-> 0]

ThrottleTypeOK ==
    /\ now \in 0..MaxTime /\ logger \in BOOLEAN
    /\ last \subseteq 0..MaxTime /\ Cardinality(last) <= 1
    /\ asker \in [at : {"idle", "creating"}, how : {"auto", "manual"}, since : 0..MaxTime]
    /\ reply \in [how : {"none", "off", "skipped", "auto", "manual"}, err : BOOLEAN,
                  recorded : BOOLEAN, since : 0..MaxTime]
    /\ successes \subseteq [since : 0..MaxTime, end : 0..MaxTime]

ThrottleInit == /\ RpInit /\ now = 0 /\ logger \in BOOLEAN /\ last = {} /\ asker = Nobody
                /\ reply = NoReply /\ successes = {}

-----------------------------------------------------------------------------

TimePasses == /\ now < MaxTime /\ now' = now + 1
              /\ UNCHANGED <<rpVars, logger, last, asker, reply, successes>>

Recent == \E t \in last : now - t < Hour

\* A mutation asks for a restore point, but automatic ones are switched off or the machine has
\* them disabled: whether there is a recent one is not looked at.
Off ==
    /\ asker.at = "idle"
    /\ reply' = [NoReply EXCEPT !.how = "off", !.since = now]
    /\ UNCHANGED <<rpVars, now, logger, last, asker, successes>>

\* One from the last hour will do.
Skip ==
    /\ asker.at = "idle" /\ Recent
    /\ reply' = [NoReply EXCEPT !.how = "skipped", !.since = now]
    /\ UNCHANGED <<rpVars, now, logger, last, asker, successes>>

Ensure ==
    /\ asker.at = "idle" /\ ~Recent /\ BeginCreate
    /\ asker' = [at |-> "creating", how |-> "auto", since |-> now]
    /\ reply' = NoReply
    /\ UNCHANGED <<now, logger, last, successes>>

\* App.CreateRestorePoint asks nobody.
CreateRestorePoint ==
    /\ asker.at = "idle" /\ BeginCreate
    /\ asker' = [at |-> "creating", how |-> "manual", since |-> now]
    /\ reply' = NoReply
    /\ UNCHANGED <<now, logger, last, successes>>

Creating == asker.at = "creating" /\ rp["create"].at = "idle"

Succeeded == IF created.err THEN UNCHANGED successes
             ELSE successes' = successes \cup {[since |-> asker.since, end |-> now]}

\* What the creation and its audit entry come to.  Without a logger nothing is recorded, and that
\* is no error.
Answers ==
    {[how |-> asker.how, err |-> created.err \/ (logger /\ ~recorded), recorded |-> recorded,
      since |-> asker.since] : recorded \in IF logger THEN BOOLEAN ELSE {FALSE}}

\* Mutant: an attempt that failed counts as well.
EndCreateEager ==
    /\ Creating
    /\ last' = {IF asker.how = "auto" THEN asker.since ELSE now}
    /\ Succeeded
    /\ reply' \in Answers
    /\ asker' = Nobody
    /\ UNCHANGED <<rpVars, now, logger>>

\* The attempt is recorded in the audit log, which may fail; the window opens with a success
\* only, recorded or not: at the time read before an automatic creation, after a manual one.
\* A mutation does not look at the answer.
EndCreate ==
    /\ Creating
    /\ last' = IF created.err THEN last
               ELSE {IF asker.how = "auto" THEN asker.since ELSE now}
    /\ Succeeded
    /\ reply' \in Answers
    /\ asker' = Nobody
    /\ UNCHANGED <<rpVars, now, logger>>

CreateStep == /\ RpStep("create") /\ UNCHANGED <<now, logger, last, asker, reply, successes>>

ThrottleNext ==
    \/ TimePasses \/ Off \/ Skip \/ Ensure \/ CreateRestorePoint \/ CreateStep \/ EndCreate

ThrottleFairness == WF_throttleVars(CreateStep) /\ WF_throttleVars(EndCreate)

ThrottleSpec == ThrottleInit /\ [][ThrottleNext]_throttleVars /\ ThrottleFairness

-----------------------------------------------------------------------------

\* The throttle never leaves a mutation without a point: it is passed by as recent only if one was
\* created less than an hour before, so an attempt that failed uses nothing up, and an automatic
\* creation begins only an hour after every other.  The user is told of success only when the point
\* is complete and, in a process that keeps a history, recorded.
Throttled ==
    /\ reply.how = "skipped" => \E s \in successes : reply.since - s.end < Hour
    /\ asker.at = "creating" /\ asker.how = "auto" =>
         \A s \in successes : asker.since - s.since >= Hour
    /\ reply.how = "manual" /\ ~reply.err =>
         /\ created.number # 0 /\ points[created.number]
         /\ logger => reply.recorded
=============================================================================
