------------------------------ MODULE JobQueue ------------------------------
(***************************************************************************)
(* The dashboard's asynchronous jobs (internal/httpapi/server.go) and the  *)
(* way its process ends (internal/cli/cli.go).                             *)
(*                                                                         *)
(* A request for a long operation is admitted as a job and answered at     *)
(* once; a goroutine then waits for Server.mutationMu, runs the operation  *)
(* and publishes its outcome.  Short mutations run in their request's      *)
(* handler under the same mutex.  Server.mu protects the job table; no one *)
(* blocks while holding it, so each of its critical sections is one step.  *)
(***************************************************************************)
EXTENDS Integers, Sequences, FiniteSets, FiniteSetsExt, SequencesExt

CONSTANTS
    Handler,      \* request handlers that use withMutation
    Nobody,       \* the owner of a free mutex
    MaxActive,    \* maxActiveJobs
    MaxRetained,  \* maxJobs
    MaxLines,     \* maxJobLines
    MaxLogBytes,  \* maxJobLogBytes
    LineBytes,    \* sizes of a log line after truncation to maxJobLineBytes
    MaxJobs,      \* bound: jobs admitted
    MaxEmitted    \* bound: log lines emitted, by all jobs together

JobId == 1..MaxJobs

ASSUME Bounds ==
    /\ MaxActive \in Nat \ {0} /\ MaxRetained \in Nat \ {0} /\ MaxLines \in Nat \ {0}
    /\ MaxLogBytes \in Nat /\ MaxJobs \in Nat /\ MaxEmitted \in Nat
    /\ LineBytes \subseteq 1..MaxLogBytes
    /\ Nobody \notin JobId \cup Handler /\ Handler \cap JobId = {}

VARIABLES
    jobs,         \* Server.jobs: a function from the IDs in the table to their records
    seq,          \* Server.seq
    mutationMu,   \* Server.mutationMu
    goroutine,    \* [JobId -> where the job's goroutine is]
    handler,      \* [Handler -> where the handler is]
    server,       \* "up", "draining" (Shutdown was called) or "exited"
    emitted,      \* history: [JobId -> the lines the job logged]
    timedOut      \* history: Shutdown gave up waiting for a handler

vars == <<jobs, seq, mutationMu, goroutine, handler, server, emitted, timedOut>>

Line == [n : 1..MaxEmitted, bytes : LineBytes]
Job == [status : {"queued", "running", "done", "error"}, lines : Seq(Line), dropped : Nat,
        linesBytes : Nat, done : BOOLEAN]

TypeOK ==
    /\ DOMAIN jobs \subseteq 1..seq /\ \A j \in DOMAIN jobs : jobs[j] \in Job
    /\ seq \in 0..MaxJobs
    /\ mutationMu \in JobId \cup Handler \cup {Nobody}
    /\ goroutine \in [JobId -> {"none", "waiting", "locked", "running", "returned",
                                "failed", "ended"}]
    /\ handler \in [Handler -> {"idle", "waiting", "mutating"}]
    /\ server \in {"up", "draining", "exited"}
    /\ emitted \in [JobId -> Seq(Line)]
    /\ timedOut \in BOOLEAN

Init ==
    /\ jobs = [j \in {} |-> <<>>]
    /\ seq = 0
    /\ mutationMu = Nobody
    /\ goroutine = [j \in JobId |-> "none"]
    /\ handler = [h \in Handler |-> "idle"]
    /\ server = "up"
    /\ emitted = [j \in JobId |-> <<>>]
    /\ timedOut = FALSE

-----------------------------------------------------------------------------
(* The job table.                                                          *)

Active(table) == {j \in DOMAIN table : ~table[j].done}
Done(table) == DOMAIN table \ Active(table)

\* Mutant: live jobs count against the limit too.
PruneAll(table) ==
    LET gone == {j \in Done(table) :
                   Cardinality({k \in DOMAIN table : k > j}) >= MaxRetained}
    IN  [j \in DOMAIN table \ gone |-> table[j]]

\* pruneJobs drops the finished jobs with the lowest sequence numbers when there are
\* more than MaxRetained of them.
Prune(table) ==
    LET gone == {j \in Done(table) :
                   Cardinality({k \in Done(table) : k > j}) >= MaxRetained}
    IN  [j \in DOMAIN table \ gone |-> table[j]]

Queued == [status |-> "queued", lines |-> <<>>, dropped |-> 0, linesBytes |-> 0,
           done |-> FALSE]

At(j, label) == goroutine' = [goroutine EXCEPT ![j] = label]

\* Mutant: the table is checked one job too late.
AdmitOneMore ==
    /\ server # "exited" /\ seq < MaxJobs
    /\ Cardinality(Active(jobs)) <= MaxActive
    /\ seq' = seq + 1
    /\ jobs' = Prune([j \in DOMAIN jobs \cup {seq + 1} |->
                        IF j \in DOMAIN jobs THEN jobs[j] ELSE Queued])
    /\ At(seq + 1, "waiting")
    /\ UNCHANGED <<mutationMu, handler, server, emitted, timedOut>>

\* startJob: a full queue refuses before an ID is taken.  A request received before
\* Shutdown is still served.
Admit ==
    /\ server # "exited" /\ seq < MaxJobs
    /\ Cardinality(Active(jobs)) < MaxActive
    /\ seq' = seq + 1
    /\ jobs' = Prune([j \in DOMAIN jobs \cup {seq + 1} |->
                        IF j \in DOMAIN jobs THEN jobs[j] ELSE Queued])
    /\ At(seq + 1, "waiting")
    /\ UNCHANGED <<mutationMu, handler, server, emitted, timedOut>>

-----------------------------------------------------------------------------
(* A job's goroutine.                                                      *)

\* Mutant: the goroutine does not wait for the mutex.
LockUnchecked(j) ==
    /\ server # "exited" /\ goroutine[j] = "waiting"
    /\ mutationMu' = j
    /\ At(j, "locked")
    /\ UNCHANGED <<jobs, seq, handler, server, emitted, timedOut>>

Lock(j) ==
    /\ server # "exited" /\ goroutine[j] = "waiting"
    /\ mutationMu = Nobody
    /\ mutationMu' = j
    /\ At(j, "locked")
    /\ UNCHANGED <<jobs, seq, handler, server, emitted, timedOut>>

\* Mutant: the job goes on showing as queued.
RunUnannounced(j) ==
    /\ server # "exited" /\ goroutine[j] = "locked"
    /\ At(j, "running")
    /\ UNCHANGED <<jobs, seq, mutationMu, handler, server, emitted, timedOut>>

Run(j) ==
    /\ server # "exited" /\ goroutine[j] = "locked"
    /\ jobs' = [jobs EXCEPT ![j].status = "running"]
    /\ At(j, "running")
    /\ UNCHANGED <<seq, mutationMu, handler, server, emitted, timedOut>>

Emitted == SumFunctionOnSet([j \in JobId |-> Len(emitted[j])], JobId)

BytesOf(lines) == SumFunctionOnSet([i \in DOMAIN lines |-> lines[i].bytes], DOMAIN lines)

\* Mutant: a line is dropped only when the bound on lines is already exceeded.
KeptLate(old, line) ==
    {k \in 0..Len(old) : \/ k = 0
                         \/ k <= MaxLines
                            /\ BytesOf(SubSeq(old, Len(old) - k + 1, Len(old))) + line.bytes
                                 <= MaxLogBytes}

\* The log callback: the oldest lines go until the new one fits both bounds.
Kept(old, line) ==
    {k \in 0..Len(old) : \/ k = 0
                         \/ k < MaxLines
                            /\ BytesOf(SubSeq(old, Len(old) - k + 1, Len(old))) + line.bytes
                                 <= MaxLogBytes}

\* Mutant: the dropped lines are counted the wrong way round.
LogSwapped(j, bytes) ==
    /\ server # "exited" /\ goroutine[j] = "running" /\ Emitted < MaxEmitted
    /\ LET line == [n |-> Len(emitted[j]) + 1, bytes |-> bytes]
           old == jobs[j].lines
           kept == SubSeq(old, Len(old) - Max(Kept(old, line)) + 1, Len(old))
       IN  /\ emitted' = [emitted EXCEPT ![j] = Append(@, line)]
           /\ jobs' = [jobs EXCEPT ![j].lines = Append(kept, line),
                                   ![j].dropped = @ + Len(kept) - Len(old),
                                   ![j].linesBytes = BytesOf(kept) + bytes]
    /\ UNCHANGED <<seq, mutationMu, goroutine, handler, server, timedOut>>

Log(j, bytes) ==
    /\ server # "exited" /\ goroutine[j] = "running" /\ Emitted < MaxEmitted
    /\ LET line == [n |-> Len(emitted[j]) + 1, bytes |-> bytes]
           old == jobs[j].lines
           kept == SubSeq(old, Len(old) - Max(Kept(old, line)) + 1, Len(old))
       IN  /\ emitted' = [emitted EXCEPT ![j] = Append(@, line)]
           /\ jobs' = [jobs EXCEPT ![j].lines = Append(kept, line),
                                   ![j].dropped = @ + Len(old) - Len(kept),
                                   ![j].linesBytes = BytesOf(kept) + bytes]
    /\ UNCHANGED <<seq, mutationMu, goroutine, handler, server, timedOut>>

\* Mutant: a panic skips the unlock.
OperationEndsLocked(j) ==
    /\ server # "exited" /\ goroutine[j] = "running"
    /\ \/ At(j, "returned") /\ mutationMu' = Nobody
       \/ At(j, "failed") /\ UNCHANGED mutationMu
    /\ UNCHANGED <<jobs, seq, handler, server, emitted, timedOut>>

\* The operation returns, or panics and is recovered; either way the deferred unlock
\* runs, before the outcome is published.
OperationEnds(j) ==
    /\ server # "exited" /\ goroutine[j] = "running"
    /\ mutationMu' = Nobody
    /\ \/ At(j, "returned")
       \/ At(j, "failed")
    /\ UNCHANGED <<jobs, seq, handler, server, emitted, timedOut>>

Publish(j) ==
    /\ server # "exited" /\ goroutine[j] \in {"returned", "failed"}
    /\ jobs' = Prune([jobs EXCEPT ![j].done = TRUE,
                        ![j].status = IF goroutine[j] = "failed" THEN "error" ELSE "done"])
    /\ At(j, "ended")
    /\ UNCHANGED <<seq, mutationMu, handler, server, emitted, timedOut>>

-----------------------------------------------------------------------------
(* Handlers that mutate under withMutation, and the end of the process.    *)

Request(h) ==
    /\ server = "up" /\ handler[h] = "idle"
    /\ handler' = [handler EXCEPT ![h] = "waiting"]
    /\ UNCHANGED <<jobs, seq, mutationMu, goroutine, server, emitted, timedOut>>

HandlerLocks(h) ==
    /\ server # "exited" /\ handler[h] = "waiting"
    /\ mutationMu = Nobody
    /\ mutationMu' = h
    /\ handler' = [handler EXCEPT ![h] = "mutating"]
    /\ UNCHANGED <<jobs, seq, goroutine, server, emitted, timedOut>>

Respond(h) ==
    /\ server # "exited" /\ handler[h] = "mutating"
    /\ mutationMu' = Nobody
    /\ handler' = [handler EXCEPT ![h] = "idle"]
    /\ UNCHANGED <<jobs, seq, goroutine, server, emitted, timedOut>>

\* SIGINT or SIGTERM: Shutdown closes the listener.
Interrupt ==
    /\ server = "up"
    /\ server' = "draining"
    /\ UNCHANGED <<jobs, seq, mutationMu, goroutine, handler, emitted, timedOut>>

\* Shutdown returns when no request is in flight, or after shutdownTimeout; then
\* the process exits, and with it every goroutine.
Exit ==
    /\ server = "draining"
    /\ server' = "exited"
    /\ timedOut' = \E h \in Handler : handler[h] # "idle"
    /\ UNCHANGED <<jobs, seq, mutationMu, goroutine, handler, emitted>>

\* The process is gone, or every admitted job is over and no request in flight.
Stopped ==
    /\ \/ server = "exited"
       \/ seq = MaxJobs /\ Active(jobs) = {}
    /\ UNCHANGED vars

Work(j) == Run(j) \/ OperationEnds(j) \/ Publish(j)

Next ==
    \/ Admit
    \/ \E j \in JobId : Lock(j) \/ Work(j)
    \/ \E j \in JobId, bytes \in LineBytes : Log(j, bytes)
    \/ \E h \in Handler : Request(h) \/ HandlerLocks(h) \/ Respond(h)
    \/ Interrupt \/ Exit \/ Stopped

Spec == Init /\ [][Next]_vars

\* Goroutines run; sync.Mutex serves a starving waiter; operations return: winget
\* runs under a 30-minute context, and the other commands are taken to end.
Fairness ==
    /\ \A j \in JobId : WF_vars(Work(j)) /\ SF_vars(Lock(j))
    /\ \A h \in Handler : WF_vars(Respond(h)) /\ SF_vars(HandlerLocks(h))

FairSpec == Spec /\ Fairness

-----------------------------------------------------------------------------
(* What the job queue promises.                                            *)

\* Whatever jobs and handlers do, at most one mutation of the machine is under way,
\* and it belongs to the owner of the mutex.
OneMutation ==
    LET working == {j \in JobId : goroutine[j] \in {"locked", "running"}}
                   \cup {h \in Handler : handler[h] = "mutating"}
    IN  working \subseteq {mutationMu}

\* The log a client polls is the newest part of what the job emitted, without gaps,
\* within both bounds, and says how many lines were dropped before it.
LogIsNewestPart ==
    \A j \in DOMAIN jobs :
        LET shown == jobs[j].lines
            all == emitted[j]
        IN  /\ jobs[j].dropped + Len(shown) = Len(all)
            /\ \A i \in DOMAIN shown : shown[i] = all[jobs[j].dropped + i]
            /\ Len(shown) <= MaxLines
            /\ jobs[j].linesBytes = BytesOf(shown) /\ BytesOf(shown) <= MaxLogBytes
            /\ all # <<>> => shown # <<>>

\* Live jobs are never dropped, and no more than MaxActive of them are admitted.
LiveJobsTracked ==
    /\ \A j \in JobId : goroutine[j] \notin {"none", "ended"} => j \in Active(jobs)
    /\ Cardinality(Active(jobs)) <= MaxActive

\* A finished job can be polled until MaxRetained jobs admitted after it are over:
\* running jobs never evict a result.
ResultsRetained ==
    \A j \in JobId : goroutine[j] = "ended" /\ j \notin DOMAIN jobs =>
        Cardinality({k \in JobId : k > j /\ goroutine[k] = "ended"}) >= MaxRetained

Rank == [queued |-> 0, running |-> 1, done |-> 2, error |-> 2]

\* What a client polls of a job only advances, from queued over running to one
\* outcome, and its dropped-line count never shrinks.
PollsAdvance ==
    [][\A j \in DOMAIN jobs \cap DOMAIN jobs' :
          /\ jobs'[j].status = jobs[j].status
             \/ Rank[jobs'[j].status] = Rank[jobs[j].status] + 1
          /\ jobs'[j].dropped >= jobs[j].dropped]_vars

\* An admitted job comes to an end, unless the process does first, even if other
\* jobs fail or panic.
JobsEnd ==
    \A j \in JobId : goroutine[j] = "waiting" ~> goroutine[j] = "ended" \/ server = "exited"

\* Unless the wait timed out, the process does not end while a job is inside its operation: a
\* graceful shutdown does not cut a mutation off (cli.go:57-60).
ShutdownWaitsForJobs ==
    server = "exited" /\ ~timedOut => \A j \in JobId : goroutine[j] # "running"

=============================================================================
