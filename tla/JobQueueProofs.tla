--------------------------- MODULE JobQueueProofs ---------------------------
(***************************************************************************)
(* Theorems about the job queue, for every number of handlers, every limit *)
(* on jobs, results, lines and bytes, and every length of a behaviour.     *)
(***************************************************************************)
EXTENDS JobQueue, SetTheorems, SequenceTheorems

-----------------------------------------------------------------------------
(* The inductive invariant.                                                *)

\* What a client may see of a job whose goroutine is at a label.
StatusAt == [none |-> {}, waiting |-> {"queued"}, locked |-> {"queued"},
             running |-> {"running"}, returned |-> {"running"}, failed |-> {"running"},
             ended |-> {"done", "error"}]

\* The table and the goroutines agree: an admitted job has a goroutine, a job whose
\* goroutine is not over is in the table, and what the table says of a job is where its
\* goroutine is.
TableMatches ==
    \A j \in JobId :
        /\ goroutine[j] = "none" <=> j > seq
        /\ goroutine[j] \notin {"none", "ended"} => j \in DOMAIN jobs
        /\ j \in DOMAIN jobs =>
              /\ jobs[j].done <=> goroutine[j] = "ended"
              /\ jobs[j].status \in StatusAt[goroutine[j]]

\* No more jobs are live than the queue admits.
Capacity == Cardinality(Active(jobs)) <= MaxActive

\* What every step of the queue preserves.
QueueInv == TypeOK /\ TableMatches /\ Capacity

-----------------------------------------------------------------------------
(* Lemmas about the operators.                                             *)

\* The identifiers are finitely many numbers.
LEMMA Identifiers ==
  /\ JobId \subseteq Nat /\ IsFiniteSet(JobId)
  /\ \A S \in SUBSET JobId : IsFiniteSet(S) /\ Cardinality(S) \in Nat
<1>1. JobId \subseteq Nat /\ IsFiniteSet(JobId)
  BY Bounds, FS_Interval DEF JobId
<1> QED
  BY <1>1, FS_Subset, FS_CardinalityType

\* pruneJobs keeps every job that is not over and changes none; what it drops is followed
\* by enough finished jobs.
LEMMA PruneKeeps ==
  ASSUME NEW table
  PROVE  /\ DOMAIN Prune(table) \subseteq DOMAIN table
         /\ \A j \in DOMAIN Prune(table) : Prune(table)[j] = table[j]
         /\ Active(Prune(table)) = Active(table)
         /\ \A j \in DOMAIN table : j \notin DOMAIN Prune(table) =>
               /\ table[j].done
               /\ Cardinality({k \in Done(table) : k > j}) >= MaxRetained
<1> DEFINE gone == {j \in Done(table) : Cardinality({k \in Done(table) : k > j}) >= MaxRetained}
<1>1. Prune(table) = [j \in DOMAIN table \ gone |-> table[j]]
  BY DEF Prune
<1>2. \A j \in gone : j \in DOMAIN table /\ table[j].done
                      /\ Cardinality({k \in Done(table) : k > j}) >= MaxRetained
  BY DEF Done, Active
<1> HIDE DEF gone
<1>3. DOMAIN Prune(table) = DOMAIN table \ gone
  BY <1>1
<1>4. \A j \in DOMAIN Prune(table) : Prune(table)[j] = table[j]
  BY <1>1
<1>5. Active(Prune(table)) = Active(table)
  BY <1>2, <1>3, <1>4 DEF Active
<1> QED
  BY <1>2, <1>3, <1>4, <1>5

\* A job that was just admitted is well typed.
LEMMA QueuedTyped == Queued \in Job /\ Queued.status = "queued" /\ ~Queued.done
  BY DEF Queued, Job

\* A line's size is a number, and no more than a log may hold.
LEMMA LineSize == \A l \in Line : l.bytes \in Nat /\ l.bytes <= MaxLogBytes
<1> SUFFICES ASSUME NEW l \in Line PROVE l.bytes \in Nat /\ l.bytes <= MaxLogBytes
  OBVIOUS
<1>1. l.bytes \in LineBytes
  BY DEF Line
<1>2. l.bytes \in 1..MaxLogBytes /\ MaxLogBytes \in Nat
  BY <1>1, Bounds
<1> QED
  BY <1>2

\* What the bytes of a log are: nothing for no lines, and a line adds its own.
LEMMA BytesLaws ==
  ASSUME NEW s \in Seq(Line)
  PROVE  /\ BytesOf(s) \in Nat /\ BytesOf(<<>>) = 0
         /\ \A l \in Line : BytesOf(Append(s, l)) = BytesOf(s) + l.bytes
<1> DEFINE f(t) == [i \in DOMAIN t |-> t[i].bytes]
<1>1. ASSUME NEW t \in Seq(Line)
      PROVE  IsFiniteSet(DOMAIN t) /\ \A i \in DOMAIN t : f(t)[i] \in Nat
  <2>1. DOMAIN t = 1..Len(t) /\ Len(t) \in Nat
    OBVIOUS
  <2>2. IsFiniteSet(DOMAIN t)
    BY <2>1, FS_Interval
  <2>3. \A i \in DOMAIN t : t[i] \in Line
    BY <2>1
  <2> QED
    BY <2>2, <2>3, LineSize
<1>2. \A t \in Seq(Line) : BytesOf(t) \in Nat
  <2> SUFFICES ASSUME NEW t \in Seq(Line) PROVE BytesOf(t) \in Nat
    OBVIOUS
  <2>1. PICK g : g = f(t)
    OBVIOUS
  <2>2. IsFiniteSet(DOMAIN t) /\ \A i \in DOMAIN t : g[i] \in Nat
    BY <1>1, <2>1
  <2>3. SumFunctionOnSet(g, DOMAIN t) \in Nat
    BY <2>2, SumLaws
  <2> QED
    BY <2>1, <2>3 DEF BytesOf
<1>3. BytesOf(<<>>) = 0
  <2>1. DOMAIN <<>> = {} /\ IsFiniteSet({})
    BY FS_EmptySet
  <2>2. SumFunctionOnSet(f(<<>>), {}) = 0
    BY <2>1, SumLaws
  <2> QED
    BY <2>1, <2>2 DEF BytesOf
<1>4. ASSUME NEW l \in Line
      PROVE  BytesOf(Append(s, l)) = BytesOf(s) + l.bytes
  <2>1. PICK t, n : t = Append(s, l) /\ n = Len(s) + 1
    OBVIOUS
  <2>2. t \in Seq(Line)
    BY <2>1
  <2>3. DOMAIN t = 1..n /\ DOMAIN s = 1..Len(s) /\ Len(s) \in Nat
    BY <2>1
  <2>4. n \in DOMAIN t /\ t[n] = l /\ \A i \in DOMAIN s : t[i] = s[i]
    BY <2>1, <2>3
  <2>5. DOMAIN s = (DOMAIN t) \ {n}
    BY <2>1, <2>3
  <2>6. PICK g, h : g = f(t) /\ h = f(s)
    OBVIOUS
  <2>7. IsFiniteSet(DOMAIN t) /\ \A i \in DOMAIN t : g[i] \in Nat
    BY <1>1, <2>2, <2>6
  <2>8. SumFunctionOnSet(g, DOMAIN t) = g[n] + SumFunctionOnSet(g, DOMAIN s)
    BY <2>4, <2>5, <2>7, SumLaws
  <2>9. IsFiniteSet(DOMAIN s) /\ \A i \in DOMAIN s : g[i] = h[i]
    BY <1>1, <2>4, <2>5, <2>6
  <2>10. SumFunctionOnSet(g, DOMAIN s) = SumFunctionOnSet(h, DOMAIN s)
    BY <2>9, SumAgrees
  <2>11. g[n] = l.bytes /\ l.bytes \in Nat
    BY <2>4, <2>6, LineSize
  <2>12. BytesOf(t) = l.bytes + BytesOf(s) /\ BytesOf(s) \in Nat
    BY <1>2, <2>6, <2>8, <2>10, <2>11 DEF BytesOf
  <2> QED
    BY <2>1, <2>11, <2>12
<1> QED
  BY <1>2, <1>3, <1>4

\* No job has emitted more lines than all together.
LEMMA EmittedByOne ==
  ASSUME TypeOK, NEW j \in JobId
  PROVE  Len(emitted[j]) <= Emitted
<1>1. \A k \in JobId : [i \in JobId |-> Len(emitted[i])][k] \in Nat
  BY DEF TypeOK
<1> QED
  BY <1>1, Identifiers, SumLaws DEF Emitted

\* The number of lines that stay when one is appended: the most that fit.
LEMMA KeptMost ==
  ASSUME NEW old \in Seq(Line), NEW line \in Line
  PROVE  /\ Max(Kept(old, line)) \in Kept(old, line)
         /\ Max(Kept(old, line)) \in 0..Len(old)
<1>1. Kept(old, line) \subseteq 0..Len(old) /\ 0 \in Kept(old, line)
  BY DEF Kept
<1>2. IsFiniteSet(0..Len(old)) /\ 0..Len(old) \subseteq Int
  <2>1. Len(old) \in Int
    OBVIOUS
  <2> QED
    BY <2>1, FS_Interval
<1>3. IsFiniteSet(Kept(old, line)) /\ Kept(old, line) \in SUBSET Int /\ Kept(old, line) # {}
  BY <1>1, <1>2, FS_Subset
<1>4. Max(Kept(old, line)) \in Kept(old, line)
  BY <1>3, MaxOfFinite
<1> QED
  BY <1>1, <1>4

-----------------------------------------------------------------------------
(* One lemma per action.                                                   *)

\* The program starts with no jobs.
LEMMA InitInv == Init => QueueInv
<1> SUFFICES ASSUME Init PROVE QueueInv
  OBVIOUS
<1>1. TypeOK
  <2>1. DOMAIN jobs = {} /\ seq \in 0..MaxJobs
    BY Bounds DEF Init
  <2>2. <<>> \in Seq(Line)
    OBVIOUS
  <2>3. emitted \in [JobId -> Seq(Line)]
    BY <2>2 DEF Init
  <2> QED
    BY <2>1, <2>3 DEF Init, TypeOK
<1>2. TableMatches
  BY Identifiers DEF Init, TableMatches
<1>3. Capacity
  <2>1. Active(jobs) = {}
    BY DEF Init, Active
  <2> QED
    BY <2>1, Bounds, FS_EmptySet DEF Capacity
<1> QED
  BY <1>1, <1>2, <1>3 DEF QueueInv

\* Admission takes the next identifier, and pruning never drops the new job.
LEMMA AdmitInv == ASSUME QueueInv, Admit PROVE QueueInv'
<1> USE DEF QueueInv
<1> DEFINE new == seq + 1
           table == [j \in DOMAIN jobs \cup {new} |-> IF j \in DOMAIN jobs THEN jobs[j] ELSE Queued]
<1>0. seq \in Nat /\ new \in JobId /\ new \notin DOMAIN jobs /\ DOMAIN jobs \subseteq JobId
      /\ DOMAIN jobs \subseteq 1..seq
  BY Bounds DEF TypeOK, Admit, JobId
<1>1. jobs' = Prune(table) /\ seq' = new /\ goroutine' = [goroutine EXCEPT ![new] = "waiting"]
  BY DEF Admit, At
<1>2. DOMAIN table = DOMAIN jobs \cup {new} /\ table[new] = Queued
      /\ \A j \in DOMAIN jobs : table[j] = jobs[j]
  BY <1>0
<1> HIDE DEF table
<1>3. Active(table) = Active(jobs) \cup {new}
  BY <1>0, <1>2, QueuedTyped DEF Active
<1>4. /\ DOMAIN jobs' \subseteq DOMAIN table
      /\ \A j \in DOMAIN jobs' : jobs'[j] = table[j]
      /\ Active(jobs') = Active(table)
  BY <1>1, PruneKeeps
<1>5. TypeOK'
  <2>1. DOMAIN jobs' \subseteq 1..seq' /\ seq' \in 0..MaxJobs
    BY <1>0, <1>1, <1>2, <1>4 DEF JobId
  <2>2. \A j \in DOMAIN jobs' : jobs'[j] \in Job
    BY <1>2, <1>4, QueuedTyped DEF TypeOK
  <2> QED
    BY <1>1, <2>1, <2>2 DEF TypeOK, Admit
<1>6. TableMatches'
  <2> SUFFICES ASSUME NEW j \in JobId
               PROVE  /\ goroutine'[j] = "none" <=> j > seq'
                      /\ goroutine'[j] \notin {"none", "ended"} => j \in DOMAIN jobs'
                      /\ j \in DOMAIN jobs' =>
                            /\ jobs'[j].done <=> goroutine'[j] = "ended"
                            /\ jobs'[j].status \in StatusAt[goroutine'[j]]
    BY DEF TableMatches
  <2>1. j \in Active(table) => j \in DOMAIN jobs'
    BY <1>4 DEF Active
  <2>2. CASE j = new
    BY <1>0, <1>1, <1>2, <1>3, <1>4, <2>1, <2>2, QueuedTyped DEF TypeOK, StatusAt
  <2>3. CASE j # new
    <3>1. goroutine'[j] = goroutine[j]
      BY <1>1, <2>3 DEF TypeOK
    <3>2. j > seq' <=> j > seq
      BY <1>0, <1>1, <2>3, Identifiers
    <3>3. j \in DOMAIN jobs' => j \in DOMAIN jobs /\ jobs'[j] = jobs[j]
      BY <1>2, <1>4, <2>3
    <3>4. j \in Active(jobs) => j \in DOMAIN jobs'
      BY <1>3, <2>1
    <3> QED
      BY <3>1, <3>2, <3>3, <3>4 DEF TableMatches, Active
  <2> QED
    BY <2>2, <2>3
<1>7. Capacity'
  <2>1. new \notin Active(jobs) /\ Active(jobs) \in SUBSET JobId
    BY <1>0 DEF Active
  <2>2. Cardinality(Active(jobs) \cup {new}) = Cardinality(Active(jobs)) + 1
    BY <2>1, Identifiers, FS_AddElement
  <2>3. Cardinality(Active(jobs)) < MaxActive /\ Cardinality(Active(jobs)) \in Nat
    BY <2>1, Identifiers DEF Admit
  <2> QED
    BY <1>3, <1>4, <2>2, <2>3, Bounds DEF Capacity
<1> QED
  BY <1>5, <1>6, <1>7

\* A step of one goroutine keeps the table and the goroutines in agreement when it changes
\* no other live job and what the table then says of its own job fits its new label.
LEMMA GoroutineStep ==
  ASSUME TypeOK, TableMatches, NEW j \in JobId, NEW label \in DOMAIN StatusAt,
         At(j, label), UNCHANGED seq, goroutine[j] # "none", label # "none",
         DOMAIN jobs' \subseteq DOMAIN jobs,
         \A k \in DOMAIN jobs' : k # j => jobs'[k] = jobs[k],
         \A k \in DOMAIN jobs : k # j /\ ~jobs[k].done => k \in DOMAIN jobs',
         label # "ended" => j \in DOMAIN jobs',
         j \in DOMAIN jobs' => /\ jobs'[j].done <=> label = "ended"
                               /\ jobs'[j].status \in StatusAt[label]
  PROVE  TableMatches'
<1> SUFFICES ASSUME NEW k \in JobId
             PROVE  /\ goroutine'[k] = "none" <=> k > seq'
                    /\ goroutine'[k] \notin {"none", "ended"} => k \in DOMAIN jobs'
                    /\ k \in DOMAIN jobs' =>
                          /\ jobs'[k].done <=> goroutine'[k] = "ended"
                          /\ jobs'[k].status \in StatusAt[goroutine'[k]]
  BY DEF TableMatches
<1>1. CASE k = j
  <2>1. goroutine'[j] = label
    BY DEF At, TypeOK
  <2> QED
    BY <1>1, <2>1 DEF TableMatches
<1>2. CASE k # j
  <2>1. goroutine'[k] = goroutine[k]
    BY <1>2 DEF At, TypeOK
  <2>2. /\ goroutine[k] = "none" <=> k > seq
        /\ goroutine[k] \notin {"none", "ended"} => k \in DOMAIN jobs
        /\ k \in DOMAIN jobs => /\ jobs[k].done <=> goroutine[k] = "ended"
                                /\ jobs[k].status \in StatusAt[goroutine[k]]
    BY DEF TableMatches
  <2> QED
    BY <1>2, <2>1, <2>2
<1> QED
  BY <1>1, <1>2

\* Capacity holds on as long as no job becomes live.
LEMMA FewerActive ==
  ASSUME TypeOK, Capacity, Active(jobs') \subseteq Active(jobs)
  PROVE  Capacity'
<1>1. Active(jobs) \in SUBSET JobId
  BY Bounds DEF TypeOK, Active, JobId
<1>2. Active(jobs') \in SUBSET JobId
  BY <1>1
<1>3. /\ Cardinality(Active(jobs')) <= Cardinality(Active(jobs))
      /\ Cardinality(Active(jobs')) \in Nat /\ Cardinality(Active(jobs)) \in Nat
  BY <1>1, <1>2, Identifiers, FS_Subset
<1> QED
  BY <1>3, Bounds DEF Capacity

\* A goroutine that takes the mutex does not touch the table.
LEMMA LockInv == ASSUME QueueInv, NEW j \in JobId, Lock(j) PROVE QueueInv'
<1> USE DEF QueueInv
<1>1. TypeOK'
  BY DEF TypeOK, Lock, At
<1>2. TableMatches'
  <2>1. j \in DOMAIN jobs /\ ~jobs[j].done /\ jobs[j].status = "queued"
    BY DEF Lock, TableMatches, StatusAt
  <2> QED
    BY <2>1, GoroutineStep DEF Lock, StatusAt
<1>3. Capacity'
  BY FewerActive DEF Lock
<1> QED
  BY <1>1, <1>2, <1>3

\* The job of a goroutine that runs its operation is in the table, live and running.
LEMMA RunningJob ==
  ASSUME QueueInv, NEW j \in JobId, goroutine[j] \in {"locked", "running", "returned", "failed"}
  PROVE  /\ j \in DOMAIN jobs /\ ~jobs[j].done /\ jobs[j] \in Job
         /\ jobs[j].status = IF goroutine[j] = "locked" THEN "queued" ELSE "running"
  BY SMTT(30) DEF QueueInv, TypeOK, TableMatches, StatusAt

\* The operation returns or panics: the job goes on showing as running.
LEMMA OperationEndsInv == ASSUME QueueInv, NEW j \in JobId, OperationEnds(j) PROVE QueueInv'
<1> USE DEF QueueInv
<1>1. TypeOK'
  BY DEF TypeOK, OperationEnds, At
<1>2. TableMatches'
  <2>1. j \in DOMAIN jobs /\ ~jobs[j].done /\ jobs[j].status = "running"
    BY RunningJob DEF OperationEnds
  <2> QED
    BY <2>1, GoroutineStep DEF OperationEnds, StatusAt
<1>3. Capacity'
  BY FewerActive DEF OperationEnds
<1> QED
  BY <1>1, <1>2, <1>3

\* The operation starts: the job shows as running.
LEMMA RunInv == ASSUME QueueInv, NEW j \in JobId, Run(j) PROVE QueueInv'
<1> USE DEF QueueInv
<1>1. /\ j \in DOMAIN jobs /\ ~jobs[j].done /\ jobs[j] \in Job
      /\ goroutine[j] = "locked" /\ At(j, "running") /\ UNCHANGED seq
  BY RunningJob DEF Run
<1>2. /\ DOMAIN jobs' = DOMAIN jobs /\ \A k \in DOMAIN jobs : k # j => jobs'[k] = jobs[k]
      /\ jobs'[j] = [jobs[j] EXCEPT !.status = "running"]
  BY <1>1 DEF Run
<1>3. jobs'[j] \in Job /\ jobs'[j].status = "running" /\ ~jobs'[j].done
  BY <1>1, <1>2 DEF Job
<1>4. TypeOK'
  <2>1. \A k \in DOMAIN jobs' : jobs'[k] \in Job
    BY <1>2, <1>3 DEF TypeOK
  <2> QED
    BY <1>2, <2>1 DEF TypeOK, Run, At
<1>5. TableMatches'
  BY <1>1, <1>2, <1>3, GoroutineStep DEF StatusAt
<1>6. Capacity'
  BY <1>1, <1>2, <1>3, FewerActive DEF Active
<1> QED
  BY <1>4, <1>5, <1>6

\* The operation's outcome is published: the job is over and may be dropped at once.
LEMMA PublishInv == ASSUME QueueInv, NEW j \in JobId, Publish(j) PROVE QueueInv'
<1> USE DEF QueueInv
<1> DEFINE outcome == IF goroutine[j] = "failed" THEN "error" ELSE "done"
           table == [jobs EXCEPT ![j].done = TRUE, ![j].status = outcome]
<1>1. /\ j \in DOMAIN jobs /\ jobs[j] \in Job /\ goroutine[j] \in {"returned", "failed"}
      /\ At(j, "ended") /\ UNCHANGED seq /\ jobs' = Prune(table)
  BY RunningJob DEF Publish
<1>2. /\ DOMAIN table = DOMAIN jobs /\ \A k \in DOMAIN jobs : k # j => table[k] = jobs[k]
      /\ table[j] \in Job /\ table[j].done /\ table[j].status \in {"done", "error"}
  BY <1>1 DEF Job
<1> HIDE DEF table
<1>3. /\ DOMAIN jobs' \subseteq DOMAIN table
      /\ \A k \in DOMAIN jobs' : jobs'[k] = table[k]
      /\ Active(jobs') = Active(table)
      /\ \A k \in DOMAIN table : ~table[k].done => k \in DOMAIN jobs'
  BY <1>1, PruneKeeps
<1>4. TypeOK'
  <2>1. \A k \in DOMAIN jobs' : jobs'[k] \in Job
    BY <1>2, <1>3 DEF TypeOK
  <2> QED
    BY <1>2, <1>3, <2>1 DEF TypeOK, Publish, At
<1>5. TableMatches'
  BY <1>1, <1>2, <1>3, GoroutineStep DEF StatusAt
<1>6. Capacity'
  BY <1>2, <1>3, FewerActive DEF Active
<1> QED
  BY <1>4, <1>5, <1>6

\* The line a step logs, how many of the lines before it stay, and which they are.
NewLine(j, bytes) == [n |-> Len(emitted[j]) + 1, bytes |-> bytes]
Staying(j, bytes) == Max(Kept(jobs[j].lines, NewLine(j, bytes)))
KeptLines(j, bytes) ==
    SubSeq(jobs[j].lines, Len(jobs[j].lines) - Staying(j, bytes) + 1, Len(jobs[j].lines))

\* What the log callback makes of a job's record.
LEMMA LogRecord ==
  ASSUME QueueInv, NEW j \in JobId, NEW bytes \in LineBytes, Log(j, bytes)
  PROVE  /\ j \in DOMAIN jobs /\ NewLine(j, bytes) \in Line /\ jobs[j].lines \in Seq(Line)
         /\ Staying(j, bytes) \in Kept(jobs[j].lines, NewLine(j, bytes))
         /\ Staying(j, bytes) \in 0..Len(jobs[j].lines)
         /\ KeptLines(j, bytes) \in Seq(Line) /\ Len(KeptLines(j, bytes)) = Staying(j, bytes)
         /\ \A i \in 1..Staying(j, bytes) : KeptLines(j, bytes)[i] =
               jobs[j].lines[i + Len(jobs[j].lines) - Staying(j, bytes)]
         /\ DOMAIN jobs' = DOMAIN jobs /\ \A k \in DOMAIN jobs : k # j => jobs'[k] = jobs[k]
         /\ jobs'[j] = [jobs[j] EXCEPT
                          !.lines = Append(KeptLines(j, bytes), NewLine(j, bytes)),
                          !.dropped = @ + Len(jobs[j].lines) - Staying(j, bytes),
                          !.linesBytes = BytesOf(KeptLines(j, bytes)) + bytes]
         /\ emitted' = [emitted EXCEPT ![j] = Append(@, NewLine(j, bytes))]
<1> DEFINE line == NewLine(j, bytes)
           old == jobs[j].lines
           m == Staying(j, bytes)
           kept == KeptLines(j, bytes)
<1>1. j \in DOMAIN jobs /\ jobs[j] \in Job
  BY RunningJob DEF Log
<1>2. line \in Line
  <2>1. Len(emitted[j]) <= Emitted /\ Len(emitted[j]) \in Nat
    BY EmittedByOne DEF QueueInv, TypeOK
  <2>2. Emitted \in Nat
    <3>1. \A k \in JobId : [i \in JobId |-> Len(emitted[i])][k] \in Nat
      BY DEF QueueInv, TypeOK
    <3> QED
      BY <3>1, Identifiers, SumLaws DEF Emitted
  <2>3. Len(emitted[j]) + 1 \in 1..MaxEmitted
    <3>1. Emitted < MaxEmitted
      BY DEF Log
    <3> QED
      BY <2>1, <2>2, <3>1, Bounds
  <2> QED
    BY <2>3 DEF Line, NewLine
<1>3. old \in Seq(Line)
  BY <1>1 DEF Job
<1>4. m \in Kept(old, line) /\ m \in 0..Len(old)
  <2> HIDE DEF line, old
  <2>1. Max(Kept(old, line)) \in Kept(old, line) /\ Max(Kept(old, line)) \in 0..Len(old)
    BY <1>2, <1>3, KeptMost
  <2> QED
    BY <2>1 DEF line, old, Staying
<1>5. /\ kept \in Seq(Line) /\ Len(kept) = m
      /\ \A i \in 1..m : kept[i] = old[i + Len(old) - m]
  <2> DEFINE lo == Len(old) - m + 1
  <2>1. kept = SubSeq(old, lo, Len(old))
    BY DEF KeptLines
  <2> HIDE DEF old, m, kept
  <2>2. lo \in Int /\ Len(old) \in Int /\ m \in Nat /\ Len(old) - lo + 1 = m
        /\ (lo > Len(old) => m = 0) /\ (\A i \in lo..Len(old) : old[i] \in Line)
    BY <1>3, <1>4
  <2>3. \A i \in 1..m : lo + i - 1 = i + Len(old) - m
    BY <1>3, <1>4
  <2> HIDE DEF lo
  <2>4. /\ kept \in Seq(Line)
        /\ Len(kept) = IF lo <= Len(old) THEN Len(old) - lo + 1 ELSE 0
        /\ \A i \in 1..(Len(old) - lo + 1) : kept[i] = old[lo + i - 1]
    BY <2>1, <2>2, SubSeqProperties
  <2>5. Len(kept) = m
    BY <2>2, <2>4
  <2>6. ASSUME NEW i \in 1..m PROVE kept[i] = old[i + Len(old) - m]
    <3>1. kept[i] = old[lo + i - 1]
      BY <2>2, <2>4
    <3> QED
      BY <2>3, <3>1
  <2> QED
    BY <2>4, <2>5, <2>6
<1>6. /\ jobs' = [jobs EXCEPT ![j].lines = Append(kept, line),
                              ![j].dropped = @ + Len(old) - Len(kept),
                              ![j].linesBytes = BytesOf(kept) + bytes]
      /\ emitted' = [emitted EXCEPT ![j] = Append(@, line)]
  BY DEF Log, NewLine, KeptLines, Staying
<1> HIDE DEF line, old, m, kept
<1>7. /\ DOMAIN jobs' = DOMAIN jobs /\ \A k \in DOMAIN jobs : k # j => jobs'[k] = jobs[k]
      /\ jobs'[j] = [jobs[j] EXCEPT !.lines = Append(kept, line),
                                    !.dropped = @ + Len(old) - m,
                                    !.linesBytes = BytesOf(kept) + bytes]
  BY <1>1, <1>5, <1>6
<1> QED
  BY <1>1, <1>2, <1>3, <1>4, <1>5, <1>6, <1>7 DEF line, old, m, kept

\* A line is logged: the job goes on showing as running.
LEMMA LogInv ==
  ASSUME QueueInv, NEW j \in JobId, NEW bytes \in LineBytes, Log(j, bytes)
  PROVE  QueueInv'
<1> USE DEF QueueInv
<1> DEFINE line == NewLine(j, bytes)
           old == jobs[j].lines
           m == Staying(j, bytes)
           kept == KeptLines(j, bytes)
<1>1. line.bytes = bytes
  BY DEF NewLine
<1>4. /\ line \in Line /\ old \in Seq(Line) /\ kept \in Seq(Line) /\ m \in 0..Len(old)
      /\ DOMAIN jobs' = DOMAIN jobs /\ \A k \in DOMAIN jobs : k # j => jobs'[k] = jobs[k]
      /\ jobs'[j] = [jobs[j] EXCEPT !.lines = Append(kept, line),
                                    !.dropped = @ + Len(old) - m,
                                    !.linesBytes = BytesOf(kept) + bytes]
      /\ emitted' = [emitted EXCEPT ![j] = Append(@, line)]
  BY LogRecord
<1> HIDE DEF line, old, m, kept
<1>5. j \in DOMAIN jobs /\ jobs[j] \in Job /\ ~jobs[j].done /\ goroutine[j] = "running"
      /\ jobs[j].status = "running"
  BY RunningJob DEF Log
<1>6. jobs'[j] \in Job /\ jobs'[j].status = "running" /\ ~jobs'[j].done
  <2>1. BytesOf(kept) + bytes \in Nat
    BY <1>1, <1>4, BytesLaws, LineSize
  <2>2. jobs[j].dropped + Len(old) - m \in Nat
    <3>1. jobs[j].dropped \in Nat /\ Len(old) \in Nat
      BY <1>4, <1>5 DEF Job, old
    <3> QED
      BY <1>4, <3>1
  <2>3. Append(kept, line) \in Seq(Line)
    BY <1>4
  <2> QED
    BY <1>4, <1>5, <2>1, <2>2, <2>3 DEF Job
<1>7. TypeOK'
  <2>1. \A k \in DOMAIN jobs' : jobs'[k] \in Job
    BY <1>4, <1>6 DEF TypeOK
  <2>2. emitted' \in [JobId -> Seq(Line)]
    BY <1>4 DEF TypeOK
  <2> QED
    BY <1>4, <2>1, <2>2 DEF TypeOK, Log
<1>8. TableMatches'
  BY <1>4, <1>5, <1>6 DEF Log, TableMatches, StatusAt
<1>9. Capacity'
  BY <1>4, <1>5, <1>6, FewerActive DEF Active
<1> QED
  BY <1>7, <1>8, <1>9

\* A handler's steps, the signal, the end of the process and stuttering leave jobs and
\* goroutines alone.
LEMMA OtherInv ==
  ASSUME QueueInv,
         \/ \E h \in Handler : Request(h) \/ HandlerLocks(h) \/ Respond(h)
         \/ Interrupt \/ Exit \/ UNCHANGED vars
  PROVE  QueueInv'
<1>1. UNCHANGED <<jobs, seq, goroutine, emitted>>
  BY DEF Request, HandlerLocks, Respond, Interrupt, Exit, vars
<1>2. TableMatches' /\ Capacity'
  BY <1>1 DEF QueueInv, TableMatches, Capacity
<1>3. TypeOK'
  <2>1. mutationMu' \in JobId \cup Handler \cup {Nobody}
    BY DEF QueueInv, TypeOK, Request, HandlerLocks, Respond, Interrupt, Exit, vars
  <2>2. handler' \in [Handler -> {"idle", "waiting", "mutating"}]
    BY DEF QueueInv, TypeOK, Request, HandlerLocks, Respond, Interrupt, Exit, vars
  <2>3. server' \in {"up", "draining", "exited"} /\ timedOut' \in BOOLEAN
    BY DEF QueueInv, TypeOK, Request, HandlerLocks, Respond, Interrupt, Exit, vars
  <2> QED
    BY <1>1, <2>1, <2>2, <2>3 DEF QueueInv, TypeOK
<1> QED
  BY <1>2, <1>3 DEF QueueInv

\* The disjuncts of a step.
LEMMA StepCases ==
  ASSUME [Next]_vars
  PROVE  \/ Admit
         \/ \E j \in JobId : Lock(j) \/ Run(j) \/ OperationEnds(j) \/ Publish(j)
         \/ \E j \in JobId, bytes \in LineBytes : Log(j, bytes)
         \/ \E h \in Handler : Request(h) \/ HandlerLocks(h) \/ Respond(h)
         \/ Interrupt \/ Exit \/ UNCHANGED vars
  BY DEF Next, Work, Stopped

\* Every step preserves the invariant.
LEMMA QueueStep == ASSUME QueueInv, [Next]_vars PROVE QueueInv'
<1>1. CASE Admit
  BY <1>1, AdmitInv
<1>2. ASSUME NEW j \in JobId, Lock(j) \/ Run(j) \/ OperationEnds(j) \/ Publish(j)
      PROVE  QueueInv'
  BY <1>2, LockInv, RunInv, OperationEndsInv, PublishInv
<1>3. ASSUME NEW j \in JobId, NEW bytes \in LineBytes, Log(j, bytes)
      PROVE  QueueInv'
  BY <1>3, LogInv
<1>4. CASE \/ \E h \in Handler : Request(h) \/ HandlerLocks(h) \/ Respond(h)
           \/ Interrupt \/ Exit \/ UNCHANGED vars
  BY <1>4, OtherInv
<1> QED
  BY <1>1, <1>2, <1>3, <1>4, StepCases

-----------------------------------------------------------------------------
(* The theorems.                                                           *)

\* The table, the goroutines and the capacity agree in every state.
THEOREM TableFaithful == Spec => []QueueInv
<1>1. Init => QueueInv
  BY InitInv
<1>2. QueueInv /\ [Next]_vars => QueueInv'
  BY QueueStep
<1> QED
  BY <1>1, <1>2, PTL DEF Spec

\* Every variable keeps its type.
THEOREM QueueTypes == Spec => []TypeOK
<1>1. QueueInv => TypeOK
  BY DEF QueueInv
<1> QED
  BY <1>1, TableFaithful, PTL

\* Live jobs are in the table, and no more of them than the queue admits.
THEOREM LiveJobsStay == Spec => []LiveJobsTracked
<1>1. QueueInv => LiveJobsTracked
  BY DEF QueueInv, TableMatches, Capacity, LiveJobsTracked, Active
<1> QED
  BY <1>1, TableFaithful, PTL

\* The mutex admits one mutation at a time, whoever wants it.
THEOREM MutationsExclude == Spec => []OneMutation
<1> DEFINE working == {j \in JobId : goroutine[j] \in {"locked", "running"}}
                      \cup {h \in Handler : handler[h] = "mutating"}
<1>1. Init => OneMutation
  BY DEF Init, OneMutation
<1>2. ASSUME QueueInv, OneMutation, [Next]_vars PROVE OneMutation'
  <2> USE DEF QueueInv, TypeOK
  <2>1. CASE Admit
    BY <1>2, <2>1 DEF Admit, At, OneMutation
  <2>2. ASSUME NEW j \in JobId, Lock(j) PROVE OneMutation'
    <3>1. working = {} /\ mutationMu' = j
      BY <1>2, <2>2, Bounds DEF Lock, OneMutation
    <3> QED
      BY <2>2, <3>1 DEF Lock, At, OneMutation
  <2>3. ASSUME NEW j \in JobId, Run(j) PROVE OneMutation'
    BY <1>2, <2>3 DEF Run, At, OneMutation
  <2>4. ASSUME NEW j \in JobId, OperationEnds(j) PROVE OneMutation'
    <3>1. working \subseteq {j}
      BY <1>2, <2>4 DEF OperationEnds, OneMutation
    <3>2. j \notin Handler /\ UNCHANGED handler
          /\ goroutine'[j] \notin {"locked", "running"}
          /\ \A k \in JobId : k # j => goroutine'[k] = goroutine[k]
      BY <1>2, <2>4, Bounds DEF OperationEnds, At
    <3> QED
      BY <3>1, <3>2 DEF OneMutation
  <2>5. ASSUME NEW j \in JobId, Publish(j) PROVE OneMutation'
    BY <1>2, <2>5 DEF Publish, At, OneMutation
  <2>6. ASSUME NEW j \in JobId, NEW bytes \in LineBytes, Log(j, bytes) PROVE OneMutation'
    <3>1. UNCHANGED <<mutationMu, goroutine, handler>>
      BY <2>6 DEF Log
    <3> QED
      BY <1>2, <3>1 DEF OneMutation
  <2>7. ASSUME NEW h \in Handler, Request(h) PROVE OneMutation'
    BY <1>2, <2>7 DEF Request, OneMutation
  <2>8. ASSUME NEW h \in Handler, HandlerLocks(h) PROVE OneMutation'
    <3>1. working = {} /\ mutationMu' = h
      BY <1>2, <2>8, Bounds DEF HandlerLocks, OneMutation
    <3> QED
      BY <2>8, <3>1 DEF HandlerLocks, OneMutation
  <2>9. ASSUME NEW h \in Handler, Respond(h) PROVE OneMutation'
    <3>1. working \subseteq {h} /\ h \notin JobId
      BY <1>2, <2>9, Bounds DEF Respond, OneMutation
    <3>2. UNCHANGED goroutine /\ handler' = [handler EXCEPT ![h] = "idle"]
      BY <2>9 DEF Respond
    <3> QED
      BY <1>2, <3>1, <3>2 DEF OneMutation
  <2>10. CASE Interrupt \/ Exit \/ UNCHANGED vars
    <3>1. UNCHANGED <<mutationMu, goroutine, handler>>
      BY <2>10 DEF Interrupt, Exit, vars
    <3> QED
      BY <1>2, <3>1 DEF OneMutation
  <2> QED
    BY <1>2, <2>1, <2>2, <2>3, <2>4, <2>5, <2>6, <2>7, <2>8, <2>9, <2>10, StepCases
<1> QED
  BY <1>1, <1>2, TableFaithful, PTL DEF Spec

\* Admission takes an identifier that no job and no goroutine has.
LEMMA NewJob ==
  ASSUME QueueInv, Admit
  PROVE  /\ seq + 1 \in JobId /\ seq + 1 \notin DOMAIN jobs /\ goroutine[seq + 1] = "none"
         /\ DOMAIN jobs \subseteq JobId
<1>1. seq \in Nat /\ seq + 1 \in JobId /\ DOMAIN jobs \subseteq 1..seq
  BY Bounds DEF QueueInv, TypeOK, Admit, JobId
<1> QED
  BY <1>1, Bounds DEF QueueInv, TypeOK, TableMatches, JobId

\* Ended jobs stay ended, and counting more of them never gives less.
LEMMA EndedCount ==
  ASSUME TypeOK, TypeOK', NEW j \in JobId,
         \A k \in JobId : goroutine[k] = "ended" => goroutine'[k] = "ended",
         Cardinality({k \in JobId : k > j /\ goroutine[k] = "ended"}) >= MaxRetained
  PROVE  Cardinality({k \in JobId : k > j /\ goroutine'[k] = "ended"}) >= MaxRetained
<1> DEFINE before == {k \in JobId : k > j /\ goroutine[k] = "ended"}
           after == {k \in JobId : k > j /\ goroutine'[k] = "ended"}
<1>1. before \subseteq after /\ before \in SUBSET JobId /\ after \in SUBSET JobId
  OBVIOUS
<1> HIDE DEF before, after
<1>2. /\ Cardinality(before) <= Cardinality(after)
      /\ Cardinality(before) \in Nat /\ Cardinality(after) \in Nat
  BY <1>1, Identifiers, FS_Subset
<1> QED
  BY <1>2, Bounds DEF before, after

\* What pruning drops from a table whose finished jobs have ended is followed by enough
\* jobs that have ended.
LEMMA PrunedAfterEnough ==
  ASSUME TypeOK', NEW table, DOMAIN table \subseteq JobId, jobs' = Prune(table),
         \A k \in DOMAIN table : table[k].done => goroutine'[k] = "ended",
         NEW j \in DOMAIN table, j \notin DOMAIN jobs'
  PROVE  Cardinality({k \in JobId : k > j /\ goroutine'[k] = "ended"}) >= MaxRetained
<1> DEFINE done == {k \in Done(table) : k > j}
           ended == {k \in JobId : k > j /\ goroutine'[k] = "ended"}
<1>1. Cardinality(done) >= MaxRetained
  BY PruneKeeps
<1>2. done \subseteq ended /\ done \in SUBSET JobId /\ ended \in SUBSET JobId
  BY DEF Done, Active
<1> HIDE DEF done, ended
<1>3. /\ Cardinality(done) <= Cardinality(ended)
      /\ Cardinality(done) \in Nat /\ Cardinality(ended) \in Nat
  BY <1>2, Identifiers, FS_Subset
<1> QED
  BY <1>1, <1>3, Bounds DEF ended

\* A finished job can be polled until enough jobs after it are over.
THEOREM ResultsStay == Spec => []ResultsRetained
<1>1. Init => ResultsRetained
  BY DEF Init, ResultsRetained
<1>2. ASSUME QueueInv, QueueInv', ResultsRetained, [Next]_vars PROVE ResultsRetained'
  <2> USE DEF QueueInv
  <2>0. DOMAIN jobs \subseteq JobId
    BY <1>2, Bounds DEF TypeOK, JobId
  <2>1. ASSUME \A k \in JobId : goroutine[k] = "ended" => goroutine'[k] = "ended",
               \A k \in JobId : goroutine'[k] = "ended" /\ k \notin DOMAIN jobs'
                                => goroutine[k] = "ended" /\ k \notin DOMAIN jobs
        PROVE  ResultsRetained'
    <3> SUFFICES ASSUME NEW j \in JobId, goroutine'[j] = "ended", j \notin DOMAIN jobs'
                 PROVE  Cardinality({k \in JobId : k > j /\ goroutine'[k] = "ended"})
                           >= MaxRetained
      BY DEF ResultsRetained
    <3>1. Cardinality({k \in JobId : k > j /\ goroutine[k] = "ended"}) >= MaxRetained
      BY <1>2, <2>1 DEF ResultsRetained
    <3> QED
      BY <1>2, <2>1, <3>1, EndedCount
  <2>2. ASSUME NEW table, DOMAIN table \subseteq JobId, DOMAIN jobs \subseteq DOMAIN table,
               jobs' = Prune(table),
               \A k \in DOMAIN table : table[k].done => goroutine'[k] = "ended",
               \A k \in JobId : goroutine[k] = "ended" => goroutine'[k] = "ended",
               \A k \in JobId : goroutine'[k] = "ended" /\ k \notin DOMAIN table
                                => goroutine[k] = "ended"
        PROVE  ResultsRetained'
    <3> SUFFICES ASSUME NEW j \in JobId, goroutine'[j] = "ended", j \notin DOMAIN jobs'
                 PROVE  Cardinality({k \in JobId : k > j /\ goroutine'[k] = "ended"})
                           >= MaxRetained
      BY DEF ResultsRetained
    <3>1. CASE j \in DOMAIN table
      BY <1>2, <2>2, <3>1, PrunedAfterEnough
    <3>2. CASE j \notin DOMAIN table
      <4>1. Cardinality({k \in JobId : k > j /\ goroutine[k] = "ended"}) >= MaxRetained
        BY <1>2, <2>2, <3>2 DEF ResultsRetained
      <4> QED
        BY <1>2, <2>2, <4>1, EndedCount
    <3> QED
      BY <3>1, <3>2
  <2>3. CASE Admit
    <3> DEFINE new == seq + 1
               table == [k \in DOMAIN jobs \cup {new} |->
                           IF k \in DOMAIN jobs THEN jobs[k] ELSE Queued]
    <3>1. new \in JobId /\ new \notin DOMAIN jobs /\ goroutine[new] = "none"
      BY <1>2, <2>3, NewJob
    <3>2. jobs' = Prune(table) /\ goroutine' = [goroutine EXCEPT ![new] = "waiting"]
      BY <2>3 DEF Admit, At
    <3>3. /\ goroutine'[new] = "waiting"
          /\ \A k \in JobId : k # new => goroutine'[k] = goroutine[k]
      BY <1>2, <3>1, <3>2 DEF TypeOK
    <3>4. /\ DOMAIN table = DOMAIN jobs \cup {new}
          /\ \A k \in DOMAIN table : table[k].done => goroutine'[k] = "ended"
      <4>1. \A k \in DOMAIN jobs : table[k] = jobs[k] /\ goroutine'[k] = goroutine[k]
        BY <2>0, <3>1, <3>3
      <4>2. ~table[new].done
        BY <3>1, QueuedTyped
      <4> QED
        BY <1>2, <2>0, <4>1, <4>2 DEF TableMatches
    <3> HIDE DEF table
    <3> QED
      BY <2>0, <2>2, <3>1, <3>2, <3>3, <3>4
  <2>4. ASSUME NEW j \in JobId, Publish(j) PROVE ResultsRetained'
    <3> DEFINE table == [jobs EXCEPT ![j].done = TRUE,
                           ![j].status = IF goroutine[j] = "failed" THEN "error" ELSE "done"]
    <3>1. jobs' = Prune(table) /\ goroutine' = [goroutine EXCEPT ![j] = "ended"]
      BY <2>4 DEF Publish, At
    <3>2. DOMAIN table = DOMAIN jobs /\ j \in DOMAIN jobs
          /\ \A k \in DOMAIN table : k # j => table[k] = jobs[k]
      BY <1>2, <2>4, RunningJob DEF Publish
    <3>3. /\ goroutine'[j] = "ended"
          /\ \A k \in JobId : k # j => goroutine'[k] = goroutine[k]
      BY <1>2, <3>1 DEF TypeOK
    <3>4. \A k \in DOMAIN table : table[k].done => goroutine'[k] = "ended"
      BY <1>2, <2>0, <3>2, <3>3 DEF TableMatches
    <3> HIDE DEF table
    <3> QED
      BY <2>0, <2>2, <3>1, <3>2, <3>3, <3>4
  <2>5. ASSUME NEW j \in JobId, Lock(j) \/ Run(j) \/ OperationEnds(j) PROVE ResultsRetained'
    <3>1. /\ DOMAIN jobs' = DOMAIN jobs /\ goroutine[j] # "ended" /\ goroutine'[j] # "ended"
          /\ \A k \in JobId : k # j => goroutine'[k] = goroutine[k]
      BY <1>2, <2>5 DEF Lock, Run, OperationEnds, At, TypeOK
    <3> QED
      BY <2>1, <3>1
  <2>6. ASSUME NEW j \in JobId, NEW bytes \in LineBytes, Log(j, bytes) PROVE ResultsRetained'
    <3>1. DOMAIN jobs' = DOMAIN jobs
      BY <1>2, <2>6, LogRecord
    <3>2. UNCHANGED goroutine
      BY <2>6 DEF Log
    <3> QED
      BY <2>1, <3>1, <3>2
  <2>7. CASE \/ \E h \in Handler : Request(h) \/ HandlerLocks(h) \/ Respond(h)
             \/ Interrupt \/ Exit \/ UNCHANGED vars
    <3>1. UNCHANGED <<jobs, goroutine>>
      BY <2>7 DEF Request, HandlerLocks, Respond, Interrupt, Exit, vars
    <3> QED
      BY <1>2, <3>1 DEF ResultsRetained
  <2> QED
    BY <1>2, <2>3, <2>4, <2>5, <2>6, <2>7, StepCases
<1> QED
  BY <1>1, <1>2, TableFaithful, PTL DEF Spec

-----------------------------------------------------------------------------
(* The log a client polls.                                                 *)

\* A job that was not admitted has logged nothing.
NothingLoggedYet == \A j \in JobId : goroutine[j] = "none" => emitted[j] = <<>>

\* One job's part of LogIsNewestPart.
LogOf(j) ==
    /\ jobs[j].dropped + Len(jobs[j].lines) = Len(emitted[j])
    /\ \A i \in DOMAIN jobs[j].lines : jobs[j].lines[i] = emitted[j][jobs[j].dropped + i]
    /\ Len(jobs[j].lines) <= MaxLines
    /\ jobs[j].linesBytes = BytesOf(jobs[j].lines) /\ BytesOf(jobs[j].lines) <= MaxLogBytes
    /\ emitted[j] # <<>> => jobs[j].lines # <<>>

\* LogIsNewestPart, job by job.
LEMMA LogByJob == LogIsNewestPart <=> \A j \in DOMAIN jobs : LogOf(j)
  BY DEF LogIsNewestPart, LogOf

\* A job that neither logs nor starts keeps its log.
LEMMA LogKept ==
  ASSUME NEW j, LogOf(j), emitted'[j] = emitted[j],
         jobs'[j].lines = jobs[j].lines, jobs'[j].dropped = jobs[j].dropped,
         jobs'[j].linesBytes = jobs[j].linesBytes
  PROVE  LogOf(j)'
  BY DEF LogOf

\* A logged line joins the newest part, and what it pushes out is counted.
LEMMA LogAppended ==
  ASSUME QueueInv, NEW j \in JobId, NEW bytes \in LineBytes, Log(j, bytes), LogOf(j)
  PROVE  LogOf(j)'
<1> DEFINE line == NewLine(j, bytes)
           old == jobs[j].lines
           m == Staying(j, bytes)
           kept == KeptLines(j, bytes)
           d == jobs[j].dropped
           all == emitted[j]
<1>1. /\ line \in Line /\ old \in Seq(Line) /\ kept \in Seq(Line)
      /\ m \in Kept(old, line) /\ m \in 0..Len(old) /\ Len(kept) = m
      /\ \A i \in 1..m : kept[i] = old[i + Len(old) - m]
  BY LogRecord
<1>2. d \in Nat /\ all \in Seq(Line) /\ line.bytes = bytes
  <2>1. j \in DOMAIN jobs
    BY LogRecord
  <2> QED
    BY <2>1 DEF QueueInv, TypeOK, Job, NewLine
<1>3. /\ jobs'[j].lines = Append(kept, line)
      /\ jobs'[j].dropped = d + Len(old) - m
      /\ jobs'[j].linesBytes = BytesOf(kept) + bytes
      /\ emitted'[j] = Append(all, line)
  <2>1. /\ j \in DOMAIN jobs /\ jobs[j] \in Job /\ emitted \in [JobId -> Seq(Line)]
        /\ jobs'[j] = [jobs[j] EXCEPT !.lines = Append(kept, line),
                                      !.dropped = @ + Len(old) - m,
                                      !.linesBytes = BytesOf(kept) + bytes]
        /\ emitted' = [emitted EXCEPT ![j] = Append(@, line)]
    BY LogRecord DEF QueueInv, TypeOK
  <2> QED
    BY <2>1 DEF Job
<1>4. /\ d + Len(old) = Len(all)
      /\ \A i \in DOMAIN old : old[i] = all[d + i]
  BY DEF LogOf
<1>5. /\ m < MaxLines
      /\ kept = <<>> \/ BytesOf(kept) + bytes <= MaxLogBytes
  <2>1. m = 0 \/ (m < MaxLines /\ BytesOf(kept) + line.bytes <= MaxLogBytes)
    <3>1. kept = SubSeq(old, Len(old) - m + 1, Len(old))
      BY DEF KeptLines
    <3>2. m \in Kept(old, line)
      BY <1>1
    <3> HIDE DEF line, old, m, kept
    <3>3. \/ m = 0
          \/ m < MaxLines
             /\ BytesOf(SubSeq(old, Len(old) - m + 1, Len(old))) + line.bytes <= MaxLogBytes
      BY <3>2 DEF Kept
    <3> QED
      BY <3>1, <3>3
  <2>2. m = 0 => kept = <<>>
    BY <1>1
  <2> QED
    BY <1>2, <2>1, <2>2, Bounds
<1> HIDE DEF line, old, m, kept, d, all
<1>6. BytesOf(Append(kept, line)) = BytesOf(kept) + bytes
      /\ BytesOf(Append(kept, line)) <= MaxLogBytes
  <2>1. BytesOf(Append(kept, line)) = BytesOf(kept) + bytes
    BY <1>1, <1>2, BytesLaws
  <2>2. BytesOf(<<>>) = 0 /\ bytes \in Nat /\ bytes <= MaxLogBytes
    BY <1>1, <1>2, BytesLaws, LineSize
  <2> QED
    BY <1>5, <2>1, <2>2
<1>7. /\ (d + Len(old) - m) + Len(Append(kept, line)) = Len(Append(all, line))
      /\ Len(Append(kept, line)) <= MaxLines /\ Append(kept, line) # <<>>
  <2>1. /\ Len(Append(kept, line)) = m + 1 /\ Append(kept, line) \in Seq(Line)
        /\ Len(Append(all, line)) = Len(all) + 1 /\ Len(all) \in Nat /\ Len(old) \in Nat
    BY <1>1, <1>2
  <2>2. Append(kept, line) # <<>>
    BY <1>1
  <2>3. (d + Len(old) - m) + (m + 1) = Len(all) + 1
    <3>1. d \in Nat /\ m \in Nat
      BY <1>1, <1>2, <2>1
    <3> QED
      BY <1>4, <2>1, <3>1
  <2>4. m + 1 <= MaxLines
    BY <1>1, <1>5, <2>1, Bounds
  <2> QED
    BY <2>1, <2>2, <2>3, <2>4
<1>8. ASSUME NEW i \in DOMAIN Append(kept, line)
      PROVE  Append(kept, line)[i] = Append(all, line)[d + Len(old) - m + i]
  <2>1. i \in 1..(m + 1) /\ m \in Nat
    BY <1>1
  <2>2. CASE i = m + 1
    <3>1. Append(kept, line)[i] = line
      BY <1>1, <2>2
    <3>2. d + Len(old) - m + i = Len(all) + 1
      BY <1>1, <1>2, <1>4, <2>2
    <3> QED
      BY <1>2, <3>1, <3>2
  <2>3. CASE i \in 1..m
    <3>1. Append(kept, line)[i] = kept[i] /\ kept[i] = old[i + Len(old) - m]
      BY <1>1, <2>3
    <3>2. i + Len(old) - m \in DOMAIN old
      BY <1>1, <2>3
    <3>3. old[i + Len(old) - m] = all[d + (i + Len(old) - m)]
      BY <1>4, <3>2
    <3>4. d + (i + Len(old) - m) = d + Len(old) - m + i
          /\ d + Len(old) - m + i \in 1..Len(all)
      BY <1>1, <1>2, <1>4, <2>3
    <3> QED
      BY <1>2, <3>1, <3>3, <3>4
  <2>4. i = m + 1 \/ i \in 1..m
    BY <2>1
  <2> QED
    BY <2>2, <2>3, <2>4
<1> QED
  BY <1>3, <1>6, <1>7, <1>8 DEF LogOf

\* The log a client polls is the newest part of what the job emitted.
THEOREM LogFaithful == Spec => []LogIsNewestPart
<1> DEFINE LogsAgree == NothingLoggedYet /\ \A j \in DOMAIN jobs : LogOf(j)
<1>1. Init => LogsAgree
  BY DEF Init, NothingLoggedYet
<1>2. ASSUME QueueInv, LogsAgree, [Next]_vars PROVE LogsAgree'
  <2> USE DEF QueueInv
  <2>0. DOMAIN jobs \subseteq JobId
    BY <1>2, Bounds DEF TypeOK, JobId
  <2>1. CASE Admit
    <3> DEFINE new == seq + 1
               table == [k \in DOMAIN jobs \cup {new} |->
                           IF k \in DOMAIN jobs THEN jobs[k] ELSE Queued]
    <3>1. new \in JobId /\ new \notin DOMAIN jobs /\ goroutine[new] = "none"
      BY <1>2, <2>1, NewJob
    <3>2. /\ jobs' = Prune(table) /\ UNCHANGED emitted
          /\ goroutine' = [goroutine EXCEPT ![new] = "waiting"]
      BY <2>1 DEF Admit, At
    <3>3. DOMAIN jobs' \subseteq DOMAIN table /\ \A k \in DOMAIN jobs' : jobs'[k] = table[k]
      BY <3>2, PruneKeeps
    <3>4. \A k \in DOMAIN jobs' : k # new => k \in DOMAIN jobs /\ jobs'[k] = jobs[k]
      BY <3>3
    <3>5. new \in DOMAIN jobs' => jobs'[new] = Queued
      BY <3>1, <3>3
    <3> HIDE DEF table
    <3>6. NothingLoggedYet'
      BY <1>2, <3>1, <3>2 DEF NothingLoggedYet, TypeOK
    <3>7. ASSUME NEW k \in DOMAIN jobs' PROVE LogOf(k)'
      <4>1. CASE k = new
        <5>1. emitted'[k] = <<>>
          BY <1>2, <3>1, <3>2, <4>1 DEF NothingLoggedYet
        <5>2. jobs'[k].lines = <<>> /\ jobs'[k].dropped = 0 /\ jobs'[k].linesBytes = 0
          BY <3>5, <4>1 DEF Queued
        <5>3. BytesOf(<<>>) = 0
          <6>1. <<>> \in Seq(Line)
            OBVIOUS
          <6> QED
            BY <6>1, BytesLaws
        <5> QED
          BY <5>1, <5>2, <5>3, Bounds DEF LogOf
      <4>2. CASE k # new
        BY <1>2, <3>2, <3>4, <4>2, LogKept
      <4> QED
        BY <4>1, <4>2
    <3> QED
      BY <3>6, <3>7
  <2>2. ASSUME NEW j \in JobId, NEW bytes \in LineBytes, Log(j, bytes) PROVE LogsAgree'
    <3>1. /\ j \in DOMAIN jobs
          /\ DOMAIN jobs' = DOMAIN jobs /\ \A k \in DOMAIN jobs : k # j => jobs'[k] = jobs[k]
          /\ emitted' = [emitted EXCEPT ![j] = Append(@, NewLine(j, bytes))]
      BY <1>2, <2>2, LogRecord
    <3>2. UNCHANGED goroutine /\ goroutine[j] = "running"
      BY <2>2 DEF Log
    <3>3. NothingLoggedYet'
      BY <1>2, <3>1, <3>2 DEF NothingLoggedYet, TypeOK
    <3>4. \A k \in DOMAIN jobs : k # j => LogOf(k)'
      <4>1. \A k \in DOMAIN jobs : k # j => emitted'[k] = emitted[k]
        BY <1>2, <2>0, <3>1 DEF TypeOK
      <4> QED
        BY <1>2, <3>1, <4>1, LogKept
    <3>5. LogOf(j)'
      BY <1>2, <2>2, <3>1, LogAppended
    <3> QED
      BY <3>1, <3>3, <3>4, <3>5
  <2>3. ASSUME UNCHANGED emitted,
               \A k \in JobId : goroutine'[k] = "none" => goroutine[k] = "none",
               \A k \in DOMAIN jobs' : /\ k \in DOMAIN jobs
                                       /\ jobs'[k].lines = jobs[k].lines
                                       /\ jobs'[k].dropped = jobs[k].dropped
                                       /\ jobs'[k].linesBytes = jobs[k].linesBytes
        PROVE  LogsAgree'
    BY <1>2, <2>3, LogKept DEF NothingLoggedYet
  <2>4. ASSUME NEW j \in JobId, Lock(j) \/ Run(j) \/ OperationEnds(j) \/ Publish(j) PROVE LogsAgree'
    <3>1. UNCHANGED emitted /\ \A k \in JobId : goroutine'[k] = "none" => goroutine[k] = "none"
      BY <1>2, <2>4 DEF Lock, Run, OperationEnds, Publish, At, TypeOK
    <3>2. ASSUME NEW k \in DOMAIN jobs'
          PROVE  /\ k \in DOMAIN jobs
                 /\ jobs'[k].lines = jobs[k].lines
                 /\ jobs'[k].dropped = jobs[k].dropped
                 /\ jobs'[k].linesBytes = jobs[k].linesBytes
      <4>1. CASE Publish(j)
        <5> DEFINE outcome == IF goroutine[j] = "failed" THEN "error" ELSE "done"
                   table == [jobs EXCEPT ![j].done = TRUE, ![j].status = outcome]
        <5>1. jobs' = Prune(table)
          BY <4>1 DEF Publish
        <5> HIDE DEF table
        <5>2. k \in DOMAIN table /\ jobs'[k] = table[k]
          BY <5>1, PruneKeeps
        <5>3. DOMAIN table = DOMAIN jobs /\ jobs[k] \in Job
          BY <1>2, <5>2 DEF TypeOK, table
        <5> QED
          BY <5>2, <5>3 DEF Job, table
      <4>2. CASE Run(j)
        <5>1. DOMAIN jobs' = DOMAIN jobs /\ jobs[k] \in Job
          BY <1>2, <4>2 DEF Run, TypeOK
        <5> QED
          BY <4>2, <5>1 DEF Run, Job
      <4>3. CASE Lock(j) \/ OperationEnds(j)
        BY <4>3 DEF Lock, OperationEnds
      <4> QED
        BY <2>4, <4>1, <4>2, <4>3
    <3> QED
      BY <2>3, <3>1, <3>2
  <2>5. CASE \/ \E h \in Handler : Request(h) \/ HandlerLocks(h) \/ Respond(h)
             \/ Interrupt \/ Exit \/ UNCHANGED vars
    <3>1. UNCHANGED <<jobs, goroutine, emitted>>
      BY <2>5 DEF Request, HandlerLocks, Respond, Interrupt, Exit, vars
    <3> QED
      BY <2>3, <3>1
  <2> QED
    BY <1>2, <2>1, <2>2, <2>4, <2>5, StepCases
<1>3. LogsAgree => LogIsNewestPart
  BY LogByJob
<1> QED
  BY <1>1, <1>2, <1>3, TableFaithful, PTL DEF Spec

\* What a client polls only advances.
THEOREM PollsOnlyAdvance == Spec => PollsAdvance
<1> DEFINE Advance == \A j \in DOMAIN jobs \cap DOMAIN jobs' :
                         /\ jobs'[j].status = jobs[j].status
                            \/ Rank[jobs'[j].status] = Rank[jobs[j].status] + 1
                         /\ jobs'[j].dropped >= jobs[j].dropped
<1>1. ASSUME QueueInv, [Next]_vars PROVE [Advance]_vars
  <2> USE DEF QueueInv
  <2>0. \A k \in DOMAIN jobs : k \in JobId /\ jobs[k] \in Job /\ jobs[k].dropped \in Nat
    BY <1>1, Bounds DEF TypeOK, JobId, Job
  <2>1. ASSUME \A k \in DOMAIN jobs \cap DOMAIN jobs' : jobs'[k] = jobs[k]
        PROVE  Advance
    BY <2>0, <2>1
  <2>2. CASE Admit
    <3> DEFINE table == [k \in DOMAIN jobs \cup {seq + 1} |->
                           IF k \in DOMAIN jobs THEN jobs[k] ELSE Queued]
    <3>1. \A k \in DOMAIN jobs' : jobs'[k] = table[k]
      BY <2>2, PruneKeeps DEF Admit
    <3> QED
      BY <2>1, <3>1
  <2>3. ASSUME NEW j \in JobId, Run(j) PROVE Advance
    <3>1. j \in DOMAIN jobs /\ jobs[j].status = "queued" /\ jobs[j] \in Job
      BY <1>1, <2>3, RunningJob DEF Run
    <3>2. /\ DOMAIN jobs' = DOMAIN jobs /\ \A k \in DOMAIN jobs : k # j => jobs'[k] = jobs[k]
          /\ jobs'[j].status = "running" /\ jobs'[j].dropped = jobs[j].dropped
      BY <2>3, <3>1 DEF Run, Job
    <3> QED
      BY <2>0, <3>1, <3>2 DEF Rank
  <2>4. ASSUME NEW j \in JobId, Publish(j) PROVE Advance
    <3> DEFINE outcome == IF goroutine[j] = "failed" THEN "error" ELSE "done"
               table == [jobs EXCEPT ![j].done = TRUE, ![j].status = outcome]
    <3>1. j \in DOMAIN jobs /\ jobs[j].status = "running" /\ jobs[j] \in Job
      BY <1>1, <2>4, RunningJob DEF Publish
    <3>2. /\ \A k \in DOMAIN jobs : k # j => table[k] = jobs[k]
          /\ table[j].status \in {"done", "error"} /\ table[j].dropped = jobs[j].dropped
      BY <3>1 DEF Job
    <3>3. jobs' = Prune(table)
      BY <2>4 DEF Publish
    <3> HIDE DEF table
    <3>4. \A k \in DOMAIN jobs' : jobs'[k] = table[k]
      BY <3>3, PruneKeeps
    <3> QED
      BY <2>0, <3>1, <3>2, <3>4 DEF Rank
  <2>5. ASSUME NEW j \in JobId, NEW bytes \in LineBytes, Log(j, bytes) PROVE Advance
    <3>1. j \in DOMAIN jobs /\ \A k \in DOMAIN jobs : k # j => jobs'[k] = jobs[k]
      BY <1>1, <2>5, LogRecord
    <3>2. /\ jobs'[j].status = jobs[j].status
          /\ jobs'[j].dropped = jobs[j].dropped + Len(jobs[j].lines) - Staying(j, bytes)
      <4>1. jobs'[j] = [jobs[j] EXCEPT
                          !.lines = Append(KeptLines(j, bytes), NewLine(j, bytes)),
                          !.dropped = @ + Len(jobs[j].lines) - Staying(j, bytes),
                          !.linesBytes = BytesOf(KeptLines(j, bytes)) + bytes]
        BY <1>1, <2>5, LogRecord
      <4> QED
        BY <2>0, <3>1, <4>1 DEF Job
    <3>3. Staying(j, bytes) \in 0..Len(jobs[j].lines) /\ jobs[j].lines \in Seq(Line)
      BY <1>1, <2>5, LogRecord
    <3> QED
      BY <2>0, <3>1, <3>2, <3>3
  <2>6. ASSUME NEW j \in JobId, Lock(j) \/ OperationEnds(j) PROVE Advance
    BY <2>1, <2>6 DEF Lock, OperationEnds
  <2>7. CASE \/ \E h \in Handler : Request(h) \/ HandlerLocks(h) \/ Respond(h)
             \/ Interrupt \/ Exit
    BY <2>1, <2>7 DEF Request, HandlerLocks, Respond, Interrupt, Exit
  <2> HIDE DEF Advance
  <2> QED
    BY <1>1, <2>2, <2>3, <2>4, <2>5, <2>6, <2>7, StepCases
<1> QED
  BY <1>1, TableFaithful, PTL DEF Spec, PollsAdvance

=============================================================================
