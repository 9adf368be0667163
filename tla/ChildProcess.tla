---------------------------- MODULE ChildProcess ----------------------------
(***************************************************************************)
(* Running a program and reading its output through a pipe: runStream of   *)
(* internal/maintenance and internal/isobuilder, which logs line by line,  *)
(* procout.CombinedOutput, which keeps a bounded amount, and the report of *)
(* internal/appmanager, which does both and runs winget under a deadline.  *)
(* The child blocks while the pipe is full, so whoever stops reading too   *)
(* early waits for a process that waits for it.                            *)
(***************************************************************************)
EXTENDS Naturals, Sequences

CONSTANTS
    PipeSize,  \* lines the pipe holds
    Limit,     \* lines CombinedOutput and the report keep
    MaxOutput  \* bound: lines a child writes

ASSUME ChildAssumption == PipeSize \in Nat \ {0} /\ Limit \in Nat /\ MaxOutput \in Nat

VARIABLES
    child,   \* the process: what it still writes, and how it ended
    pipe,    \* the lines in the pipe
    reader,  \* the reading program
    ran      \* what the last run returned

cpVars == <<child, pipe, reader, ran>>

Line == {"short", "long"}  \* "long" exceeds the scanner's buffer

NoReader == [at |-> "idle", how |-> "stream", got |-> 0, error |-> FALSE, expired |-> FALSE]
NoChild == [left |-> 0, wrote |-> 0, exit |-> "none", hangs |-> FALSE]

CpTypeOK ==
    /\ child \in [left : 0..MaxOutput, wrote : 0..MaxOutput, exit : {"none", "ok", "error"},
                  hangs : BOOLEAN]
    /\ pipe \in Seq(Line) /\ Len(pipe) <= PipeSize
    /\ reader \in [at : {"idle", "stream", "output", "report", "drain", "wait"},
                   how : {"stream", "output", "report"},
                   got : 0..MaxOutput, error : BOOLEAN, expired : BOOLEAN]
    /\ ran \in {"none", "ok", "error"}

CpInit == child = NoChild /\ pipe = <<>> /\ reader = NoReader /\ ran = "none"

-----------------------------------------------------------------------------
(* The child.                                                              *)

Write(line) ==
    /\ child.left > 0 /\ Len(pipe) < PipeSize
    /\ pipe' = Append(pipe, line)
    /\ child' = [child EXCEPT !.left = @ - 1, !.wrote = @ + 1]
    /\ UNCHANGED <<reader, ran>>

Exit ==
    /\ reader.at # "idle" /\ child.left = 0 /\ child.exit = "none" /\ ~child.hangs
    /\ \E x \in {"ok", "error"} : child' = [child EXCEPT !.exit = x]
    /\ UNCHANGED <<pipe, reader, ran>>

\* The context of a report expires, and the child is killed if it is still there.
Expire ==
    /\ reader.at # "idle" /\ reader.how = "report" /\ ~reader.expired
    /\ reader' = [reader EXCEPT !.expired = TRUE]
    /\ child' = IF child.exit = "none" THEN [child EXCEPT !.left = 0, !.exit = "error"] ELSE child
    /\ UNCHANGED <<pipe, ran>>

EOF == pipe = <<>> /\ child.exit # "none"

-----------------------------------------------------------------------------
(* The reader.                                                             *)

\* Only what runs under a deadline may hang.
Spawn(how, output, hangs) ==
    /\ reader.at = "idle" /\ (hangs => how = "report")
    /\ pipe' = <<>>
    /\ \/ /\ child' = [NoChild EXCEPT !.left = output, !.hangs = hangs]
          /\ reader' = [NoReader EXCEPT !.at = how, !.how = how]
          /\ ran' = "none"
       \/ /\ child' = NoChild /\ reader' = NoReader  \* the program cannot be started
          /\ ran' = "error"

Take == pipe # <<>> /\ pipe' = Tail(pipe)

\* The scanner's loop: a line that does not fit its buffer ends the scan, and the rest of the
\* output is drained.
Scan ==
    /\ reader.at = "stream"
    /\ \/ /\ EOF /\ reader' = [reader EXCEPT !.at = "wait"] /\ UNCHANGED pipe
       \/ /\ Take
          /\ reader' = IF Head(pipe) = "long" THEN [reader EXCEPT !.at = "drain", !.error = TRUE]
                       ELSE [reader EXCEPT !.got = @ + 1]
    /\ UNCHANGED <<child, ran>>

Drain ==
    /\ reader.at = "drain"
    /\ \/ EOF /\ reader' = [reader EXCEPT !.at = "wait"] /\ UNCHANGED pipe
       \/ Take /\ UNCHANGED reader
    /\ UNCHANGED <<child, ran>>

\* Mutant: what does not fit is dropped without a word.
CopySilently ==
    /\ reader.at = "output"
    /\ \/ EOF /\ reader' = [reader EXCEPT !.at = "wait"] /\ UNCHANGED pipe
       \/ /\ Take
          /\ reader' = IF reader.got < Limit THEN [reader EXCEPT !.got = @ + 1] ELSE reader
    /\ UNCHANGED <<child, ran>>

\* boundedBuffer.Write: everything is accepted, what does not fit sets overflow.
Copy ==
    /\ reader.at = "output"
    /\ \/ EOF /\ reader' = [reader EXCEPT !.at = "wait"] /\ UNCHANGED pipe
       \/ /\ Take
          /\ reader' = IF reader.got < Limit THEN [reader EXCEPT !.got = @ + 1]
                       ELSE [reader EXCEPT !.error = TRUE]
    /\ UNCHANGED <<child, ran>>

\* Mutant: what is too much is not an error.
ReportSilently ==
    /\ reader.at = "report"
    /\ \/ EOF /\ reader' = [reader EXCEPT !.at = "wait"] /\ UNCHANGED pipe
       \/ /\ Take
          /\ reader' = IF Head(pipe) = "long" THEN [reader EXCEPT !.at = "drain", !.error = TRUE]
                       ELSE IF reader.got = Limit THEN reader
                       ELSE [reader EXCEPT !.got = @ + 1]
    /\ UNCHANGED <<child, ran>>

\* collectReportOutput: after the limit lines are read on but neither kept nor passed on, nor
\* are shorter ones that would fit again.
Report ==
    /\ reader.at = "report"
    /\ \/ EOF /\ reader' = [reader EXCEPT !.at = "wait"] /\ UNCHANGED pipe
       \/ /\ Take
          /\ reader' = IF Head(pipe) = "long" THEN [reader EXCEPT !.at = "drain", !.error = TRUE]
                       ELSE IF reader.got = Limit THEN [reader EXCEPT !.error = TRUE]
                       ELSE [reader EXCEPT !.got = @ + 1]
    /\ UNCHANGED <<child, ran>>

\* cmd.Wait, and the errors of all phases joined.
Wait ==
    /\ reader.at = "wait" /\ child.exit # "none"
    /\ ran' = IF child.exit = "ok" /\ ~reader.error /\ ~reader.expired THEN "ok" ELSE "error"
    /\ reader' = [reader EXCEPT !.at = "idle"]
    /\ UNCHANGED <<child, pipe>>

ChildStep == (\E line \in Line : Write(line)) \/ Exit
ReaderStep == Scan \/ Drain \/ Copy \/ Report \/ Wait

CpNext == \/ ChildStep \/ ReaderStep \/ Expire
          \/ \E how \in {"stream", "output", "report"}, n \in 0..MaxOutput, hangs \in BOOLEAN :
               Spawn(how, n, hangs)

\* The child writes while it can and ends unless it hangs; the reader reads; time passes.
CpFairness == WF_cpVars(ChildStep) /\ WF_cpVars(ReaderStep) /\ WF_cpVars(Expire)

CpSpec == CpInit /\ [][CpNext]_cpVars /\ CpFairness

-----------------------------------------------------------------------------

\* A run that reports success has passed on every line the child wrote, and the child
\* itself succeeded in time.
OutputComplete == ran = "ok" => reader.got = child.wrote /\ child.exit = "ok"
=============================================================================
