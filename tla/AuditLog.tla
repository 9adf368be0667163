------------------------------ MODULE AuditLog ------------------------------
(***************************************************************************)
(* The operation log on disk (internal/audit/audit.go): daily files of     *)
(* JSON lines, split into numbered segments, pruned by size, read back     *)
(* newest first within bounds.                                             *)
(*                                                                         *)
(* Logger.mu serialises the calls of one process, so a process has at most *)
(* one append in progress.  Nothing serialises processes: the dashboard, a *)
(* CLI command and the weekly task append to the same directory.           *)
(*                                                                         *)
(* An append is: take a timestamp, find and open the first segment of that *)
(* day with room, write, scan the directory, delete the oldest segments    *)
(* one by one.  It may stop after any of these: with an error, or because  *)
(* the process is killed.                                                  *)
(***************************************************************************)
EXTENDS Integers, Sequences, FiniteSets, FiniteSetsExt, SequencesExt

CONSTANTS
    Process,      \* processes that append
    EntrySize,    \* the sizes an encoded entry can have
    FileBytes,    \* maxAuditFileBytes
    TotalBytes,   \* maxAuditReadBytes
    MaxEntries,   \* maxAuditEntries
    MaxSegment,   \* the last segment of a day, 9999 in the code
    Days,         \* bound: the days the clock can show
    MaxAppends,   \* bound: appends started
    MaxCuts,      \* bound: writes that are cut short
    MaxClockMoves \* bound: changes of the clock's day

ASSUME Limits ==
    /\ IsFiniteSet(Process) /\ FileBytes \in Nat /\ TotalBytes \in Nat /\ MaxEntries \in Nat \ {0}
    /\ MaxSegment \in Nat /\ Days \in Nat \ {0} /\ MaxAppends \in Nat
    /\ MaxCuts \in Nat /\ MaxClockMoves \in Nat
    /\ EntrySize # {} /\ EntrySize \subseteq 1..FileBytes
    /\ FileBytes <= TotalBytes

VARIABLES
    file,         \* the directory: a function from existing segments to their content
    clock,        \* today
    writer,       \* [Process -> the append in progress]
    bounds,       \* appends, cuts and clock moves so far
    acked,        \* history: entries whose Append returned nil
    removed,      \* history: entries deleted by a prune
    dirty,        \* history: something was written since the last acknowledgement
    overlapped    \* history: two processes have had appends in progress together

vars == <<file, clock, writer, bounds, acked, removed, dirty, overlapped>>

Day == 1..Days
Segment == Day \X (0..MaxSegment)
EntryId == 1..MaxAppends

\* What one write leaves in a file.  It ends with its newline, just before it (the
\* JSON is complete), or earlier.
Chunk == [id : EntryId, bytes : Nat \ {0}, end : {"newline", "unterminated", "cut"}]
Writer == [pc : {"idle", "open", "write", "scan", "remove"}, id : EntryId \cup {0},
           bytes : EntrySize \cup {0}, day : Day, seg : 0..MaxSegment, doomed : SUBSET Segment]
NoAppend == [pc |-> "idle", id |-> 0, bytes |-> 0, day |-> 1, seg |-> 0, doomed |-> {}]

TypeOK ==
    /\ DOMAIN file \subseteq Segment /\ \A g \in DOMAIN file : file[g] \in Seq(Chunk)
    /\ clock \in Day
    /\ writer \in [Process -> Writer]
    /\ bounds \in [appends : 0..MaxAppends, cuts : 0..MaxCuts, moves : 0..MaxClockMoves]
    /\ acked \subseteq EntryId /\ removed \subseteq EntryId
    /\ dirty \in BOOLEAN /\ overlapped \in BOOLEAN

Init ==
    /\ file = [g \in {} |-> <<>>]
    /\ clock = 1
    /\ writer = [p \in Process |-> NoAppend]
    /\ bounds = [appends |-> 0, cuts |-> 0, moves |-> 0]
    /\ acked = {} /\ removed = {}
    /\ dirty = FALSE /\ overlapped = FALSE

-----------------------------------------------------------------------------
(* Files.                                                                  *)

Size(f) == SumFunctionOnSet([i \in DOMAIN f |-> f[i].bytes], DOMAIN f)
TotalOf(S) == SumFunctionOnSet([g \in S |-> Size(file[g])], S)

\* The order of the file names: by day, then by segment ("." sorts before "~").
Older(g, h) == g[1] < h[1] \/ (g[1] = h[1] /\ g[2] < h[2])

\* Mutant: the entry's own length is left out of the comparison.
FirstFitIgnoringEntry(day, bytes) ==
    {s \in 0..MaxSegment :
        /\ <<day, s>> \in DOMAIN file => Size(file[<<day, s>>]) < FileBytes
        /\ \A r \in 0..(s - 1) : /\ <<day, r>> \in DOMAIN file
                                 /\ Size(file[<<day, r>>]) >= FileBytes}

\* The first segment of the day that does not exist or has room for the entry.
FirstFit(day, bytes) ==
    {s \in 0..MaxSegment :
        /\ <<day, s>> \in DOMAIN file => Size(file[<<day, s>>]) <= FileBytes - bytes
        /\ \A r \in 0..(s - 1) : /\ <<day, r>> \in DOMAIN file
                                 /\ Size(file[<<day, r>>]) > FileBytes - bytes}

\* Mutant: the newest files go first.
ToPruneNewest ==
    {g \in DOMAIN file : TotalOf({h \in DOMAIN file : h = g \/ Older(h, g)}) > TotalBytes}

\* Mutant: the file's own size is left out of the sum.
ToPruneLate ==
    {g \in DOMAIN file : TotalOf({h \in DOMAIN file : Older(g, h)}) > TotalBytes}

\* pruneLocked deletes the oldest files until the rest fits: a file goes if it and
\* the newer ones are too much.
ToPrune ==
    {g \in DOMAIN file : TotalOf({h \in DOMAIN file : h = g \/ Older(g, h)}) > TotalBytes}

-----------------------------------------------------------------------------
(* Logger.Append.                                                          *)

At(p, pc) == writer[p].pc = pc
Move(p, pc) == writer' = [writer EXCEPT ![p].pc = pc]

\* Mutant: an entry without a timestamp is not given one.
StartUnstamped(p, bytes) ==
    /\ At(p, "idle") /\ bounds.appends < MaxAppends
    /\ bounds' = [bounds EXCEPT !.appends = @ + 1]
    /\ writer' = [writer EXCEPT ![p] = [NoAppend EXCEPT !.pc = "open", !.bytes = bytes,
                                          !.id = bounds.appends + 1, !.day = 0]]
    /\ overlapped' = (overlapped \/ \E q \in Process : ~At(q, "idle"))
    /\ UNCHANGED <<file, clock, acked, removed, dirty>>

Start(p, bytes) ==
    /\ At(p, "idle") /\ bounds.appends < MaxAppends
    /\ bounds' = [bounds EXCEPT !.appends = @ + 1]
    /\ writer' = [writer EXCEPT ![p] = [NoAppend EXCEPT !.pc = "open", !.bytes = bytes,
                                          !.id = bounds.appends + 1, !.day = clock]]
    /\ overlapped' = (overlapped \/ \E q \in Process : ~At(q, "idle"))
    /\ UNCHANGED <<file, clock, acked, removed, dirty>>

\* Opens the segment, creating it if needed; its size is checked here, once.
OpenSegment(p) ==
    /\ At(p, "open")
    /\ \E s \in FirstFit(writer[p].day, writer[p].bytes) :
          LET g == <<writer[p].day, s>>
          IN  /\ file' = [h \in DOMAIN file \cup {g} |->
                            IF h \in DOMAIN file THEN file[h] ELSE <<>>]
              /\ writer' = [writer EXCEPT ![p].pc = "write", ![p].seg = s]
    /\ UNCHANGED <<clock, bounds, acked, removed, dirty, overlapped>>

OpenedBy(p) == <<writer[p].day, writer[p].seg>>

\* Mutant: without O_APPEND the line overwrites the file.
AppendChunkTruncating(p, bytes, end) ==
    /\ file' = [file EXCEPT ![OpenedBy(p)] =
                  <<[id |-> writer[p].id, bytes |-> bytes, end |-> end]>>]
    /\ dirty' = TRUE

\* The file is opened with O_APPEND: the line goes to its end, whatever is there.
AppendChunk(p, bytes, end) ==
    /\ file' = [file EXCEPT ![OpenedBy(p)] =
                  Append(@, [id |-> writer[p].id, bytes |-> bytes, end |-> end])]
    /\ dirty' = TRUE

WriteLine(p) ==
    /\ At(p, "write")
    /\ AppendChunk(p, writer[p].bytes, "newline")
    /\ Move(p, "scan")
    /\ UNCHANGED <<clock, bounds, acked, removed, overlapped>>

\* A full disk or the end of the process cuts the write short: Append does not
\* return nil, and what was written stays.
WriteCut(p) ==
    /\ At(p, "write") /\ bounds.cuts < MaxCuts
    /\ bounds' = [bounds EXCEPT !.cuts = @ + 1]
    /\ \E bytes \in 1..(writer[p].bytes - 1) :
          \E end \in IF bytes = writer[p].bytes - 1 THEN {"cut", "unterminated"} ELSE {"cut"} :
             AppendChunk(p, bytes, end)
    /\ writer' = [writer EXCEPT ![p] = NoAppend]
    /\ UNCHANGED <<clock, acked, removed, overlapped>>

\* pruneLocked lists the directory; a file over the limit is an error.
Scan(p) ==
    /\ At(p, "scan")
    /\ \A g \in DOMAIN file : Size(file[g]) <= FileBytes
    /\ writer' = [writer EXCEPT ![p].pc = "remove", ![p].doomed = ToPrune]
    /\ UNCHANGED <<file, clock, bounds, acked, removed, dirty, overlapped>>

\* Deletes the oldest file of its list.  Another process may have deleted it, or
\* have it open (Windows refuses then): the deletion fails and so does Append.
RemoveOldest(p) ==
    /\ At(p, "remove")
    /\ \E g \in writer[p].doomed \cap DOMAIN file :
          /\ \A h \in writer[p].doomed : h = g \/ Older(g, h)
          /\ \A q \in Process : At(q, "write") => OpenedBy(q) # g
          /\ file' = [h \in DOMAIN file \ {g} |-> file[h]]
          /\ removed' = removed \cup {file[g][i].id : i \in DOMAIN file[g]}
          /\ writer' = [writer EXCEPT ![p].doomed = @ \ {g}]
    /\ UNCHANGED <<clock, bounds, acked, dirty, overlapped>>

\* Append returns nil.
Acknowledge(p) ==
    /\ At(p, "remove") /\ writer[p].doomed = {}
    /\ acked' = acked \cup {writer[p].id}
    /\ dirty' = FALSE
    /\ writer' = [writer EXCEPT ![p] = NoAppend]
    /\ UNCHANGED <<file, clock, bounds, removed, overlapped>>

\* Any other end of an append: an error of the file system, of the scan or of a
\* deletion, no segment left, or the process is killed.
Abandon(p) ==
    /\ ~At(p, "idle")
    /\ writer' = [writer EXCEPT ![p] = NoAppend]
    /\ UNCHANGED <<file, clock, bounds, acked, removed, dirty, overlapped>>

\* Midnight, or the user changes the date.
SetClock(d) ==
    /\ d # clock /\ bounds.moves < MaxClockMoves
    /\ clock' = d
    /\ bounds' = [bounds EXCEPT !.moves = @ + 1]
    /\ UNCHANGED <<file, writer, acked, removed, dirty, overlapped>>

\* The bound on appends is used up and every append has ended.
Finished ==
    /\ bounds.appends = MaxAppends /\ \A p \in Process : At(p, "idle")
    /\ UNCHANGED vars

Next ==
    \/ \E p \in Process, bytes \in EntrySize : Start(p, bytes)
    \/ \E p \in Process :
          \/ OpenSegment(p) \/ WriteLine(p) \/ WriteCut(p) \/ Scan(p)
          \/ RemoveOldest(p) \/ Acknowledge(p) \/ Abandon(p)
    \/ \E d \in Day : SetClock(d)
    \/ Finished

Spec == Init /\ [][Next]_vars

-----------------------------------------------------------------------------
(* Logger.ReadAll.                                                         *)

\* A line starts at the file's start or after a newline; whatever is written after
\* a line without one becomes part of that line.
LineStarts(f) == {i \in DOMAIN f : i = 1 \/ f[i - 1].end = "newline"}

\* Lines that parse.
Parsed(f) == {i \in LineStarts(f) : \/ f[i].end = "newline"
                                    \/ f[i].end = "unterminated" /\ i = Len(f)}

\* The newest n lines of a file that parse.
NewestLines(f, n) ==
    {f[i].id : i \in {i \in Parsed(f) : Cardinality({j \in Parsed(f) : j > i}) < n}}

\* What has been read after the newest lines of a file, at most left of them: a line that
\* does not parse and one line too many are errors.
ReadLines(read, g, left) ==
    [ids |-> read.ids \cup NewestLines(file[g], left),
     bytes |-> read.bytes + Size(file[g]),
     ok |-> /\ read.ok /\ Parsed(file[g]) = LineStarts(file[g])
            /\ Cardinality(Parsed(file[g])) <= left,
     stop |-> FALSE]

\* One file of ReadAll's walk: it skips a file that is too large, stops at the
\* bounds on bytes and entries, and remembers that something was wrong.
ReadFile(read, g) ==
    LET size == Size(file[g])
        left == MaxEntries - Cardinality(read.ids)
    IN  CASE read.stop -> read
          [] ~read.stop /\ size > FileBytes -> [read EXCEPT !.ok = FALSE]
          [] ~read.stop /\ size <= FileBytes
                /\ (read.bytes + size > TotalBytes \/ left <= 0) ->
                 [read EXCEPT !.ok = FALSE, !.stop = TRUE]
          [] OTHER -> ReadLines(read, g, left)

\* The file of a set that the walk, from the newest name to the oldest, reads last.
Oldest(S) == CHOOSE g \in S : \A h \in S : h = g \/ Older(g, h)

\* The walk begins with nothing read and nothing wrong.
NothingRead == [ids |-> {}, bytes |-> 0, ok |-> TRUE, stop |-> FALSE]

\* The entries ReadAll returns, and whether it returns them without an error.
ReadAll ==
    MapThenFoldSet(LAMBDA g, read : ReadFile(read, g), NothingRead, LAMBDA g : g, Oldest,
                   DOMAIN file)

-----------------------------------------------------------------------------
(* What the log promises.                                                  *)

Places == UNION {{<<g, i>> : i \in DOMAIN file[g]} : g \in DOMAIN file}
IdAt(l) == file[l[1]][l[2]].id
Legible == {l \in Places : l[2] \in Parsed(file[l[1]])}
Undamaged == \A l \in Places : file[l[1]][l[2]].end = "newline"

\* An entry whose Append returned nil stays in the directory until a prune deletes
\* its whole segment, and can be parsed unless it directly follows a cut write.
Acknowledged ==
    \A id \in acked \ removed :
        \E l \in Places :
            /\ IdAt(l) = id
            /\ l \in Legible \/ (l[2] > 1 /\ file[l[1]][l[2] - 1].end # "newline")

\* Without overlapping appends, damaged lines and files left empty, after an append
\* that returned nil the whole directory is within ReadAll's bounds: up to the entry
\* limit it returns every entry and no error, so undo is not refused because the log
\* grew.  (An empty file older than exactly MaxEntries entries is reported as more.)
HistoryComplete ==
    /\ ~overlapped /\ ~dirty /\ Undamaged /\ Cardinality(Places) <= MaxEntries
    /\ \A g \in DOMAIN file : file[g] # <<>>
    => ReadAll.ok /\ ReadAll.ids = {IdAt(l) : l \in Places}

\* What ReadAll leaves out is older than everything it returns, and it says so.
NewestKept ==
    (\A g \in DOMAIN file : Size(file[g]) <= FileBytes) =>
        \A l \in Legible : IdAt(l) \notin ReadAll.ids =>
            /\ ~ReadAll.ok
            /\ \A m \in Legible : IdAt(m) \in ReadAll.ids =>
                  Older(l[1], m[1]) \/ (l[1] = m[1] /\ l[2] < m[2])

\* The history an undo relies on: all there is as long as the bounds of ReadAll allow it,
\* and the newest part, with an error, beyond them.
HistoryReadable == HistoryComplete /\ NewestKept

\* Several processes that found room in the same segment overfill it by no more
\* than an entry for each process but one.
OverfillBounded ==
    \A g \in DOMAIN file :
        Size(file[g]) <= FileBytes + (Cardinality(Process) - 1) * Max(EntrySize)

\* The log by itself, without what an append does between its steps.
Promised ==
    INSTANCE AppendOnlyLog WITH
        Place <- Segment,
        Line <- [id : EntryId, bytes : 1..FileBytes, end : {"newline", "unterminated", "cut"}],
        Limit <- TotalBytes,
        kept <- file, dropped <- removed, promised <- acked, shared <- overlapped

\* However appends of several processes, prunes, crashes and cut writes interleave, the
\* directory behaves as an append-only log of segments: an entry is written once, never
\* changed, and goes only with its segment, and Append returns nil only for one that was
\* written whole.  Without overlapping appends a prune deletes only while the directory is
\* over the read bound, the oldest segment first, and leaves it within the bound when
\* Append returns nil (audit.go:118-241).
PromisesKept == Promised!Spec

\* Without overlapping appends and damaged lines, after an append that returned nil
\* ReadAll reports no error, however many entries the log holds.
GrowthNeverBlocksUndo == ~overlapped /\ ~dirty /\ Undamaged => ReadAll.ok

\* The entries a prune has deleted are older than the ones that remain.
OldestRemovedFirst == \A id \in removed : \A l \in Places : id < IdAt(l)

\* An entry whose Append returned nil can be read back until it is pruned.
AppendsSurviveCrash == acked \ removed \subseteq {IdAt(l) : l \in Legible}

=============================================================================
