--------------------------- MODULE AuditLogProofs ---------------------------
(***************************************************************************)
(* Theorems about the operation log, for every number of processes, every  *)
(* size of entries, segments and directories, and every number of cut      *)
(* writes and clock changes: its state is well typed, what an append has   *)
(* acknowledged is in the directory until it is pruned, processes that     *)
(* find room in the same segment overfill it by a bounded amount, the      *)
(* history can be read (all of it within the bounds of ReadAll, the newest *)
(* part, with an error, beyond them), and the log as a whole implements an *)
(* append-only log of segments (AppendOnlyLog).                            *)
(***************************************************************************)
EXTENDS AuditLog, SetTheorems

-----------------------------------------------------------------------------
(* The inductive invariant.                                                *)

\* An entry was pruned, or stands in the directory with its newline.
Kept(id) ==
    \/ id \in removed
    \/ \E g \in DOMAIN file : \E i \in DOMAIN file[g] :
          file[g][i].id = id /\ file[g][i].end = "newline"

\* What an append in progress may rely on: the segment it has opened is not deleted, and
\* what it has written is there.
AppendSafe(p) ==
    /\ ~At(p, "idle") => writer[p].id \in EntryId /\ writer[p].bytes \in EntrySize
    /\ At(p, "write") => OpenedBy(p) \in DOMAIN file
    /\ At(p, "scan") \/ At(p, "remove") => Kept(writer[p].id)

AppendInv == \A p \in Process : AppendSafe(p)

\* Every acknowledged entry is kept.
KeptInv == \A id \in acked : Kept(id)

\* What p is about to add to segment g, and what all are.
Claim(p, g) == IF At(p, "write") /\ OpenedBy(p) = g THEN writer[p].bytes ELSE 0
Claims(g) == [p \in Process |-> Claim(p, g)]
Load(g) == SumFunctionOnSet(Claims(g), Process)

\* The bound of OverfillBounded.
Allowed == FileBytes + (Cardinality(Process) - 1) * Max(EntrySize)

\* A segment with all that is about to be added to it stays within the bound.
LoadInv == \A g \in DOMAIN file : Size(file[g]) + Load(g) <= Allowed

\* As long as no two appends were in progress together, there is at most one, and what it
\* still has to delete is what a new scan of the directory would find.
AloneInv ==
    ~overlapped => /\ \A p, q \in Process : At(p, "idle") \/ At(q, "idle") \/ p = q
                   /\ \A p \in Process : At(p, "remove") => writer[p].doomed = ToPrune

\* All of it.
LogInv == TypeOK /\ AppendInv /\ KeptInv /\ LoadInv /\ AloneInv

-----------------------------------------------------------------------------
(* Lemmas about sizes.                                                     *)

\* The size of a file: nothing for an empty one, and a chunk adds its own.
LEMMA SizeLaws ==
  ASSUME NEW s \in Seq(Chunk)
  PROVE  /\ Size(s) \in Nat /\ Size(<<>>) = 0
         /\ \A c \in Chunk : Size(Append(s, c)) = Size(s) + c.bytes
<1> DEFINE f(t) == [i \in DOMAIN t |-> t[i].bytes]
<1>1. ASSUME NEW t \in Seq(Chunk)
      PROVE  IsFiniteSet(DOMAIN t) /\ \A i \in DOMAIN t : f(t)[i] \in Nat
  <2>1. DOMAIN t = 1..Len(t) /\ Len(t) \in Nat
    OBVIOUS
  <2>2. IsFiniteSet(DOMAIN t)
    BY <2>1, FS_Interval
  <2>3. \A i \in DOMAIN t : t[i] \in Chunk
    BY <2>1
  <2> QED
    BY <2>2, <2>3 DEF Chunk
<1>2. \A t \in Seq(Chunk) : Size(t) \in Nat
  <2> SUFFICES ASSUME NEW t \in Seq(Chunk) PROVE Size(t) \in Nat
    OBVIOUS
  <2>1. PICK g : g = f(t)
    OBVIOUS
  <2>2. IsFiniteSet(DOMAIN t) /\ \A i \in DOMAIN t : g[i] \in Nat
    BY <1>1, <2>1
  <2>3. SumFunctionOnSet(g, DOMAIN t) \in Nat
    BY <2>2, SumLaws
  <2> QED
    BY <2>1, <2>3 DEF Size
<1>3. Size(<<>>) = 0
  <2>1. DOMAIN <<>> = {} /\ IsFiniteSet({})
    BY FS_EmptySet
  <2>2. SumFunctionOnSet(f(<<>>), {}) = 0
    BY <2>1, SumLaws
  <2> QED
    BY <2>1, <2>2 DEF Size
<1>4. ASSUME NEW c \in Chunk
      PROVE  Size(Append(s, c)) = Size(s) + c.bytes
  <2>1. PICK t, n : t = Append(s, c) /\ n = Len(s) + 1
    OBVIOUS
  <2>2. t \in Seq(Chunk)
    BY <2>1
  <2>3. DOMAIN t = 1..n /\ DOMAIN s = 1..Len(s) /\ Len(s) \in Nat
    BY <2>1
  <2>4. n \in DOMAIN t /\ t[n] = c /\ \A i \in DOMAIN s : t[i] = s[i]
    BY <2>1, <2>3
  <2>5. DOMAIN s = (DOMAIN t) \ {n}
    BY <2>1, <2>3
  <2>6. PICK g, h : g = f(t) /\ h = f(s)
    OBVIOUS
  <2>7. IsFiniteSet(DOMAIN t) /\ \A i \in DOMAIN t : g[i] \in Nat
    BY <1>1, <2>2, <2>6
  <2>8. SumFunctionOnSet(g, DOMAIN t) = g[n] + SumFunctionOnSet(g, DOMAIN s)
    BY <2>4, <2>5, <2>7, SumLaws
  <2>9. IsFiniteSet(DOMAIN s) /\ \A i \in DOMAIN s : g[i] = h[i]
    BY <1>1, <2>4, <2>5, <2>6
  <2>10. SumFunctionOnSet(g, DOMAIN s) = SumFunctionOnSet(h, DOMAIN s)
    BY <2>9, SumAgrees
  <2>11. g[n] = c.bytes
    BY <2>4, <2>6
  <2>12. Size(t) = c.bytes + Size(s) /\ Size(s) \in Nat
    BY <1>2, <2>6, <2>8, <2>10, <2>11 DEF Size
  <2>13. c.bytes \in Nat
    BY DEF Chunk
  <2> QED
    BY <2>1, <2>12, <2>13
<1> QED
  BY <1>2, <1>3, <1>4

\* The largest entry.
LEMMA Largest ==
  /\ Max(EntrySize) \in Nat /\ \A b \in EntrySize : b \in Nat \ {0} /\ b <= Max(EntrySize)
  /\ \A b \in EntrySize : b <= FileBytes
<1>1. /\ EntrySize \subseteq 1..FileBytes /\ EntrySize # {} /\ FileBytes \in Nat
      /\ IsFiniteSet(1..FileBytes)
  BY Limits, FS_Interval
<1>2. IsFiniteSet(EntrySize)
  BY <1>1, FS_Subset
<1>4. ASSUME NEW b \in EntrySize PROVE b \in Nat \ {0} /\ b <= FileBytes /\ b \in Int
  <2>1. b \in 1..FileBytes
    BY <1>1
  <2> QED  BY <1>1, <2>1
<1>3. Max(EntrySize) \in EntrySize /\ \A b \in EntrySize : b <= Max(EntrySize)
  BY <1>1, <1>2, <1>4, MaxOfFinite
<1> QED  BY <1>3, <1>4

\* A sum of numbers none of which is above m is at most m times their number.
LEMMA SumBounded ==
  ASSUME NEW S, IsFiniteSet(S), NEW m \in Nat, NEW f, \A x \in S : f[x] \in 0..m
  PROVE  SumFunctionOnSet(f, S) <= Cardinality(S) * m
<1> DEFINE Good == {T \in SUBSET S : SumFunctionOnSet(f, T) <= Cardinality(T) * m}
<1>1. {} \in Good
  <2>1. SumFunctionOnSet(f, {}) = 0 /\ Cardinality({}) = 0
    BY FS_EmptySet, SumLaws
  <2> QED  BY <2>1
<1>2. ASSUME NEW T \in SUBSET S, NEW x \in S, T \in Good
      PROVE  T \cup {x} \in Good
  <2>1. IsFiniteSet(T) /\ Cardinality(T) \in Nat
    BY FS_Subset, FS_CardinalityType
  <2>2. CASE x \in T
    <3>1. T \cup {x} = T
      BY <2>2
    <3> HIDE DEF Good
    <3> QED  BY <1>2, <3>1
  <2>3. CASE x \notin T
    <3>1. PICK U : U = T \cup {x}
      OBVIOUS
    <3>2. IsFiniteSet(U) /\ Cardinality(U) = Cardinality(T) + 1 /\ x \in U /\ U \ {x} = T
      BY <2>1, <2>3, <3>1, FS_AddElement
    <3>3. \A y \in U : f[y] \in Nat
      BY <3>1
    <3>4. SumFunctionOnSet(f, U) = f[x] + SumFunctionOnSet(f, T)
          /\ SumFunctionOnSet(f, T) \in Nat
      BY <3>2, <3>3, SumLaws
    <3>5. SumFunctionOnSet(f, T) <= Cardinality(T) * m /\ f[x] \in Nat /\ f[x] <= m
      BY <1>2
    <3>6. PICK n \in Nat, k \in Nat : n = Cardinality(T) /\ k = n * m
      BY <2>1
    <3>7. (n + 1) * m = k + m
      BY <3>6
    <3>8. SumFunctionOnSet(f, U) <= Cardinality(U) * m
      BY <3>2, <3>4, <3>5, <3>6, <3>7
    <3> QED  BY <3>1, <3>8
  <2> QED  BY <2>2, <2>3
<1> HIDE DEF Good
<1>3. S \in Good
  <2>1. Good \in SUBSET (SUBSET S)
    BY DEF Good
  <2> QED  BY <1>1, <1>2, <2>1, SetInduction
<1> QED  BY <1>3 DEF Good

\* Two tables that differ at one place: so much do their sums.
LEMMA SumChanges ==
  ASSUME NEW S, IsFiniteSet(S), NEW x \in S, NEW f, NEW g,
         \A y \in S : f[y] \in Nat /\ g[y] \in Nat, \A y \in S \ {x} : f[y] = g[y]
  PROVE  /\ SumFunctionOnSet(f, S) + g[x] = SumFunctionOnSet(g, S) + f[x]
         /\ SumFunctionOnSet(f, S) \in Nat /\ SumFunctionOnSet(g, S) \in Nat
<1>1. IsFiniteSet(S \ {x})
  BY FS_Subset
<1>2. SumFunctionOnSet(f, S \ {x}) = SumFunctionOnSet(g, S \ {x})
  BY <1>1, SumAgrees
<1>3. /\ SumFunctionOnSet(f, S) = f[x] + SumFunctionOnSet(f, S \ {x})
      /\ SumFunctionOnSet(f, S \ {x}) \in Nat /\ SumFunctionOnSet(f, S) \in Nat
  BY SumLaws
<1>4. /\ SumFunctionOnSet(g, S) = g[x] + SumFunctionOnSet(g, S \ {x})
      /\ SumFunctionOnSet(g, S \ {x}) \in Nat /\ SumFunctionOnSet(g, S) \in Nat
  BY SumLaws
<1> QED  BY <1>2, <1>3, <1>4

\* The segments of a directory are finitely many, and so are their sizes numbers.
LEMMA Directory ==
  ASSUME TypeOK
  PROVE  /\ IsFiniteSet(DOMAIN file)
         /\ \A g \in DOMAIN file : file[g] \in Seq(Chunk) /\ Size(file[g]) \in Nat
<1>1. IsFiniteSet(Day) /\ IsFiniteSet(0..MaxSegment)
  BY Limits, FS_Interval DEF Day
<1>2. IsFiniteSet(Segment)
  BY <1>1, FS_Product DEF Segment
<1>3. DOMAIN file \subseteq Segment /\ \A g \in DOMAIN file : file[g] \in Seq(Chunk)
  BY DEF TypeOK
<1> QED  BY <1>2, <1>3, FS_Subset, SizeLaws

\* The total of some segments is at most that of more of them.
LEMMA TotalMonotone ==
  ASSUME TypeOK, NEW S \in SUBSET (DOMAIN file), NEW T \in SUBSET S
  PROVE  TotalOf(T) <= TotalOf(S) /\ TotalOf(T) \in Nat /\ TotalOf(S) \in Nat
<1>1. IsFiniteSet(S) /\ IsFiniteSet(T)
  BY Directory, FS_Subset
<1>2. PICK f, g : f = [h \in S |-> Size(file[h])] /\ g = [h \in T |-> Size(file[h])]
  OBVIOUS
<1>3. /\ \A h \in S : f[h] \in Nat
      /\ \A h \in T : f[h] \in Nat /\ g[h] \in Nat /\ f[h] = g[h]
  BY <1>2, Directory
<1>4. SumFunctionOnSet(f, T) <= SumFunctionOnSet(f, S)
      /\ SumFunctionOnSet(f, T) \in Nat /\ SumFunctionOnSet(f, S) \in Nat
  BY <1>1, <1>3, SumMonotone, SumLaws
<1>5. SumFunctionOnSet(f, T) = SumFunctionOnSet(g, T)
  BY <1>1, <1>3, SumAgrees
<1> QED  BY <1>2, <1>4, <1>5 DEF TotalOf

\* Of two different segments one is older; and so on.
LEMMA OlderOrders ==
  /\ \A g, h \in Segment : g = h \/ Older(g, h) \/ Older(h, g)
  /\ \A g, h \in Segment : ~(Older(g, h) /\ Older(h, g)) /\ ~Older(g, g)
  /\ \A g, h, k \in Segment : Older(g, h) /\ Older(h, k) => Older(g, k)
  /\ \A g, h \in Segment : Older(g, h) => g[1] <= h[1]
<1>1. \A g \in Segment : g[1] \in Nat /\ g[2] \in Nat /\ g = <<g[1], g[2]>>
  BY Limits DEF Segment, Day
<1>2. \A g, h \in Segment : g[1] = h[1] /\ g[2] = h[2] => g = h
  BY <1>1
<1> QED  BY <1>1, <1>2 DEF Older

-----------------------------------------------------------------------------
(* Lemmas about the steps.                                                 *)

\* An entry that is kept stays so while files grow and prunes take note of what they delete.
LEMMA KeptStays ==
  ASSUME removed \subseteq removed',
         \A g \in DOMAIN file :
            \/ /\ g \in DOMAIN file' /\ DOMAIN file[g] \subseteq DOMAIN file'[g]
               /\ \A i \in DOMAIN file[g] : file'[g][i] = file[g][i]
            \/ \A i \in DOMAIN file[g] : file[g][i].id \in removed'
  PROVE  \A id : Kept(id) => Kept(id)'
BY DEF Kept

\* An append that does not move while another one does, and its segment is not deleted.
LEMMA OthersSafe ==
  ASSUME NEW q \in Process, AppendSafe(q), writer'[q] = writer[q],
         \A id : Kept(id) => Kept(id)',
         At(q, "write") => OpenedBy(q) \in DOMAIN file'
  PROVE  AppendSafe(q)'
<1>1. At(q, "scan") \/ At(q, "remove") => Kept(writer[q].id)
  BY DEF AppendSafe
<1>2. PICK id : id = writer[q].id
  OBVIOUS
<1>3. id = writer'[q].id
  BY <1>2
<1>4. At(q, "scan") \/ At(q, "remove") => Kept(id)'
  BY <1>1, <1>2
<1>5. At(q, "scan") \/ At(q, "remove") => Kept(writer[q].id)'
  BY <1>3, <1>4 DEF Kept
<1> QED  BY <1>5 DEF AppendSafe, At, OpenedBy

\* A new append, or the end of one, claims nothing.
LEMMA Rest == NoAppend \in Writer /\ NoAppend.pc = "idle"
BY Limits DEF NoAppend, Writer, Day

\* Claims are numbers, and so are their sums.
LEMMA ClaimsTyped ==
  ASSUME TypeOK, NEW g
  PROVE  /\ \A p \in Process : Claims(g)[p] \in 0..Max(EntrySize) /\ Claims(g)[p] \in Nat
         /\ Load(g) \in Nat
<1>1. \A p \in Process : writer[p].bytes \in 0..Max(EntrySize) /\ writer[p].bytes \in Nat
  BY Largest DEF TypeOK, Writer
<1>2. \A p \in Process : Claims(g)[p] \in 0..Max(EntrySize) /\ Claims(g)[p] \in Nat
  BY <1>1, Largest DEF Claims, Claim
<1>3. Load(g) \in Nat
  BY <1>2, Limits, SumLaws DEF Load
<1> QED  BY <1>2, <1>3

\* When only one append moves, what all are about to add changes by what that one is.
LEMMA LoadMoves ==
  ASSUME TypeOK, TypeOK', NEW p \in Process, NEW g,
         \A q \in Process \ {p} : writer'[q] = writer[q]
  PROVE  /\ Load(g)' + Claim(p, g) = Load(g) + Claim(p, g)'
         /\ Load(g) \in Nat /\ Load(g)' \in Nat /\ Claim(p, g) \in Nat /\ Claim(p, g)' \in Nat
<1>1. PICK f : f = Claims(g)
  OBVIOUS
<1>2. PICK h : h = Claims(g)'
  OBVIOUS
<1>3. \A q \in Process : f[q] \in Nat /\ f[q] = Claim(q, g)
  BY <1>1, ClaimsTyped DEF Claims
<1>4. \A q \in Process : Claims(g)'[q] \in Nat
  <2>1. \A q \in Process : writer'[q].bytes \in Nat
    BY Largest DEF TypeOK, Writer
  <2> QED  BY <2>1 DEF Claims, Claim
<1>5. \A q \in Process : h[q] \in Nat /\ h[q] = Claim(q, g)'
  BY <1>2, <1>4 DEF Claims
<1>6. \A q \in Process \ {p} : h[q] = f[q]
  BY <1>3, <1>5 DEF Claim, At, OpenedBy
<1>7. /\ SumFunctionOnSet(h, Process) + f[p] = SumFunctionOnSet(f, Process) + h[p]
      /\ SumFunctionOnSet(h, Process) \in Nat /\ SumFunctionOnSet(f, Process) \in Nat
  BY <1>3, <1>5, <1>6, Limits, SumChanges
<1>8. Load(g) = SumFunctionOnSet(f, Process) /\ Load(g)' = SumFunctionOnSet(h, Process)
  BY <1>1, <1>2 DEF Load
<1> QED  BY <1>3, <1>5, <1>7, <1>8

\* What all but one are about to add is at most an entry for each.
LEMMA LoadOfOthers ==
  ASSUME TypeOK, NEW p \in Process, NEW g
  PROVE  Load(g) <= Claim(p, g) + (Cardinality(Process) - 1) * Max(EntrySize)
         /\ (Cardinality(Process) - 1) * Max(EntrySize) \in Nat
<1>1. PICK f : f = Claims(g)
  OBVIOUS
<1>m. PICK m \in Nat : m = Max(EntrySize)
  BY Largest
<1>2. \A q \in Process : f[q] \in 0..m /\ f[q] \in Nat
  BY <1>1, <1>m, ClaimsTyped
<1>3. PICK O : O = Process \ {p}
  OBVIOUS
<1>4. IsFiniteSet(O) /\ IsFiniteSet(Process)
  BY <1>3, Limits, FS_Subset
<1>5. Cardinality(O) = Cardinality(Process) - 1 /\ Cardinality(O) \in Nat
  BY <1>3, <1>4, FS_RemoveElement, FS_CardinalityType
<1>6. SumFunctionOnSet(f, O) <= Cardinality(O) * m
  BY <1>2, <1>3, <1>4, SumBounded
<1>7. SumFunctionOnSet(f, Process) = f[p] + SumFunctionOnSet(f, O)
      /\ SumFunctionOnSet(f, O) \in Nat
  BY <1>2, <1>3, <1>4, SumLaws
<1>8. f[p] = Claim(p, g) /\ f[p] \in Nat /\ Load(g) = SumFunctionOnSet(f, Process)
  BY <1>1, <1>2 DEF Claims, Load
<1>9. PICK k \in Nat : k = Cardinality(O)
  BY <1>5
<1>10. k * m \in Nat
  OBVIOUS
<1>11. (Cardinality(Process) - 1) * Max(EntrySize) = k * m
  BY <1>m, <1>5, <1>9
<1>12. SumFunctionOnSet(f, O) <= k * m
  BY <1>6, <1>9
<1> QED  BY <1>7, <1>8, <1>10, <1>11, <1>12

\* A step that changes neither a segment nor what is about to be added to it.
LEMMA LoadSettles ==
  ASSUME TypeOK, TypeOK', LoadInv, NEW p \in Process, DOMAIN file' \subseteq DOMAIN file,
         \A g \in DOMAIN file' : file'[g] = file[g],
         \A q \in Process \ {p} : writer'[q] = writer[q], writer'[p].pc # "write"
  PROVE  LoadInv'
<1> SUFFICES ASSUME NEW g \in DOMAIN file' PROVE Size(file'[g]) + Load(g)' <= Allowed
  BY DEF LoadInv, Allowed
<1>1. /\ Load(g)' + Claim(p, g) = Load(g) + Claim(p, g)'
      /\ Load(g) \in Nat /\ Load(g)' \in Nat /\ Claim(p, g) \in Nat /\ Claim(p, g)' \in Nat
  BY LoadMoves
<1>2. Claim(p, g)' = 0
  BY DEF Claim, At
<1>3. Size(file[g]) + Load(g) <= Allowed /\ Size(file[g]) \in Nat /\ file'[g] = file[g]
  BY Directory DEF LoadInv
<1>4. Allowed \in Int
  BY Limits, Largest, FS_CardinalityType DEF Allowed
<1> QED  BY <1>1, <1>2, <1>3, <1>4

\* An append that ends, with or without an error, leaves the directory and the others alone.
LEMMA EndsOK ==
  ASSUME LogInv, NEW p \in Process, ~At(p, "idle"),
         writer' = [writer EXCEPT ![p] = NoAppend], dirty' \in BOOLEAN,
         UNCHANGED <<file, clock, bounds, removed, overlapped>>,
         acked' = acked \/ (acked' = acked \cup {writer[p].id} /\ At(p, "remove"))
  PROVE  LogInv'
<1>0. TypeOK /\ AppendInv /\ KeptInv /\ LoadInv /\ AloneInv
  BY DEF LogInv
<1>1. /\ writer'[p] = NoAppend /\ \A q \in Process \ {p} : writer'[q] = writer[q]
      /\ writer' \in [Process -> Writer]
  BY <1>0, Rest DEF TypeOK
<1>2. acked' \subseteq EntryId
  BY <1>0 DEF TypeOK, AppendInv, AppendSafe
<1>3. TypeOK'
  BY <1>0, <1>1, <1>2 DEF TypeOK
<1>4. \A id : Kept(id)' <=> Kept(id)
  BY DEF Kept
<1>5. AppendInv'
  <2>1. AppendSafe(p)'
    BY <1>1, Rest DEF AppendSafe, At
  <2>2. \A q \in Process \ {p} : AppendSafe(q)'
    BY <1>0, <1>1, <1>4, OthersSafe DEF AppendInv, AppendSafe
  <2> QED  BY <2>1, <2>2 DEF AppendInv
<1>6. KeptInv'
  BY <1>0, <1>4 DEF KeptInv, AppendInv, AppendSafe
<1>7. LoadInv'
  BY <1>0, <1>1, <1>3, Rest, LoadSettles
<1>8. AloneInv'
  <2>1. ToPrune' = ToPrune
    BY DEF ToPrune, TotalOf
  <2> QED  BY <1>0, <1>1, <2>1, Rest DEF AloneInv, At
<1> QED  BY <1>3, <1>5, <1>6, <1>7, <1>8 DEF LogInv

\* An append begins.
LEMMA StartOK ==
  ASSUME LogInv, NEW p \in Process, NEW bytes \in EntrySize, Start(p, bytes)
  PROVE  LogInv'
<1>0. TypeOK /\ AppendInv /\ KeptInv /\ LoadInv /\ AloneInv
  BY DEF LogInv
<1>1. /\ At(p, "idle") /\ bounds.appends < MaxAppends
      /\ bounds' = [bounds EXCEPT !.appends = @ + 1]
      /\ writer' = [writer EXCEPT ![p] = [NoAppend EXCEPT !.pc = "open", !.bytes = bytes,
                                            !.id = bounds.appends + 1, !.day = clock]]
      /\ overlapped' = (overlapped \/ \E q \in Process : ~At(q, "idle"))
      /\ UNCHANGED <<file, clock, acked, removed, dirty>>
  BY DEF Start
<1>2. bounds.appends + 1 \in EntryId /\ bounds.appends + 1 \in 0..MaxAppends
  BY <1>0, <1>1, Limits DEF TypeOK, EntryId
<1>3. /\ writer'[p] = [pc |-> "open", id |-> bounds.appends + 1, bytes |-> bytes,
                       day |-> clock, seg |-> 0, doomed |-> {}]
      /\ \A q \in Process \ {p} : writer'[q] = writer[q]
  BY <1>0, <1>1 DEF NoAppend, TypeOK
<1>4. writer' \in [Process -> Writer]
  <2>1. writer'[p] \in Writer
    BY <1>0, <1>2, <1>3, Limits DEF TypeOK, Writer
  <2> QED  BY <1>0, <1>1, <1>3, <2>1 DEF TypeOK
<1>5. TypeOK'
  BY <1>0, <1>1, <1>2, <1>4 DEF TypeOK
<1>6. \A id : Kept(id)' <=> Kept(id)
  BY <1>1 DEF Kept
<1>7. AppendInv'
  <2>1. AppendSafe(p)'
    BY <1>2, <1>3 DEF AppendSafe, At
  <2>2. \A q \in Process \ {p} : AppendSafe(q)'
    BY <1>0, <1>1, <1>3, <1>6, OthersSafe DEF AppendInv, AppendSafe
  <2> QED  BY <2>1, <2>2 DEF AppendInv
<1>8. KeptInv'
  BY <1>0, <1>1, <1>6 DEF KeptInv
<1>9. LoadInv'
  BY <1>0, <1>1, <1>3, <1>5, LoadSettles
<1>10. AloneInv'
  <2> SUFFICES ASSUME ~overlapped' PROVE AloneInv'
    BY DEF AloneInv
  <2>1. \A q \in Process \ {p} : writer'[q].pc = "idle"
    BY <1>1, <1>3 DEF At
  <2> QED  BY <1>3, <2>1 DEF AloneInv, At
<1> QED  BY <1>5, <1>7, <1>8, <1>9, <1>10 DEF LogInv

\* The segment of the day that has room is opened, and the append lays claim to it.
LEMMA OpenOK ==
  ASSUME LogInv, NEW p \in Process, OpenSegment(p)
  PROVE  LogInv'
<1>0. TypeOK /\ AppendInv /\ KeptInv /\ LoadInv /\ AloneInv
  BY DEF LogInv
<1>1. At(p, "open") /\ UNCHANGED <<clock, bounds, acked, removed, dirty, overlapped>>
  BY DEF OpenSegment
<1>2. PICK s \in FirstFit(writer[p].day, writer[p].bytes) :
        /\ file' = [h \in DOMAIN file \cup {<<writer[p].day, s>>} |->
                      IF h \in DOMAIN file THEN file[h] ELSE <<>>]
        /\ writer' = [writer EXCEPT ![p].pc = "write", ![p].seg = s]
  BY DEF OpenSegment
<1>3. PICK g : g = <<writer[p].day, s>>
  OBVIOUS
<1>4. /\ writer[p] \in Writer /\ writer[p].bytes \in EntrySize /\ s \in 0..MaxSegment
      /\ g \in DOMAIN file => Size(file[g]) <= FileBytes - writer[p].bytes
  BY <1>0, <1>1, <1>2, <1>3 DEF TypeOK, AppendInv, AppendSafe, At, FirstFit
<1>5. /\ writer'[p] = [writer[p] EXCEPT !.pc = "write", !.seg = s]
      /\ \A q \in Process \ {p} : writer'[q] = writer[q]
      /\ DOMAIN writer' = Process
  BY <1>0, <1>2 DEF TypeOK
<1>6. /\ writer'[p].pc = "write" /\ writer'[p].id = writer[p].id
      /\ writer'[p].bytes = writer[p].bytes /\ writer'[p].day = writer[p].day
      /\ writer'[p].seg = s /\ writer'[p] \in Writer
  BY <1>4, <1>5 DEF Writer
<1>7. /\ DOMAIN file' = DOMAIN file \cup {g}
      /\ \A h \in DOMAIN file : file'[h] = file[h]
      /\ g \notin DOMAIN file => file'[g] = <<>>
  BY <1>2, <1>3
<1>8. TypeOK'
  <2>1. g \in Segment
    BY <1>3, <1>4 DEF Segment, Writer
  <2>2. \A h \in DOMAIN file' : h \in Segment /\ file'[h] \in Seq(Chunk)
    <3> SUFFICES ASSUME NEW h \in DOMAIN file'
                 PROVE  h \in Segment /\ file'[h] \in Seq(Chunk)
      OBVIOUS
    <3>1. CASE h \in DOMAIN file
      BY <1>0, <1>7, <3>1 DEF TypeOK
    <3>2. CASE h \notin DOMAIN file
      <4>1. h = g /\ file'[h] = <<>>
        BY <1>7, <3>2
      <4> QED  BY <2>1, <4>1
    <3> QED  BY <3>1, <3>2
  <2>3. writer' \in [Process -> Writer]
    BY <1>0, <1>2, <1>5, <1>6 DEF TypeOK
  <2> QED  BY <1>0, <1>1, <2>2, <2>3 DEF TypeOK
<1>9. \A id : Kept(id) => Kept(id)'
  BY <1>1, <1>7 DEF Kept
<1>10. AppendInv'
  <2>1. AppendSafe(p)'
    <3>1. OpenedBy(p)' = g /\ g \in DOMAIN file'
      BY <1>3, <1>6, <1>7 DEF OpenedBy
    <3>2. writer'[p].id \in EntryId /\ writer'[p].bytes \in EntrySize
      BY <1>0, <1>1, <1>6 DEF AppendInv, AppendSafe, At
    <3> QED  BY <1>6, <3>1, <3>2 DEF AppendSafe, At
  <2>2. \A q \in Process \ {p} : AppendSafe(q)'
    BY <1>0, <1>5, <1>7, <1>9, OthersSafe DEF AppendInv, AppendSafe
  <2> QED  BY <2>1, <2>2 DEF AppendInv
<1>11. KeptInv'
  BY <1>0, <1>1, <1>9 DEF KeptInv
<1>12. ASSUME NEW h \in DOMAIN file'
       PROVE  Size(file'[h]) + Load(h)' <= Allowed
  <2>1. /\ Load(h)' + Claim(p, h) = Load(h) + Claim(p, h)'
        /\ Load(h) \in Nat /\ Load(h)' \in Nat /\ Claim(p, h) \in Nat /\ Claim(p, h)' \in Nat
    BY <1>0, <1>5, <1>8, LoadMoves
  <2>2. Claim(p, h) = 0
    BY <1>1 DEF Claim, At
  <2>3. Claim(p, h)' = IF h = g THEN writer[p].bytes ELSE 0
    BY <1>3, <1>6 DEF Claim, At, OpenedBy
  <2>4. CASE h # g
    <3>1. Size(file[h]) + Load(h) <= Allowed /\ file'[h] = file[h]
      BY <1>0, <1>7, <2>4 DEF LoadInv
    <3> QED  BY <2>1, <2>2, <2>3, <2>4, <3>1
  <2>5. CASE h = g
    <3>1. PICK k \in Nat : k = (Cardinality(Process) - 1) * Max(EntrySize)
      BY <1>0, LoadOfOthers
    <3>2. Load(h) <= k
      BY <1>0, <2>1, <2>2, <3>1, LoadOfOthers
    <3>3. writer[p].bytes \in Nat /\ writer[p].bytes <= FileBytes /\ FileBytes \in Nat
      BY <1>4, Largest, Limits
    <3>4. Size(file'[h]) <= FileBytes - writer[p].bytes /\ Size(file'[h]) \in Nat
      <4>1. CASE g \in DOMAIN file
        BY <1>0, <1>4, <1>7, <2>5, <4>1, Directory
      <4>2. CASE g \notin DOMAIN file
        <5>1. file'[h] = <<>> /\ <<>> \in Seq(Chunk)
          BY <1>7, <2>5, <4>2
        <5>2. Size(<<>>) = 0
          BY <5>1, SizeLaws
        <5> QED  BY <3>3, <5>1, <5>2
      <4> QED  BY <4>1, <4>2
    <3>5. Allowed = FileBytes + k
      BY <3>1 DEF Allowed
    <3> QED  BY <2>1, <2>2, <2>3, <2>5, <3>2, <3>3, <3>4, <3>5
  <2> QED  BY <2>4, <2>5
<1>13. LoadInv'
  BY <1>12 DEF LoadInv, Allowed
<1>14. AloneInv'
  <2> SUFFICES ASSUME ~overlapped PROVE AloneInv'
    BY <1>1 DEF AloneInv
  <2>1. \A q \in Process \ {p} : At(q, "idle")
    BY <1>0, <1>1 DEF AloneInv, At
  <2>2. (\A q \in Process \ {p} : At(q, "idle")') /\ At(p, "write")'
    BY <1>5, <1>6, <2>1 DEF At
  <2> QED  BY <2>2 DEF AloneInv, At
<1> QED  BY <1>8, <1>10, <1>11, <1>13, <1>14 DEF LogInv

\* A line, or the beginning of one, is added to the opened segment.
LEMMA WriteOK ==
  ASSUME LogInv, NEW p \in Process, At(p, "write"), NEW bytes \in 1..writer[p].bytes,
         NEW end \in {"newline", "unterminated", "cut"}, AppendChunk(p, bytes, end),
         UNCHANGED <<clock, acked, removed, overlapped>>,
         bounds' \in [appends : 0..MaxAppends, cuts : 0..MaxCuts, moves : 0..MaxClockMoves],
         \/ end = "newline" /\ Move(p, "scan")
         \/ writer' = [writer EXCEPT ![p] = NoAppend]
  PROVE  LogInv'
<1>0. TypeOK /\ AppendInv /\ KeptInv /\ LoadInv /\ AloneInv
  BY DEF LogInv
<1>1. PICK g : g = OpenedBy(p)
  OBVIOUS
<1>2. PICK c : c = [id |-> writer[p].id, bytes |-> bytes, end |-> end]
  OBVIOUS
<1>3. /\ g \in DOMAIN file /\ writer[p].id \in EntryId /\ writer[p].bytes \in EntrySize
      /\ writer[p] \in Writer /\ file[g] \in Seq(Chunk)
  BY <1>0, <1>1 DEF AppendInv, AppendSafe, At, TypeOK
<1>4. bytes \in Nat \ {0} /\ bytes <= writer[p].bytes /\ writer[p].bytes \in Nat
  BY <1>3, Largest
<1>5. c \in Chunk /\ c.bytes = bytes
  BY <1>2, <1>3, <1>4 DEF Chunk
<1>6. /\ file' = [file EXCEPT ![g] = Append(@, c)] /\ dirty' = TRUE
      /\ DOMAIN file' = DOMAIN file /\ file'[g] = Append(file[g], c)
      /\ \A h \in DOMAIN file : h # g => file'[h] = file[h]
  BY <1>1, <1>2, <1>3 DEF AppendChunk
<1>7. /\ \A q \in Process \ {p} : writer'[q] = writer[q]
      /\ \/ writer'[p] = [writer[p] EXCEPT !.pc = "scan"] /\ end = "newline"
         \/ writer'[p] = NoAppend
  BY <1>0 DEF TypeOK, Move
<1>8. /\ writer'[p] \in Writer /\ writer'[p].pc \in {"idle", "scan"}
      /\ writer'[p].pc = "scan" => /\ writer'[p].id = writer[p].id /\ end = "newline"
                                   /\ writer'[p].bytes = writer[p].bytes
  BY <1>3, <1>7, Rest DEF Writer
<1>9. TypeOK'
  <2>1. Append(file[g], c) \in Seq(Chunk)
    BY <1>3, <1>5
  <2>2. DOMAIN file' \subseteq Segment /\ \A h \in DOMAIN file' : file'[h] \in Seq(Chunk)
    BY <1>0, <1>6, <2>1 DEF TypeOK
  <2>3. writer' \in [Process -> Writer]
    BY <1>0, <1>7, <1>8, Rest DEF TypeOK, Move
  <2> QED  BY <1>0, <1>6, <2>2, <2>3 DEF TypeOK
<1>10. PICK n \in Nat : n = Len(file[g])
  BY <1>3
<1>11. /\ DOMAIN file[g] = 1..n /\ DOMAIN file'[g] = 1..(n + 1) /\ file'[g][n + 1] = c
       /\ \A i \in 1..n : file'[g][i] = file[g][i]
  BY <1>3, <1>5, <1>6, <1>10
<1>12. \A id : Kept(id) => Kept(id)'
  <2>1. \A h \in DOMAIN file : /\ h \in DOMAIN file' /\ DOMAIN file[h] \subseteq DOMAIN file'[h]
                               /\ \A i \in DOMAIN file[h] : file'[h][i] = file[h][i]
    BY <1>6, <1>11
  <2> QED  BY <2>1, KeptStays
<1>13. writer'[p].pc = "scan" => Kept(writer[p].id)'
  <2> SUFFICES ASSUME writer'[p].pc = "scan" PROVE Kept(writer[p].id)'
    OBVIOUS
  <2>1. c.id = writer'[p].id /\ c.end = "newline"
    BY <1>2, <1>8
  <2>2. g \in DOMAIN file' /\ n + 1 \in DOMAIN file'[g]
    BY <1>3, <1>6, <1>11
  <2>3. file'[g][n + 1].id = writer'[p].id /\ file'[g][n + 1].end = "newline"
    BY <1>11, <2>1
  <2> QED  BY <2>2, <2>3 DEF Kept
<1>14. AppendInv'
  <2>1. AppendSafe(p)'
    BY <1>3, <1>8, <1>13 DEF AppendSafe, At
  <2>2. \A q \in Process \ {p} : AppendSafe(q)'
    BY <1>0, <1>6, <1>7, <1>12, OthersSafe DEF AppendInv, AppendSafe
  <2> QED  BY <2>1, <2>2 DEF AppendInv
<1>15. KeptInv'
  BY <1>0, <1>12 DEF KeptInv
<1>16. ASSUME NEW h \in DOMAIN file'
       PROVE  Size(file'[h]) + Load(h)' <= Allowed
  <2>1. /\ Load(h)' + Claim(p, h) = Load(h) + Claim(p, h)'
        /\ Load(h) \in Nat /\ Load(h)' \in Nat /\ Claim(p, h) \in Nat /\ Claim(p, h)' \in Nat
    BY <1>0, <1>7, <1>9, LoadMoves
  <2>2. Claim(p, h)' = 0
    BY <1>8 DEF Claim, At
  <2>3. Size(file[h]) + Load(h) <= Allowed /\ Size(file[h]) \in Nat
    BY <1>0, <1>6, Directory DEF LoadInv
  <2>4. Allowed \in Int
    BY Limits, Largest, FS_CardinalityType DEF Allowed
  <2>5. CASE h # g
    BY <1>6, <2>1, <2>2, <2>3, <2>4, <2>5
  <2>6. CASE h = g
    <3>1. Claim(p, h) = writer[p].bytes
      BY <1>1, <2>6 DEF Claim
    <3>2. Size(file'[h]) = Size(file[h]) + bytes
      BY <1>3, <1>5, <1>6, <2>6, SizeLaws
    <3> QED  BY <1>4, <2>1, <2>2, <2>3, <2>4, <3>1, <3>2
  <2> QED  BY <2>5, <2>6
<1>17. LoadInv'
  BY <1>16 DEF LoadInv, Allowed
<1>18. AloneInv'
  <2> SUFFICES ASSUME ~overlapped PROVE AloneInv'
    BY DEF AloneInv
  <2>1. \A q \in Process \ {p} : At(q, "idle")
    BY <1>0 DEF AloneInv, At
  <2>2. (\A q \in Process \ {p} : At(q, "idle")') /\ ~At(p, "remove")'
    BY <1>7, <1>8, <2>1 DEF At
  <2> QED  BY <2>2 DEF AloneInv, At
<1> QED  BY <1>9, <1>14, <1>15, <1>17, <1>18 DEF LogInv

\* The directory is listed for the prune.
LEMMA ScanOK ==
  ASSUME LogInv, NEW p \in Process, Scan(p)
  PROVE  LogInv'
<1>0. TypeOK /\ AppendInv /\ KeptInv /\ LoadInv /\ AloneInv
  BY DEF LogInv
<1>1. /\ At(p, "scan") /\ UNCHANGED <<file, clock, bounds, acked, removed, dirty, overlapped>>
      /\ writer' = [writer EXCEPT ![p].pc = "remove", ![p].doomed = ToPrune]
  BY DEF Scan
<1>2. writer[p] \in Writer /\ ToPrune \in SUBSET Segment
  BY <1>0 DEF TypeOK, ToPrune
<1>3. /\ writer'[p] = [writer[p] EXCEPT !.pc = "remove", !.doomed = ToPrune]
      /\ \A q \in Process \ {p} : writer'[q] = writer[q]
      /\ DOMAIN writer' = Process
  BY <1>0, <1>1 DEF TypeOK
<1>4. /\ writer'[p].pc = "remove" /\ writer'[p].id = writer[p].id
      /\ writer'[p].bytes = writer[p].bytes /\ writer'[p].doomed = ToPrune
      /\ writer'[p] \in Writer
  BY <1>2, <1>3 DEF Writer
<1>5. writer' \in [Process -> Writer]
  BY <1>0, <1>1, <1>3, <1>4 DEF TypeOK
<1>6. TypeOK'
  BY <1>0, <1>1, <1>5 DEF TypeOK
<1>7. \A id : Kept(id)' <=> Kept(id)
  BY <1>1 DEF Kept
<1>8. AppendInv'
  <2>1. AppendSafe(p)'
    <3>1. Kept(writer[p].id)'
      <4>1. PICK id : id = writer[p].id
        OBVIOUS
      <4>2. Kept(id)'
        BY <1>0, <1>1, <1>7, <4>1 DEF AppendInv, AppendSafe
      <4>3. id = writer'[p].id
        BY <1>4, <4>1
      <4> QED  BY <4>2, <4>3 DEF Kept
    <3> QED  BY <1>0, <1>1, <1>4, <3>1 DEF AppendInv, AppendSafe, At
  <2>2. \A q \in Process \ {p} : AppendSafe(q)'
    BY <1>0, <1>1, <1>3, <1>7, OthersSafe DEF AppendInv, AppendSafe
  <2> QED  BY <2>1, <2>2 DEF AppendInv
<1>9. KeptInv'
  BY <1>0, <1>1, <1>7 DEF KeptInv
<1>10. LoadInv'
  BY <1>0, <1>1, <1>3, <1>4, <1>6, LoadSettles
<1>11. AloneInv'
  <2> SUFFICES ASSUME ~overlapped PROVE AloneInv'
    BY <1>1 DEF AloneInv
  <2>1. \A q \in Process \ {p} : At(q, "idle")
    BY <1>0, <1>1 DEF AloneInv, At
  <2>2. (\A q \in Process \ {p} : writer'[q].pc = "idle") /\ ToPrune' = ToPrune
    BY <1>1, <1>3, <2>1 DEF At, ToPrune, TotalOf
  <2> QED  BY <1>4, <2>2 DEF AloneInv, At
<1> QED  BY <1>6, <1>8, <1>9, <1>10, <1>11 DEF LogInv

\* One process at a time deletes the oldest segment of the directory, while there is too
\* much in it.
LEMMA OldestGoes ==
  ASSUME LogInv, ~overlapped, NEW p \in Process, At(p, "remove"),
         NEW g \in writer[p].doomed \cap DOMAIN file,
         \A h \in writer[p].doomed : h = g \/ Older(g, h)
  PROVE  /\ writer[p].doomed = ToPrune
         /\ TotalOf(DOMAIN file) > TotalBytes
         /\ \A h \in DOMAIN file \ {g} : Older(g, h)
<1>1. TypeOK /\ writer[p].doomed = ToPrune
  BY DEF LogInv, AloneInv
<1>2. DOMAIN file \subseteq Segment
  BY <1>1 DEF TypeOK
<1>3. PICK S : S = {h \in DOMAIN file : h = g \/ Older(g, h)}
  OBVIOUS
<1>4. TotalOf(S) > TotalBytes
  BY <1>1, <1>3 DEF ToPrune
<1>5. TotalBytes \in Nat
  BY Limits
<1>6. TotalOf(S) <= TotalOf(DOMAIN file) /\ TotalOf(S) \in Nat /\ TotalOf(DOMAIN file) \in Nat
  BY <1>1, <1>3, TotalMonotone
<1>7. ASSUME NEW h \in DOMAIN file \ {g}
      PROVE  Older(g, h)
  <2> SUFFICES ASSUME Older(h, g) PROVE FALSE
    BY <1>2, OlderOrders
  <2>1. PICK T : T = {k \in DOMAIN file : k = h \/ Older(h, k)}
    OBVIOUS
  <2>2. S \subseteq T /\ T \subseteq DOMAIN file
    BY <1>2, <1>3, <2>1, OlderOrders
  <2>3. TotalOf(S) <= TotalOf(T) /\ TotalOf(T) \in Nat
    BY <1>1, <2>2, TotalMonotone
  <2>4. TotalOf(T) > TotalBytes
    BY <1>4, <1>5, <1>6, <2>3
  <2>5. h \in ToPrune
    BY <2>1, <2>4 DEF ToPrune
  <2>6. Older(g, h)
    BY <1>1, <2>5
  <2> QED  BY <1>2, <2>6, OlderOrders
<1> QED  BY <1>1, <1>4, <1>5, <1>6, <1>7

\* What a prune still has to delete once the oldest segment has gone.
LEMMA PruneContinues ==
  ASSUME TypeOK, NEW g \in DOMAIN file, \A h \in DOMAIN file \ {g} : Older(g, h),
         DOMAIN file' = DOMAIN file \ {g}, \A h \in DOMAIN file' : file'[h] = file[h]
  PROVE  ToPrune' = ToPrune \ {g}
<1>1. DOMAIN file \subseteq Segment
  BY DEF TypeOK
<1>2. ASSUME NEW h \in DOMAIN file'
      PROVE  h \in ToPrune' <=> h \in ToPrune
  <2>1. PICK S : S = {k \in DOMAIN file : k = h \/ Older(h, k)}
    OBVIOUS
  <2>2. h # g /\ h \in DOMAIN file /\ ~Older(h, g)
    BY <1>1, OlderOrders
  <2>3. S = {k \in DOMAIN file' : k = h \/ Older(h, k)}
    BY <2>1, <2>2
  <2>4. PICK f : f = [k \in S |-> Size(file[k])]
    OBVIOUS
  <2>5. f = [k \in S |-> Size(file'[k])]
    BY <2>3, <2>4
  <2>6. h \in ToPrune <=> SumFunctionOnSet(f, S) > TotalBytes
    BY <2>1, <2>2, <2>4 DEF ToPrune, TotalOf
  <2>7. h \in ToPrune' <=> SumFunctionOnSet(f, S) > TotalBytes
    BY <2>3, <2>5 DEF ToPrune, TotalOf
  <2> QED  BY <2>6, <2>7
<1>3. ToPrune' \subseteq DOMAIN file' /\ ToPrune \subseteq DOMAIN file
  BY DEF ToPrune
<1> QED  BY <1>2, <1>3

\* The oldest segment of the list is deleted, unless an append has it open.
LEMMA RemoveOK ==
  ASSUME LogInv, NEW p \in Process, RemoveOldest(p)
  PROVE  LogInv'
<1>0. TypeOK /\ AppendInv /\ KeptInv /\ LoadInv /\ AloneInv
  BY DEF LogInv
<1>1. At(p, "remove") /\ UNCHANGED <<clock, bounds, acked, dirty, overlapped>>
  BY DEF RemoveOldest
<1>2. PICK g \in writer[p].doomed \cap DOMAIN file :
        /\ \A h \in writer[p].doomed : h = g \/ Older(g, h)
        /\ \A q \in Process : At(q, "write") => OpenedBy(q) # g
        /\ file' = [h \in DOMAIN file \ {g} |-> file[h]]
        /\ removed' = removed \cup {file[g][i].id : i \in DOMAIN file[g]}
        /\ writer' = [writer EXCEPT ![p].doomed = @ \ {g}]
  BY DEF RemoveOldest
<1>3. /\ DOMAIN file' = DOMAIN file \ {g} /\ \A h \in DOMAIN file' : file'[h] = file[h]
      /\ writer[p] \in Writer
  BY <1>0, <1>2 DEF TypeOK
<1>4. /\ writer'[p] = [writer[p] EXCEPT !.doomed = @ \ {g}]
      /\ \A q \in Process \ {p} : writer'[q] = writer[q]
      /\ DOMAIN writer' = Process
  BY <1>0, <1>2 DEF TypeOK
<1>5. /\ writer'[p].pc = "remove" /\ writer'[p].id = writer[p].id
      /\ writer'[p].bytes = writer[p].bytes /\ writer'[p].doomed = writer[p].doomed \ {g}
      /\ writer'[p] \in Writer
  BY <1>1, <1>3, <1>4 DEF Writer, At
<1>6. TypeOK'
  <2>1. removed' \subseteq EntryId
    <3>1. \A i \in DOMAIN file[g] : file[g][i] \in Chunk
      BY <1>0, <1>2 DEF TypeOK
    <3> QED  BY <1>0, <1>2, <3>1 DEF TypeOK, Chunk
  <2>2. writer' \in [Process -> Writer]
    BY <1>0, <1>2, <1>4, <1>5 DEF TypeOK
  <2> QED  BY <1>0, <1>1, <1>3, <2>1, <2>2 DEF TypeOK
<1>7. \A id : Kept(id) => Kept(id)'
  <2>1. removed \subseteq removed' /\ \A i \in DOMAIN file[g] : file[g][i].id \in removed'
    BY <1>2
  <2>2. \A h \in DOMAIN file : h # g => h \in DOMAIN file' /\ file'[h] = file[h]
    BY <1>3
  <2> QED  BY <2>1, <2>2, KeptStays
<1>8. AppendInv'
  <2>1. AppendSafe(p)'
    <3>1. PICK id : id = writer[p].id
      OBVIOUS
    <3>2. Kept(id)'
      BY <1>0, <1>1, <1>7, <3>1 DEF AppendInv, AppendSafe
    <3>3. id = writer'[p].id
      BY <1>5, <3>1
    <3>4. Kept(writer[p].id)'
      BY <3>2, <3>3 DEF Kept
    <3> QED  BY <1>0, <1>1, <1>5, <3>4 DEF AppendInv, AppendSafe, At
  <2>2. ASSUME NEW q \in Process \ {p} PROVE AppendSafe(q)'
    <3>1. At(q, "write") => OpenedBy(q) \in DOMAIN file'
      BY <1>0, <1>2, <1>3 DEF AppendInv, AppendSafe
    <3> QED  BY <1>0, <1>4, <1>7, <3>1, OthersSafe DEF AppendInv
  <2> QED  BY <2>1, <2>2 DEF AppendInv
<1>9. KeptInv'
  BY <1>0, <1>1, <1>7 DEF KeptInv
<1>10. LoadInv'
  BY <1>0, <1>3, <1>4, <1>5, <1>6, LoadSettles
<1>11. AloneInv'
  <2> SUFFICES ASSUME ~overlapped PROVE AloneInv'
    BY <1>1 DEF AloneInv
  <2>1. \A q \in Process \ {p} : At(q, "idle")
    BY <1>0, <1>1 DEF AloneInv, At
  <2>2. \A q \in Process \ {p} : writer'[q].pc = "idle"
    BY <1>4, <2>1 DEF At
  <2>3. writer[p].doomed = ToPrune /\ \A h \in DOMAIN file \ {g} : Older(g, h)
    BY <1>1, <1>2, OldestGoes
  <2>4. ToPrune' = ToPrune \ {g}
    BY <1>0, <1>3, <2>3, PruneContinues
  <2> QED  BY <1>5, <2>2, <2>3, <2>4 DEF AloneInv, At
<1> QED  BY <1>6, <1>8, <1>9, <1>10, <1>11 DEF LogInv

-----------------------------------------------------------------------------
(* The invariant holds in every state.                                     *)

\* The log starts with an empty directory and no append in progress.
LEMMA EmptyLog == ASSUME Init PROVE LogInv
<1>1. DOMAIN file = {} /\ \A p \in Process : writer[p] = NoAppend
  BY DEF Init
<1>2. TypeOK
  <2>1. writer \in [Process -> Writer]
    BY Rest DEF Init
  <2>2. clock \in Day
    BY Limits DEF Init, Day
  <2>3. bounds \in [appends : 0..MaxAppends, cuts : 0..MaxCuts, moves : 0..MaxClockMoves]
    BY Limits DEF Init
  <2> QED  BY <1>1, <2>1, <2>2, <2>3 DEF Init, TypeOK
<1>3. AppendInv /\ KeptInv /\ LoadInv /\ AloneInv
  BY Rest, <1>1 DEF Init, AppendInv, AppendSafe, KeptInv, LoadInv, AloneInv, At
<1> QED  BY <1>2, <1>3 DEF LogInv

\* The clock concerns no append in progress.
LEMMA ClockOK ==
  ASSUME LogInv, NEW d \in Day, SetClock(d)
  PROVE  LogInv'
<1>1. /\ bounds.moves < MaxClockMoves /\ clock' = d
      /\ bounds' = [bounds EXCEPT !.moves = @ + 1]
      /\ UNCHANGED <<file, writer, acked, removed, dirty, overlapped>>
  BY DEF SetClock
<1>2. TypeOK'
  <2>1. bounds.moves + 1 \in 0..MaxClockMoves
    BY Limits, <1>1 DEF LogInv, TypeOK
  <2> QED  BY <1>1, <2>1 DEF LogInv, TypeOK
<1>3. AppendInv' /\ KeptInv'
  BY <1>1 DEF LogInv, AppendInv, AppendSafe, KeptInv, Kept, At, OpenedBy
<1>4. LoadInv'
  <2>1. \A g : Load(g)' = Load(g)
    BY <1>1 DEF Load, Claims, Claim, At, OpenedBy
  <2> QED  BY <1>1, <2>1 DEF LogInv, LoadInv, Allowed
<1>5. AloneInv'
  BY <1>1 DEF LogInv, AloneInv, At, ToPrune, TotalOf
<1> QED  BY <1>2, <1>3, <1>4, <1>5 DEF LogInv

\* Every step keeps the invariant.
LEMMA StepOK == ASSUME LogInv, [Next]_vars PROVE LogInv'
<1>1. ASSUME NEW p \in Process, NEW bytes \in EntrySize, Start(p, bytes) PROVE LogInv'
  BY <1>1, StartOK
<1>2. ASSUME NEW p \in Process, OpenSegment(p) PROVE LogInv'
  BY <1>2, OpenOK
<1>3. ASSUME NEW p \in Process, WriteLine(p) PROVE LogInv'
  <2>1. /\ At(p, "write") /\ AppendChunk(p, writer[p].bytes, "newline") /\ Move(p, "scan")
        /\ UNCHANGED <<clock, bounds, acked, removed, overlapped>>
    BY <1>3 DEF WriteLine
  <2>2. writer[p].bytes \in Nat \ {0}
    BY <2>1, Largest DEF LogInv, AppendInv, AppendSafe, At
  <2>3. writer[p].bytes \in 1..writer[p].bytes
    BY <2>2
  <2>4. bounds' \in [appends : 0..MaxAppends, cuts : 0..MaxCuts, moves : 0..MaxClockMoves]
    BY <2>1 DEF LogInv, TypeOK
  <2> QED  BY <2>1, <2>3, <2>4, WriteOK
<1>4. ASSUME NEW p \in Process, WriteCut(p) PROVE LogInv'
  <2>1. /\ At(p, "write") /\ bounds.cuts < MaxCuts
        /\ bounds' = [bounds EXCEPT !.cuts = @ + 1]
        /\ writer' = [writer EXCEPT ![p] = NoAppend]
        /\ UNCHANGED <<clock, acked, removed, overlapped>>
    BY <1>4 DEF WriteCut
  <2>2. PICK bytes \in 1..(writer[p].bytes - 1) :
          \E end \in {"cut", "unterminated"} : AppendChunk(p, bytes, end)
    BY <1>4 DEF WriteCut
  <2>3. PICK end \in {"cut", "unterminated"} : AppendChunk(p, bytes, end)
    BY <2>2
  <2>4. bytes \in 1..writer[p].bytes
    <3>1. writer[p].bytes \in Nat
      BY <2>1, Largest DEF LogInv, AppendInv, AppendSafe, At
    <3> QED  BY <3>1
  <2>5. bounds' \in [appends : 0..MaxAppends, cuts : 0..MaxCuts, moves : 0..MaxClockMoves]
    <3>1. bounds.cuts + 1 \in 0..MaxCuts
      BY Limits, <2>1 DEF LogInv, TypeOK
    <3> QED  BY <2>1, <3>1 DEF LogInv, TypeOK
  <2> QED  BY <2>1, <2>3, <2>4, <2>5, WriteOK
<1>5. ASSUME NEW p \in Process, Scan(p) PROVE LogInv'
  BY <1>5, ScanOK
<1>6. ASSUME NEW p \in Process, RemoveOldest(p) PROVE LogInv'
  BY <1>6, RemoveOK
<1>7. ASSUME NEW p \in Process, Acknowledge(p) PROVE LogInv'
  <2>1. /\ At(p, "remove") /\ ~At(p, "idle") /\ writer' = [writer EXCEPT ![p] = NoAppend]
        /\ acked' = acked \cup {writer[p].id} /\ dirty' \in BOOLEAN
        /\ UNCHANGED <<file, clock, bounds, removed, overlapped>>
    BY <1>7 DEF Acknowledge, At
  <2> QED  BY <2>1, EndsOK
<1>8. ASSUME NEW p \in Process, Abandon(p) PROVE LogInv'
  <2>1. /\ ~At(p, "idle") /\ writer' = [writer EXCEPT ![p] = NoAppend]
        /\ acked' = acked /\ dirty' \in BOOLEAN
        /\ UNCHANGED <<file, clock, bounds, removed, overlapped>>
    BY <1>8 DEF Abandon, LogInv, TypeOK
  <2> QED  BY <2>1, EndsOK
<1>9. ASSUME NEW d \in Day, SetClock(d) PROVE LogInv'
  BY <1>9, ClockOK
<1>10. ASSUME UNCHANGED vars PROVE LogInv'
  <2>1. TypeOK'
    BY <1>10 DEF vars, LogInv, TypeOK
  <2>3. AppendInv' /\ KeptInv'
    BY <1>10 DEF vars, LogInv, AppendInv, AppendSafe, KeptInv, Kept, At, OpenedBy
  <2>4. AloneInv'
    BY <1>10 DEF vars, LogInv, AloneInv, At, ToPrune, TotalOf
  <2>2. LoadInv'
    <3>1. \A g : Load(g)' = Load(g)
      BY <1>10 DEF vars, Load, Claims, Claim, At, OpenedBy
    <3> QED  BY <1>10, <3>1 DEF vars, LogInv, LoadInv, Allowed
  <2> QED  BY <2>1, <2>2, <2>3, <2>4 DEF LogInv
<1> QED
  BY <1>1, <1>2, <1>3, <1>4, <1>5, <1>6, <1>7, <1>8, <1>9, <1>10 DEF Next, Finished

\* The invariant holds throughout.
LEMMA LogSound == Spec => []LogInv
<1>1. Init => LogInv
  BY EmptyLog
<1>2. LogInv /\ [Next]_vars => LogInv'
  BY StepOK
<1> QED  BY <1>1, <1>2, PTL DEF Spec

-----------------------------------------------------------------------------
(* What the walk of ReadAll relies on.                                     *)

\* As long as no two appends were in progress together, a directory that a scan accepted, and
\* one after an append that returned nil, is within the bounds of the walk.
FitsInv ==
    ~overlapped =>
        /\ ~dirty => TotalOf(DOMAIN file) <= TotalBytes
        /\ ~dirty \/ (\E p \in Process : At(p, "remove")) =>
              \A g \in DOMAIN file : Size(file[g]) <= FileBytes

\* No line of the directory has this entry.
Unwritten(id) == \A g \in DOMAIN file : \A i \in DOMAIN file[g] : file[g][i].id # id

\* Appends in progress have entries of their own, that no line has before the write.
NumberInv ==
    /\ \A p \in Process : writer[p].id <= bounds.appends
    /\ \A p, q \in Process :
          ~At(p, "idle") /\ ~At(q, "idle") /\ writer[p].id = writer[q].id => p = q
    /\ \A p \in Process : At(p, "open") \/ At(p, "write") => Unwritten(writer[p].id)
    /\ \A g \in DOMAIN file : \A i \in DOMAIN file[g] : file[g][i].id <= bounds.appends

\* No entry stands in two places.
DistinctInv ==
    \A g, h \in DOMAIN file : \A i \in DOMAIN file[g], j \in DOMAIN file[h] :
        file[g][i].id = file[h][j].id => g = h /\ i = j

\* All of it.
WalkInv == FitsInv /\ NumberInv /\ DistinctInv

\* A step that neither adds a line nor begins an append leaves the entries apart.
LEMMA ApartStays ==
  ASSUME LogInv, NumberInv, DistinctInv, UNCHANGED bounds.appends,
         DOMAIN writer' = Process,
         \A p \in Process : \/ writer'[p].pc = "idle" /\ writer'[p].id = 0
                            \/ /\ writer'[p].id = writer[p].id /\ ~At(p, "idle")
                               /\ writer'[p].pc \in {"open", "write"} =>
                                     At(p, "open") \/ At(p, "write")
                            \/ writer'[p] = writer[p],
         \A g \in DOMAIN file' : (g \in DOMAIN file /\ file'[g] = file[g]) \/ file'[g] = <<>>
  PROVE  NumberInv' /\ DistinctInv'
<1>1. \A g \in DOMAIN file' : \A i \in DOMAIN file'[g] :
         g \in DOMAIN file /\ i \in DOMAIN file[g] /\ file'[g][i] = file[g][i]
  <2>1. DOMAIN <<>> = {}
    OBVIOUS
  <2> QED  BY <2>1
<1>2. DistinctInv'
  BY <1>1 DEF DistinctInv
<1>3. \A id : Unwritten(id) => Unwritten(id)'
  BY <1>1 DEF Unwritten
<1>4. bounds.appends \in Nat
  BY DEF LogInv, TypeOK
<1>5. \A p \in Process : writer'[p].id <= bounds.appends
  BY <1>4 DEF NumberInv
<1>6. ASSUME NEW p \in Process, NEW q \in Process, writer'[p].pc # "idle", writer'[q].pc # "idle",
             writer'[p].id = writer'[q].id
      PROVE  p = q
  <2>1. /\ ~At(p, "idle") /\ writer'[p].id = writer[p].id
        /\ ~At(q, "idle") /\ writer'[q].id = writer[q].id
    BY <1>6 DEF At
  <2> QED  BY <1>6, <2>1 DEF NumberInv
<1>7. ASSUME NEW p \in Process, writer'[p].pc \in {"open", "write"}
      PROVE  Unwritten(writer[p].id)' 
  <2>1. writer'[p].id = writer[p].id /\ (At(p, "open") \/ At(p, "write"))
    BY <1>7 DEF At
  <2>2. PICK id : id = writer[p].id
    OBVIOUS
  <2>3. Unwritten(id)'
    BY <1>3, <2>1, <2>2 DEF NumberInv
  <2>4. id = writer'[p].id
    BY <2>1, <2>2
  <2> QED  BY <2>3, <2>4 DEF Unwritten
<1>8. \A g \in DOMAIN file' : \A i \in DOMAIN file'[g] : file'[g][i].id <= bounds.appends
  BY <1>1 DEF NumberInv
<1>9. NumberInv'
  BY <1>5, <1>6, <1>7, <1>8 DEF NumberInv, At
<1> QED  BY <1>2, <1>9

\* The entries of a new append.
LEMMA StartApart ==
  ASSUME LogInv, LogInv', WalkInv, NEW p \in Process, NEW bytes \in EntrySize, Start(p, bytes)
  PROVE  WalkInv'
<1>1. /\ At(p, "idle") /\ bounds.appends < MaxAppends
      /\ bounds' = [bounds EXCEPT !.appends = @ + 1]
      /\ writer' = [writer EXCEPT ![p] = [NoAppend EXCEPT !.pc = "open", !.bytes = bytes,
                                            !.id = bounds.appends + 1, !.day = clock]]
      /\ overlapped' = (overlapped \/ \E q \in Process : ~At(q, "idle"))
      /\ UNCHANGED <<file, clock, acked, removed, dirty>>
  BY DEF Start
<1>2. PICK n \in Nat : n = bounds.appends
  BY DEF LogInv, TypeOK
<1>3. bounds'.appends = n + 1
  BY <1>1, <1>2 DEF LogInv, TypeOK
<1>4. /\ writer'[p].id = n + 1 /\ writer'[p].pc = "open"
      /\ \A q \in Process \ {p} : writer'[q] = writer[q]
  BY <1>1, <1>2 DEF NoAppend, LogInv, TypeOK
<1>5. \A q \in Process : writer[q].id \in Nat /\ writer[q].id <= n
  BY <1>2 DEF WalkInv, NumberInv, LogInv, TypeOK, Writer, EntryId
<1>6. \A g \in DOMAIN file : \A i \in DOMAIN file[g] : file[g][i].id \in Nat /\ file[g][i].id <= n
  <2>1. \A g \in DOMAIN file : \A i \in DOMAIN file[g] : file[g][i] \in Chunk
    BY DEF LogInv, TypeOK
  <2> QED  BY <1>2, <2>1 DEF WalkInv, NumberInv, Chunk, EntryId
<1>7. DistinctInv'
  BY <1>1 DEF WalkInv, DistinctInv
<1>8. NumberInv'
  <2>1. \A q \in Process : writer'[q].id <= bounds'.appends
    BY <1>3, <1>4, <1>5
  <2>2. ASSUME NEW q \in Process, NEW r \in Process, writer'[q].pc # "idle", writer'[r].pc # "idle",
               writer'[q].id = writer'[r].id
        PROVE  q = r
    BY <1>4, <1>5, <2>2 DEF WalkInv, NumberInv, At
  <2>3. ASSUME NEW q \in Process, writer'[q].pc \in {"open", "write"}
        PROVE  Unwritten(writer[q].id)'
    BY <1>1, <1>4, <1>6, <2>3 DEF WalkInv, NumberInv, Unwritten, At
  <2>4. \A g \in DOMAIN file' : \A i \in DOMAIN file'[g] : file'[g][i].id <= bounds'.appends
    BY <1>1, <1>3, <1>6
  <2> QED  BY <2>1, <2>2, <2>3, <2>4 DEF NumberInv, At
<1>9. FitsInv'
  <2>1. TotalOf(DOMAIN file)' = TotalOf(DOMAIN file)
    BY <1>1 DEF TotalOf
  <2>2. ~overlapped' => ~overlapped /\ \A q \in Process : At(q, "remove")' => At(q, "remove")
    BY <1>1, <1>4 DEF At
  <2> QED  BY <1>1, <2>1, <2>2 DEF WalkInv, FitsInv
<1> QED  BY <1>7, <1>8, <1>9 DEF WalkInv

\* Of some segments, one is older than all others, and Oldest is it.
LEMMA OldestIsFirst ==
  ASSUME NEW S \in SUBSET Segment, IsFiniteSet(S), S # {}
  PROVE  Oldest(S) \in S /\ \A h \in S : h = Oldest(S) \/ Older(Oldest(S), h)
<1> DEFINE Good == {T \in SUBSET S : T # {} => \E g \in T : \A h \in T : h = g \/ Older(g, h)}
<1>1. {} \in Good
  OBVIOUS
<1>2. ASSUME NEW T \in SUBSET S, NEW x \in S, T \in Good
      PROVE  T \cup {x} \in Good
  <2>1. CASE T = {}
    BY <2>1
  <2>2. ASSUME NEW g \in T, \A h \in T : h = g \/ Older(g, h)
        PROVE  \E k \in T \cup {x} : \A h \in T \cup {x} : h = k \/ Older(k, h)
    <3>1. CASE x = g \/ Older(g, x)
      BY <2>2, <3>1
    <3>2. CASE Older(x, g)
      <4>1. \A h \in T \cup {x} : h = x \/ Older(x, h)
        BY <2>2, <3>2, OlderOrders
      <4> QED  BY <4>1
    <3> QED  BY <3>1, <3>2, OlderOrders
  <2> QED  BY <1>2, <2>1, <2>2
<1>3. S \in Good
  <2> HIDE DEF Good
  <2>1. Good \in SUBSET (SUBSET S)
    BY DEF Good
  <2> QED  BY <1>1, <1>2, <2>1, SetInduction
<1>4. \E g \in S : \A h \in S : h = g \/ Older(g, h)
  BY <1>3
<1> HIDE DEF Good
<1> QED  BY <1>4 DEF Oldest

\* The opened segment is empty or was there.
LEMMA OpenApart ==
  ASSUME LogInv, LogInv', WalkInv, NEW p \in Process, OpenSegment(p)
  PROVE  WalkInv'
<1>1. /\ At(p, "open") /\ UNCHANGED <<clock, bounds, acked, removed, dirty, overlapped>>
      /\ TypeOK /\ TypeOK'
  BY DEF OpenSegment, LogInv
<1>2. PICK s \in FirstFit(writer[p].day, writer[p].bytes) :
        /\ file' = [h \in DOMAIN file \cup {<<writer[p].day, s>>} |->
                      IF h \in DOMAIN file THEN file[h] ELSE <<>>]
        /\ writer' = [writer EXCEPT ![p].pc = "write", ![p].seg = s]
  BY DEF OpenSegment
<1>3. PICK g : g = <<writer[p].day, s>>
  OBVIOUS
<1>4. /\ DOMAIN file' = DOMAIN file \cup {g} /\ DOMAIN writer' = Process
      /\ \A h \in DOMAIN file : file'[h] = file[h]
      /\ g \notin DOMAIN file => file'[g] = <<>>
      /\ writer'[p].id = writer[p].id /\ writer'[p].pc = "write"
      /\ \A q \in Process \ {p} : writer'[q] = writer[q]
  BY <1>1, <1>2, <1>3 DEF TypeOK, Writer
<1>5. NumberInv' /\ DistinctInv'
  <2>1. bounds'.appends = bounds.appends
    BY <1>1
  <2>2. \A h \in DOMAIN file' : (h \in DOMAIN file /\ file'[h] = file[h]) \/ file'[h] = <<>>
    BY <1>4
  <2>3. \A q \in Process : \/ writer'[q].pc = "idle" /\ writer'[q].id = 0
                           \/ /\ writer'[q].id = writer[q].id /\ ~At(q, "idle")
                              /\ writer'[q].pc \in {"open", "write"} =>
                                    At(q, "open") \/ At(q, "write")
                           \/ writer'[q] = writer[q]
    BY <1>1, <1>4 DEF At
  <2> QED  BY <1>4, <2>1, <2>2, <2>3, ApartStays DEF WalkInv
<1>6. FitsInv'
  <2> SUFFICES ASSUME ~overlapped PROVE FitsInv'
    BY <1>1 DEF FitsInv
  <2>1. \A q \in Process : ~At(q, "remove")'
    BY <1>1, <1>4 DEF LogInv, AloneInv, At
  <2> SUFFICES ASSUME ~dirty
               PROVE  /\ TotalOf(DOMAIN file)' <= TotalBytes
                      /\ \A h \in DOMAIN file' : Size(file'[h]) <= FileBytes
    BY <1>1, <2>1 DEF FitsInv
  <2>2. TotalOf(DOMAIN file) <= TotalBytes /\ \A h \in DOMAIN file : Size(file[h]) <= FileBytes
    BY DEF WalkInv, FitsInv
  <2>3. Size(<<>>) = 0
    <3>1. <<>> \in Seq(Chunk)
      OBVIOUS
    <3> QED  BY <3>1, SizeLaws
  <2>4. \A h \in DOMAIN file' : Size(file'[h]) <= FileBytes
    BY <1>4, <2>2, <2>3, Limits
  <2>5. TotalOf(DOMAIN file)' = TotalOf(DOMAIN file)
    <3>1. PICK D : D = DOMAIN file
      OBVIOUS
    <3>2. PICK E : E = DOMAIN file'
      OBVIOUS
    <3>3. PICK f, k : f = [h \in D |-> Size(file[h])] /\ k = [h \in E |-> Size(file'[h])]
      OBVIOUS
    <3>4. IsFiniteSet(D) /\ \A h \in D : f[h] \in Nat
      BY <1>1, <3>1, <3>3, Directory
    <3>5. E = D \cup {g} /\ IsFiniteSet(E)
      BY <1>4, <3>1, <3>2, <3>4, FS_AddElement
    <3>6. \A h \in D : k[h] = f[h]
      BY <1>4, <3>1, <3>3, <3>5
    <3>7. g \notin D => k[g] = 0
      BY <1>4, <2>3, <3>1, <3>3, <3>5
    <3>8. SumFunctionOnSet(k, D) = SumFunctionOnSet(f, D)
      BY <3>4, <3>6, SumAgrees
    <3>9. SumFunctionOnSet(k, E) = SumFunctionOnSet(f, D)
      <4>1. CASE g \in D
        <5>1. E = D
          BY <3>5, <4>1
        <5> QED  BY <3>8, <5>1
      <4>2. CASE g \notin D
        <5>1. \A h \in E : k[h] \in Nat
          BY <3>4, <3>5, <3>6, <3>7
        <5>2. g \in E /\ E \ {g} = D
          BY <3>5, <4>2
        <5>3. /\ SumFunctionOnSet(k, E) = k[g] + SumFunctionOnSet(k, D)
              /\ SumFunctionOnSet(k, D) \in Nat
          BY <3>5, <5>1, <5>2, SumLaws
        <5> QED  BY <3>7, <3>8, <4>2, <5>3
      <4> QED  BY <4>1, <4>2
    <3> QED  BY <3>1, <3>2, <3>3, <3>9 DEF TotalOf
  <2> QED  BY <2>2, <2>4, <2>5
<1> QED  BY <1>5, <1>6 DEF WalkInv

\* A line is written: its entry is nowhere else.
LEMMA WriteApart ==
  ASSUME LogInv, LogInv', WalkInv, NEW p \in Process, At(p, "write"),
         NEW bytes, NEW end, AppendChunk(p, bytes, end),
         bounds'.appends = bounds.appends, overlapped' = overlapped,
         Move(p, "scan") \/ writer' = [writer EXCEPT ![p] = NoAppend]
  PROVE  WalkInv'
<1>0. TypeOK /\ TypeOK' /\ NumberInv /\ DistinctInv
  BY DEF LogInv, WalkInv
<1>1. PICK g : g = OpenedBy(p)
  OBVIOUS
<1>2. PICK c : c = [id |-> writer[p].id, bytes |-> bytes, end |-> end]
  OBVIOUS
<1>3. g \in DOMAIN file /\ file[g] \in Seq(Chunk) /\ Len(file[g]) \in Nat
  BY <1>0, <1>1 DEF LogInv, AppendInv, AppendSafe, TypeOK
<1>4. /\ file' = [file EXCEPT ![g] = Append(@, c)] /\ dirty' = TRUE
      /\ DOMAIN file' = DOMAIN file /\ file'[g] = Append(file[g], c)
      /\ \A h \in DOMAIN file : h # g => file'[h] = file[h]
  BY <1>1, <1>2, <1>3 DEF AppendChunk
<1>5. /\ \A q \in Process \ {p} : writer'[q] = writer[q]
      /\ \/ writer'[p].pc = "scan" /\ writer'[p].id = writer[p].id
         \/ writer'[p].pc = "idle" /\ writer'[p].id = 0
  BY <1>0 DEF TypeOK, Move, NoAppend, Writer
<1>6. PICK n \in Nat : n = Len(file[g])
  BY <1>3
<1>7. /\ DOMAIN file[g] = 1..n /\ DOMAIN file'[g] = 1..(n + 1) /\ file'[g][n + 1] = c
      /\ \A i \in 1..n : file'[g][i] = file[g][i]
  BY <1>3, <1>4, <1>6
<1>8. c.id = writer[p].id /\ Unwritten(c.id)
  BY <1>0, <1>2 DEF NumberInv, Unwritten
<1>9. \A h \in DOMAIN file' : \A i \in DOMAIN file'[h] :
         \/ h = g /\ i = n + 1 /\ file'[h][i].id = c.id
         \/ h \in DOMAIN file /\ i \in DOMAIN file[h] /\ file'[h][i] = file[h][i]
  BY <1>4, <1>7
<1>10. DistinctInv'
  <2> SUFFICES ASSUME NEW h \in DOMAIN file', NEW k \in DOMAIN file',
                      NEW i \in DOMAIN file'[h], NEW j \in DOMAIN file'[k],
                      file'[h][i].id = file'[k][j].id
               PROVE  h = k /\ i = j
    BY DEF DistinctInv
  <2> QED  BY <1>0, <1>8, <1>9 DEF DistinctInv, Unwritten
<1>11. NumberInv'
  <2>1. bounds.appends \in Nat
    BY <1>0 DEF TypeOK
  <2>2. \A q \in Process : writer'[q].id <= bounds'.appends
    BY <1>0, <1>5, <2>1 DEF NumberInv
  <2>3. ASSUME NEW q \in Process, NEW r \in Process, writer'[q].pc # "idle", writer'[r].pc # "idle",
               writer'[q].id = writer'[r].id
        PROVE  q = r
    BY <1>0, <1>5, <2>3 DEF NumberInv, At
  <2>4. ASSUME NEW q \in Process, writer'[q].pc \in {"open", "write"}
        PROVE  Unwritten(writer[q].id)'
    <3>1. q # p /\ writer'[q] = writer[q] /\ (At(q, "open") \/ At(q, "write"))
      BY <1>5, <2>4 DEF At
    <3>2. writer[q].id # c.id /\ Unwritten(writer[q].id)
      BY <1>0, <1>8, <3>1 DEF NumberInv, At
    <3> QED  BY <1>9, <3>1, <3>2 DEF Unwritten
  <2>5. \A h \in DOMAIN file' : \A i \in DOMAIN file'[h] : file'[h][i].id <= bounds'.appends
    BY <1>0, <1>8, <1>9 DEF NumberInv
  <2> QED  BY <2>2, <2>3, <2>4, <2>5 DEF NumberInv, At
<1>12. FitsInv'
  <2> SUFFICES ASSUME ~overlapped PROVE FitsInv'
    BY DEF FitsInv
  <2>1. \A q \in Process : ~At(q, "remove")'
    BY <1>5 DEF LogInv, AloneInv, At
  <2> QED  BY <1>4, <2>1 DEF FitsInv
<1> QED  BY <1>10, <1>11, <1>12 DEF WalkInv

\* The directory was listed: no file is over the limit.
LEMMA ScanApart ==
  ASSUME LogInv, LogInv', WalkInv, NEW p \in Process, Scan(p)
  PROVE  WalkInv'
<1>1. /\ At(p, "scan") /\ UNCHANGED <<file, clock, bounds, acked, removed, dirty, overlapped>>
      /\ \A g \in DOMAIN file : Size(file[g]) <= FileBytes
      /\ writer' = [writer EXCEPT ![p].pc = "remove", ![p].doomed = ToPrune]
      /\ TypeOK
  BY DEF Scan, LogInv
<1>2. /\ DOMAIN writer' = Process /\ writer'[p].id = writer[p].id /\ writer'[p].pc = "remove"
      /\ \A q \in Process \ {p} : writer'[q] = writer[q]
  BY <1>1 DEF TypeOK, Writer
<1>3. NumberInv' /\ DistinctInv'
  <2>1. bounds'.appends = bounds.appends
    BY <1>1
  <2>2. \A h \in DOMAIN file' : (h \in DOMAIN file /\ file'[h] = file[h]) \/ file'[h] = <<>>
    BY <1>1
  <2>3. \A q \in Process : \/ writer'[q].pc = "idle" /\ writer'[q].id = 0
                           \/ /\ writer'[q].id = writer[q].id /\ ~At(q, "idle")
                              /\ writer'[q].pc \in {"open", "write"} =>
                                    At(q, "open") \/ At(q, "write")
                           \/ writer'[q] = writer[q]
    BY <1>1, <1>2 DEF At
  <2> QED  BY <1>2, <2>1, <2>2, <2>3, ApartStays DEF WalkInv
<1>4. TotalOf(DOMAIN file)' = TotalOf(DOMAIN file)
  BY <1>1 DEF TotalOf
<1> QED  BY <1>1, <1>3, <1>4 DEF WalkInv, FitsInv

\* A segment is deleted.
LEMMA RemoveApart ==
  ASSUME LogInv, LogInv', WalkInv, NEW p \in Process, RemoveOldest(p)
  PROVE  WalkInv'
<1>1. /\ At(p, "remove") /\ UNCHANGED <<clock, bounds, acked, dirty, overlapped>>
      /\ TypeOK
  BY DEF RemoveOldest, LogInv
<1>2. PICK g \in writer[p].doomed \cap DOMAIN file :
        /\ file' = [h \in DOMAIN file \ {g} |-> file[h]]
        /\ writer' = [writer EXCEPT ![p].doomed = @ \ {g}]
  BY DEF RemoveOldest
<1>3. /\ DOMAIN writer' = Process /\ writer'[p].id = writer[p].id /\ writer'[p].pc = "remove"
      /\ \A q \in Process \ {p} : writer'[q] = writer[q]
      /\ DOMAIN file' = DOMAIN file \ {g} /\ \A h \in DOMAIN file' : file'[h] = file[h]
  BY <1>1, <1>2 DEF TypeOK, Writer, At
<1>4. NumberInv' /\ DistinctInv'
  <2>1. bounds'.appends = bounds.appends
    BY <1>1
  <2>2. \A h \in DOMAIN file' : (h \in DOMAIN file /\ file'[h] = file[h]) \/ file'[h] = <<>>
    BY <1>3
  <2>3. \A q \in Process : \/ writer'[q].pc = "idle" /\ writer'[q].id = 0
                           \/ /\ writer'[q].id = writer[q].id /\ ~At(q, "idle")
                              /\ writer'[q].pc \in {"open", "write"} =>
                                    At(q, "open") \/ At(q, "write")
                           \/ writer'[q] = writer[q]
    BY <1>1, <1>3 DEF At
  <2> QED  BY <1>3, <2>1, <2>2, <2>3, ApartStays DEF WalkInv
<1>5. TotalOf(DOMAIN file)' <= TotalOf(DOMAIN file) /\ TotalOf(DOMAIN file)' \in Nat
      /\ TotalOf(DOMAIN file) \in Nat
  <2>1. PICK T \in SUBSET (DOMAIN file) : T = DOMAIN file \ {g}
    OBVIOUS
  <2>2. TotalOf(T) <= TotalOf(DOMAIN file) /\ TotalOf(T) \in Nat /\ TotalOf(DOMAIN file) \in Nat
    BY <1>1, TotalMonotone
  <2>3. TotalOf(DOMAIN file)' = TotalOf(T)
    <3>1. PICK f : f = [h \in T |-> Size(file[h])]
      OBVIOUS
    <3>2. f = [h \in T |-> Size(file'[h])]
      BY <1>3, <2>1, <3>1
    <3> QED  BY <1>3, <2>1, <3>1, <3>2 DEF TotalOf
  <2> QED  BY <2>2, <2>3
<1>6. TotalOf(DOMAIN file) <= TotalBytes => TotalOf(DOMAIN file)' <= TotalBytes
  BY <1>5, Limits
<1> QED  BY <1>1, <1>3, <1>4, <1>6 DEF WalkInv, FitsInv

\* An append ends; if it returns nil, the prune before it has brought the directory within
\* the bound on bytes.
LEMMA EndsApart ==
  ASSUME LogInv, LogInv', WalkInv, NEW p \in Process, ~At(p, "idle"),
         writer' = [writer EXCEPT ![p] = NoAppend],
         UNCHANGED <<file, clock, bounds, removed, overlapped>>,
         dirty' = dirty \/ (At(p, "remove") /\ writer[p].doomed = {})
  PROVE  WalkInv'
<1>1. /\ DOMAIN writer' = Process /\ writer'[p].id = 0 /\ writer'[p].pc = "idle"
      /\ \A q \in Process \ {p} : writer'[q] = writer[q]
      /\ TypeOK
  BY DEF LogInv, TypeOK, NoAppend
<1>2. NumberInv' /\ DistinctInv'
  <2>1. bounds'.appends = bounds.appends
    OBVIOUS
  <2>2. \A h \in DOMAIN file' : (h \in DOMAIN file /\ file'[h] = file[h]) \/ file'[h] = <<>>
    OBVIOUS
  <2>3. \A q \in Process : \/ writer'[q].pc = "idle" /\ writer'[q].id = 0
                           \/ /\ writer'[q].id = writer[q].id /\ ~At(q, "idle")
                              /\ writer'[q].pc \in {"open", "write"} =>
                                    At(q, "open") \/ At(q, "write")
                           \/ writer'[q] = writer[q]
    BY <1>1
  <2> QED  BY <1>1, <2>1, <2>2, <2>3, ApartStays DEF WalkInv
<1>3. TotalOf(DOMAIN file)' = TotalOf(DOMAIN file)
  BY DEF TotalOf
<1>4. \A q \in Process : At(q, "remove")' => At(q, "remove")
  BY <1>1 DEF At
<1>5. CASE dirty' = dirty
  BY <1>2, <1>3, <1>4, <1>5 DEF WalkInv, FitsInv
<1>6. CASE At(p, "remove") /\ writer[p].doomed = {}
  <2> SUFFICES ASSUME ~overlapped PROVE FitsInv'
    BY <1>2 DEF WalkInv, FitsInv
  <2>1. \A g \in DOMAIN file : Size(file[g]) <= FileBytes
    BY <1>6 DEF WalkInv, FitsInv
  <2>2. ToPrune = {}
    BY <1>6 DEF LogInv, AloneInv
  <2>3. TotalOf(DOMAIN file) <= TotalBytes
    <3>1. TotalOf(DOMAIN file) \in Nat /\ IsFiniteSet(DOMAIN file) /\ DOMAIN file \subseteq Segment
          /\ TotalBytes \in Nat
      BY <1>1, TotalMonotone, Directory, Limits DEF TypeOK
    <3>2. CASE DOMAIN file = {}
      <4>1. PICK f : f = [g \in {} |-> Size(file[g])]
        OBVIOUS
      <4>2. SumFunctionOnSet(f, {}) = 0
        BY FS_EmptySet, SumLaws
      <4> QED  BY <3>1, <3>2, <4>1, <4>2 DEF TotalOf
    <3>3. CASE DOMAIN file # {}
      <4>1. PICK g \in DOMAIN file : \A h \in DOMAIN file : h = g \/ Older(g, h)
        BY <3>1, <3>3, OldestIsFirst
      <4>2. {h \in DOMAIN file : h = g \/ Older(g, h)} = DOMAIN file
        BY <4>1
      <4>3. ~(TotalOf(DOMAIN file) > TotalBytes)
        BY <2>2, <4>2 DEF ToPrune
      <4> QED  BY <3>1, <4>3
    <3> QED  BY <3>2, <3>3
  <2> QED  BY <1>3, <2>1, <2>3 DEF FitsInv
<1> QED  BY <1>5, <1>6

\* Every step keeps these invariants.
LEMMA WalkStep == ASSUME LogInv, LogInv', WalkInv, [Next]_vars PROVE WalkInv'
<1>1. ASSUME NEW p \in Process, NEW bytes \in EntrySize, Start(p, bytes) PROVE WalkInv'
  BY <1>1, StartApart
<1>2. ASSUME NEW p \in Process, OpenSegment(p) PROVE WalkInv'
  BY <1>2, OpenApart
<1>3. ASSUME NEW p \in Process, WriteLine(p) PROVE WalkInv'
  <2>1. /\ At(p, "write") /\ AppendChunk(p, writer[p].bytes, "newline") /\ Move(p, "scan")
        /\ UNCHANGED <<clock, bounds, acked, removed, overlapped>>
    BY <1>3 DEF WriteLine
  <2> QED  BY <2>1, WriteApart
<1>4. ASSUME NEW p \in Process, WriteCut(p) PROVE WalkInv'
  <2>1. /\ At(p, "write") /\ bounds' = [bounds EXCEPT !.cuts = @ + 1]
        /\ writer' = [writer EXCEPT ![p] = NoAppend] /\ overlapped' = overlapped
    BY <1>4 DEF WriteCut
  <2>2. PICK bytes \in 1..(writer[p].bytes - 1), end \in {"cut", "unterminated"} :
           AppendChunk(p, bytes, end)
    BY <1>4 DEF WriteCut
  <2>3. bounds'.appends = bounds.appends
    BY <2>1 DEF LogInv, TypeOK
  <2> QED  BY <2>1, <2>2, <2>3, WriteApart
<1>5. ASSUME NEW p \in Process, Scan(p) PROVE WalkInv'
  BY <1>5, ScanApart
<1>6. ASSUME NEW p \in Process, RemoveOldest(p) PROVE WalkInv'
  BY <1>6, RemoveApart
<1>7. ASSUME NEW p \in Process, Acknowledge(p) PROVE WalkInv'
  BY <1>7, EndsApart DEF Acknowledge, At
<1>8. ASSUME NEW p \in Process, Abandon(p) PROVE WalkInv'
  BY <1>8, EndsApart DEF Abandon
<1>9. ASSUME UNCHANGED <<file, writer, acked, removed, dirty, overlapped>>,
             bounds'.appends = bounds.appends
      PROVE  WalkInv'
  <2>1. TotalOf(DOMAIN file)' = TotalOf(DOMAIN file)
    BY <1>9 DEF TotalOf
  <2>2. NumberInv' /\ DistinctInv'
    BY <1>9 DEF WalkInv, NumberInv, DistinctInv, Unwritten, At
  <2> QED  BY <1>9, <2>1, <2>2 DEF WalkInv, FitsInv, At
<1>10. ASSUME NEW d \in Day, SetClock(d) PROVE WalkInv'
  <2>1. bounds'.appends = bounds.appends
    BY <1>10 DEF SetClock, LogInv, TypeOK
  <2> QED  BY <1>9, <1>10, <2>1 DEF SetClock
<1>11. ASSUME UNCHANGED vars PROVE WalkInv'
  BY <1>9, <1>11 DEF vars
<1> QED
  BY <1>1, <1>2, <1>3, <1>4, <1>5, <1>6, <1>7, <1>8, <1>10, <1>11 DEF Next, Finished

\* The empty directory.
LEMMA WalkStart == ASSUME Init PROVE WalkInv
<1>1. DOMAIN file = {} /\ \A p \in Process : writer[p] = NoAppend
  BY DEF Init
<1>2. NumberInv /\ DistinctInv
  BY <1>1, Rest DEF Init, NumberInv, DistinctInv, Unwritten, At, NoAppend
<1>3. FitsInv
  <2>1. PICK f : f = [g \in {} |-> Size(file[g])]
    OBVIOUS
  <2>2. SumFunctionOnSet(f, {}) = 0
    BY FS_EmptySet, SumLaws
  <2> QED  BY <1>1, <2>1, <2>2, Limits DEF FitsInv, TotalOf
<1> QED  BY <1>2, <1>3 DEF WalkInv

\* What the walk relies on holds throughout.
LEMMA WalkSound == Spec => [](LogInv /\ WalkInv)
<1>1. Init => LogInv /\ WalkInv
  BY EmptyLog, WalkStart
<1>2. LogInv /\ WalkInv /\ [Next]_vars => LogInv' /\ WalkInv'
  BY StepOK, WalkStep
<1> QED  BY <1>1, <1>2, PTL DEF Spec

-----------------------------------------------------------------------------
(* The walk of ReadAll, file by file.                                      *)

\* What has been read at some point of the walk.
Reading == [ids : SUBSET EntryId, bytes : Nat, ok : BOOLEAN, stop : BOOLEAN]

\* The equation that defines the table of what ReadAll has read of each part of the directory.
ReadTable(it) ==
    it = [s \in SUBSET DOMAIN file |->
            IF s = {} THEN NothingRead ELSE ReadFile(it[s \ {Oldest(s)}], Oldest(s))]

\* The same, with what there is in the table.
Walk(it) ==
    /\ it \in [SUBSET DOMAIN file -> Reading] /\ it[{}] = NothingRead
    /\ \A s \in SUBSET DOMAIN file : s # {} =>
          Oldest(s) \in s /\ it[s] = ReadFile(it[s \ {Oldest(s)}], Oldest(s))

\* ReadAll is an entry of such a table.
LEMMA ReadUnfolds == ReadAll = (CHOOSE it : ReadTable(it))[DOMAIN file]
BY DEF ReadAll, MapThenFoldSet, ReadTable

\* The lines of a file.
LEMMA LinesTyped ==
  ASSUME TypeOK, NEW g \in DOMAIN file
  PROVE  /\ DOMAIN file[g] = 1..Len(file[g]) /\ Len(file[g]) \in Nat /\ IsFiniteSet(Parsed(file[g]))
         /\ Parsed(file[g]) \subseteq DOMAIN file[g] /\ Cardinality(Parsed(file[g])) \in Nat
         /\ \A i \in DOMAIN file[g] : file[g][i] \in Chunk /\ file[g][i].id \in EntryId
         /\ \A n : NewestLines(file[g], n) \in SUBSET EntryId
<1>1. file[g] \in Seq(Chunk)
  BY DEF TypeOK
<1>2. DOMAIN file[g] = 1..Len(file[g]) /\ Len(file[g]) \in Nat
  BY <1>1
<1>3. Parsed(file[g]) \subseteq DOMAIN file[g]
  BY DEF Parsed, LineStarts
<1>4. IsFiniteSet(Parsed(file[g])) /\ Cardinality(Parsed(file[g])) \in Nat
  <2>1. IsFiniteSet(DOMAIN file[g])
    BY <1>2, FS_Interval
  <2> QED  BY <1>3, <2>1, FS_Subset, FS_CardinalityType
<1>5. \A i \in DOMAIN file[g] : file[g][i] \in Chunk /\ file[g][i].id \in EntryId
  <2>1. \A i \in DOMAIN file[g] : file[g][i] \in Chunk
    BY <1>1
  <2> QED  BY <2>1 DEF Chunk
<1>6. \A n : NewestLines(file[g], n) \in SUBSET EntryId
  BY <1>3, <1>5 DEF NewestLines
<1> QED  BY <1>2, <1>3, <1>4, <1>5, <1>6

\* What a file adds to what has been read.
LEMMA ReadFileTyped ==
  ASSUME TypeOK, NEW g \in DOMAIN file, NEW read \in Reading
  PROVE  ReadFile(read, g) \in Reading
<1>1. Size(file[g]) \in Nat /\ \A n : NewestLines(file[g], n) \in SUBSET EntryId
  BY Directory, LinesTyped
<1>2. /\ [read EXCEPT !.ok = FALSE] \in Reading
      /\ [read EXCEPT !.ok = FALSE, !.stop = TRUE] \in Reading
  BY DEF Reading
<1>3. \A n : ReadLines(read, g, n) \in Reading
  <2> SUFFICES ASSUME NEW n PROVE ReadLines(read, g, n) \in Reading
    OBVIOUS
  <2>1. PICK b \in BOOLEAN : b = (/\ read.ok /\ Parsed(file[g]) = LineStarts(file[g])
                                  /\ Cardinality(Parsed(file[g])) <= n)
    OBVIOUS
  <2>2. ReadLines(read, g, n) =
           [ids |-> read.ids \cup NewestLines(file[g], n), bytes |-> read.bytes + Size(file[g]),
            ok |-> b, stop |-> FALSE]
    BY <2>1, Zenon DEF ReadLines
  <2> QED  BY <1>1, <2>2 DEF Reading
<1>4. PICK n : n = MaxEntries - Cardinality(read.ids)
  OBVIOUS
<1>6. CASE read.stop \/ Size(file[g]) > FileBytes
  BY <1>2, <1>6 DEF ReadFile
<1>7. CASE ~read.stop /\ Size(file[g]) <= FileBytes
           /\ (read.bytes + Size(file[g]) > TotalBytes \/ n <= 0)
  BY <1>2, <1>4, <1>7 DEF ReadFile
<1>8. CASE ~read.stop /\ ~(Size(file[g]) > FileBytes) /\ Size(file[g]) <= FileBytes
           /\ ~(read.bytes + Size(file[g]) > TotalBytes \/ n <= 0)
  <2>1. ReadFile(read, g) = ReadLines(read, g, n)
    BY <1>4, <1>8 DEF ReadFile
  <2> QED  BY <1>3, <2>1
<1>9. Size(file[g]) > FileBytes \/ (~(Size(file[g]) > FileBytes) /\ Size(file[g]) <= FileBytes)
  BY <1>1, Limits
<1> QED  BY <1>6, <1>7, <1>8, <1>9

\* There is such a table.
LEMMA WalkRuns ==
  ASSUME TypeOK
  PROVE  \E it : Walk(it) /\ ReadAll = it[DOMAIN file]
<1>1. PICK S : S = DOMAIN file
  OBVIOUS
<1>2. IsFiniteSet(S) /\ S \subseteq Segment
  BY <1>1, Directory DEF TypeOK
<1>3. \A s \in SUBSET S : s # {} => Oldest(s) \in s
  BY <1>2, FS_Subset, OldestIsFirst
<1>4. PICK next : next = [s \in SUBSET S |-> Oldest(s)]
  OBVIOUS
<1>5. Takes(next, S)
  BY <1>3, <1>4 DEF Takes
<1>6. PICK X : X = Reading
  OBVIOUS
<1>7. NothingRead \in X
  BY <1>6 DEF NothingRead, Reading
<1>8. PICK G : G = [g \in S |-> [read \in X |-> ReadFile(read, g)]]
  OBVIOUS
<1>9. G \in [S -> [X -> X]]
  BY <1>1, <1>6, <1>8, ReadFileTyped
<1>10. PICK it \in [SUBSET S -> X] : FoldTable(it, NothingRead, G, next, SUBSET S)
  BY <1>2, <1>5, <1>7, <1>9, FoldTableExists
<1>11. it[{}] = NothingRead
  BY <1>10 DEF FoldTable
<1>12. ASSUME NEW s \in SUBSET S, s # {}
       PROVE  Oldest(s) \in s /\ it[s] = ReadFile(it[s \ {Oldest(s)}], Oldest(s))
  <2>1. PICK g \in S : g = Oldest(s) /\ g \in s /\ next[s] = g
    BY <1>3, <1>4, <1>12
  <2>2. it[s] = G[g][it[s \ {g}]]
    BY <1>10, <1>12, <2>1 DEF FoldTable
  <2>3. it[s \ {g}] \in X
    BY <1>10
  <2>4. it[s] = ReadFile(it[s \ {g}], g)
    BY <1>8, <2>2, <2>3
  <2> QED  BY <2>1, <2>4
<1>13. Walk(it)
  BY <1>1, <1>6, <1>10, <1>11, <1>12 DEF Walk
<1>14. ReadTable(it)
  <2>1. it = [s \in SUBSET S |-> it[s]]
    BY <1>10
  <2>2. \A s \in SUBSET S : it[s] = IF s = {} THEN NothingRead
                                    ELSE ReadFile(it[s \ {Oldest(s)}], Oldest(s))
    BY <1>11, <1>12
  <2>3. it = [s \in SUBSET S |-> IF s = {} THEN NothingRead
                                    ELSE ReadFile(it[s \ {Oldest(s)}], Oldest(s))]
    BY <2>1, <2>2, Zenon
  <2> QED  BY <1>1, <2>3 DEF ReadTable
<1>15. PICK jt : jt = CHOOSE kt : ReadTable(kt)
  OBVIOUS
<1>16. ReadTable(jt) /\ ReadAll = jt[DOMAIN file]
  BY <1>14, <1>15, ReadUnfolds
<1>17. /\ jt[{}] = NothingRead
       /\ \A s \in SUBSET S : s # {} => jt[s] = ReadFile(jt[s \ {Oldest(s)}], Oldest(s))
       /\ jt = [s \in SUBSET S |-> jt[s]]
  <2>1. \A s \in SUBSET S :
          jt[s] = IF s = {} THEN NothingRead ELSE ReadFile(jt[s \ {Oldest(s)}], Oldest(s))
    BY <1>1, <1>16 DEF ReadTable
  <2>2. DOMAIN jt = SUBSET S
    BY <1>1, <1>16 DEF ReadTable
  <2>3. jt = [s \in SUBSET S |-> jt[s]]
    BY <1>1, <1>16 DEF ReadTable
  <2> QED  BY <2>1, <2>3
<1>18. \A s \in SUBSET S : jt[s] \in X
  <2> DEFINE Bad == {s \in SUBSET S : jt[s] \notin X}
  <2>1. SUFFICES ASSUME Bad # {} PROVE FALSE
    OBVIOUS
  <2>2. PICK s \in Bad : \A t \in SUBSET s : t # s => t \notin Bad
    <3>1. Bad \in SUBSET (SUBSET S)
      OBVIOUS
    <3> HIDE DEF Bad
    <3> QED  BY <1>2, <2>1, <3>1, SmallestSubset
  <2>3. s # {} /\ s \in SUBSET S
    BY <1>7, <1>17, <2>2
  <2>4. PICK g \in S : g = Oldest(s) /\ g \in s
    BY <1>3, <2>3
  <2>5. jt[s \ {g}] \in X /\ jt[s] = ReadFile(jt[s \ {g}], g)
    BY <1>17, <2>2, <2>3, <2>4
  <2>6. jt[s] \in X
    BY <1>1, <1>6, <2>5, ReadFileTyped
  <2> QED  BY <2>2, <2>6
<1>19. jt \in [SUBSET S -> X]
  BY <1>17, <1>18
<1> QED  BY <1>1, <1>3, <1>6, <1>16, <1>17, <1>19 DEF Walk

\* When a line that parses is not among the newest n of its file, there are more than n, n
\* of them are read, and all of those stand after it.
LEMMA NewestFull ==
  ASSUME TypeOK, NEW g \in DOMAIN file, NEW n \in Nat,
         \A i, j \in DOMAIN file[g] : file[g][i].id = file[g][j].id => i = j,
         NEW i \in Parsed(file[g]), file[g][i].id \notin NewestLines(file[g], n)
  PROVE  /\ Cardinality(Parsed(file[g])) > n
         /\ IsFiniteSet(NewestLines(file[g], n)) /\ Cardinality(NewestLines(file[g], n)) >= n
         /\ \A j \in Parsed(file[g]) : file[g][j].id \in NewestLines(file[g], n) => i < j
<1>1. PICK f, P : f = file[g] /\ P = Parsed(file[g])
  OBVIOUS
<1>2. /\ IsFiniteSet(P) /\ P \subseteq DOMAIN f /\ P \subseteq Nat
      /\ \A j, k \in P : f[j].id = f[k].id => j = k
  BY <1>1, LinesTyped
<1> DEFINE After(k) == {j \in P : j > k}
           New == {j \in P : Cardinality(After(j)) < n}
<1>3. NewestLines(file[g], n) = {f[j].id : j \in New}
  BY <1>1 DEF NewestLines
<1>4. \A k \in P : IsFiniteSet(After(k)) /\ Cardinality(After(k)) \in Nat /\ k \notin After(k)
  BY <1>2, FS_Subset, FS_CardinalityType
<1>5. i \in P /\ i \notin New
  BY <1>1, <1>3
<1>6. Cardinality(After(i)) >= n
  BY <1>4, <1>5
<1>7. Cardinality(P) > n
  <2>1. PICK A : A = After(i)
    OBVIOUS
  <2>2. /\ IsFiniteSet(A) /\ Cardinality(A) \in Nat /\ Cardinality(A) >= n /\ i \notin A
        /\ A \cup {i} \subseteq P
    BY <1>4, <1>5, <1>6, <2>1
  <2>3. Cardinality(A \cup {i}) = Cardinality(A) + 1 /\ IsFiniteSet(A \cup {i})
    BY <2>2, FS_AddElement
  <2>4. Cardinality(A \cup {i}) <= Cardinality(P) /\ Cardinality(P) \in Nat
    BY <1>2, <2>2, FS_Subset, FS_CardinalityType
  <2> QED  BY <2>2, <2>3, <2>4
<1>8. ASSUME NEW j \in P, f[j].id \in NewestLines(file[g], n)
      PROVE  i < j
  <2>1. j \in New
    <3>1. PICK k \in New : f[k].id = f[j].id
      BY <1>3, <1>8
    <3> QED  BY <1>2, <3>1
  <2> SUFFICES ASSUME j <= i PROVE FALSE
    BY <1>2, <1>5
  <2>2. After(i) \subseteq After(j)
    BY <1>2, <1>5
  <2>3. PICK A, B : A = After(i) /\ B = After(j)
    OBVIOUS
  <2>4. /\ IsFiniteSet(B) /\ A \subseteq B /\ Cardinality(A) \in Nat /\ Cardinality(B) \in Nat
        /\ Cardinality(A) >= n /\ Cardinality(B) < n
    BY <1>4, <1>5, <1>6, <2>1, <2>2, <2>3
  <2>5. Cardinality(A) <= Cardinality(B)
    BY <2>4, FS_Subset
  <2> QED  BY <2>4, <2>5
<1>9. PICK k \in P : k \notin New /\ \A j \in P : j \notin New => j <= k
  <2>1. PICK B : B = P \ New
    OBVIOUS
  <2>2. B \in SUBSET Int /\ IsFiniteSet(B) /\ B # {}
    <3>1. B \in SUBSET P
      BY <2>1
    <3> HIDE DEF New
    <3> QED  BY <1>2, <1>5, <2>1, <3>1, FS_Subset
  <2>3. Max(B) \in B /\ \A j \in B : j <= Max(B)
    BY <2>2, MaxOfFinite
  <2> QED  BY <2>1, <2>3
<1>10. PICK A : A = After(k)
  OBVIOUS
<1>11. IsFiniteSet(A) /\ Cardinality(A) >= n /\ A \subseteq New /\ Cardinality(A) \in Nat
  BY <1>2, <1>4, <1>9, <1>10
<1>12. PICK N : N = NewestLines(file[g], n)
  OBVIOUS
<1>13. IsFiniteSet(N)
  <2>1. IsFiniteSet(EntryId)
    BY Limits, FS_Interval DEF EntryId
  <2> QED  BY <1>12, <2>1, FS_Subset, LinesTyped
<1>14. Cardinality(A) <= Cardinality(N)
  <2>1. PICK h : h = [j \in A |-> f[j].id]
    OBVIOUS
  <2>2. h \in Injection(A, N)
    <3>1. \A j \in A : j \in P /\ f[j].id \in N
      BY <1>3, <1>11, <1>12
    <3>2. h \in [A -> N]
      BY <2>1, <3>1
    <3>3. \A x, y \in A : h[x] = h[y] => x = y
      BY <1>2, <2>1, <3>1
    <3> QED  BY <3>2, <3>3 DEF Injection, IsInjective
  <2> QED  BY <1>13, <2>2, FS_Injection
<1>15. Cardinality(N) >= n
  BY <1>11, <1>13, <1>14, FS_CardinalityType
<1> QED  BY <1>1, <1>7, <1>8, <1>12, <1>13, <1>15

\* What the walk does with one file.
Skipped(read, g) == Size(file[g]) > FileBytes /\ ReadFile(read, g) = [read EXCEPT !.ok = FALSE]
Stopped(read, g) ==
    \/ read.stop /\ ReadFile(read, g) = read
    \/ /\ read.bytes + Size(file[g]) > TotalBytes \/ Cardinality(read.ids) >= MaxEntries
       /\ ReadFile(read, g) = [read EXCEPT !.ok = FALSE, !.stop = TRUE]
Taken(read, g, n) ==
    /\ n \in Nat \ {0} /\ n = MaxEntries - Cardinality(read.ids) /\ ~read.stop
    /\ ReadFile(read, g) = ReadLines(read, g, n)

\* There is nothing else.
LEMMA ReadFileCases ==
  ASSUME TypeOK, NEW g \in DOMAIN file, NEW read \in Reading
  PROVE  /\ Skipped(read, g) \/ Stopped(read, g) \/ (\E n : Taken(read, g, n))
         /\ IsFiniteSet(read.ids) /\ Cardinality(read.ids) \in Nat
<1>1. Size(file[g]) \in Nat /\ FileBytes \in Nat /\ TotalBytes \in Nat /\ MaxEntries \in Nat
  BY Directory, Limits
<1>2. IsFiniteSet(EntryId) /\ read.ids \in SUBSET EntryId /\ read.bytes \in Nat
  BY Limits, FS_Interval DEF EntryId, Reading
<1>3. IsFiniteSet(read.ids) /\ Cardinality(read.ids) \in Nat
  BY <1>2, FS_Subset, FS_CardinalityType
<1>4. PICK n \in Int : n = MaxEntries - Cardinality(read.ids)
  BY <1>1, <1>3
<1>5. CASE read.stop
  BY <1>3, <1>5 DEF ReadFile, Stopped
<1>6. CASE ~read.stop /\ Size(file[g]) > FileBytes
  BY <1>1, <1>3, <1>6 DEF ReadFile, Skipped
<1>7. CASE ~read.stop /\ Size(file[g]) <= FileBytes
           /\ (read.bytes + Size(file[g]) > TotalBytes \/ n <= 0)
  <2>1. n <= 0 => Cardinality(read.ids) >= MaxEntries
    BY <1>1, <1>3, <1>4
  <2> QED  BY <1>3, <1>4, <1>7, <2>1 DEF ReadFile, Stopped
<1>8. CASE ~read.stop /\ ~(Size(file[g]) > FileBytes) /\ Size(file[g]) <= FileBytes
           /\ ~(read.bytes + Size(file[g]) > TotalBytes \/ n <= 0)
  <2>1. ReadFile(read, g) = ReadLines(read, g, n)
    BY <1>4, <1>8 DEF ReadFile
  <2>2. n \in Nat \ {0}
    BY <1>4, <1>8
  <2>3. Taken(read, g, n)
    BY <1>4, <1>8, <2>1, <2>2 DEF Taken
  <2> QED  BY <1>3, <2>3
<1> QED  BY <1>1, <1>3, <1>5, <1>6, <1>7, <1>8

\* Lines that parse, by file and number.
LEMMA LegibleLines ==
  /\ \A l \in Legible : l[1] \in DOMAIN file /\ l[2] \in Parsed(file[l[1]]) /\ l = <<l[1], l[2]>>
                        /\ l[2] \in DOMAIN file[l[1]] /\ l \in Places
  /\ \A g \in DOMAIN file : \A i \in Parsed(file[g]) : <<g, i>> \in Legible
<1>1. \A l \in Places : l[1] \in DOMAIN file /\ l[2] \in DOMAIN file[l[1]] /\ l = <<l[1], l[2]>>
  BY DEF Places
<1>2. \A g \in DOMAIN file : \A i \in DOMAIN file[g] : <<g, i>> \in Places
  BY DEF Places
<1>3. \A g \in DOMAIN file : Parsed(file[g]) \subseteq DOMAIN file[g]
  BY DEF Parsed, LineStarts
<1> QED  BY <1>1, <1>2, <1>3 DEF Legible

\* No two lines have the same entry.
LEMMA LinesDiffer ==
  ASSUME DistinctInv, NEW l \in Places, NEW m \in Places, IdAt(l) = IdAt(m)
  PROVE  l = m
<1>1. \A k \in Places : k[1] \in DOMAIN file /\ k[2] \in DOMAIN file[k[1]] /\ k = <<k[1], k[2]>>
  BY DEF Places
<1> QED  BY <1>1 DEF DistinctInv, IdAt

\* What the walk has left out of the files s is older than everything it has read of them,
\* it says so, and it will read no more.
KeptSoFar(s, read) ==
    /\ read.stop => ~read.ok
    /\ \A id \in read.ids : \E m \in Legible : m[1] \in s /\ IdAt(m) = id
    /\ \A l \in Legible : l[1] \in s /\ IdAt(l) \notin read.ids =>
          /\ ~read.ok /\ (read.stop \/ Cardinality(read.ids) >= MaxEntries)
          /\ \A m \in Legible : m[1] \in s /\ IdAt(m) \in read.ids =>
                Older(l[1], m[1]) \/ (l[1] = m[1] /\ l[2] < m[2])

\* One more file.
LEMMA KeptStep ==
  ASSUME TypeOK, DistinctInv, NEW s \in SUBSET (DOMAIN file), NEW g \in s,
         \A h \in s : h = g \/ Older(g, h), NEW q \in Reading, KeptSoFar(s \ {g}, q),
         Size(file[g]) <= FileBytes
  PROVE  KeptSoFar(s, ReadFile(q, g))
<1>1. PICK r \in Reading : r = ReadFile(q, g)
  BY ReadFileTyped
<1>2. ~Skipped(q, g)
  BY Directory, Limits DEF Skipped
<1>3. ASSUME NEW m \in Legible, m[1] \in s, IdAt(m) \in q.ids
      PROVE  m[1] \in s \ {g} /\ Older(g, m[1])
  <2>1. PICK k \in Legible : k[1] \in s \ {g} /\ IdAt(k) = IdAt(m)
    BY <1>3 DEF KeptSoFar
  <2>2. k = m
    BY <2>1, LinesDiffer, LegibleLines
  <2> QED  BY <2>1, <2>2
<1>4. CASE Stopped(q, g)
  <2>1. r.ids = q.ids /\ r.stop /\ ~r.ok
    BY <1>1, <1>4 DEF Stopped, KeptSoFar, Reading
  <2>2. ASSUME NEW l \in Legible, l[1] \in s, IdAt(l) \notin r.ids, NEW m \in Legible, m[1] \in s,
               IdAt(m) \in r.ids
        PROVE  Older(l[1], m[1]) \/ (l[1] = m[1] /\ l[2] < m[2])
    <3>1. m[1] \in s \ {g} /\ Older(g, m[1])
      BY <1>3, <2>1, <2>2
    <3>2. CASE l[1] = g
      BY <3>1, <3>2
    <3>3. CASE l[1] # g
      BY <2>1, <2>2, <3>1, <3>3 DEF KeptSoFar
    <3> QED  BY <3>2, <3>3
  <2>3. \A id \in r.ids : \E m \in Legible : m[1] \in s /\ IdAt(m) = id
    BY <2>1 DEF KeptSoFar
  <2> QED  BY <1>1, <2>1, <2>2, <2>3 DEF KeptSoFar
<1>5. ASSUME NEW n, Taken(q, g, n) PROVE KeptSoFar(s, r)
  <2>1. /\ n \in Nat \ {0} /\ n = MaxEntries - Cardinality(q.ids) /\ ~q.stop
        /\ r = ReadLines(q, g, n) /\ MaxEntries \in Nat
        /\ IsFiniteSet(q.ids) /\ Cardinality(q.ids) \in Nat
    BY <1>1, <1>5, ReadFileCases, Limits DEF Taken
  <2>2. PICK N : N = NewestLines(file[g], n)
    OBVIOUS
  <2>3. r.ids = q.ids \cup N /\ ~r.stop
    BY <2>1, <2>2 DEF ReadLines
  <2>4. r.ok => Cardinality(Parsed(file[g])) <= n
    BY <2>1 DEF ReadLines
  <2>5. ASSUME NEW l \in Legible, l[1] \in s \ {g} PROVE IdAt(l) \in q.ids
    BY <2>1, <2>5 DEF KeptSoFar
  <2>6. \A id \in N : \E i \in Parsed(file[g]) : file[g][i].id = id
    BY <2>2 DEF NewestLines
  <2>7. \A id \in r.ids : \E m \in Legible : m[1] \in s /\ IdAt(m) = id
    <3> SUFFICES ASSUME NEW id \in r.ids PROVE \E m \in Legible : m[1] \in s /\ IdAt(m) = id
      OBVIOUS
    <3>1. CASE id \in q.ids
      BY <3>1 DEF KeptSoFar
    <3>2. CASE id \in N
      <4>1. PICK i \in Parsed(file[g]) : file[g][i].id = id
        BY <2>6, <3>2
      <4>2. PICK m : m = <<g, i>>
        OBVIOUS
      <4>3. m \in Legible /\ m[1] = g /\ IdAt(m) = id
        BY <4>1, <4>2, LegibleLines DEF IdAt
      <4> QED  BY <4>3
    <3> QED  BY <2>3, <3>1, <3>2
  <2>8. ASSUME NEW l \in Legible, l[1] \in s, IdAt(l) \notin r.ids
        PROVE  /\ ~r.ok /\ Cardinality(r.ids) >= MaxEntries
               /\ \A m \in Legible : m[1] \in s /\ IdAt(m) \in r.ids =>
                     Older(l[1], m[1]) \/ (l[1] = m[1] /\ l[2] < m[2])
    <3>1. l[1] = g /\ l[2] \in Parsed(file[g]) /\ IdAt(l) = file[g][l[2]].id /\ IdAt(l) \notin N
      BY <2>3, <2>5, <2>8, LegibleLines DEF IdAt
    <3>2. \A i, j \in DOMAIN file[g] : file[g][i].id = file[g][j].id => i = j
      BY DEF DistinctInv
    <3>3. PICK i \in Parsed(file[g]) : i = l[2] /\ file[g][i].id \notin NewestLines(file[g], n)
      BY <2>2, <3>1
    <3>4. /\ Cardinality(Parsed(file[g])) > n
          /\ IsFiniteSet(NewestLines(file[g], n)) /\ Cardinality(NewestLines(file[g], n)) >= n
          /\ \A j \in Parsed(file[g]) : file[g][j].id \in NewestLines(file[g], n) => i < j
      BY <2>1, <3>2, <3>3, NewestFull
    <3>5. ~r.ok
      BY <2>1, <2>4, <3>4, LinesTyped
    <3>6. Cardinality(r.ids) >= MaxEntries
      <4>1. q.ids \cap N = {}
        <5> SUFFICES ASSUME NEW id \in q.ids \cap N PROVE FALSE
          OBVIOUS
        <5>1. PICK j \in Parsed(file[g]) : file[g][j].id = id
          BY <2>6
        <5>2. PICK m : m = <<g, j>>
          OBVIOUS
        <5>3. m \in Legible /\ m[1] = g /\ IdAt(m) = id
          BY <5>1, <5>2, LegibleLines DEF IdAt
        <5> QED  BY <1>3, <5>3
      <4>2. IsFiniteSet(N) /\ Cardinality(N) \in Nat /\ Cardinality(N) >= n
        BY <2>2, <3>4, FS_CardinalityType
      <4>3. Cardinality(q.ids \cup N) = Cardinality(q.ids) + Cardinality(N)
        <5>1. PICK Q : Q = q.ids
          OBVIOUS
        <5>2. IsFiniteSet(Q) /\ IsFiniteSet(N) /\ Cardinality(Q) \in Nat /\ Q \cap N = {}
          BY <2>1, <4>1, <4>2, <5>1
        <5>3. Cardinality(Q \cup N) = Cardinality(Q) + Cardinality(N) - Cardinality(Q \cap N)
          BY <5>2, FS_Union
        <5>4. Cardinality(Q \cap N) = 0
          BY <5>2, FS_EmptySet
        <5> QED  BY <4>2, <5>1, <5>2, <5>3, <5>4
      <4>4. PICK a \in Nat, b \in Nat : a = Cardinality(q.ids) /\ b = Cardinality(N)
        BY <2>1, <4>2
      <4>5. Cardinality(r.ids) = a + b /\ b >= n /\ n = MaxEntries - a
        BY <2>1, <2>3, <4>2, <4>3, <4>4
      <4> QED  BY <2>1, <4>4, <4>5
    <3>7. ASSUME NEW m \in Legible, m[1] \in s, IdAt(m) \in r.ids
          PROVE  Older(l[1], m[1]) \/ (l[1] = m[1] /\ l[2] < m[2])
      <4>1. CASE m[1] # g
        BY <3>1, <3>7, <4>1
      <4>2. CASE m[1] = g
        <5>1. IdAt(m) \in N
          BY <1>3, <2>3, <3>7, <4>2
        <5>2. m[2] \in Parsed(file[g]) /\ file[g][m[2]].id = IdAt(m)
          BY <4>2, LegibleLines DEF IdAt
        <5>3. i < m[2]
          BY <2>2, <3>4, <5>1, <5>2
        <5> QED  BY <3>1, <3>3, <4>2, <5>3
      <4> QED  BY <4>1, <4>2
    <3> QED  BY <3>5, <3>6, <3>7
  <2> QED  BY <2>3, <2>7, <2>8 DEF KeptSoFar
<1> QED  BY <1>1, <1>2, <1>4, <1>5, ReadFileCases

\* All files.
LEMMA WalkKeeps ==
  ASSUME TypeOK, DistinctInv, NEW it, Walk(it), \A g \in DOMAIN file : Size(file[g]) <= FileBytes
  PROVE  KeptSoFar(DOMAIN file, it[DOMAIN file])
<1>1. PICK S : S = DOMAIN file
  OBVIOUS
<1>2. IsFiniteSet(S) /\ S \subseteq Segment
  BY <1>1, Directory DEF TypeOK
<1> DEFINE Bad == {s \in SUBSET S : ~KeptSoFar(s, it[s])}
<1>3. SUFFICES ASSUME Bad # {} PROVE FALSE
  BY <1>1
<1>4. PICK s \in Bad : \A t \in SUBSET s : t # s => t \notin Bad
  <2>1. Bad \in SUBSET (SUBSET S)
    OBVIOUS
  <2> HIDE DEF Bad
  <2> QED  BY <1>2, <1>3, <2>1, SmallestSubset
<1>5. s # {}
  <2>1. it[{}].ids = {} /\ ~it[{}].stop
    BY DEF Walk, NothingRead
  <2>2. KeptSoFar({}, it[{}])
    BY <2>1 DEF KeptSoFar
  <2> QED  BY <1>4, <2>2
<1>6. PICK g \in s : g = Oldest(s) /\ it[s] = ReadFile(it[s \ {g}], g)
  BY <1>1, <1>4, <1>5 DEF Walk
<1>7. \A h \in s : h = g \/ Older(g, h)
  <2>1. s \in SUBSET Segment /\ IsFiniteSet(s)
    BY <1>2, <1>4, FS_Subset
  <2> QED  BY <1>5, <1>6, <2>1, OldestIsFirst
<1>8. KeptSoFar(s \ {g}, it[s \ {g}])
  BY <1>4, <1>6
<1>9. PICK q \in Reading : q = it[s \ {g}]
  BY <1>1, <1>4 DEF Walk
<1>10. KeptSoFar(s, ReadFile(q, g))
  BY <1>1, <1>4, <1>7, <1>8, <1>9, KeptStep
<1> QED  BY <1>4, <1>6, <1>9, <1>10

\* What ReadAll leaves out is older than what it returns.
LEMMA NewestAreKept == ASSUME TypeOK, DistinctInv PROVE NewestKept
<1> SUFFICES ASSUME \A g \in DOMAIN file : Size(file[g]) <= FileBytes
             PROVE  \A l \in Legible : IdAt(l) \notin ReadAll.ids =>
                      /\ ~ReadAll.ok
                      /\ \A m \in Legible : IdAt(m) \in ReadAll.ids =>
                            Older(l[1], m[1]) \/ (l[1] = m[1] /\ l[2] < m[2])
  BY DEF NewestKept
<1>1. PICK it : Walk(it) /\ ReadAll = it[DOMAIN file]
  BY WalkRuns
<1>2. KeptSoFar(DOMAIN file, it[DOMAIN file])
  BY <1>1, WalkKeeps
<1> QED  BY <1>1, <1>2, LegibleLines DEF KeptSoFar

\* The lines of the files s.
LinesOf(s) == {l \in Places : l[1] \in s}
EntriesOf(s) == {IdAt(l) : l \in LinesOf(s)}

\* The walk has read all of the files s, and found nothing wrong.
AllSoFar(s, read) ==
    read.ids = EntriesOf(s) /\ read.bytes = TotalOf(s) /\ read.ok /\ ~read.stop

\* The lines are finitely many, and no fewer than their entries.
LEMMA LinesFinite ==
  ASSUME TypeOK, NEW s \in SUBSET (DOMAIN file)
  PROVE  /\ IsFiniteSet(LinesOf(s)) /\ Cardinality(LinesOf(s)) \in Nat
         /\ Cardinality(EntriesOf(s)) <= Cardinality(LinesOf(s))
         /\ Cardinality(EntriesOf(s)) \in Nat
         /\ \A l \in LinesOf(s) : l[1] \in s /\ l[2] \in DOMAIN file[l[1]] /\ l = <<l[1], l[2]>>
<1> DEFINE Lines(g) == {<<g, i>> : i \in DOMAIN file[g]}
<1>1. \A g \in DOMAIN file : IsFiniteSet(Lines(g))
  <2> SUFFICES ASSUME NEW g \in DOMAIN file PROVE IsFiniteSet(Lines(g))
    OBVIOUS
  <2>1. PICK D : D = DOMAIN file[g]
    OBVIOUS
  <2>2. IsFiniteSet(D)
    BY <2>1, LinesTyped, FS_Interval
  <2>3. IsFiniteSet({g}) /\ IsFiniteSet({g} \X D)
    BY <2>2, FS_Singleton, FS_Product
  <2>4. Lines(g) \in SUBSET ({g} \X D)
    BY <2>1
  <2> HIDE DEF Lines
  <2> QED  BY <2>3, <2>4, FS_Subset
<1>2. Places = UNION {Lines(g) : g \in DOMAIN file}
  BY DEF Places
<1>3. IsFiniteSet(Places)
  <2>1. PICK F : F = [g \in DOMAIN file |-> Lines(g)]
    OBVIOUS
  <2>2. PICK R : R = {Lines(g) : g \in DOMAIN file}
    OBVIOUS
  <2>3. F \in Surjection(DOMAIN file, R)
    <3> HIDE DEF Lines
    <3>1. F \in [DOMAIN file -> R]
      BY <2>1, <2>2
    <3>2. \A x \in R : \E g \in DOMAIN file : F[g] = x
      BY <2>1, <2>2
    <3> QED  BY <3>1, <3>2 DEF Surjection
  <2>4. IsFiniteSet(R)
    BY <2>3, Directory, FS_Surjection
  <2>5. \A x \in R : IsFiniteSet(x)
    <3> HIDE DEF Lines
    <3> QED  BY <1>1, <2>2
  <2>6. Places = UNION R
    BY <1>2, <2>2
  <2> HIDE DEF Lines
  <2> QED  BY <2>4, <2>5, <2>6, FS_UNION
<1>4. LinesOf(s) \in SUBSET Places
  BY DEF LinesOf
<1>5. IsFiniteSet(LinesOf(s)) /\ Cardinality(LinesOf(s)) \in Nat
  BY <1>3, <1>4, FS_Subset, FS_CardinalityType
<1>6. Cardinality(EntriesOf(s)) <= Cardinality(LinesOf(s)) /\ Cardinality(EntriesOf(s)) \in Nat
  <2>1. PICK L, E : L = LinesOf(s) /\ E = EntriesOf(s)
    OBVIOUS
  <2>2. PICK h : h = [l \in L |-> IdAt(l)]
    OBVIOUS
  <2>3. h \in Surjection(L, E)
    BY <2>1, <2>2 DEF Surjection, EntriesOf
  <2>4. IsFiniteSet(L)
    BY <1>5, <2>1
  <2>5. Cardinality(E) <= Cardinality(L) /\ IsFiniteSet(E)
    BY <2>3, <2>4, FS_Surjection
  <2> QED  BY <2>1, <2>5, FS_CardinalityType
<1>7. \A l \in LinesOf(s) : l[1] \in s /\ l[2] \in DOMAIN file[l[1]] /\ l = <<l[1], l[2]>>
  BY DEF LinesOf, Places
<1> QED  BY <1>5, <1>6, <1>7

\* The size of a part of the directory and one more file.
LEMMA TotalSplits ==
  ASSUME TypeOK, NEW s \in SUBSET (DOMAIN file), NEW g \in s
  PROVE  /\ TotalOf(s) = TotalOf(s \ {g}) + Size(file[g])
         /\ TotalOf(s) <= TotalOf(DOMAIN file) /\ TotalOf(DOMAIN file) \in Nat
         /\ TotalOf(s) \in Nat /\ TotalOf(s \ {g}) \in Nat
<1>1. PICK t \in SUBSET s : t = s \ {g}
  OBVIOUS
<1>2. IsFiniteSet(s) /\ IsFiniteSet(t)
  BY Directory, FS_Subset
<1>3. PICK f, k : f = [h \in s |-> Size(file[h])] /\ k = [h \in t |-> Size(file[h])]
  OBVIOUS
<1>4. \A h \in s : f[h] \in Nat
  BY <1>3, Directory
<1>5. SumFunctionOnSet(f, s) = f[g] + SumFunctionOnSet(f, s \ {g})
  BY <1>2, <1>4, SumLaws
<1>6. \A h \in t : f[h] = k[h]
  BY <1>1, <1>3
<1>7. SumFunctionOnSet(f, t) = SumFunctionOnSet(k, t)
  BY <1>2, <1>6, SumAgrees
<1>8. TotalOf(s) = SumFunctionOnSet(f, s) /\ TotalOf(t) = SumFunctionOnSet(k, t)
  BY <1>3 DEF TotalOf
<1>9. TotalOf(t) <= TotalOf(s) /\ TotalOf(t) \in Nat /\ TotalOf(s) \in Nat
  BY TotalMonotone
<1>10. TotalOf(s) <= TotalOf(DOMAIN file) /\ TotalOf(DOMAIN file) \in Nat
  BY TotalMonotone
<1>11. f[g] = Size(file[g]) /\ Size(file[g]) \in Nat
  BY <1>3, Directory
<1> QED  BY <1>1, <1>5, <1>7, <1>8, <1>9, <1>10, <1>11

\* In a file without damage every line parses, and all are among the newest of that many.
LEMMA CleanFile ==
  ASSUME TypeOK, NEW g \in DOMAIN file, NEW n \in Nat, Len(file[g]) <= n,
         \A i \in DOMAIN file[g] : file[g][i].end = "newline"
  PROVE  /\ Parsed(file[g]) = DOMAIN file[g] /\ LineStarts(file[g]) = DOMAIN file[g]
         /\ NewestLines(file[g], n) = {file[g][i].id : i \in DOMAIN file[g]}
         /\ Cardinality(Parsed(file[g])) <= n
<1>0. PICK f : f = file[g]
  OBVIOUS
<1>1. PICK k \in Nat : f = file[g] /\ k = Len(f) /\ DOMAIN f = 1..k /\ k <= n
  BY <1>0, LinesTyped
<1>2. LineStarts(f) = DOMAIN f
  BY <1>1 DEF LineStarts
<1>3. Parsed(f) = DOMAIN f
  BY <1>1, <1>2 DEF Parsed
<1>4. PICK P : P = DOMAIN f
  OBVIOUS
<1>5. IsFiniteSet(P) /\ Cardinality(P) = k
  <2>1. IsFiniteSet(1..k) /\ Cardinality(1..k) = k
    BY FS_Interval
  <2> QED  BY <1>1, <1>4, <2>1
<1>6. ASSUME NEW i \in P PROVE Cardinality({j \in P : j > i}) < n
  <2>1. PICK A : A = {j \in P : j > i}
    OBVIOUS
  <2>2. A \in SUBSET P /\ A # P
    BY <1>1, <1>4, <2>1
  <2>3. /\ Cardinality(A) <= Cardinality(P) /\ Cardinality(A) # Cardinality(P)
        /\ Cardinality(A) \in Nat
    BY <1>5, <2>2, FS_Subset, FS_CardinalityType
  <2> QED  BY <1>1, <1>5, <2>1, <2>3
<1>7. {i \in P : Cardinality({j \in P : j > i}) < n} = P
  BY <1>6
<1>8. NewestLines(f, n) = {f[i].id : i \in P}
  BY <1>3, <1>4, <1>7 DEF NewestLines
<1> QED  BY <1>1, <1>2, <1>3, <1>4, <1>5, <1>8

\* One more file.
LEMMA AllStep ==
  ASSUME TypeOK, Undamaged, NEW s \in SUBSET (DOMAIN file), NEW g \in s,
         TotalOf(DOMAIN file) <= TotalBytes, Size(file[g]) <= FileBytes, file[g] # <<>>,
         Cardinality(Places) <= MaxEntries, NEW q \in Reading, AllSoFar(s \ {g}, q)
  PROVE  AllSoFar(s, ReadFile(q, g))
<1>1. PICK t \in SUBSET s : t = s \ {g} /\ t \in SUBSET (DOMAIN file)
  OBVIOUS
<1>2. PICK L, T, G : L = LinesOf(s) /\ T = LinesOf(t) /\ G = LinesOf({g})
  OBVIOUS
<1>3. /\ IsFiniteSet(L) /\ IsFiniteSet(T) /\ IsFiniteSet(G)
      /\ Cardinality(T) \in Nat /\ Cardinality(G) \in Nat /\ Cardinality(L) \in Nat
      /\ Cardinality(q.ids) <= Cardinality(T) /\ Cardinality(q.ids) \in Nat
  BY <1>1, <1>2, LinesFinite DEF AllSoFar
<1>4. L = T \cup G /\ T \cap G = {}
  BY <1>1, <1>2 DEF LinesOf
<1>5. PICK n \in Nat : n = Len(file[g]) /\ n > 0 /\ DOMAIN file[g] = 1..n
  <2>1. file[g] \in Seq(Chunk)
    BY DEF TypeOK
  <2> QED  BY <2>1
<1>6. Cardinality(G) = n
  <2>1. PICK h : h = [i \in 1..n |-> <<g, i>>]
    OBVIOUS
  <2>2. G = {<<g, i>> : i \in 1..n}
    <3>1. \A l \in G : l[1] = g /\ l[2] \in 1..n /\ l = <<l[1], l[2]>>
      BY <1>2, <1>5, LinesFinite
    <3>2. \A i \in 1..n : <<g, i>> \in G
      BY <1>2, <1>5 DEF LinesOf, Places
    <3> QED  BY <3>1, <3>2
  <2>3. h \in Bijection(1..n, G)
    BY <2>1, <2>2 DEF Bijection, Injection, Surjection, IsInjective
  <2>4. IsFiniteSet(1..n) /\ Cardinality(1..n) = n
    BY FS_Interval
  <2> QED  BY <2>3, <2>4, FS_Bijection DEF ExistsBijection
<1>7. Cardinality(T) + n <= MaxEntries
  <2>1. PICK P : P = Places
    OBVIOUS
  <2>2. IsFiniteSet(P) /\ L \in SUBSET P
    <3>1. LinesOf(DOMAIN file) = Places
      BY DEF LinesOf, Places
    <3>2. IsFiniteSet(LinesOf(DOMAIN file))
      BY LinesFinite
    <3>3. L \in SUBSET Places
      BY <1>2 DEF LinesOf
    <3> QED  BY <2>1, <3>1, <3>2, <3>3
  <2>3. Cardinality(L) <= Cardinality(P) /\ Cardinality(P) \in Nat
    BY <2>2, FS_Subset, FS_CardinalityType
  <2>4. Cardinality(L) = Cardinality(T) + Cardinality(G) - Cardinality(T \cap G)
    BY <1>3, <1>4, FS_Union
  <2>5. Cardinality(T \cap G) = 0
    BY <1>4, FS_EmptySet
  <2> QED  BY <1>3, <1>6, <2>1, <2>3, <2>4, <2>5, Limits
<1>8. ~Skipped(q, g)
  BY Directory, Limits DEF Skipped
<1>9. ~Stopped(q, g)
  <2>1. q.bytes + Size(file[g]) <= TotalBytes
    <3>1. /\ TotalOf(s) = TotalOf(s \ {g}) + Size(file[g]) /\ TotalOf(s) <= TotalOf(DOMAIN file)
          /\ TotalOf(s) \in Nat /\ TotalOf(DOMAIN file) \in Nat
      BY TotalSplits
    <3> QED  BY <3>1, Limits DEF AllSoFar
  <2>2. Cardinality(q.ids) < MaxEntries
    BY <1>3, <1>5, <1>7, Limits
  <2>3. q.bytes + Size(file[g]) \in Nat
    BY Directory DEF Reading
  <2> QED  BY <1>3, <2>1, <2>2, <2>3, Limits DEF Stopped, AllSoFar
<1>10. PICK k : Taken(q, g, k)
  BY <1>8, <1>9, ReadFileCases
<1>11. k \in Nat /\ n <= k /\ ReadFile(q, g) = ReadLines(q, g, k)
  BY <1>3, <1>7, <1>10, Limits DEF Taken
<1>12. \A i \in DOMAIN file[g] : file[g][i].end = "newline"
  <2> SUFFICES ASSUME NEW i \in DOMAIN file[g] PROVE file[g][i].end = "newline"
    OBVIOUS
  <2>1. PICK l : l = <<g, i>>
    OBVIOUS
  <2>2. l \in Places /\ l[1] = g /\ l[2] = i
    BY <2>1 DEF Places
  <2> QED  BY <2>2 DEF Undamaged
<1>13. /\ Parsed(file[g]) = LineStarts(file[g]) /\ Cardinality(Parsed(file[g])) <= k
       /\ NewestLines(file[g], k) = {file[g][i].id : i \in DOMAIN file[g]}
  BY <1>5, <1>11, <1>12, CleanFile
<1>14. EntriesOf(s) = EntriesOf(t) \cup NewestLines(file[g], k)
  <2>1. \A l \in G : l[1] = g /\ l[2] \in DOMAIN file[g] /\ IdAt(l) = file[g][l[2]].id
    BY <1>2, LinesFinite DEF IdAt
  <2>2. ASSUME NEW i \in DOMAIN file[g] PROVE \E l \in G : IdAt(l) = file[g][i].id
    <3>1. PICK l : l = <<g, i>>
      OBVIOUS
    <3>2. l \in G /\ IdAt(l) = file[g][i].id
      BY <1>2, <3>1 DEF LinesOf, Places, IdAt
    <3> QED  BY <3>2
  <2>3. {IdAt(l) : l \in G} = NewestLines(file[g], k)
    BY <1>13, <2>1, <2>2
  <2> QED  BY <1>2, <1>4, <2>3 DEF EntriesOf
<1>15. q.bytes + Size(file[g]) = TotalOf(s)
  BY TotalSplits DEF AllSoFar
<1>16. PICK r : r = ReadLines(q, g, k)
  OBVIOUS
<1>17. /\ r.ids = q.ids \cup NewestLines(file[g], k) /\ r.bytes = q.bytes + Size(file[g])
       /\ ~r.stop
  BY <1>16 DEF ReadLines
<1>18. r.ok
  BY <1>13, <1>16 DEF ReadLines, AllSoFar
<1>19. AllSoFar(s, r)
  BY <1>1, <1>14, <1>15, <1>17, <1>18 DEF AllSoFar
<1> QED  BY <1>11, <1>16, <1>19

\* Within the bounds, ReadAll returns everything.
LEMMA AllAreRead == ASSUME TypeOK, FitsInv PROVE HistoryComplete
<1> SUFFICES ASSUME ~overlapped, ~dirty, Undamaged, Cardinality(Places) <= MaxEntries,
                    \A g \in DOMAIN file : file[g] # <<>>
             PROVE  ReadAll.ok /\ ReadAll.ids = {IdAt(l) : l \in Places}
  BY DEF HistoryComplete
<1>1. TotalOf(DOMAIN file) <= TotalBytes /\ \A g \in DOMAIN file : Size(file[g]) <= FileBytes
  BY DEF FitsInv
<1>2. PICK it : Walk(it) /\ ReadAll = it[DOMAIN file]
  BY WalkRuns
<1>3. PICK S : S = DOMAIN file
  OBVIOUS
<1>4. IsFiniteSet(S)
  BY <1>3, Directory
<1>5. AllSoFar(S, it[S])
  <2> DEFINE Bad == {s \in SUBSET S : ~AllSoFar(s, it[s])}
  <2>1. SUFFICES ASSUME Bad # {} PROVE FALSE
    OBVIOUS
  <2>2. PICK s \in Bad : \A t \in SUBSET s : t # s => t \notin Bad
    <3>1. Bad \in SUBSET (SUBSET S)
      OBVIOUS
    <3> HIDE DEF Bad
    <3> QED  BY <1>4, <2>1, <3>1, SmallestSubset
  <2>3. s # {}
    <3>1. PICK f : f = [g \in {} |-> Size(file[g])]
      OBVIOUS
    <3>2. SumFunctionOnSet(f, {}) = 0
      BY FS_EmptySet, SumLaws
    <3>3. EntriesOf({}) = {} /\ TotalOf({}) = 0
      BY <3>1, <3>2 DEF EntriesOf, LinesOf, TotalOf
    <3>4. AllSoFar({}, it[{}])
      BY <1>2, <3>3 DEF AllSoFar, Walk, NothingRead
    <3> QED  BY <2>2, <3>4
  <2>4. PICK g \in s : g = Oldest(s) /\ it[s] = ReadFile(it[s \ {g}], g)
    BY <1>2, <1>3, <2>2, <2>3 DEF Walk
  <2>5. AllSoFar(s \ {g}, it[s \ {g}])
    BY <2>2, <2>4
  <2>6. PICK q \in Reading : q = it[s \ {g}]
    BY <1>2, <1>3, <2>2 DEF Walk
  <2>7. AllSoFar(s, ReadFile(q, g))
    BY <1>1, <1>3, <2>2, <2>5, <2>6, AllStep
  <2> QED  BY <2>2, <2>4, <2>6, <2>7
<1>6. LinesOf(S) = Places
  BY <1>3 DEF LinesOf, Places
<1> QED  BY <1>2, <1>3, <1>5, <1>6 DEF AllSoFar, EntriesOf

-----------------------------------------------------------------------------
(* The log as an append-only log of segments.                              *)

\* An entry that went with its segment is not written again.
GoneInv ==
    /\ \A id \in removed : id <= bounds.appends
    /\ \A p \in Process : At(p, "open") \/ At(p, "write") => writer[p].id \notin removed

\* Every step keeps this invariant.
LEMMA GoneStep == ASSUME LogInv, NumberInv, GoneInv, [Next]_vars PROVE GoneInv'
<1>0. /\ TypeOK /\ bounds.appends \in Nat /\ \A id \in removed : id \in Nat
      /\ \A p \in Process : writer[p].id \in Nat /\ writer[p].id <= bounds.appends
  BY DEF LogInv, TypeOK, Writer, EntryId, NumberInv
<1>1. ASSUME NEW p \in Process, NEW bytes \in EntrySize, Start(p, bytes) PROVE GoneInv'
  <2>1. /\ bounds'.appends = bounds.appends + 1 /\ removed' = removed
        /\ writer'[p].id = bounds.appends + 1
        /\ \A q \in Process \ {p} : writer'[q] = writer[q]
    BY <1>0, <1>1 DEF Start, TypeOK, NoAppend
  <2>2. \A id \in removed' : id <= bounds'.appends
    BY <1>0, <2>1 DEF GoneInv
  <2>3. \A q \in Process : writer'[q].pc \in {"open", "write"} => writer'[q].id \notin removed'
    BY <1>0, <2>1 DEF GoneInv, At
  <2> QED  BY <2>2, <2>3 DEF GoneInv, At
<1>2. ASSUME bounds'.appends = bounds.appends, NEW p \in Process,
             \A q \in Process \ {p} : writer'[q] = writer[q],
             \/ writer'[p].pc \notin {"open", "write"}
             \/ writer'[p].id = writer[p].id /\ At(p, "open"),
             \/ removed' = removed
             \/ \E g \in DOMAIN file :
                   removed' = removed \cup {file[g][i].id : i \in DOMAIN file[g]}
      PROVE  GoneInv'
  <2>1. ASSUME NEW id \in removed' \ removed
        PROVE  id <= bounds.appends
               /\ \A q \in Process : At(q, "open") \/ At(q, "write") => writer[q].id # id
    <3>1. PICK g \in DOMAIN file : id \in {file[g][i].id : i \in DOMAIN file[g]}
      BY <1>2, <2>1
    <3>2. PICK i \in DOMAIN file[g] : id = file[g][i].id
      BY <3>1
    <3> QED  BY <3>2 DEF NumberInv, Unwritten
  <2>2. \A id \in removed' : id <= bounds'.appends
    BY <1>2, <2>1 DEF GoneInv
  <2>3. ASSUME NEW q \in Process, writer'[q].pc \in {"open", "write"}
        PROVE  writer'[q].id \notin removed'
    <3>1. writer'[q].id = writer[q].id /\ (At(q, "open") \/ At(q, "write"))
      BY <1>2, <2>3 DEF At
    <3> QED  BY <2>1, <3>1 DEF GoneInv
  <2> QED  BY <2>2, <2>3 DEF GoneInv, At
<1>3. ASSUME NEW p \in Process,
             \/ OpenSegment(p) \/ WriteLine(p) \/ WriteCut(p)
             \/ Scan(p) \/ Acknowledge(p) \/ Abandon(p)
      PROVE  GoneInv'
  <2>1. removed' = removed /\ bounds'.appends = bounds.appends
    BY <1>0, <1>3 DEF OpenSegment, WriteLine, WriteCut, Scan, Acknowledge, Abandon, TypeOK
  <2>2. /\ \A q \in Process \ {p} : writer'[q] = writer[q]
        /\ \/ writer'[p].pc \notin {"open", "write"}
           \/ writer'[p].id = writer[p].id /\ At(p, "open")
    <3>1. CASE OpenSegment(p)
      BY <1>0, <3>1 DEF OpenSegment, TypeOK, Writer, At
    <3>2. CASE WriteLine(p)
      BY <1>0, <3>2 DEF WriteLine, Move, TypeOK, Writer
    <3>3. CASE Scan(p)
      BY <1>0, <3>3 DEF Scan, TypeOK, Writer
    <3>4. CASE WriteCut(p) \/ Acknowledge(p) \/ Abandon(p)
      <4>1. writer' = [writer EXCEPT ![p] = NoAppend] /\ writer \in [Process -> Writer]
        BY <1>0, <3>4 DEF WriteCut, Acknowledge, Abandon, TypeOK
      <4> QED  BY <4>1, Rest
    <3> QED  BY <1>3, <3>1, <3>2, <3>3, <3>4
  <2> QED  BY <1>2, <2>1, <2>2
<1>4. ASSUME NEW p \in Process, RemoveOldest(p) PROVE GoneInv'
  <2>1. /\ At(p, "remove") /\ bounds' = bounds
        /\ \E g \in DOMAIN file : removed' = removed \cup {file[g][i].id : i \in DOMAIN file[g]}
    BY <1>4 DEF RemoveOldest
  <2>2. (\A q \in Process \ {p} : writer'[q] = writer[q]) /\ writer'[p].pc = "remove"
    BY <1>0, <1>4 DEF RemoveOldest, TypeOK, Writer, At
  <2> QED  BY <1>2, <2>1, <2>2
<1>5. ASSUME NEW d \in Day, SetClock(d) PROVE GoneInv'
  BY <1>0, <1>5 DEF SetClock, TypeOK, GoneInv, At
<1>6. ASSUME UNCHANGED vars PROVE GoneInv'
  BY <1>6 DEF vars, GoneInv, At
<1> QED  BY <1>1, <1>3, <1>4, <1>5, <1>6 DEF Next, Finished

\* The directory is a function, on the segments there are.
TableInv == file = [g \in DOMAIN file |-> file[g]]

LEMMA TableStep == ASSUME LogInv, TableInv, [Next]_vars PROVE TableInv'
<1>1. CASE file' = file
  BY <1>1 DEF TableInv
<1>2. ASSUME NEW p \in Process, OpenSegment(p) PROVE TableInv'
  BY <1>2 DEF OpenSegment, TableInv
<1>3. ASSUME NEW p \in Process, WriteLine(p) \/ WriteCut(p) PROVE TableInv'
  <2>1. PICK g, c : file' = [file EXCEPT ![g] = Append(@, c)]
    BY <1>3 DEF WriteLine, WriteCut, AppendChunk
  <2> QED  BY <2>1 DEF TableInv
<1>4. ASSUME NEW p \in Process, RemoveOldest(p) PROVE TableInv'
  BY <1>4 DEF RemoveOldest, TableInv
<1> QED
  BY <1>1, <1>2, <1>3, <1>4
     DEF Next, Start, Scan, Acknowledge, Abandon, SetClock, Finished, vars

\* All that is known of every state.
ArchiveInv == LogInv /\ WalkInv /\ GoneInv /\ TableInv

LEMMA ArchiveSound == Spec => []ArchiveInv
<1>1. Init => GoneInv /\ TableInv
  BY Rest DEF Init, GoneInv, TableInv, At
<1>2. LogInv /\ WalkInv /\ GoneInv /\ TableInv /\ [Next]_vars => GoneInv' /\ TableInv'
  BY GoneStep, TableStep DEF WalkInv
<1> QED  BY <1>1, <1>2, WalkSound, PTL DEF Spec, ArchiveInv

\* The bytes of the log are those of the directory.
LEMMA BytesAgree == Promised!Bytes = TotalOf(DOMAIN file)
BY DEF Promised!Bytes, TotalOf, Size, SumFunctionOnSet, FoldFunctionOnSet, MapThenFoldSet,
       Promised!SumFunctionOnSet, Promised!FoldFunctionOnSet, Promised!MapThenFoldSet

\* A new segment, or one that was there.
LEMMA OpenPromised ==
  ASSUME ArchiveInv, LogInv', NEW p \in Process, OpenSegment(p)
  PROVE  [Promised!Next]_(Promised!logVars)
<1>1. UNCHANGED <<removed, acked, overlapped>>
  BY DEF OpenSegment
<1>2. PICK g : file' = [h \in DOMAIN file \cup {g} |-> IF h \in DOMAIN file THEN file[h] ELSE <<>>]
  BY DEF OpenSegment
<1>3. CASE g \in DOMAIN file
  <2>1. DOMAIN file \cup {g} = DOMAIN file
    BY <1>3
  <2>2. file' = [h \in DOMAIN file |-> file[h]]
    BY <1>2, <2>1
  <2> QED  BY <1>1, <2>2 DEF Promised!logVars, ArchiveInv, TableInv
<1>4. CASE g \notin DOMAIN file
  <2>1. g \in DOMAIN file'
    BY <1>2
  <2>2. g \in Segment
    BY <2>1 DEF LogInv, TypeOK
  <2>3. Promised!Create(g)
    BY <1>1, <1>2, <1>4 DEF Promised!Create
  <2> QED  BY <2>2, <2>3 DEF Promised!Next
<1> QED  BY <1>3, <1>4

\* What can be written, as the append-only log sees it.
Written == [id : EntryId, bytes : 1..FileBytes, end : {"newline", "unterminated", "cut"}]

\* A line, or the beginning of one.
LEMMA WritePromised ==
  ASSUME ArchiveInv, NEW p \in Process, At(p, "write"), NEW bytes \in 1..writer[p].bytes,
         NEW end \in {"newline", "unterminated", "cut"}, AppendChunk(p, bytes, end),
         UNCHANGED <<removed, acked, overlapped>>
  PROVE  [Promised!Next]_(Promised!logVars)
<1>1. PICK g : g = OpenedBy(p)
  OBVIOUS
<1>2. PICK c : c = [id |-> writer[p].id, bytes |-> bytes, end |-> end]
  OBVIOUS
<1>3. /\ g \in DOMAIN file /\ writer[p].id \in EntryId /\ writer[p].bytes \in EntrySize
      /\ Unwritten(writer[p].id) /\ writer[p].id \notin removed
  BY <1>1 DEF ArchiveInv, LogInv, AppendInv, AppendSafe, WalkInv, NumberInv, GoneInv, At
<1>4. bytes \in 1..FileBytes
  BY <1>3, Largest, Limits
<1>5. c \in Written /\ c.id = writer[p].id
  BY <1>2, <1>3, <1>4 DEF Written
<1>6. file' = [file EXCEPT ![g] = Append(@, c)]
  BY <1>1, <1>2 DEF AppendChunk
<1>7. ~Promised!Stands(c.id) /\ c.id \notin removed
  BY <1>3, <1>5 DEF Promised!Stands, Unwritten
<1>8. Promised!Write(g, c)
  BY <1>6, <1>7 DEF Promised!Write
<1> QED  BY <1>3, <1>5, <1>8 DEF Promised!Next, Written

\* A segment is deleted.
LEMMA RemovePromised ==
  ASSUME ArchiveInv, NEW p \in Process, RemoveOldest(p)
  PROVE  [Promised!Next]_(Promised!logVars)
<1>1. PICK g \in writer[p].doomed \cap DOMAIN file :
        /\ \A h \in writer[p].doomed : h = g \/ Older(g, h)
        /\ file' = [h \in DOMAIN file \ {g} |-> file[h]]
        /\ removed' = removed \cup {file[g][i].id : i \in DOMAIN file[g]}
  BY DEF RemoveOldest
<1>2. At(p, "remove") /\ UNCHANGED <<acked, overlapped>>
  BY DEF RemoveOldest
<1>3. ~overlapped => /\ TotalOf(DOMAIN file) > TotalBytes
                     /\ \A h \in DOMAIN file \ {g} : Older(g, h)
  BY <1>1, <1>2, OldestGoes DEF ArchiveInv
<1>4. ~overlapped => /\ Promised!Bytes > TotalBytes
                     /\ \A h \in DOMAIN file \ {g} : Promised!Before(g, h)
  BY <1>3, BytesAgree DEF Promised!Before, Older
<1>5. Promised!Drop(g)
  BY <1>1, <1>2, <1>4 DEF Promised!Drop
<1> QED  BY <1>1, <1>5 DEF Promised!Next

\* Append returns nil.
LEMMA AcknowledgePromised ==
  ASSUME ArchiveInv, WalkInv', NEW p \in Process, Acknowledge(p)
  PROVE  [Promised!Next]_(Promised!logVars)
<1>1. /\ At(p, "remove") /\ acked' = acked \cup {writer[p].id} /\ dirty' = FALSE
      /\ UNCHANGED <<file, removed, overlapped>>
  BY DEF Acknowledge
<1>2. writer[p].id \in EntryId /\ Kept(writer[p].id)
  BY <1>1 DEF ArchiveInv, LogInv, AppendInv, AppendSafe, At
<1>3. PICK c : c = [id |-> writer[p].id, bytes |-> 1, end |-> "newline"]
  OBVIOUS
<1>4. c \in Written /\ c.id = writer[p].id
  <2>1. PICK b \in EntrySize : TRUE
    BY Limits
  <2>2. 1 \in 1..FileBytes
    BY <2>1, Largest, Limits
  <2> QED  BY <1>2, <1>3, <2>2 DEF Written
<1>5. Promised!StandsWhole(c.id) \/ c.id \in removed
  BY <1>2, <1>4 DEF Kept, Promised!StandsWhole
<1>6. TotalOf(DOMAIN file)' = TotalOf(DOMAIN file)
  BY <1>1 DEF TotalOf
<1>7. ~overlapped => Promised!Bytes <= TotalBytes
  BY <1>1, <1>6, BytesAgree DEF WalkInv, FitsInv
<1>8. Promised!Promise(c.id)
  BY <1>1, <1>4, <1>5, <1>7 DEF Promised!Promise
<1> QED  BY <1>4, <1>8 DEF Promised!Next, Written

\* Every step of the log is one of the append-only log, or none.
LEMMA StepPromised ==
  ASSUME ArchiveInv, LogInv', WalkInv', [Next]_vars
  PROVE  [Promised!Next]_(Promised!logVars)
<1>1. ASSUME NEW p \in Process, NEW bytes \in EntrySize, Start(p, bytes)
      PROVE  [Promised!Next]_(Promised!logVars)
  <2>1. UNCHANGED <<file, acked, removed>> /\ overlapped' \in BOOLEAN /\ overlapped \in BOOLEAN
        /\ (overlapped => overlapped')
    BY <1>1 DEF Start, ArchiveInv, LogInv, TypeOK
  <2>2. overlapped' = overlapped \/ overlapped' = TRUE
    BY <2>1
  <2> QED  BY <2>1, <2>2 DEF Promised!Next, Promised!Share, Promised!logVars
<1>2. ASSUME NEW p \in Process, WriteLine(p)
      PROVE  [Promised!Next]_(Promised!logVars)
  <2>1. /\ At(p, "write") /\ AppendChunk(p, writer[p].bytes, "newline")
        /\ UNCHANGED <<removed, acked, overlapped>>
    BY <1>2 DEF WriteLine
  <2>2. writer[p].bytes \in Nat \ {0}
    BY <2>1, Largest DEF ArchiveInv, LogInv, AppendInv, AppendSafe, At
  <2>3. writer[p].bytes \in 1..writer[p].bytes
    BY <2>2
  <2> QED  BY <2>1, <2>3, WritePromised
<1>3. ASSUME NEW p \in Process, WriteCut(p)
      PROVE  [Promised!Next]_(Promised!logVars)
  <2>1. At(p, "write") /\ UNCHANGED <<removed, acked, overlapped>>
    BY <1>3 DEF WriteCut
  <2>2. PICK bytes \in 1..(writer[p].bytes - 1), end \in {"cut", "unterminated"} :
           AppendChunk(p, bytes, end)
    BY <1>3 DEF WriteCut
  <2>3. writer[p].bytes \in Nat
    BY <2>1, Largest DEF ArchiveInv, LogInv, AppendInv, AppendSafe, At
  <2>4. bytes \in 1..writer[p].bytes
    BY <2>3
  <2> QED  BY <2>1, <2>2, <2>4, WritePromised
<1>4. CASE UNCHANGED <<file, removed, acked, overlapped>>
  BY <1>4 DEF Promised!logVars
<1> QED
  BY <1>1, <1>2, <1>3, <1>4, OpenPromised, RemovePromised, AcknowledgePromised
     DEF Next, Scan, Abandon, SetClock, Finished, vars, ArchiveInv

-----------------------------------------------------------------------------
(* Theorems.                                                               *)

\* The log's state is well typed: whatever processes do at the same time, segments hold
\* entries, and an append works on a segment whose number audit.go can format.
THEOREM LogTypes == Spec => []TypeOK
<1>1. LogInv => TypeOK
  BY DEF LogInv
<1> QED  BY <1>1, LogSound, PTL

\* An entry whose Append returned nil stays in the directory until a prune deletes its
\* whole segment, and can be parsed unless it directly follows a cut write.
THEOREM AcknowledgedStays == Spec => []Acknowledged
<1>1. LogInv => Acknowledged
  <2> SUFFICES ASSUME LogInv, NEW id \in acked \ removed
               PROVE  \E l \in Places :
                         /\ IdAt(l) = id
                         /\ l \in Legible \/ (l[2] > 1 /\ file[l[1]][l[2] - 1].end # "newline")
    BY DEF Acknowledged
  <2>0. PICK g \in DOMAIN file :
          \E i \in DOMAIN file[g] : file[g][i].id = id /\ file[g][i].end = "newline"
    BY DEF LogInv, KeptInv, Kept
  <2>1. PICK i \in DOMAIN file[g] : file[g][i].id = id /\ file[g][i].end = "newline"
    BY <2>0
  <2>2. i \in DOMAIN file[g] /\ i \in Nat \ {0}
    <3>1. file[g] \in Seq(Chunk)
      BY DEF LogInv, TypeOK
    <3> QED  BY <2>1, <3>1
  <2>3. PICK l : l = <<g, i>>
    OBVIOUS
  <2>4. l \in Places /\ l[1] = g /\ l[2] = i /\ IdAt(l) = id
    BY <2>1, <2>2, <2>3 DEF Places, IdAt
  <2>5. CASE i = 1 \/ file[g][i - 1].end = "newline"
    <3>1. i \in Parsed(file[g])
      BY <2>1, <2>2, <2>5 DEF Parsed, LineStarts
    <3>2. l \in Legible
      BY <2>4, <3>1 DEF Legible
    <3> QED  BY <2>4, <3>2
  <2>6. CASE ~(i = 1 \/ file[g][i - 1].end = "newline")
    <3>1. l[2] > 1 /\ file[l[1]][l[2] - 1].end # "newline"
      BY <2>2, <2>4, <2>6
    <3> QED  BY <2>4, <3>1
  <2> QED  BY <2>5, <2>6
<1> QED  BY <1>1, LogSound, PTL

\* Several processes that found room in the same segment, because openDailyFile looks at
\* its size before it writes, overfill it by no more than an entry for each but one.
THEOREM OverfillStaysBounded == Spec => []OverfillBounded
<1>1. LogInv => OverfillBounded
  <2> SUFFICES ASSUME LogInv, NEW g \in DOMAIN file PROVE Size(file[g]) <= Allowed
    BY DEF OverfillBounded, Allowed
  <2>1. TypeOK /\ Size(file[g]) + Load(g) <= Allowed
    BY DEF LogInv, LoadInv
  <2>2. Size(file[g]) \in Nat /\ Load(g) \in Nat
    BY <2>1, Directory, ClaimsTyped
  <2>3. Allowed \in Int
    BY Limits, Largest, FS_CardinalityType DEF Allowed
  <2> QED  BY <2>1, <2>2, <2>3
<1> QED  BY <1>1, LogSound, PTL

\* The log can be read: all of it while it is within the bounds of ReadAll, and its newest part,
\* with an error, beyond them.
THEOREM HistoryIsReadable == Spec => []HistoryReadable
<1>1. LogInv /\ WalkInv => HistoryReadable
  BY NewestAreKept, AllAreRead DEF LogInv, WalkInv, HistoryReadable
<1> QED  BY <1>1, WalkSound, PTL

\* The log implements an append-only log of segments: however appends, prunes and crashes of
\* several processes interleave, an entry is written once, stays as it is until its segment
\* goes, and Append returns nil only for one written whole; one process at a time drops the
\* oldest segment, and only over the bound of a read.
THEOREM LogKeepsPromises == Spec => PromisesKept
<1>1. Init => Promised!Init
  BY DEF Init, Promised!Init
<1>2. ArchiveInv /\ ArchiveInv' /\ [Next]_vars => [Promised!Next]_(Promised!logVars)
  BY StepPromised DEF ArchiveInv
<1> QED
  BY <1>1, <1>2, ArchiveSound, PTL DEF Spec, PromisesKept, Promised!Spec

=============================================================================
