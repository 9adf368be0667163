---------------------------- MODULE AppendOnlyLog ----------------------------
(***************************************************************************)
(* What the operation log promises, whatever an append does in between:    *)
(* an entry is written once, at the end of a segment, and stays as it is   *)
(* until its whole segment is dropped; it never comes back after that; and *)
(* Append returns nil only for an entry that was written whole.            *)
(*                                                                         *)
(* As long as one process writes at a time it promises more: a segment is  *)
(* dropped only while the segments together are over the bound of a read,  *)
(* and none that stays is older; and an append that returned nil left them *)
(* within that bound.                                                      *)
(***************************************************************************)
EXTENDS Integers, Sequences, FiniteSetsExt

CONSTANTS Place,    \* segments there can be: pairs of a day and a number
          Line,     \* what can be written of an entry: its id, its bytes, how it ends
          Limit     \* the bytes ReadAll is willing to read

VARIABLES kept,     \* the lines of each segment there is
          dropped,  \* the entries that went with their segments
          promised, \* the entries whose Append returned nil
          shared    \* processes have written at the same time

logVars == <<kept, dropped, promised, shared>>

\* The bytes of all segments.
Bytes ==
    SumFunctionOnSet(
        [g \in DOMAIN kept |->
            SumFunctionOnSet([i \in DOMAIN kept[g] |-> kept[g][i].bytes], DOMAIN kept[g])],
        DOMAIN kept)

\* The entry stands in a segment, or in one with its newline.
Stands(id) == \E g \in DOMAIN kept : \E i \in DOMAIN kept[g] : kept[g][i].id = id
StandsWhole(id) ==
    \E g \in DOMAIN kept : \E i \in DOMAIN kept[g] :
        kept[g][i].id = id /\ kept[g][i].end = "newline"

\* Segments are in the order of days and numbers.
Before(g, h) == g[1] < h[1] \/ (g[1] = h[1] /\ g[2] < h[2])

Init ==
    /\ kept = [g \in {} |-> <<>>]
    /\ dropped = {} /\ promised = {} /\ shared = FALSE

\* A new segment.
Create(g) ==
    /\ g \notin DOMAIN kept
    /\ kept' = [h \in DOMAIN kept \cup {g} |-> IF h \in DOMAIN kept THEN kept[h] ELSE <<>>]
    /\ UNCHANGED <<dropped, promised, shared>>

\* A line for an entry that has none and never had one.
Write(g, line) ==
    /\ ~Stands(line.id) /\ line.id \notin dropped
    /\ kept' = [kept EXCEPT ![g] = Append(@, line)]
    /\ UNCHANGED <<dropped, promised, shared>>

\* A segment goes, with all its entries.
Drop(g) ==
    /\ ~shared => Bytes > Limit /\ \A h \in DOMAIN kept \ {g} : Before(g, h)
    /\ kept' = [h \in DOMAIN kept \ {g} |-> kept[h]]
    /\ dropped' = dropped \cup {kept[g][i].id : i \in DOMAIN kept[g]}
    /\ UNCHANGED <<promised, shared>>

\* Append returns nil.
Promise(id) ==
    /\ StandsWhole(id) \/ id \in dropped
    /\ ~shared => Bytes <= Limit
    /\ promised' = promised \cup {id}
    /\ UNCHANGED <<kept, dropped, shared>>

\* A second process begins while a first one is not done.
Share == shared' = TRUE /\ UNCHANGED <<kept, dropped, promised>>

Next ==
    \/ \E g \in Place : Create(g)
    \/ \E g \in DOMAIN kept : Drop(g) \/ \E line \in Line : Write(g, line)
    \/ \E line \in Line : Promise(line.id)
    \/ Share

Spec == Init /\ [][Next]_logVars
=============================================================================
