----------------------------- MODULE UndoHistory -----------------------------
(***************************************************************************)
(* What a WinForge process promises of the machine and its history,        *)
(* whichever of its callers is at work: one change at a time, each of them *)
(* recorded as it was, or not at all, before the next one.                 *)
(*                                                                         *)
(* A change that can be undone put one setting from the value that its     *)
(* entry holds to a new one.  An undo puts the value of an entry back that *)
(* can be undone and that no recorded undo has undone yet.                 *)
(***************************************************************************)
EXTENDS Naturals, Sequences

CONSTANTS Target,   \* the settings
          Setting,  \* what they can hold
          Factory   \* what they hold at first

VARIABLES machine,  \* [Target -> Setting]
          entries,  \* the history
          pending   \* the entry of a change that was made and is not recorded, if any

historyVars == <<machine, entries, pending>>

\* Entries that undo entry k, or none (0).
Entry(k) == [on : SUBSET Target, prev : Setting, new : Setting, success : BOOLEAN,
             canUndo : BOOLEAN, undoOf : {k}]

\* Entries that can be undone, and are not.
Undoable ==
    {k \in DOMAIN entries :
        /\ entries[k].success /\ entries[k].canUndo
        /\ \A n \in DOMAIN entries : ~(entries[n].success /\ entries[n].undoOf = k)}

Init == machine = Factory /\ entries = <<>> /\ pending = {}

\* Some of an entry's settings change, all of them if it is a success.
Put(e, v) ==
    /\ pending' = {e}
    /\ \E part \in SUBSET e.on :
          /\ e.success => part = e.on
          /\ machine' = [x \in Target |-> IF x \in part THEN v ELSE machine[x]]
    /\ UNCHANGED entries

\* A change of a tweak.  If it can be undone, its entry holds what it replaced.
Change(e) ==
    /\ Put(e, e.new)
    /\ e.canUndo => e.success /\ \E x \in Target : e.on = {x} /\ e.prev = machine[x]

\* An undo of entry k.
Undo(k, e) ==
    /\ Put(e, entries[k].prev)
    /\ ~e.canUndo /\ e.on = entries[k].on

\* Something changes, when no change waits to be recorded.
Make ==
    /\ pending = {} /\ pending' # {}
    /\ \/ \E e \in Entry(0) : Change(e)
       \/ \E k \in Undoable : \E e \in Entry(k) : Undo(k, e)

\* The change is recorded, or nobody will know of it.
Record == \E e \in pending : entries' = Append(entries, e) /\ pending' = {} /\ UNCHANGED machine
Forget == pending # {} /\ pending' = {} /\ UNCHANGED <<machine, entries>>

\* An entry about no setting.
Note(e) ==
    /\ entries' = Append(entries, e)
    /\ e.on = {} /\ ~e.canUndo /\ pending = {}
    /\ UNCHANGED <<machine, pending>>

\* Somebody else changes a setting.
Interfere(x, v) ==
    /\ pending = {}
    /\ machine' = [machine EXCEPT ![x] = v]
    /\ UNCHANGED <<entries, pending>>

Next ==
    \/ Make \/ Record \/ Forget
    \/ \E e \in Entry(0) : Note(e)
    \/ \E x \in Target, v \in Setting : Interfere(x, v)

Spec == Init /\ [][Next]_historyVars
=============================================================================
