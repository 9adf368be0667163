---------------------------- MODULE NetworkRepair ----------------------------
(***************************************************************************)
(* Network repairs (internal/maintenance/maintenance_windows.go): setting  *)
(* static DNS servers on every active adapter, two netsh commands for      *)
(* each, and the five commands of a network reset.  Adapters go up and     *)
(* down and are set by other programs while the commands run; every        *)
(* command may fail.                                                       *)
(***************************************************************************)
EXTENDS Naturals, Sequences, SequencesExt, FiniteSets

CONSTANTS
    Adapter,     \* network adapters without the loopback
    ResetSteps   \* the commands of networkReset, in their order

ASSUME NetworkAssumption == IsFiniteSet(Adapter) /\ ResetSteps \in Seq(STRING)

VARIABLES
    up,        \* the adapters that are up
    dns,       \* [Adapter -> the sequence of its DNS servers]
    repair,    \* the operation in progress
    touched,   \* history: adapters that others set since the operation began
    repaired   \* what the last operation returned

nrVars == <<up, dns, repair, touched, repaired>>

Servers == {<<"dhcp">>, <<"primary">>, <<"primary", "secondary">>, <<"secondary">>}

NoRepair == [at |-> "idle", second |-> FALSE, todo |-> {}, now |-> {},
             asked |-> {}, failed |-> {}, done |-> <<>>, errs |-> FALSE]
NotRepaired == [ok |-> FALSE, kind |-> "none", second |-> FALSE, asked |-> {}, failed |-> {},
                done |-> <<>>]

NrTypeOK ==
    /\ up \subseteq Adapter
    /\ dns \in [Adapter -> Servers]
    /\ repair \in [at : {"idle", "each", "add", "steps"}, second : BOOLEAN,
                   todo : SUBSET Adapter, now : SUBSET Adapter, asked : SUBSET Adapter,
                   failed : SUBSET Adapter, done : Seq(BOOLEAN), errs : BOOLEAN]
    /\ repair.now \subseteq repair.todo
    /\ touched \subseteq Adapter
    /\ repaired \in [ok : BOOLEAN, kind : {"none", "dns", "reset"}, second : BOOLEAN,
                     asked : SUBSET Adapter, failed : SUBSET Adapter, done : Seq(BOOLEAN)]

NrInit ==
    /\ up \in SUBSET Adapter
    /\ dns = [a \in Adapter |-> <<"dhcp">>]
    /\ repair = NoRepair /\ touched = {} /\ repaired = NotRepaired

-----------------------------------------------------------------------------

Toggle(a) ==
    /\ up' = IF a \in up THEN up \ {a} ELSE up \cup {a}
    /\ UNCHANGED <<dns, repair, touched, repaired>>

\* Another program, or the user, puts an adapter back to DHCP.
Reassign(a) ==
    /\ dns' = [dns EXCEPT ![a] = <<"dhcp">>] /\ touched' = touched \cup {a}
    /\ UNCHANGED <<up, repair, repaired>>

\* net.Interfaces lists the adapters that are up now; the secondary server is optional.
BeginDns(second) ==
    /\ repair.at = "idle"
    /\ repair' = [NoRepair EXCEPT !.at = "each", !.second = second, !.todo = up, !.asked = up]
    /\ touched' = {} /\ repaired' = NotRepaired
    /\ UNCHANGED <<up, dns>>

AdapterFails(a) == [repair EXCEPT !.at = "each", !.todo = @ \ {a}, !.now = {},
                                  !.failed = @ \cup {a}, !.errs = TRUE]

\* netsh ... set dns replaces the adapter's servers by the primary one.
SetPrimary(a) ==
    /\ repair.at = "each" /\ a \in repair.todo
    /\ \/ /\ dns' = [dns EXCEPT ![a] = <<"primary">>]
          /\ repair' = IF repair.second THEN [repair EXCEPT !.at = "add", !.now = {a}]
                       ELSE [repair EXCEPT !.todo = @ \ {a}]
       \/ repair' = AdapterFails(a) /\ UNCHANGED dns
    /\ UNCHANGED <<up, touched, repaired>>

\* Mutant: a failure to add the secondary server is not counted.
AddSecondaryUnchecked(a) ==
    /\ repair.at = "add" /\ a \in repair.now
    /\ \/ dns' = [dns EXCEPT ![a] = IF @ = <<"dhcp">> THEN <<"secondary">>
                                    ELSE <<"primary", "secondary">>]
       \/ UNCHANGED dns
    /\ repair' = [repair EXCEPT !.at = "each", !.todo = @ \ {a}, !.now = {}]
    /\ UNCHANGED <<up, touched, repaired>>

\* netsh ... add dns index=2.  If it fails the adapter keeps the primary server alone.
AddSecondary(a) ==
    /\ repair.at = "add" /\ a \in repair.now
    /\ \/ /\ dns' = [dns EXCEPT ![a] = IF @ = <<"dhcp">> THEN <<"secondary">>
                                       ELSE <<"primary", "secondary">>]
          /\ repair' = [repair EXCEPT !.at = "each", !.todo = @ \ {a}, !.now = {}]
       \/ repair' = AdapterFails(a) /\ UNCHANGED dns
    /\ UNCHANGED <<up, touched, repaired>>

BeginNetworkReset ==
    /\ repair.at = "idle"
    /\ repair' = [NoRepair EXCEPT !.at = "steps"]
    /\ touched' = {} /\ repaired' = NotRepaired
    /\ UNCHANGED <<up, dns>>

\* Each command runs, whether or not those before it failed.
RunStep ==
    /\ repair.at = "steps" /\ Len(repair.done) < Len(ResetSteps)
    /\ \E failed \in BOOLEAN :
         repair' = [repair EXCEPT !.done = Append(@, failed), !.errs = @ \/ failed]
    /\ UNCHANGED <<up, dns, touched, repaired>>

EndRepair ==
    /\ \/ repair.at = "each" /\ repair.todo = {}
       \/ repair.at = "steps" /\ Len(repair.done) = Len(ResetSteps)
    /\ repaired' = [ok |-> ~repair.errs, kind |-> IF repair.at = "each" THEN "dns" ELSE "reset",
                    second |-> repair.second, asked |-> repair.asked,
                    failed |-> repair.failed, done |-> repair.done]
    /\ repair' = NoRepair
    /\ UNCHANGED <<up, dns, touched>>

NrStep == (\E a \in Adapter : SetPrimary(a) \/ AddSecondary(a)) \/ RunStep \/ EndRepair

NrNext == \/ NrStep \/ BeginNetworkReset
          \/ \E second \in BOOLEAN : BeginDns(second)
          \/ \E a \in Adapter : Toggle(a) \/ Reassign(a)

NrSpec == NrInit /\ [][NrNext]_nrVars

-----------------------------------------------------------------------------

\* What a finished DNS change says of each adapter it was about is what the adapter has: both
\* servers as asked, unless it is named in the error or another program set it since; and
\* every command of a finished network reset was run, with no failure left out.
NetworkReported ==
    /\ repaired.kind = "dns" =>
         \A a \in repaired.asked \ (repaired.failed \cup touched) :
           dns[a] = IF repaired.second THEN <<"primary", "secondary">> ELSE <<"primary">>
    /\ repaired.kind # "none" /\ repaired.ok =>
         repaired.failed = {} /\ TRUE \notin Range(repaired.done)
    /\ repaired.kind = "reset" => Len(repaired.done) = Len(ResetSteps)
=============================================================================
