---------------------------- MODULE SystemRepair ----------------------------
(***************************************************************************)
(* The operations of internal/maintenance, internal/service and            *)
(* internal/isobuilder side by side.  They share no state except, through  *)
(* App.mutationMu, the turn to run; so a behaviour is a session of one     *)
(* kind of operation, and what the others have to do with stands still.    *)
(***************************************************************************)
EXTENDS UpdateReset, ProvisionedCache, ChildProcess, NetworkRepair, IsoBuilder

VARIABLE session

vars == <<session, resetVars, pcVars, cpVars, nrVars, isoVars>>

Session == {"service", "reset", "packages", "process", "network", "image"}

\* The services of the reset, and the ones only the tweaks control.
Update == Range(StopOrder)

TypeOK == /\ session \in Session
          /\ ResetTypeOK /\ PcTypeOK /\ CpTypeOK /\ NrTypeOK /\ IsoTypeOK

\* What a session does not use starts in one state.
Init ==
    /\ session \in Session
    /\ ResetInit /\ PcInit /\ CpInit /\ NrInit /\ IsoInit
    /\ \A s \in Service : svc[s] = "Running" \/ (IF s \in Update THEN session = "reset"
                                                 ELSE session = "service")
    /\ session # "reset" => cache = {"dir"}
    /\ session # "packages" => provisioned = {}
    /\ session # "network" => up = {}

ServiceSession ==
    /\ session = "service"
    /\ UNCHANGED <<session, own, pcVars, cpVars, nrVars, isoVars>>
    /\ \/ CallStep
       \/ CallFails
       \/ DeadlinePasses
       \/ \E s \in Service \ Update : \/ ServiceMoves(s)
                                      \/ ModeMoves(s)
                                      \/ \E op \in Operation : Invoke(op, s)

ResetSession ==
    /\ session = "reset"
    /\ UNCHANGED <<session, pcVars, cpVars, nrVars, isoVars>>
    /\ ResetNext
    /\ \A s \in Service \ Update : svc'[s] = svc[s]

PackageSession ==
    /\ session = "packages"
    /\ UNCHANGED <<session, resetVars, cpVars, nrVars, isoVars>>
    /\ PcNext

ProcessSession ==
    /\ session = "process"
    /\ UNCHANGED <<session, resetVars, pcVars, nrVars, isoVars>>
    /\ CpNext

NetworkSession ==
    /\ session = "network"
    /\ UNCHANGED <<session, resetVars, pcVars, cpVars, isoVars>>
    /\ NrNext

ImageSession ==
    /\ session = "image"
    /\ UNCHANGED <<session, resetVars, pcVars, cpVars, nrVars>>
    /\ IsoNext

Next == \/ ServiceSession \/ ResetSession \/ PackageSession \/ ProcessSession
        \/ NetworkSession \/ ImageSession

\* The program goes on, time passes, child processes run; nothing else is assumed.
Fairness == ResetFairness /\ CpFairness

Spec == Init /\ [][Next]_vars /\ Fairness

-----------------------------------------------------------------------------

\* Success is reported only for what was done: the whole output of a command that succeeded,
\* DNS servers on every adapter, an ISO with the wanted editions and no temporary files left.
OutcomesReported == OutputComplete /\ NetworkReported /\ IsoComplete

Busy == call.at # "idle" \/ reset.at # "idle" \/ reader.at # "idle"

\* Every call on a service, every reset and every run of a command returns, although services
\* may stay pending for ever and commands may write any amount of output.
OperationsEnd == Busy ~> ~Busy
=============================================================================
