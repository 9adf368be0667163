--------------------------- MODULE ServiceControl ---------------------------
(***************************************************************************)
(* Starting and stopping a Windows service and changing its start type     *)
(* (internal/service/service_windows.go).                                  *)
(*                                                                         *)
(* The service control manager is shared with the rest of the machine: a   *)
(* service moves on its own and at the request of others between any two   *)
(* calls of this code.  A call therefore observes the state with a         *)
(* query-only handle, opens a handle with just the right the state asks    *)
(* for, and observes again.  Waiting polls until the wanted state is seen, *)
(* or the deadline is, and one call waits at most MaxTransitions times.    *)
(***************************************************************************)
EXTENDS Naturals, FiniteSets

CONSTANTS
    Service,        \* service names
    Pausable,       \* the services that accept SERVICE_CONTROL_PAUSE
    MaxTransitions  \* how often start looks again (16 in the code)

ASSUME ServiceAssumption ==
    Pausable \subseteq Service /\ MaxTransitions \in Nat \ {0}

VARIABLES
    svc,       \* [Service -> State], as the service control manager has it
    mode,      \* [Service -> StartMode], likewise
    call,      \* the call in progress
    expired,   \* the deadline of the wait in progress has passed
    seen,      \* history: the last state each service showed to the call
    reply      \* what the last call returned

scVars == <<svc, mode, call, expired, seen, reply>>

Pending == {"StartPending", "StopPending", "ContinuePending", "PausePending"}
State == {"Stopped", "Running", "Paused"} \cup Pending

NoState == "Unseen"

StartMode == {"auto", "manual", "disabled"}

Operation == {"start", "stop"} \cup StartMode

Goal == [start |-> "Running", stop |-> "Stopped"]

\* Where a call is.  "leave" is waitForStateChange, "await" is waitForState.
Place == {"idle", "observe", "reopen", "recheck", "leave", "control", "refused", "await",
          "resolve", "change"}

Idle == [op |-> "start", name |-> CHOOSE s \in Service : TRUE, at |-> "idle",
         observed |-> NoState, await |-> NoState, rights |-> {}, transitions |-> 0]

NoReply == [op |-> "start", name |-> CHOOSE s \in Service : TRUE, ok |-> FALSE,
            seen |-> NoState, none |-> TRUE]

ScTypeOK ==
    /\ svc \in [Service -> State]
    /\ mode \in [Service -> StartMode]
    /\ call \in [op : Operation, name : Service, at : Place,
                 observed : State \cup {NoState}, await : State \cup {NoState},
                 rights : SUBSET {"query", "start", "continue", "stop", "config"},
                 transitions : 0..MaxTransitions]
    /\ expired \in BOOLEAN
    /\ seen \in [Service -> State \cup {NoState}]
    /\ reply \in [op : Operation, name : Service,
                  ok : BOOLEAN, seen : State \cup {NoState}, none : BOOLEAN]

ScInit ==
    /\ svc \in [Service -> {"Running", "Stopped"}]
    /\ mode = [s \in Service |-> "auto"]
    /\ call = Idle
    /\ expired = FALSE
    /\ seen = [s \in Service |-> NoState]
    /\ reply = NoReply

-----------------------------------------------------------------------------
(* The service control manager.                                            *)

\* The states a service in state x may be in next, by itself (a pending state ends, a
\* service fails) or because another program asked.
Moves(s, x) ==
    CASE x = "Stopped"         -> {"StartPending"}
      [] x = "StartPending"    -> {"Running", "Stopped"}
      [] x = "Running"         -> {"StopPending", "Stopped"}
                                    \cup (IF s \in Pausable THEN {"PausePending"} ELSE {})
      [] x = "StopPending"     -> {"Stopped"}
      [] x = "PausePending"    -> {"Paused", "Stopped"}
      [] x = "Paused"          -> {"ContinuePending", "StopPending", "Stopped"}
      [] x = "ContinuePending" -> {"Running", "Stopped"}

ServiceMoves(s) ==
    /\ \E x \in Moves(s, svc[s]) : svc' = [svc EXCEPT ![s] = x]
    /\ UNCHANGED <<mode, call, expired, seen, reply>>

\* Another program changes the start type.
ModeMoves(s) ==
    /\ \E m \in StartMode : mode' = [mode EXCEPT ![s] = m]
    /\ UNCHANGED <<svc, call, expired, seen, reply>>

\* The two minutes of serviceTransitionTimeout are over.
DeadlinePasses ==
    /\ call.at \in {"leave", "await"} /\ ~expired
    /\ expired' = TRUE
    /\ UNCHANGED <<svc, mode, call, seen, reply>>

-----------------------------------------------------------------------------
(* Steps of a call.                                                        *)

\* queryStatus: what the service shows now.
Queried == svc[call.name]

See == seen' = [seen EXCEPT ![call.name] = Queried]

\* Every return closes the handle (deferred in stop, explicit in start).
Return(ok) ==
    /\ call' = Idle
    /\ reply' = [op |-> call.op, name |-> call.name, ok |-> ok, seen |-> seen'[call.name],
                 none |-> FALSE]
    /\ UNCHANGED <<svc, mode>> /\ expired' = FALSE

Goto(place) == call' = [call EXCEPT !.at = place]

\* continue: the handle is closed and the state is observed once more.
Again == call' = [call EXCEPT !.at = "observe", !.rights = {}, !.observed = NoState,
                              !.await = NoState, !.transitions = @ + 1]

Await(x) == call' = [call EXCEPT !.at = "await", !.await = x]

Invoke(op, s) ==
    /\ call.at = "idle"
    /\ call' = [Idle EXCEPT !.op = op, !.name = s, !.at = "observe"]
    /\ reply' = NoReply
    /\ seen' = [seen EXCEPT ![s] = NoState]
    /\ UNCHANGED <<svc, mode, expired>>

Rights(op, x) ==
    IF op = "stop" THEN {"query", "stop"}
    ELSE CASE x = "Stopped" -> {"query", "start"}
           [] x = "Paused"  -> {"query", "continue"}
           [] OTHER         -> {"query"}

\* Mutant: the number of transitions is not limited.
ObserveForEver ==
    /\ call.at = "observe" /\ call.op \in {"start", "stop"}
    /\ See
    /\ IF Queried = Goal[call.op] THEN Return(TRUE)
       ELSE /\ call' = [call EXCEPT !.at = "reopen", !.observed = Queried]
            /\ UNCHANGED <<svc, mode, expired, reply>>

\* The query-only handle of getServiceStatus.
Observe ==
    /\ call.at = "observe" /\ call.op \in {"start", "stop"}
    /\ \/ /\ call.transitions = MaxTransitions
          /\ seen' = seen /\ Return(FALSE)
       \/ /\ call.transitions < MaxTransitions
          /\ See
          /\ IF Queried = Goal[call.op] THEN Return(TRUE)
             ELSE /\ call' = [call EXCEPT !.at = "reopen", !.observed = Queried]
                  /\ UNCHANGED <<svc, mode, expired, reply>>

Reopen ==
    /\ call.at = "reopen"
    /\ call' = [call EXCEPT !.at = "recheck", !.rights = Rights(call.op, call.observed)]
    /\ UNCHANGED <<svc, mode, expired, seen, reply>>

\* The state each state has to settle in before stop may ask the service to stop.
Settled == [StartPending |-> "Running", ContinuePending |-> "Running",
            PausePending |-> "Paused", StopPending |-> "Stopped"]

\* Mutant: start acts on what the action handle shows, whatever was observed before.
RecheckTrusting ==
    /\ call.at = "recheck"
    /\ See
    /\ IF Queried = Goal[call.op]
       THEN IF call.op = "stop" THEN Return(TRUE)
            ELSE Again /\ UNCHANGED <<svc, mode, expired, reply>>
       ELSE /\ IF Queried \notin Pending THEN Goto("control")
               ELSE IF call.op = "stop" THEN Await(Settled[Queried]) ELSE Goto("leave")
            /\ UNCHANGED <<svc, mode, expired, reply>>

\* The state is queried again on the handle that will act.
Recheck ==
    /\ call.at = "recheck"
    /\ See
    /\ IF call.op = "stop" /\ Queried = "Stopped" THEN Return(TRUE)
       ELSE /\ IF call.op = "start" /\ Queried # call.observed THEN Again
               ELSE IF Queried \notin Pending THEN Goto("control")
               ELSE IF call.op = "stop" THEN Await(Settled[Queried]) ELSE Goto("leave")
            /\ UNCHANGED <<svc, mode, expired, reply>>

\* One poll of waitForStateChange.
Leave ==
    /\ call.at = "leave"
    /\ See
    /\ \/ /\ Queried # call.observed
          /\ Again /\ expired' = FALSE
          /\ UNCHANGED <<svc, mode, reply>>
       \/ /\ Queried = call.observed /\ expired
          /\ Return(FALSE)
       \/ /\ Queried = call.observed /\ ~expired
          /\ UNCHANGED <<svc, mode, call, expired, reply>>

\* The calls that change a service: StartServiceW, ControlService(CONTINUE) and
\* ControlService(STOP).  The manager accepts each in the state it is meant for, and may
\* refuse it there too; a stop of a service that is not active counts as accepted.
Control ==
    /\ call.at = "control"
    /\ LET from == seen[call.name]
           to == IF call.op = "stop" THEN "StopPending"
                 ELSE IF from = "Stopped" THEN "StartPending" ELSE "ContinuePending"
           able == IF call.op = "stop" THEN Queried \in {"Running", "Paused"}
                   ELSE Queried = from /\ (from = "Stopped" => mode[call.name] # "disabled")
       IN  \/ /\ able
              /\ svc' = [svc EXCEPT ![call.name] = to]
              /\ Await(Goal[call.op])
           \/ /\ call.op = "stop" /\ Queried = "Stopped"
              /\ Await("Stopped") /\ UNCHANGED svc
           \/ /\ call.op = "stop" => Queried # "Stopped"
              /\ Goto("refused") /\ UNCHANGED svc
    /\ UNCHANGED <<mode, expired, seen, reply>>

\* A refused start is looked at once more: another program may have been faster.
Refused ==
    /\ call.at = "refused"
    /\ IF call.op = "stop" THEN seen' = seen /\ Return(FALSE)
       ELSE /\ See
            /\ IF Queried = call.observed THEN Return(FALSE)
               ELSE Again /\ UNCHANGED <<svc, mode, expired, reply>>

\* The error of a wait: when stop only waited for the service to settle, one more query
\* resolves it.
WaitFails ==
    IF call.op = "stop" /\ call.await # "Stopped"
    THEN /\ Goto("resolve") /\ expired' = FALSE
         /\ UNCHANGED <<svc, mode, reply>>
    ELSE Return(FALSE)

Reached ==
    IF call.await = Goal[call.op] THEN Return(TRUE)
    ELSE /\ Goto("control") /\ expired' = FALSE
         /\ UNCHANGED <<svc, mode, reply>>

\* Mutant: waitForState polls for ever.
PollUnbounded ==
    /\ call.at = "await"
    /\ See
    /\ \/ Queried = call.await /\ Reached
       \/ Queried # call.await /\ Queried = "Stopped" /\ WaitFails
       \/ /\ Queried \notin {call.await, "Stopped"}
          /\ UNCHANGED <<svc, mode, call, expired, reply>>

\* One poll of waitForState.  A service that stopped instead ends the wait at once.
Poll ==
    /\ call.at = "await"
    /\ See
    /\ \/ Queried = call.await /\ Reached
       \/ Queried # call.await /\ (Queried = "Stopped" \/ expired) /\ WaitFails
       \/ /\ Queried \notin {call.await, "Stopped"} /\ ~expired
          /\ UNCHANGED <<svc, mode, call, expired, reply>>

\* Mutant: a service that did not settle is taken for stopped.
ResolveOptimistic == call.at = "resolve" /\ See /\ Return(TRUE)

Resolve == call.at = "resolve" /\ See /\ Return(Queried = "Stopped")

\* OpenSCManagerW, OpenServiceW or a query fails, at any of the steps that call them.
CallFails ==
    /\ call.at \notin {"idle", "control"}
    /\ seen' = seen
    /\ IF call.at = "await" THEN WaitFails ELSE Return(FALSE)

-----------------------------------------------------------------------------
(* The start type.  A handle for the change is opened only when the mode differs, and the *)
(* mode is compared again on it: another program may have set it meanwhile.              *)

ObserveMode ==
    /\ call.at = "observe" /\ call.op \in StartMode
    /\ IF mode[call.name] = call.op THEN seen' = seen /\ Return(TRUE)
       ELSE /\ call' = [call EXCEPT !.at = "change", !.rights = {"query", "config"}]
            /\ UNCHANGED <<svc, mode, expired, seen, reply>>

ChangeMode ==
    /\ call.at = "change"
    /\ mode' = [mode EXCEPT ![call.name] = call.op]
    /\ call' = Idle
    /\ reply' = [op |-> call.op, name |-> call.name, ok |-> TRUE, seen |-> seen[call.name],
                 none |-> FALSE]
    /\ UNCHANGED <<svc, expired, seen>>

CallStep == \/ Observe \/ Reopen \/ Recheck \/ Leave \/ Control \/ Refused \/ Poll
            \/ Resolve \/ ObserveMode \/ ChangeMode

\* The program goes on and time passes; nothing is assumed of the services, nor of which
\* calls fail.
CallFairness == WF_scVars(CallStep) /\ WF_scVars(DeadlinePasses)

-----------------------------------------------------------------------------
(* Properties.                                                             *)

Needed == IF call.op = "stop" THEN "stop"
          ELSE IF seen[call.name] = "Paused" THEN "continue" ELSE "start"

\* A control is sent only over a handle that was opened with the right for it, although
\* the service may change its state after the handle was chosen.
ControlRights == call.at = "control" => Needed \in call.rights

\* Start and Stop report success only after the service itself showed the wanted state,
\* whatever path of waits, refusals and deadlines the call took.
RepliesSeen == reply.ok /\ reply.op \in DOMAIN Goal => reply.seen = Goal[reply.op]
=============================================================================
