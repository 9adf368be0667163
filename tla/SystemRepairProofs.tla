------------------------- MODULE SystemRepairProofs -------------------------
(***************************************************************************)
(* Theorems about SystemRepair, for every set of services, packages,       *)
(* adapters and editions, every order of the update services and every     *)
(* size of pipes and caches: its state is well typed, and what the calls   *)
(* on services, the Windows Update reset, the removal of provisioned       *)
(* packages, the runs of commands, the network repairs and the builds of   *)
(* images report is true.                                                  *)
(*                                                                         *)
(* The sessions share no state, so there is one invariant per component;   *)
(* Sound is their conjunction with the types.                              *)
(***************************************************************************)
EXTENDS SystemRepair, TLAPS

-----------------------------------------------------------------------------
(* The invariants.                                                         *)

\* What a call on a service knows at each place: the rights of its handle are those the
\* observed state asks for, and a start that is about to act has seen that state again.
CallInv ==
    /\ call.at \notin {"idle", "observe", "change"} => call.op \in {"start", "stop"}
    /\ call.at = "change" => call.op \in StartMode
    /\ call.at = "resolve" => call.op = "stop"
    /\ call.at \in {"reopen", "recheck", "leave", "control", "refused", "await", "resolve"} =>
          call.transitions < MaxTransitions
    /\ call.at \in {"reopen", "recheck"} /\ call.op = "start" => call.observed # "Running"
    /\ call.at \in {"recheck", "leave", "control", "await"} =>
          call.rights = Rights(call.op, call.observed)
    /\ call.at = "control" /\ call.op = "start" =>
          seen[call.name] = call.observed /\ call.observed \in {"Stopped", "Paused"}
    /\ call.at = "await" /\ call.op = "start" => call.await = "Running"

\* A reply tells what the service showed last, and success only of the wanted state.
ReplyInv ==
    /\ call.at # "idle" => reply.none
    /\ reply.none => ~reply.ok
    /\ ~reply.none => reply.seen = seen[reply.name]
    /\ RepliesSeen

\* The services before the i-th of an order have all shown state x, but for the one a call
\* is about just now, if it comes twice.
AllSeen(order, i, x) ==
    \A j \in 1..(i - 1) : \/ seen[order[j]] = x
                          \/ (call.at # "idle" \/ ~reply.none) /\ order[j] = order[i]

\* The call of a reset is about the service the reset is at, and so is its reply.
Concerns(op, order) ==
    /\ call.at # "idle" => reset.i <= Len(order) /\ call.op = op /\ call.name = order[reset.i]
    /\ ~reply.none => reset.i <= Len(order) /\ reply.op = op /\ reply.name = order[reset.i]

\* What a reset has done so far.
ResetInv ==
    /\ outcome # "none" => reset.at = "idle" /\ session = "reset"
    /\ session # "reset" => reset.at = "idle"
    /\ session = "reset" /\ reset.at \notin {"stopping", "starting"} =>
          call.at = "idle" /\ reply.none
    /\ reset.at = "stopping" => /\ reset.i > 0
                                /\ Concerns("stop", StopOrder)
                                /\ reset.stopFailed \/ AllSeen(StopOrder, reset.i, "Stopped")
    /\ reset.at \in {"cleaning", "moving"} =>
          reset.i = 1 /\ \A j \in DOMAIN StopOrder : seen[StopOrder[j]] = "Stopped"
    /\ reset.at = "starting" =>
          /\ reset.i > 0
          /\ Concerns("start", StartOrder)
          /\ \A j \in 1..(reset.i - 1) : StartOrder[j] \in tried
          /\ call.at # "idle" \/ ~reply.none => StartOrder[reset.i] \in tried
          /\ reset.failed \/ AllSeen(StartOrder, reset.i, "Running")
    /\ ServicesBroughtBack

\* What DISM listed, and what was provisioned since, is all there is: the cache is never
\* short of a package.
CacheInv ==
    /\ removal.at # "idle" => ~removed.ok
    /\ age < TTL \/ removal.at \in {"miss", "list", "remove"} => provisioned \ added \subseteq packages
    /\ removal.at = "remove" =>
          /\ provisioned \ added \subseteq removal.todo \cup removal.kept
          /\ ~removal.errs => removal.kept \cap Matching[removal.name] = {}
    /\ RemovalTruthful

\* What a child wrote is in the pipe or was passed on, until something was dropped.
PipeInv ==
    /\ child.left + child.wrote <= MaxOutput /\ reader.got + Len(pipe) <= child.wrote
    /\ child.exit # "none" => child.left = 0
    /\ ~reader.error => child.wrote = reader.got + Len(pipe)
    /\ reader.at = "drain" => reader.error
    /\ reader.at = "wait" => pipe = <<>> /\ child.exit # "none"
    /\ ran = "ok" => /\ reader.at = "idle" /\ ~reader.error
                     /\ pipe = <<>> /\ child.exit = "ok"

\* The servers every adapter gets that was dealt with.
Wanted(second) == IF second THEN <<"primary", "secondary">> ELSE <<"primary">>

\* What a network repair has done so far.
RepairInv ==
    /\ repair.at # "idle" => repaired.kind = "none"
    /\ repair.at # "add" => repair.now = {}
    /\ repair.at = "add" => /\ repair.second
                            /\ \A a \in repair.now \ touched : dns[a] = <<"primary">>
    /\ repair.at \in {"each", "add"} =>
          \A a \in repair.asked \ (repair.todo \cup repair.failed \cup touched) :
              dns[a] = Wanted(repair.second)
    /\ ~repair.errs => repair.failed = {} /\ \A n \in DOMAIN repair.done : ~repair.done[n]
    /\ NetworkReported

\* What a build has done so far: the temporary paths are registered for the clean-up.
BuildInv ==
    /\ build.at # "idle" => built.at = "none" /\ ~built.ok
    /\ built.at = "none" => ~built.ok
    /\ build.at \in {"list", "create", "prepare", "export", "workdir", "copy", "swap"} =>
          build.wanted # {}
    /\ build.at \in {"list", "create"} => build.cleanup = <<>> /\ content = {}
    /\ build.at \in {"prepare", "export", "copy", "swap", "pack"} /\ build.wanted # {} =>
          "wim" \in Range(build.cleanup)
    /\ build.at \in {"create", "prepare"} => content = {} /\ build.todo = Selected(build.wanted)
    /\ build.at = "export" => content \cup build.todo = Selected(build.wanted)
    /\ build.at \in {"copy", "swap"} => content = Selected(build.wanted)
    /\ build.at = "pack" =>
          build.source = IF build.wanted = {} THEN All ELSE Selected(build.wanted)
    /\ build.at = "cleanup" /\ ~build.err =>
          build.iso = IF build.wanted = {} THEN All ELSE Selected(build.wanted)
    /\ build.at # "idle" => /\ temp \subseteq Range(build.cleanup) \cup stuck
                            /\ stuck # {} => build.err
                            /\ build.at # "cleanup" => stuck = {}
    /\ IsoComplete

-----------------------------------------------------------------------------
(* Calls on services.                                                      *)

\* The type of call.
Call == [op : Operation, name : Service, at : Place,
         observed : State \cup {NoState}, await : State \cup {NoState},
         rights : SUBSET {"query", "start", "continue", "stop", "config"},
         transitions : 0..MaxTransitions]

\* What holds of the service control part.
CallsOK == ScTypeOK /\ CallInv /\ ReplyInv

\* The resting call and the empty reply are well typed.
LEMMA RestTyped ==
  /\ Idle \in Call /\ Idle.at = "idle"
  /\ NoReply \in [op : Operation, name : Service, ok : BOOLEAN,
                  seen : State \cup {NoState}, none : BOOLEAN]
  /\ NoReply.none /\ ~NoReply.ok
<1>1. \E s \in Service : TRUE
  BY OrderAssumption
<1>2. (CHOOSE s \in Service : TRUE) \in Service
  BY <1>1
<1>3. 0 \in 0..MaxTransitions
  BY ServiceAssumption
<1> QED
  BY <1>2, <1>3 DEF Idle, NoReply, Call, Operation, Place, NoState

\* A query shows one of the states of a service.
LEMMA SeeTyped ==
  ASSUME ScTypeOK, See
  PROVE  /\ seen' \in [Service -> State \cup {NoState}]
         /\ seen'[call.name] = Queried /\ Queried \in State
  BY DEF ScTypeOK, See, Queried

\* A return replies with what the service showed last.
LEMMA ReturnOK ==
  ASSUME ScTypeOK, NEW ok \in BOOLEAN, Return(ok),
         seen' \in [Service -> State \cup {NoState}],
         ok /\ call.op \in {"start", "stop"} => seen'[call.name] = Goal[call.op]
  PROVE  CallsOK'
<1>1. call \in Call
  BY DEF ScTypeOK, Call
<1>2. call' = Idle /\ UNCHANGED <<svc, mode>> /\ expired' = FALSE
      /\ reply' = [op |-> call.op, name |-> call.name, ok |-> ok, seen |-> seen'[call.name],
                   none |-> FALSE]
  BY DEF Return
<1>3. reply' \in [op : Operation, name : Service, ok : BOOLEAN,
                  seen : State \cup {NoState}, none : BOOLEAN]
  BY <1>1, <1>2 DEF Call
<1>4. ScTypeOK'
  BY <1>2, <1>3, RestTyped DEF ScTypeOK, Call
<1>5. CallInv'
  BY <1>2, RestTyped DEF CallInv
<1>6. ReplyInv'
  BY <1>2, RestTyped DEF ReplyInv, RepliesSeen, Goal
<1> QED
  BY <1>4, <1>5, <1>6 DEF CallsOK

\* A step within a call leaves the reply empty.
LEMMA WithinCall ==
  ASSUME CallsOK, call.at # "idle", reply' = reply, mode' = mode, expired' \in BOOLEAN,
         svc' \in [Service -> State], seen' \in [Service -> State \cup {NoState}],
         call' \in Call, CallInv'
  PROVE  CallsOK'
  BY DEF CallsOK, ScTypeOK, Call, ReplyInv, RepliesSeen

\* Going to another place of a call.
LEMMA GotoTyped ==
  ASSUME call \in Call, NEW place \in Place
  PROVE  LET to == [call EXCEPT !.at = place]
         IN  /\ to \in Call /\ to.at = place /\ to.op = call.op /\ to.name = call.name
             /\ to.observed = call.observed /\ to.rights = call.rights /\ to.await = call.await
  BY DEF Call

\* A wait begins.
LEMMA AwaitTyped ==
  ASSUME call \in Call, NEW x \in State
  PROVE  LET to == [call EXCEPT !.at = "await", !.await = x]
         IN  /\ to \in Call /\ to.at = "await" /\ to.op = call.op /\ to.name = call.name
             /\ to.observed = call.observed /\ to.rights = call.rights /\ to.await = x
  BY DEF Call, Place

\* A call that has transitions left observes the service again.
LEMMA AgainOK ==
  ASSUME CallsOK, Again, call.at \in {"recheck", "leave", "refused"},
         call.transitions < MaxTransitions,
         reply' = reply, mode' = mode, svc' = svc, expired' \in BOOLEAN,
         seen' \in [Service -> State \cup {NoState}]
  PROVE  CallsOK'
<1>1. call \in Call /\ call.transitions + 1 \in 0..MaxTransitions
  BY ServiceAssumption DEF CallsOK, ScTypeOK, Call
<1>2. call' \in Call /\ call'.at = "observe"
  BY <1>1 DEF Again, Call, Place, NoState
<1>3. CallInv'
  BY <1>2 DEF CallInv
<1> QED
  BY <1>2, <1>3, WithinCall DEF CallsOK, ScTypeOK

\* The rights of a handle are rights there are.
LEMMA RightsTyped ==
  ASSUME NEW op, NEW x
  PROVE  Rights(op, x) \in SUBSET {"query", "start", "continue", "stop", "config"}
BY DEF Rights

\* The first look at the service keeps what holds of calls.
LEMMA ObserveOK == ASSUME CallsOK, Observe PROVE CallsOK'
<1>0. ScTypeOK /\ call \in Call /\ call.op \in {"start", "stop"} /\ call.at = "observe"
  BY DEF CallsOK, ScTypeOK, Call, Observe
<1>1. CASE call.transitions = MaxTransitions /\ seen' = seen /\ Return(FALSE)
  <2>1. seen' \in [Service -> State \cup {NoState}]
    BY <1>0, <1>1 DEF ScTypeOK
  <2> QED  BY <1>0, <1>1, <2>1, ReturnOK
<1>2. CASE See /\ Queried = Goal[call.op] /\ Return(TRUE)
  BY <1>0, <1>2, SeeTyped, ReturnOK
<1>3. CASE /\ call.transitions < MaxTransitions /\ See /\ Queried # Goal[call.op]
           /\ call' = [call EXCEPT !.at = "reopen", !.observed = Queried]
           /\ UNCHANGED <<svc, mode, expired, reply>>
  <2>1. Queried \in State /\ seen' \in [Service -> State \cup {NoState}]
    BY <1>0, <1>3, SeeTyped
  <2>2. /\ call' \in Call /\ call'.at = "reopen" /\ call'.op = call.op
        /\ call'.observed = Queried /\ call'.transitions = call.transitions
    BY <1>0, <1>3, <2>1 DEF Call, Place
  <2>3. CallInv'
    BY <1>0, <1>3, <2>2 DEF CallInv, Goal
  <2> QED  BY <1>0, <1>3, <2>1, <2>2, <2>3, WithinCall DEF ScTypeOK
<1> QED  BY <1>1, <1>2, <1>3 DEF Observe

\* So does opening a handle with the rights the observed state asks for,
LEMMA ReopenOK == ASSUME CallsOK, Reopen PROVE CallsOK'
<1>0. /\ ScTypeOK /\ call \in Call /\ call.at = "reopen"
      /\ call.op \in {"start", "stop"} /\ call.transitions < MaxTransitions
      /\ call.op = "start" => call.observed # "Running"
  BY DEF CallsOK, CallInv, ScTypeOK, Call, Reopen
<1>1. /\ call' = [call EXCEPT !.at = "recheck", !.rights = Rights(call.op, call.observed)]
      /\ UNCHANGED <<svc, mode, expired, seen, reply>>
  BY DEF Reopen
<1>2. /\ call' \in Call /\ call'.at = "recheck" /\ call'.op = call.op
      /\ call'.observed = call.observed /\ call'.transitions = call.transitions
      /\ call'.rights = Rights(call.op, call.observed)
  BY <1>0, <1>1, RightsTyped DEF Call, Place
<1>3. CallInv'
  BY <1>0, <1>2 DEF CallInv
<1> QED  BY <1>0, <1>1, <1>2, <1>3, WithinCall DEF ScTypeOK

\* A step from one place to another that keeps what the handle was opened for.
LEMMA GotoOK ==
  ASSUME CallsOK, NEW place \in Place \ {"idle", "reopen", "recheck", "change"},
         call.at \in {"recheck", "leave", "control", "refused", "await", "resolve"},
         Goto(place),
         place \in {"leave", "control", "await"} => call.rights = Rights(call.op, call.observed),
         place = "resolve" => call.op = "stop",
         place = "control" /\ call.op = "start" =>
           seen'[call.name] = call.observed /\ call.observed \in {"Stopped", "Paused"},
         place # "await",
         reply' = reply, mode' = mode, svc' = svc, expired' \in BOOLEAN,
         seen' \in [Service -> State \cup {NoState}]
  PROVE  CallsOK'
<1>0. /\ ScTypeOK /\ call \in Call /\ call.op \in {"start", "stop"}
      /\ call.transitions < MaxTransitions
  BY DEF CallsOK, CallInv, ScTypeOK, Call
<1>1. /\ call' \in Call /\ call'.at = place /\ call'.op = call.op /\ call'.name = call.name
      /\ call'.observed = call.observed /\ call'.rights = call.rights
      /\ call'.transitions = call.transitions
  BY <1>0 DEF Goto, Call
<1>2. CallInv'
  BY <1>0, <1>1 DEF CallInv
<1> QED  BY <1>0, <1>1, <1>2, WithinCall DEF ScTypeOK

\* A step that begins a wait for a state the call may wait for.
LEMMA AwaitOK ==
  ASSUME CallsOK, NEW x \in State, Await(x), call.at \in {"recheck", "control"},
         call.op = "start" => x = "Running",
         reply' = reply, mode' = mode, expired' \in BOOLEAN,
         svc' \in [Service -> State], seen' \in [Service -> State \cup {NoState}]
  PROVE  CallsOK'
<1>0. /\ ScTypeOK /\ call \in Call /\ call.op \in {"start", "stop"}
      /\ call.transitions < MaxTransitions /\ call.rights = Rights(call.op, call.observed)
  BY DEF CallsOK, CallInv, ScTypeOK, Call
<1>1. /\ call' \in Call /\ call'.at = "await" /\ call'.op = call.op /\ call'.name = call.name
      /\ call'.observed = call.observed /\ call'.rights = call.rights /\ call'.await = x
      /\ call'.transitions = call.transitions
  BY <1>0 DEF Await, Call, Place
<1>2. CallInv'
  BY <1>0, <1>1 DEF CallInv
<1> QED  BY <1>0, <1>1, <1>2, WithinCall DEF ScTypeOK

\* looking again on that handle,
LEMMA RecheckOK == ASSUME CallsOK, Recheck PROVE CallsOK'
<1>0. /\ ScTypeOK /\ call \in Call /\ call.at = "recheck" /\ See
      /\ call.op \in {"start", "stop"} /\ call.transitions < MaxTransitions
      /\ call.op = "start" => call.observed # "Running"
      /\ call.rights = Rights(call.op, call.observed)
  BY DEF CallsOK, CallInv, ScTypeOK, Call, Recheck
<1>1. /\ seen' \in [Service -> State \cup {NoState}]
      /\ seen'[call.name] = Queried /\ Queried \in State
  BY <1>0, SeeTyped
<1>2. expired \in BOOLEAN
  BY <1>0 DEF ScTypeOK
<1>3. CASE call.op = "stop" /\ Queried = "Stopped" /\ Return(TRUE)
  <2>1. seen'[call.name] = Goal[call.op]
    BY <1>1, <1>3 DEF Goal
  <2> QED  BY <1>0, <1>1, <1>3, <2>1, ReturnOK
<1>4. CASE Again /\ UNCHANGED <<svc, mode, expired, reply>>
  BY <1>0, <1>1, <1>2, <1>4, AgainOK
<1>5. CASE /\ call.op = "start" => Queried = call.observed
           /\ Queried \notin Pending /\ Goto("control")
           /\ UNCHANGED <<svc, mode, expired, reply>>
  <2>1. call.op = "start" => Queried \in {"Stopped", "Paused"}
    BY <1>0, <1>1, <1>5 DEF State
  <2> QED  BY <1>0, <1>1, <1>2, <1>5, <2>1, GotoOK DEF Place
<1>6. CASE /\ call.op = "stop" /\ Queried \in Pending /\ Await(Settled[Queried])
           /\ UNCHANGED <<svc, mode, expired, reply>>
  <2>1. Settled[Queried] \in State
    BY <1>6 DEF Pending, Settled, State
  <2> QED  BY <1>0, <1>1, <1>2, <1>6, <2>1, AwaitOK DEF ScTypeOK
<1>7. CASE /\ Goto("leave") /\ UNCHANGED <<svc, mode, expired, reply>>
  BY <1>0, <1>1, <1>2, <1>7, GotoOK DEF Place
<1> QED  BY <1>3, <1>4, <1>5, <1>6, <1>7 DEF Recheck

\* waiting for a pending state to end,
LEMMA LeaveOK == ASSUME CallsOK, Leave PROVE CallsOK'
<1>0. /\ ScTypeOK /\ call \in Call /\ call.at = "leave" /\ See
      /\ call.transitions < MaxTransitions
  BY DEF CallsOK, CallInv, ScTypeOK, Call, Leave
<1>1. seen' \in [Service -> State \cup {NoState}]
  BY <1>0, SeeTyped
<1>2. CASE Again /\ expired' = FALSE /\ UNCHANGED <<svc, mode, reply>>
  BY <1>0, <1>1, <1>2, AgainOK
<1>3. CASE Return(FALSE)
  BY <1>0, <1>1, <1>3, ReturnOK
<1>4. CASE UNCHANGED <<svc, mode, call, expired, reply>>
  <2>1. CallInv'
    BY <1>0, <1>4 DEF CallsOK, CallInv
  <2> QED  BY <1>0, <1>1, <1>4, <2>1, WithinCall DEF ScTypeOK
<1> QED  BY <1>2, <1>3, <1>4 DEF Leave

\* asking the service to start, to continue or to stop,
LEMMA ControlOK == ASSUME CallsOK, Control PROVE CallsOK'
<1>0. /\ ScTypeOK /\ call \in Call /\ call.at = "control"
      /\ call.op \in {"start", "stop"}
      /\ UNCHANGED <<mode, expired, seen, reply>>
  BY DEF CallsOK, CallInv, ScTypeOK, Call, Control
<1>1. expired' \in BOOLEAN /\ seen' \in [Service -> State \cup {NoState}]
  BY <1>0 DEF ScTypeOK
<1>2. CASE /\ \E to \in State : svc' = [svc EXCEPT ![call.name] = to]
           /\ Await(Goal[call.op])
  <2>1. svc' \in [Service -> State] /\ Goal[call.op] \in State
    BY <1>0, <1>2 DEF ScTypeOK, Goal, State
  <2> QED  BY <1>0, <1>1, <1>2, <2>1, AwaitOK DEF Goal
<1>3. CASE call.op = "stop" /\ Await("Stopped") /\ UNCHANGED svc
  BY <1>0, <1>1, <1>3, AwaitOK DEF ScTypeOK, State
<1>4. CASE Goto("refused") /\ UNCHANGED svc
  BY <1>0, <1>1, <1>4, GotoOK DEF Place
<1>5. \/ \E to \in State : svc' = [svc EXCEPT ![call.name] = to] /\ Await(Goal[call.op])
      \/ call.op = "stop" /\ Await("Stopped") /\ UNCHANGED svc
      \/ Goto("refused") /\ UNCHANGED svc
  <2> DEFINE to == IF call.op = "stop" THEN "StopPending"
                   ELSE IF seen[call.name] = "Stopped" THEN "StartPending"
                   ELSE "ContinuePending"
  <2>1. to \in State
    BY DEF State, Pending
  <2>2. \/ svc' = [svc EXCEPT ![call.name] = to] /\ Await(Goal[call.op])
        \/ call.op = "stop" /\ Await("Stopped") /\ UNCHANGED svc
        \/ Goto("refused") /\ UNCHANGED svc
    BY DEF Control
  <2> HIDE DEF to
  <2> QED  BY <2>1, <2>2
<1> QED  BY <1>2, <1>3, <1>4, <1>5

\* looking once more after a refusal,
LEMMA RefusedOK == ASSUME CallsOK, Refused PROVE CallsOK'
<1>0. /\ ScTypeOK /\ call \in Call /\ call.at = "refused"
      /\ call.transitions < MaxTransitions
  BY DEF CallsOK, CallInv, ScTypeOK, Call, Refused
<1>1. CASE seen' = seen /\ Return(FALSE)
  BY <1>0, <1>1, ReturnOK DEF ScTypeOK
<1>2. CASE See /\ Return(FALSE)
  BY <1>0, <1>2, SeeTyped, ReturnOK
<1>3. CASE See /\ Again /\ UNCHANGED <<svc, mode, expired, reply>>
  <2>1. seen' \in [Service -> State \cup {NoState}] /\ expired' \in BOOLEAN
    BY <1>0, <1>3, SeeTyped DEF ScTypeOK
  <2> QED  BY <1>0, <1>3, <2>1, AgainOK
<1> QED  BY <1>1, <1>2, <1>3 DEF Refused

\* giving up a wait,
LEMMA WaitFailsOK ==
  ASSUME CallsOK, WaitFails, call.at = "await", seen' \in [Service -> State \cup {NoState}]
  PROVE  CallsOK'
<1>0. ScTypeOK
  BY DEF CallsOK
<1>1. CASE call.op = "stop" /\ Goto("resolve") /\ expired' = FALSE
           /\ UNCHANGED <<svc, mode, reply>>
  BY <1>1, GotoOK DEF Place
<1>2. CASE Return(FALSE)
  BY <1>0, <1>2, ReturnOK
<1> QED  BY <1>1, <1>2 DEF WaitFails

\* one poll of a wait,
LEMMA PollOK == ASSUME CallsOK, Poll PROVE CallsOK'
<1>0. /\ ScTypeOK /\ call \in Call /\ call.at = "await" /\ See
      /\ call.op \in {"start", "stop"}
      /\ call.op = "start" => call.await = "Running"
      /\ call.rights = Rights(call.op, call.observed)
  BY DEF CallsOK, CallInv, ScTypeOK, Call, Poll
<1>1. /\ seen' \in [Service -> State \cup {NoState}] /\ seen'[call.name] = Queried
  BY <1>0, SeeTyped
<1>2. CASE Queried = call.await /\ call.await = Goal[call.op] /\ Return(TRUE)
  BY <1>0, <1>1, <1>2, ReturnOK
<1>3. CASE call.await # Goal[call.op] /\ Goto("control") /\ expired' = FALSE
           /\ UNCHANGED <<svc, mode, reply>>
  <2>1. call.op # "start"
    BY <1>0, <1>3 DEF Goal
  <2> QED  BY <1>0, <1>1, <1>3, <2>1, GotoOK DEF Place
<1>4. CASE WaitFails
  BY <1>0, <1>1, <1>4, WaitFailsOK
<1>5. CASE UNCHANGED <<svc, mode, call, expired, reply>>
  <2>1. CallInv'
    BY <1>0, <1>5 DEF CallsOK, CallInv
  <2> QED  BY <1>0, <1>1, <1>5, <2>1, WithinCall DEF ScTypeOK
<1> QED  BY <1>2, <1>3, <1>4, <1>5 DEF Poll, Reached

\* the last look of a stop that could not wait,
LEMMA ResolveOK == ASSUME CallsOK, Resolve PROVE CallsOK'
<1>0. ScTypeOK /\ See /\ call.op = "stop" /\ Return(Queried = "Stopped")
  BY DEF CallsOK, CallInv, Resolve
<1>1. seen' \in [Service -> State \cup {NoState}] /\ seen'[call.name] = Queried
  BY <1>0, SeeTyped
<1>2. (Queried = "Stopped") \in BOOLEAN
  OBVIOUS
<1>3. Queried = "Stopped" => seen'[call.name] = Goal[call.op]
  BY <1>0, <1>1 DEF Goal
<1> QED  BY <1>0, <1>1, <1>2, <1>3, ReturnOK

\* comparing the start type,
LEMMA ObserveModeOK == ASSUME CallsOK, ObserveMode PROVE CallsOK'
<1>0. ScTypeOK /\ call \in Call /\ call.op \in StartMode /\ call.at = "observe"
  BY DEF CallsOK, ScTypeOK, Call, ObserveMode
<1>1. CASE seen' = seen /\ Return(TRUE)
  BY <1>0, <1>1, ReturnOK DEF ScTypeOK, StartMode
<1>2. CASE /\ call' = [call EXCEPT !.at = "change", !.rights = {"query", "config"}]
           /\ UNCHANGED <<svc, mode, expired, seen, reply>>
  <2>1. call' \in Call /\ call'.at = "change" /\ call'.op = call.op
    BY <1>0, <1>2 DEF Call, Place
  <2>2. CallInv'
    BY <1>0, <2>1 DEF CallInv
  <2> QED  BY <1>0, <1>2, <2>1, <2>2, WithinCall DEF ScTypeOK
<1> QED  BY <1>1, <1>2 DEF ObserveMode

\* and changing it.
LEMMA ChangeModeOK == ASSUME CallsOK, ChangeMode PROVE CallsOK'
<1>0. ScTypeOK /\ call \in Call /\ call.op \in StartMode
  BY DEF CallsOK, CallInv, ScTypeOK, Call, ChangeMode
<1>1. /\ mode' = [mode EXCEPT ![call.name] = call.op] /\ call' = Idle
      /\ reply' = [op |-> call.op, name |-> call.name, ok |-> TRUE,
                   seen |-> seen[call.name], none |-> FALSE]
      /\ UNCHANGED <<svc, expired, seen>>
  BY DEF ChangeMode
<1>2. ScTypeOK'
  BY <1>0, <1>1, RestTyped DEF ScTypeOK, Call
<1>3. CallInv' /\ ReplyInv'
  BY <1>0, <1>1, RestTyped DEF CallInv, ReplyInv, RepliesSeen, Goal, StartMode
<1> QED  BY <1>2, <1>3 DEF CallsOK

\* Every step of a call keeps what holds of calls.
LEMMA CallStepOK == ASSUME CallsOK, CallStep PROVE CallsOK'
BY ObserveOK, ReopenOK, RecheckOK, LeaveOK, ControlOK, RefusedOK, PollOK, ResolveOK,
   ObserveModeOK, ChangeModeOK DEF CallStep

\* A query or an open that fails ends the call, or its wait.
LEMMA CallFailsOK == ASSUME CallsOK, CallFails PROVE CallsOK'
<1>1. ScTypeOK /\ seen' \in [Service -> State \cup {NoState}]
  BY DEF CallsOK, ScTypeOK, CallFails
<1>2. CASE call.at = "await" /\ WaitFails
  BY <1>1, <1>2, WaitFailsOK
<1>3. CASE Return(FALSE)
  BY <1>1, <1>3, ReturnOK
<1> QED  BY <1>2, <1>3 DEF CallFails

\* The deadline of a wait passes.
LEMMA DeadlineOK == ASSUME CallsOK, DeadlinePasses PROVE CallsOK'
BY DEF DeadlinePasses, CallsOK, ScTypeOK, CallInv, ReplyInv, RepliesSeen

\* A service and its start type move without the call.
LEMMA MovesOK ==
  ASSUME CallsOK, NEW s \in Service, ServiceMoves(s) \/ ModeMoves(s)
  PROVE  CallsOK'
<1>1. ScTypeOK /\ CallInv /\ ReplyInv
  BY DEF CallsOK
<1>2. UNCHANGED <<call, expired, seen, reply>>
  BY DEF ServiceMoves, ModeMoves
<1>3. svc' \in [Service -> State]
  <2>1. ASSUME ServiceMoves(s)
        PROVE  svc' \in [Service -> State]
    <3>1. svc[s] \in State
      BY <1>1 DEF ScTypeOK
    <3>2. Moves(s, svc[s]) \subseteq State
      BY <3>1 DEF Moves, State, Pending
    <3> QED  BY <1>1, <2>1, <3>2 DEF ServiceMoves, ScTypeOK
  <2> QED  BY <1>1, <2>1 DEF ModeMoves, ScTypeOK
<1>4. mode' \in [Service -> StartMode]
  BY <1>1 DEF ServiceMoves, ModeMoves, ScTypeOK
<1>5. ScTypeOK'
  BY <1>1, <1>2, <1>3, <1>4 DEF ScTypeOK
<1>6. CallInv' /\ ReplyInv'
  BY <1>1, <1>2 DEF CallInv, ReplyInv, RepliesSeen
<1> QED  BY <1>5, <1>6 DEF CallsOK

\* A call begins.
LEMMA InvokeOK ==
  ASSUME CallsOK, NEW op \in Operation, NEW s \in Service, Invoke(op, s)
  PROVE  CallsOK'
<1>1. ScTypeOK
  BY DEF CallsOK
<1>2. /\ call' = [Idle EXCEPT !.op = op, !.name = s, !.at = "observe"] /\ reply' = NoReply
      /\ seen' = [seen EXCEPT ![s] = NoState] /\ UNCHANGED <<svc, mode, expired>>
  BY DEF Invoke
<1>3. call' \in Call /\ call'.at = "observe"
  BY <1>2, RestTyped DEF Call, Place
<1>4. ScTypeOK'
  BY <1>1, <1>2, <1>3, RestTyped DEF ScTypeOK, Call
<1>5. CallInv' /\ ReplyInv'
  BY <1>2, <1>3, RestTyped DEF CallInv, ReplyInv, RepliesSeen
<1> QED  BY <1>4, <1>5 DEF CallsOK

\* A reset takes note of a reply, and may forget what it has seen.
LEMMA ForgetOK ==
  ASSUME CallsOK, call.at = "idle", reply' = NoReply, UNCHANGED <<svc, mode, call, expired>>,
         seen' \in [Service -> State \cup {NoState}]
  PROVE  CallsOK'
BY RestTyped DEF CallsOK, ScTypeOK, CallInv, ReplyInv, RepliesSeen

-----------------------------------------------------------------------------
(* The reset.                                                              *)

\* What holds of a reset and its calls.
ResetOK == CallsOK /\ ResetTypeOK /\ ResetInv

\* The services are started in the reverse of the order in which they are stopped: each of
\* them is in both orders.
LEMMA Orders ==
  /\ StartOrder \in Seq(Service) /\ Len(StartOrder) = Len(StopOrder)
  /\ \A i \in DOMAIN StopOrder : \E j \in 1..Len(StopOrder) : StopOrder[i] = StartOrder[j]
<1>1. /\ StopOrder \in Seq(Service) /\ Len(StopOrder) \in Nat
      /\ DOMAIN StopOrder = 1..Len(StopOrder)
      /\ \A i \in 1..Len(StopOrder) : StopOrder[i] \in Service
  BY OrderAssumption
<1>2. StartOrder = [i \in 1..Len(StopOrder) |-> StopOrder[(Len(StopOrder) - i) + 1]]
  BY DEF StartOrder, Reverse
<1>3. \A i \in 1..Len(StopOrder) : (Len(StopOrder) - i) + 1 \in 1..Len(StopOrder)
  BY <1>1
<1>4. \A i \in 1..Len(StopOrder) : StartOrder[i] \in Service
  BY <1>1, <1>2, <1>3
<1>5. StartOrder \in Seq(Service) /\ Len(StartOrder) = Len(StopOrder)
  BY <1>1, <1>2, <1>4
<1>6. ASSUME NEW i \in DOMAIN StopOrder
      PROVE  \E j \in 1..Len(StopOrder) : StopOrder[i] = StartOrder[j]
  <2> DEFINE j == (Len(StopOrder) - i) + 1
  <2>1. j \in 1..Len(StopOrder) /\ (Len(StopOrder) - j) + 1 = i
    BY <1>1
  <2>2. StartOrder[j] = StopOrder[(Len(StopOrder) - j) + 1]
    BY <1>2, <2>1
  <2> QED  BY <2>1, <2>2
<1> QED  BY <1>5, <1>6

\* A call shows only its own service, and it goes on or replies.
LEMMA CallFrame ==
  ASSUME CallsOK, CallStep \/ CallFails \/ DeadlinePasses
  PROVE  /\ call.at # "idle"
         /\ \A s \in Service : s # call.name => seen'[s] = seen[s]
         /\ \/ call'.at # "idle" /\ call'.op = call.op /\ call'.name = call.name
               /\ reply' = reply
            \/ call'.at = "idle" /\ ~reply'.none /\ reply'.op = call.op
               /\ reply'.name = call.name
<1>0. call \in Call /\ seen \in [Service -> State \cup {NoState}] /\ Idle.at = "idle"
  BY RestTyped DEF CallsOK, ScTypeOK, Call
<1> DEFINE Same == call'.at # "idle" /\ call'.op = call.op /\ call'.name = call.name
                   /\ reply' = reply
           Back == call'.at = "idle" /\ ~reply'.none /\ reply'.op = call.op
                   /\ reply'.name = call.name
           Frame == seen' = seen \/ See
<1>1. ASSUME NEW ok, Return(ok) PROVE Back
  BY <1>0, <1>1 DEF Return
<1>2. ASSUME NEW place, place # "idle", Goto(place), reply' = reply PROVE Same
  BY <1>0, <1>2 DEF Goto, Call
<1>3. ASSUME NEW x, Await(x), reply' = reply PROVE Same
  BY <1>0, <1>3 DEF Await, Call
<1>4. ASSUME Again, reply' = reply PROVE Same
  BY <1>0, <1>4 DEF Again, Call
<1>5. ASSUME call' = call, reply' = reply, call.at # "idle" PROVE Same
  BY <1>5
<1>6. ASSUME WaitFails PROVE Same \/ Back
  BY <1>1, <1>2, <1>6 DEF WaitFails
<1> HIDE DEF Same, Back
<1>7. call.at # "idle" /\ Frame /\ (Same \/ Back)
  <2>1. CASE Observe
    <3>1. /\ call.at = "observe" /\ Frame
          /\ \/ Return(FALSE) \/ Return(TRUE)
             \/ call' = [call EXCEPT !.at = "reopen", !.observed = Queried] /\ reply' = reply
      BY <2>1 DEF Observe
    <3>2. ASSUME call' = [call EXCEPT !.at = "reopen", !.observed = Queried], reply' = reply
          PROVE  Same
      BY <1>0, <3>2 DEF Call, Same
    <3> QED  BY <1>1, <3>1, <3>2
  <2>2. CASE Reopen
    <3>1. Same
      BY <1>0, <2>2 DEF Reopen, Call, Same
    <3> QED  BY <2>2, <3>1 DEF Reopen
  <2>3. CASE Recheck
    BY <1>1, <1>2, <1>3, <1>4, <2>3 DEF Recheck
  <2>4. CASE Leave
    BY <1>1, <1>4, <1>5, <2>4 DEF Leave
  <2>5. CASE Control
    <3>1. Frame /\ call.at = "control" /\ reply' = reply
      BY <2>5 DEF Control
    <3>2. (\E x : Await(x)) \/ Goto("refused")
      BY <2>5 DEF Control
    <3> QED  BY <1>2, <1>3, <3>1, <3>2
  <2>6. CASE Refused
    BY <1>1, <1>4, <2>6 DEF Refused
  <2>7. CASE Poll
    BY <1>1, <1>2, <1>5, <1>6, <2>7 DEF Poll, Reached
  <2>8. CASE Resolve
    BY <1>1, <2>8 DEF Resolve
  <2>9. CASE ObserveMode
    <3>1. /\ call.at = "observe" /\ Frame
          /\ \/ Return(TRUE)
             \/ /\ call' = [call EXCEPT !.at = "change", !.rights = {"query", "config"}]
                /\ reply' = reply
      BY <2>9 DEF ObserveMode
    <3>2. ASSUME call' = [call EXCEPT !.at = "change", !.rights = {"query", "config"}],
                 reply' = reply
          PROVE  Same
      BY <1>0, <3>2 DEF Call, Same
    <3> QED  BY <1>1, <3>1, <3>2
  <2>10. CASE ChangeMode
    <3>1. Back
      BY <1>0, <2>10 DEF ChangeMode, Back
    <3> QED  BY <2>10, <3>1 DEF ChangeMode
  <2>11. CASE CallFails
    BY <1>1, <1>6, <2>11 DEF CallFails
  <2>12. CASE DeadlinePasses
    <3>1. call.at # "idle" /\ Frame /\ call' = call /\ reply' = reply
      BY <2>12 DEF DeadlinePasses
    <3> QED  BY <1>5, <3>1
  <2> QED
    BY <2>1, <2>2, <2>3, <2>4, <2>5, <2>6, <2>7, <2>8, <2>9, <2>10, <2>11, <2>12 DEF CallStep
<1>8. \A s \in Service : s # call.name => seen'[s] = seen[s]
  BY <1>0, <1>7 DEF See, Call
<1> QED
  BY <1>7, <1>8 DEF Same, Back

\* The calls of a reset keep what it has done so far.
LEMMA ResetCalls ==
  ASSUME ResetOK, session = "reset", UNCHANGED <<session, own>>,
         CallStep \/ CallFails \/ DeadlinePasses
  PROVE  ResetOK'
<1>0. CallsOK /\ ResetTypeOK /\ ResetInv /\ UNCHANGED <<reset, cache, tried, outcome>>
  BY DEF ResetOK, own
<1>1. CallsOK'
  BY <1>0, CallStepOK, CallFailsOK, DeadlineOK
<1>2. ResetTypeOK'
  BY <1>0, <1>1 DEF ResetTypeOK, CallsOK
<1>3. /\ call.at # "idle"
      /\ \A s \in Service : s # call.name => seen'[s] = seen[s]
      /\ \/ call'.at # "idle" /\ call'.op = call.op /\ call'.name = call.name /\ reply' = reply
         \/ call'.at = "idle" /\ ~reply'.none /\ reply'.op = call.op /\ reply'.name = call.name
  BY <1>0, CallFrame
<1>4. reply.none
  BY <1>0, <1>3 DEF CallsOK, ReplyInv
<1>5. reset.at \in {"stopping", "starting"} /\ outcome = "none"
  BY <1>0, <1>3 DEF ResetInv
<1>6. PICK i \in Nat : reset.i = i
  BY <1>0, OrderAssumption DEF ResetTypeOK
<1>7. ASSUME NEW order \in Seq(Service), NEW x, NEW op, AllSeen(order, i, x),
             call.name = order[i], i <= Len(order), i > 0
      PROVE  AllSeen(order, i, x)'
  <2> SUFFICES ASSUME NEW j \in 1..(i - 1)
               PROVE  \/ seen'[order[j]] = x
                      \/ (call'.at # "idle" \/ ~reply'.none) /\ order[j] = order[i]
    BY DEF AllSeen
  <2>1. order[j] \in Service
    BY <1>7
  <2> QED  BY <1>3, <1>7, <2>1 DEF AllSeen
<1>8. CASE reset.at = "stopping"
  <2>1. /\ Concerns("stop", StopOrder) /\ i > 0
        /\ reset.stopFailed \/ AllSeen(StopOrder, i, "Stopped")
    BY <1>0, <1>6, <1>8 DEF ResetInv
  <2>2. Concerns("stop", StopOrder)'
    BY <1>0, <1>3, <1>4, <2>1 DEF Concerns
  <2>3. reset.stopFailed \/ AllSeen(StopOrder, i, "Stopped")'
    BY <1>3, <1>6, <1>7, <2>1, OrderAssumption DEF Concerns
  <2> QED
    BY <1>0, <1>1, <1>2, <1>5, <1>6, <1>8, <2>1, <2>2, <2>3
       DEF ResetOK, ResetInv, ServicesBroughtBack, AllSeen
<1>9. CASE reset.at = "starting"
  <2>1. /\ Concerns("start", StartOrder) /\ i > 0
        /\ reset.failed \/ AllSeen(StartOrder, i, "Running")
        /\ \A j \in 1..(i - 1) : StartOrder[j] \in tried
        /\ StartOrder[i] \in tried
    BY <1>0, <1>3, <1>6, <1>9 DEF ResetInv
  <2>2. Concerns("start", StartOrder)'
    BY <1>0, <1>3, <1>4, <2>1 DEF Concerns
  <2>3. reset.failed \/ AllSeen(StartOrder, i, "Running")'
    BY <1>3, <1>6, <1>7, <2>1, Orders DEF Concerns
  <2> QED
    BY <1>0, <1>1, <1>2, <1>5, <1>6, <1>9, <2>1, <2>2, <2>3
       DEF ResetOK, ResetInv, ServicesBroughtBack, AllSeen
<1> QED  BY <1>5, <1>8, <1>9

\* A reset takes note of what a call of its has replied.
LEMMA ResetNotes ==
  ASSUME ResetOK, session = "reset", session' = session, Stopped \/ Started
  PROVE  ResetOK'
<1>0. CallsOK /\ ResetTypeOK /\ ResetInv
  BY DEF ResetOK
<1>1. /\ call.at = "idle" /\ ~reply.none /\ reply' = NoReply
      /\ UNCHANGED <<svc, mode, call, expired, seen, cache, tried, outcome>>
  BY DEF Stopped, Started
<1>2. CallsOK'
  BY <1>0, <1>1, ForgetOK DEF CallsOK, ScTypeOK
<1>3. reply'.none /\ call'.at = "idle" /\ outcome = "none"
  BY <1>0, <1>1, RestTyped DEF ResetInv, Stopped, Started
<1>4. PICK i \in Nat : reset.i = i
  BY <1>0, OrderAssumption DEF ResetTypeOK
<1>5. ASSUME NEW order \in Seq(Service), NEW op \in DOMAIN Goal, Concerns(op, order), i > 0,
             reply.ok, AllSeen(order, i, Goal[op])
      PROVE  AllSeen(order, i + 1, Goal[op])'
  <2>1. i <= Len(order) /\ reply.op = op /\ reply.name = order[i]
    BY <1>1, <1>4, <1>5 DEF Concerns
  <2>2. seen[order[i]] = Goal[op]
    BY <1>0, <1>1, <1>5, <2>1 DEF CallsOK, ReplyInv, RepliesSeen
  <2>3. \A j \in 1..i : seen[order[j]] = Goal[op]
    BY <1>5, <2>2 DEF AllSeen
  <2> QED  BY <1>1, <2>3 DEF AllSeen
<1>6. CASE Stopped
  <2>1. /\ Concerns("stop", StopOrder) /\ i > 0 /\ i <= Len(StopOrder)
        /\ reset.stopFailed \/ AllSeen(StopOrder, i, "Stopped")
    BY <1>0, <1>1, <1>4, <1>6 DEF ResetInv, Stopped, Concerns
  <2>2. reset' = [reset EXCEPT !.i = @ + 1, !.failed = @ \/ ~reply.ok,
                               !.stopFailed = @ \/ ~reply.ok]
    BY <1>6 DEF Stopped
  <2>3. /\ reset'.at = "stopping" /\ reset'.i = i + 1
        /\ reset'.stopFailed = (reset.stopFailed \/ ~reply.ok)
    BY <1>0, <1>4, <1>6, <2>2 DEF ResetTypeOK, Stopped
  <2>4. ResetTypeOK'
    <3>1. i + 1 \in 0..Len(StopOrder) + 1
      BY <2>1, OrderAssumption
    <3>2. reply.ok \in BOOLEAN
      BY <1>0 DEF ResetTypeOK, ScTypeOK
    <3> QED  BY <1>0, <1>1, <1>2, <1>4, <2>2, <3>1, <3>2 DEF ResetTypeOK, CallsOK
  <2>5. reset'.stopFailed \/ AllSeen(StopOrder, i + 1, "Stopped")'
    BY <1>5, <2>1, <2>3, OrderAssumption DEF Goal
  <2>6. ResetInv'
    <3>1. Concerns("stop", StopOrder)' /\ reset'.i > 0
      BY <1>3, <1>4, <2>3 DEF Concerns
    <3>2. (reset.stopFailed \/ AllSeen(StopOrder, reset.i, "Stopped"))'
      BY <1>3, <2>3, <2>5 DEF AllSeen
    <3> QED  BY <1>1, <1>3, <2>3, <3>1, <3>2 DEF ResetInv, ServicesBroughtBack
  <2> QED  BY <1>2, <2>4, <2>6 DEF ResetOK
<1>7. CASE Started
  <2>1. /\ Concerns("start", StartOrder) /\ i > 0 /\ i <= Len(StartOrder)
        /\ reset.failed \/ AllSeen(StartOrder, i, "Running")
        /\ \A j \in 1..i : StartOrder[j] \in tried
    BY <1>0, <1>1, <1>4, <1>7 DEF ResetInv, Started, Concerns
  <2>2. reset' = [reset EXCEPT !.i = @ + 1, !.failed = @ \/ ~reply.ok]
    BY <1>7 DEF Started
  <2>3. /\ reset'.at = "starting" /\ reset'.i = i + 1
        /\ reset'.failed = (reset.failed \/ ~reply.ok)
    BY <1>0, <1>4, <1>7, <2>2 DEF ResetTypeOK, Started
  <2>4. ResetTypeOK'
    <3>1. i + 1 \in 0..Len(StopOrder) + 1
      BY <2>1, OrderAssumption, Orders
    <3>2. reply.ok \in BOOLEAN
      BY <1>0 DEF ResetTypeOK, ScTypeOK
    <3> QED  BY <1>0, <1>1, <1>2, <1>4, <2>2, <3>1, <3>2 DEF ResetTypeOK, CallsOK
  <2>5. reset'.failed \/ AllSeen(StartOrder, i + 1, "Running")'
    BY <1>5, <2>1, <2>3, Orders DEF Goal
  <2>6. \A j \in 1..(reset'.i - 1) : StartOrder[j] \in tried'
    BY <1>1, <1>4, <2>1, <2>3
  <2>7. ResetInv'
    <3>1. Concerns("start", StartOrder)' /\ reset'.i > 0
      BY <1>3, <1>4, <2>3 DEF Concerns
    <3>2. (reset.failed \/ AllSeen(StartOrder, reset.i, "Running"))'
      BY <1>3, <2>3, <2>5 DEF AllSeen
    <3> QED  BY <1>1, <1>3, <2>3, <2>6, <3>1, <3>2 DEF ResetInv, ServicesBroughtBack
  <2> QED  BY <1>2, <2>4, <2>7 DEF ResetOK
<1> QED  BY <1>6, <1>7

\* A reset calls for the next service.
LEMMA ResetAsks ==
  ASSUME ResetOK, session = "reset", session' = session, StopNext \/ StartNext
  PROVE  ResetOK'
<1>0. CallsOK /\ ResetTypeOK /\ ResetInv
  BY DEF ResetOK
<1>1. /\ call.at = "idle" /\ reply.none
      /\ UNCHANGED <<reset, cache, outcome>>
  BY DEF StopNext, StartNext, Free, Calls, own
<1>4. PICK i \in Nat : reset.i = i
  BY <1>0, OrderAssumption DEF ResetTypeOK
<1>5. ASSUME NEW order \in Seq(Service), NEW op \in Operation, i <= Len(order), i > 0,
             Invoke(op, order[i])
      PROVE  /\ CallsOK' /\ call'.at # "idle" /\ reply'.none /\ Concerns(op, order)'
             /\ \A x : AllSeen(order, i, x) => AllSeen(order, i, x)'
  <2>1. order[i] \in Service
    BY <1>5
  <2>2. CallsOK'
    BY <1>0, <1>5, <2>1, InvokeOK
  <2>3. /\ call' = [Idle EXCEPT !.op = op, !.name = order[i], !.at = "observe"]
        /\ reply' = NoReply /\ seen' = [seen EXCEPT ![order[i]] = NoState]
    BY <1>5 DEF Invoke
  <2>4. call'.at = "observe" /\ call'.op = op /\ call'.name = order[i] /\ reply'.none
    BY <2>3, RestTyped DEF Call
  <2>5. Concerns(op, order)'
    BY <1>1, <1>4, <1>5, <2>4 DEF Concerns
  <2>6. ASSUME NEW x, AllSeen(order, i, x), NEW j \in 1..(i - 1)
        PROVE  \/ seen'[order[j]] = x
               \/ (call'.at # "idle" \/ ~reply'.none) /\ order[j] = order[i]
    <3>1. order[j] \in Service /\ seen \in [Service -> State \cup {NoState}]
      BY <1>0, <1>5 DEF CallsOK, ScTypeOK
    <3> QED  BY <1>1, <2>3, <2>4, <2>6, <3>1 DEF AllSeen
  <2> QED  BY <2>2, <2>4, <2>5, <2>6 DEF AllSeen
<1>6. CASE StopNext
  <2>1. /\ reset.at = "stopping" /\ i <= Len(StopOrder) /\ tried' = tried
        /\ Invoke("stop", StopOrder[i]) /\ i > 0 /\ outcome = "none"
        /\ reset.stopFailed \/ AllSeen(StopOrder, i, "Stopped")
    BY <1>0, <1>4, <1>6 DEF StopNext, Calls, own, ResetInv
  <2>2. /\ CallsOK' /\ call'.at # "idle" /\ reply'.none /\ Concerns("stop", StopOrder)'
        /\ reset.stopFailed \/ AllSeen(StopOrder, i, "Stopped")'
    BY <1>5, <2>1, OrderAssumption DEF Operation
  <2>3. ResetTypeOK'
    BY <1>0, <1>1, <2>1, <2>2 DEF ResetTypeOK, CallsOK
  <2>4. ResetInv'
    BY <1>1, <1>4, <2>1, <2>2 DEF ResetInv, ServicesBroughtBack, AllSeen
  <2> QED  BY <2>2, <2>3, <2>4 DEF ResetOK
<1>7. CASE StartNext
  <2>1. /\ reset.at = "starting" /\ i <= Len(StartOrder) /\ tried' = tried \cup {StartOrder[i]}
        /\ Invoke("start", StartOrder[i]) /\ i > 0 /\ outcome = "none"
        /\ \A j \in 1..(i - 1) : StartOrder[j] \in tried
        /\ reset.failed \/ AllSeen(StartOrder, i, "Running")
    BY <1>0, <1>4, <1>7 DEF StartNext, ResetInv
  <2>2. /\ CallsOK' /\ call'.at # "idle" /\ reply'.none /\ Concerns("start", StartOrder)'
        /\ reset.failed \/ AllSeen(StartOrder, i, "Running")'
    BY <1>5, <2>1, Orders DEF Operation
  <2>3. StartOrder[i] \in Service
    BY <2>1, Orders
  <2>4. ResetTypeOK'
    BY <1>0, <1>1, <2>1, <2>2, <2>3 DEF ResetTypeOK, CallsOK
  <2>5. /\ \A j \in 1..(i - 1) : StartOrder[j] \in tried'
        /\ StartOrder[i] \in tried'
    BY <2>1
  <2>6. ResetInv'
    BY <1>1, <1>4, <2>1, <2>2, <2>5 DEF ResetInv, ServicesBroughtBack, AllSeen
  <2> QED  BY <2>2, <2>4, <2>6 DEF ResetOK
<1> QED  BY <1>6, <1>7

\* The rest of what a reset does itself keeps the calls as they are.
LEMMA ResetMoves ==
  ASSUME ResetOK, session = "reset", session' = session,
         AllStopped \/ RemoveBackup \/ MoveCache \/ EndReset \/ Recreate
  PROVE  ResetOK'
<1>0. CallsOK /\ ResetTypeOK /\ ResetInv
  BY DEF ResetOK
<1>1. UNCHANGED <<svc, mode, call, expired, seen, reply, tried>>
  BY DEF AllStopped, RemoveBackup, MoveCache, EndReset, Recreate, scVars
<1>2. CallsOK'
  BY <1>0, <1>1 DEF CallsOK, ScTypeOK, CallInv, ReplyInv, RepliesSeen
<1>3. Len(StopOrder) \in Nat /\ Len(StopOrder) > 0 /\ DOMAIN StopOrder = 1..Len(StopOrder)
  BY OrderAssumption
<1>4. PICK i \in Nat : reset.i = i
  BY <1>0, <1>3 DEF ResetTypeOK
<1>5. CASE AllStopped
  <2>1. /\ reset.at = "stopping" /\ i > Len(StopOrder) /\ call.at = "idle" /\ reply.none
        /\ reset' = [reset EXCEPT !.at = IF reset.stopFailed THEN "starting" ELSE "cleaning",
                                  !.i = 1]
        /\ UNCHANGED <<cache, outcome>> /\ outcome = "none"
        /\ reset.stopFailed \/ AllSeen(StopOrder, i, "Stopped")
    BY <1>0, <1>4, <1>5 DEF AllStopped, Free, ResetInv
  <2>2. ResetTypeOK' /\ reset'.i = 1
        /\ reset'.at = IF reset.stopFailed THEN "starting" ELSE "cleaning"
    <3>1. 1 \in 0..Len(StopOrder) + 1
      BY <1>3
    <3>2. CASE reset.stopFailed
      <4>1. reset' = [reset EXCEPT !.at = "starting", !.i = 1]
        BY <2>1, <3>2
      <4> QED  BY <1>0, <1>1, <1>2, <2>1, <3>1, <3>2, <4>1 DEF ResetTypeOK, CallsOK
    <3>3. CASE ~reset.stopFailed
      <4>1. reset' = [reset EXCEPT !.at = "cleaning", !.i = 1]
        BY <2>1, <3>3
      <4> QED  BY <1>0, <1>1, <1>2, <2>1, <3>1, <3>3, <4>1 DEF ResetTypeOK, CallsOK
    <3> QED  BY <3>2, <3>3
  <2>3. ~reset.stopFailed => \A j \in DOMAIN StopOrder : seen[StopOrder[j]] = "Stopped"
    BY <1>3, <1>4, <2>1 DEF AllSeen
  <2>4. Len(StartOrder) > 0
    BY <1>3, Orders
  <2>5. ResetInv'
    BY <1>1, <2>1, <2>2, <2>3, <2>4 DEF ResetInv, ServicesBroughtBack, Concerns, AllSeen
  <2> QED  BY <1>2, <2>2, <2>5 DEF ResetOK
<1>6. CASE RemoveBackup \/ MoveCache
  <2>1. /\ reset.at \in {"cleaning", "moving"} /\ outcome = "none" /\ outcome' = outcome
        /\ call.at = "idle" /\ reply.none /\ i = 1
        /\ \A j \in DOMAIN StopOrder : seen[StopOrder[j]] = "Stopped"
    BY <1>0, <1>4, <1>6 DEF RemoveBackup, MoveCache, ResetInv
  <2>2. \/ reset' = [reset EXCEPT !.at = "moving"]
        \/ reset' = [reset EXCEPT !.at = "starting"]
        \/ reset' = [reset EXCEPT !.at = "starting", !.failed = TRUE]
    BY <1>6 DEF RemoveBackup, MoveCache
  <2>3. /\ cache' \in SUBSET {"dir", "bak"} /\ reset'.i = 1
        /\ reset'.at \in {"moving", "starting"}
        /\ reset' \in [at : {"idle", "stopping", "cleaning", "moving", "starting"},
                       i : 0..Len(StopOrder) + 1, failed : BOOLEAN, stopFailed : BOOLEAN]
    <3>1. cache' \in SUBSET {"dir", "bak"}
      BY <1>0, <1>6 DEF RemoveBackup, MoveCache, ResetTypeOK
    <3> QED  BY <1>0, <1>4, <2>1, <2>2, <3>1 DEF ResetTypeOK
  <2>4. ResetTypeOK'
    BY <1>0, <1>1, <1>2, <2>1, <2>3 DEF ResetTypeOK, CallsOK
  <2>5. ResetInv'
    BY <1>1, <2>1, <2>3 DEF ResetInv, ServicesBroughtBack, Concerns, AllSeen
  <2> QED  BY <1>2, <2>4, <2>5 DEF ResetOK
<1>7. CASE EndReset
  <2>1. /\ reset.at = "starting" /\ i > Len(StartOrder) /\ call.at = "idle" /\ reply.none
        /\ reset' = AtRest /\ outcome' = IF reset.failed THEN "error" ELSE "ok"
        /\ UNCHANGED cache
        /\ \A j \in 1..(i - 1) : StartOrder[j] \in tried
        /\ reset.failed \/ AllSeen(StartOrder, i, "Running")
    BY <1>0, <1>4, <1>7 DEF EndReset, Free, ResetInv
  <2>2. AtRest \in [at : {"idle", "stopping", "cleaning", "moving", "starting"},
                    i : 0..Len(StopOrder) + 1, failed : BOOLEAN, stopFailed : BOOLEAN]
        /\ AtRest.at = "idle"
    BY <1>3 DEF AtRest
  <2>3. ResetTypeOK'
    BY <1>0, <1>1, <1>2, <2>1, <2>2 DEF ResetTypeOK, CallsOK
  <2>4. \A j \in DOMAIN StopOrder : StopOrder[j] \in tried
    BY <1>3, <2>1, Orders
  <2>5. ~reset.failed => \A j \in 1..Len(StopOrder) : seen[StartOrder[j]] = "Running"
    BY <1>3, <2>1, Orders DEF AllSeen
  <2>6. ~reset.failed => \A j \in DOMAIN StopOrder : seen[StopOrder[j]] = "Running"
    BY <1>3, <2>5, Orders
  <2>7. ServicesBroughtBack'
    BY <1>1, <2>1, <2>4, <2>6 DEF ServicesBroughtBack
  <2>8. ResetInv'
    BY <1>1, <2>1, <2>2, <2>7 DEF ResetInv
  <2> QED  BY <1>2, <2>3, <2>8 DEF ResetOK
<1>8. CASE Recreate
  <2>1. UNCHANGED <<reset, outcome>> /\ cache' = cache \cup {"dir"}
    BY <1>8 DEF Recreate
  <2>2. ResetTypeOK'
    BY <1>0, <1>1, <1>2, <2>1 DEF ResetTypeOK, CallsOK
  <2>3. ResetInv'
    BY <1>0, <1>1, <2>1 DEF ResetInv, ServicesBroughtBack, Concerns, AllSeen
  <2> QED  BY <1>2, <2>2, <2>3 DEF ResetOK
<1> QED  BY <1>5, <1>6, <1>7, <1>8

\* A reset begins.
LEMMA ResetBegins ==
  ASSUME ResetOK, session = "reset", session' = session, BeginReset
  PROVE  ResetOK'
<1>0. CallsOK /\ ResetTypeOK /\ ResetInv
  BY DEF ResetOK
<1>1. /\ reset.at = "idle" /\ call.at = "idle"
      /\ reset' = [AtRest EXCEPT !.at = "stopping", !.i = 1]
      /\ reply' = NoReply /\ seen' = [s \in Service |-> NoState]
      /\ tried' = {} /\ outcome' = "none" /\ UNCHANGED <<svc, mode, call, expired, cache>>
  BY DEF BeginReset
<1>2. CallsOK'
  BY <1>0, <1>1, ForgetOK
<1>3. Len(StopOrder) \in Nat /\ Len(StopOrder) > 0
  BY OrderAssumption
<1>4. reset'.at = "stopping" /\ reset'.i = 1 /\ ResetTypeOK'
  <2>1. 1 \in 0..Len(StopOrder) + 1
    BY <1>3
  <2>2. reset' = [at |-> "stopping", i |-> 1, failed |-> FALSE, stopFailed |-> FALSE]
    BY <1>1 DEF AtRest
  <2>3. tried' \subseteq Service /\ outcome' \in {"none", "ok", "error"}
        /\ cache' \in SUBSET {"dir", "bak"}
    BY <1>0, <1>1 DEF ResetTypeOK
  <2> QED  BY <1>2, <2>1, <2>2, <2>3 DEF ResetTypeOK, CallsOK
<1>5. ResetInv'
  BY <1>1, <1>3, <1>4, RestTyped DEF ResetInv, ServicesBroughtBack, Concerns, AllSeen
<1> QED  BY <1>2, <1>4, <1>5 DEF ResetOK

\* Services move while a reset, or a call on a service, waits.
LEMMA ResetWaits ==
  ASSUME ResetOK, UNCHANGED <<session, own>>,
         NEW s \in Service, ServiceMoves(s) \/ ModeMoves(s)
  PROVE  ResetOK'
<1>1. CallsOK'
  BY MovesOK DEF ResetOK
<1>2. UNCHANGED <<call, expired, seen, reply, reset, cache, tried, outcome>>
  BY DEF ServiceMoves, ModeMoves, own
<1>3. ResetTypeOK'
  BY <1>1, <1>2 DEF ResetOK, ResetTypeOK, CallsOK
<1>4. ResetInv'
  BY <1>2 DEF ResetOK, ResetInv, ServicesBroughtBack, Concerns, AllSeen
<1> QED  BY <1>1, <1>3, <1>4 DEF ResetOK

\* Outside a session of resets only calls on services happen.
LEMMA ServiceSessionOK ==
  ASSUME ResetOK, ServiceSession
  PROVE  ResetOK'
<1>1. session = "service" /\ UNCHANGED <<session, own>>
  BY DEF ServiceSession
<1>2. CallsOK'
  BY CallStepOK, CallFailsOK, DeadlineOK, MovesOK, InvokeOK DEF ServiceSession, ResetOK
<1>3. ResetTypeOK'
  BY <1>1, <1>2 DEF ResetOK, ResetTypeOK, CallsOK, own
<1>4. ResetInv'
  BY <1>1 DEF ResetOK, ResetInv, ServicesBroughtBack, own
<1> QED  BY <1>2, <1>3, <1>4 DEF ResetOK

\* So is a session of resets: each of its steps keeps the invariant.
LEMMA ResetSessionOK ==
  ASSUME ResetOK, ResetSession
  PROVE  ResetOK'
<1>1. session = "reset" /\ session' = session /\ ResetNext
  BY DEF ResetSession
<1>2. CASE ResetStep
  BY <1>1, <1>2, ResetBegins, ResetNotes, ResetAsks, ResetMoves DEF ResetStep
<1>3. CASE Recreate
  BY <1>1, <1>3, ResetMoves
<1>4. CASE (CallStep \/ CallFails \/ DeadlinePasses) /\ UNCHANGED own
  BY <1>1, <1>4, ResetCalls
<1>5. CASE \E s \in Service : ServiceMoves(s) /\ UNCHANGED own
  BY <1>1, <1>5, ResetWaits
<1> QED  BY <1>1, <1>2, <1>3, <1>4, <1>5 DEF ResetNext, ServiceStep

-----------------------------------------------------------------------------
(* The removal of provisioned packages.                                    *)

\* What holds of the removals.
PackagesOK == PcTypeOK /\ CacheInv

\* The type of a removal.
Removal == [at : {"idle", "fresh", "miss", "list", "remove"}, name : Name,
            todo : SUBSET Package, kept : SUBSET Package, errs : BOOLEAN]

\* The resting removal and the empty result are well typed.
LEMMA PackagesRest ==
  /\ NoRemoval \in Removal /\ NoRemoval.at = "idle"
  /\ NoResult \in [none : BOOLEAN, ok : BOOLEAN, name : Name, left : SUBSET Package]
  /\ ~NoResult.ok
<1>1. (CHOOSE n \in Name : TRUE) \in Name
  BY ProvisionedAssumption
<1> QED  BY <1>1 DEF NoRemoval, NoResult, Removal

\* The list is read again, completely or not at all.
LEMMA RefreshOK ==
  ASSUME PackagesOK, NEW next \in {"miss", "list"}, Refresh(next),
         removal.at \in {"fresh", "miss"}
  PROVE  PackagesOK'
<1>0. /\ provisioned \subseteq Package /\ packages \subseteq Package /\ age \in 0..TTL
      /\ removal \in Removal /\ added \subseteq Package /\ TTL \in Nat \ {0}
      /\ removed \in [none : BOOLEAN, ok : BOOLEAN, name : Name, left : SUBSET Package]
      /\ Matching \in [Name -> SUBSET Package]
  BY ProvisionedAssumption DEF PackagesOK, PcTypeOK, Removal
<1>1. CASE /\ packages' = provisioned /\ age' = 0 /\ added' = {}
           /\ removal' = [removal EXCEPT !.at = next] /\ UNCHANGED <<provisioned, removed>>
  <2>1. removal' \in Removal /\ removal'.at = next
    BY <1>0, <1>1 DEF Removal
  <2>2. PcTypeOK'
    BY <1>0, <1>1, <2>1 DEF PcTypeOK, Removal
  <2>4. ~removed'.ok
    BY <1>1 DEF PackagesOK, CacheInv
  <2>5. CacheInv'
    BY <1>1, <2>1, <2>4 DEF CacheInv, RemovalTruthful
  <2> QED  BY <2>2, <2>5 DEF PackagesOK
<1>2. CASE UNCHANGED <<provisioned, packages, age, added>> /\ Finish(FALSE)
  <2>1. /\ removal' = NoRemoval
        /\ removed' = [none |-> FALSE, ok |-> FALSE, name |-> removal.name,
                       left |-> provisioned' \cap Matching[removal.name]]
    BY <1>2 DEF Finish
  <2>2. PcTypeOK' /\ ~removed'.ok /\ removal'.at = "idle"
    BY <1>0, <1>2, <2>1, PackagesRest DEF PcTypeOK, Removal
  <2>3. CacheInv'
    BY <1>2, <2>2 DEF PackagesOK, CacheInv, RemovalTruthful
  <2> QED  BY <2>2, <2>3 DEF PackagesOK
<1> QED  BY <1>1, <1>2 DEF Refresh

\* Every step on packages keeps the list honest.
LEMMA PackageSessionOK ==
  ASSUME PackagesOK, PcNext
  PROVE  PackagesOK'
<1>0. /\ provisioned \subseteq Package /\ packages \subseteq Package /\ age \in 0..TTL
      /\ removal \in Removal /\ added \subseteq Package
      /\ TTL \in Nat \ {0} /\ MissAge \in Nat
      /\ removed \in [none : BOOLEAN, ok : BOOLEAN, name : Name, left : SUBSET Package]
      /\ Matching \in [Name -> SUBSET Package] /\ Matching[removal.name] \subseteq Package
  BY ProvisionedAssumption DEF PackagesOK, PcTypeOK, Removal
<1>1. CASE Tick
  <2>1. PcTypeOK'
    BY <1>0, <1>1 DEF Tick, PcTypeOK, Removal
  <2>2. CacheInv'
    BY <1>0, <1>1 DEF Tick, PackagesOK, CacheInv, RemovalTruthful
  <2> QED  BY <2>1, <2>2 DEF PackagesOK
<1>2. CASE \E p \in Package : Provision(p)
  <2> PICK p \in Package : Provision(p)
    BY <1>2
  <2>1. PcTypeOK'
    BY <1>0 DEF Provision, PcTypeOK, Removal
  <2>2. CacheInv'
    BY DEF Provision, PackagesOK, CacheInv, RemovalTruthful
  <2> QED  BY <2>1, <2>2 DEF PackagesOK
<1>3. CASE \E n \in Name : BeginRemoval(n)
  <2> PICK n \in Name : BeginRemoval(n)
    BY <1>3
  <2>1. removal' \in Removal /\ removal'.at = "fresh" /\ removed' = NoResult
    BY PackagesRest DEF BeginRemoval, Removal
  <2>2. PcTypeOK'
    BY <1>0, <2>1, PackagesRest DEF BeginRemoval, PcTypeOK, Removal
  <2>3. CacheInv'
    BY <2>1, PackagesRest DEF BeginRemoval, PackagesOK, CacheInv, RemovalTruthful
  <2> QED  BY <2>2, <2>3 DEF PackagesOK
<1>4. ASSUME NEW next \in {"miss", "list"}, removal.at \in {"fresh", "miss"},
             removal' = [removal EXCEPT !.at = next], age < TTL \/ removal.at = "miss",
             UNCHANGED <<provisioned, packages, age, added, removed>>
      PROVE  PackagesOK'
  <2>1. removal' \in Removal /\ removal'.at = next
    BY <1>0, <1>4 DEF Removal
  <2>2. PcTypeOK'
    BY <1>0, <1>4, <2>1 DEF PcTypeOK, Removal
  <2>3. CacheInv'
    BY <1>4, <2>1 DEF PackagesOK, CacheInv, RemovalTruthful
  <2> QED  BY <2>2, <2>3 DEF PackagesOK
<1>5. CASE CheckFresh \/ CheckMiss
  BY <1>4, <1>5, RefreshOK DEF CheckFresh, CheckMiss
<1>6. CASE List
  <2>1. /\ removal.at = "list" /\ UNCHANGED <<provisioned, packages, age, added, removed>>
        /\ removal' = [removal EXCEPT !.at = "remove",
                                      !.todo = packages \cap Matching[removal.name],
                                      !.kept = packages \ Matching[removal.name]]
    BY <1>6 DEF List
  <2>2. /\ removal' \in Removal /\ removal'.at = "remove" /\ removal'.name = removal.name
        /\ removal'.todo = packages \cap Matching[removal.name]
        /\ removal'.kept = packages \ Matching[removal.name]
    BY <1>0, <2>1 DEF Removal
  <2>3. PcTypeOK'
    BY <1>0, <2>1, <2>2 DEF PcTypeOK, Removal
  <2>4. CacheInv'
    BY <2>1, <2>2 DEF PackagesOK, CacheInv, RemovalTruthful
  <2> QED  BY <2>3, <2>4 DEF PackagesOK
<1>7. CASE \E p \in Package : RemoveOne(p)
  <2> PICK p \in Package : RemoveOne(p)
    BY <1>7
  <2>1. /\ removal.at = "remove" /\ p \in removal.todo
        /\ UNCHANGED <<packages, age, added, removed>>
    BY DEF RemoveOne
  <2>2. /\ provisioned \ added \subseteq packages /\ ~removed.ok
        /\ provisioned \ added \subseteq removal.todo \cup removal.kept
        /\ ~removal.errs => removal.kept \cap Matching[removal.name] = {}
    BY <2>1 DEF PackagesOK, CacheInv
  <2>3. CASE provisioned' = provisioned \ {p} /\ removal' = [removal EXCEPT !.todo = @ \ {p}]
    <3>1. /\ removal' \in Removal /\ removal'.at = "remove" /\ removal'.name = removal.name
          /\ removal'.todo = removal.todo \ {p} /\ removal'.kept = removal.kept
          /\ removal'.errs = removal.errs
      BY <1>0, <2>1, <2>3 DEF Removal
    <3>2. PcTypeOK'
      BY <1>0, <2>1, <2>3, <3>1 DEF PcTypeOK, Removal
    <3>3. CacheInv'
      BY <2>1, <2>2, <2>3, <3>1 DEF CacheInv, RemovalTruthful
    <3> QED  BY <3>2, <3>3 DEF PackagesOK
  <2>4. CASE /\ removal' = [removal EXCEPT !.todo = @ \ {p}, !.kept = @ \cup {p}, !.errs = TRUE]
             /\ provisioned' = provisioned
    <3>1. /\ removal' \in Removal /\ removal'.at = "remove" /\ removal'.name = removal.name
          /\ removal'.todo = removal.todo \ {p} /\ removal'.kept = removal.kept \cup {p}
          /\ removal'.errs
      BY <1>0, <2>1, <2>4 DEF Removal
    <3>2. PcTypeOK'
      BY <1>0, <2>1, <2>4, <3>1 DEF PcTypeOK, Removal
    <3>3. CacheInv'
      BY <2>1, <2>2, <2>4, <3>1 DEF CacheInv, RemovalTruthful
    <3> QED  BY <3>2, <3>3 DEF PackagesOK
  <2> QED  BY <2>3, <2>4 DEF RemoveOne
<1>8. CASE EndRemoval
  <2>1. /\ removal.at = "remove" /\ removal.todo = {} /\ packages' = removal.kept
        /\ UNCHANGED <<provisioned, age, added>> /\ removal' = NoRemoval
        /\ removed' = [none |-> FALSE, ok |-> ~removal.errs, name |-> removal.name,
                       left |-> provisioned' \cap Matching[removal.name]]
    BY <1>8 DEF EndRemoval, Finish
  <2>2. /\ provisioned \ added \subseteq removal.kept
        /\ ~removal.errs => removal.kept \cap Matching[removal.name] = {}
    BY <2>1 DEF PackagesOK, CacheInv
  <2>3. PcTypeOK'
    BY <1>0, <2>1, PackagesRest DEF PcTypeOK, Removal
  <2>4. ~removal.errs => provisioned \cap Matching[removal.name] \subseteq added
    BY <2>2
  <2>5. RemovalTruthful'
    BY <2>1, <2>4 DEF RemovalTruthful
  <2>6. CacheInv'
    BY <2>1, <2>2, <2>5, PackagesRest DEF CacheInv
  <2> QED  BY <2>3, <2>6 DEF PackagesOK
<1> QED
  BY <1>1, <1>2, <1>3, <1>5, <1>6, <1>7, <1>8 DEF PcNext, PcStep

-----------------------------------------------------------------------------
(* Runs of commands.                                                       *)

\* What holds of a run.
PipesOK == CpTypeOK /\ PipeInv

\* What a line that is taken leaves of the pipe.
LEMMA TakeTyped ==
  ASSUME CpTypeOK, Take
  PROVE  /\ pipe' \in Seq(Line) /\ Len(pipe') <= PipeSize
         /\ Len(pipe') = Len(pipe) - 1 /\ Len(pipe) \in Nat \ {0}
BY ChildAssumption DEF CpTypeOK, Take

\* The child writes, ends or is killed.
LEMMA ChildOK ==
  ASSUME PipesOK, Exit \/ Expire \/ \E line \in Line : Write(line)
  PROVE  PipesOK'
<1>0. CpTypeOK /\ PipeInv
  BY DEF PipesOK
<1>1. ASSUME NEW line \in Line, Write(line)
      PROVE  PipesOK'
  <2>1. /\ child.left > 0 /\ Len(pipe) < PipeSize /\ pipe' = Append(pipe, line)
        /\ child' = [child EXCEPT !.left = @ - 1, !.wrote = @ + 1]
        /\ UNCHANGED <<reader, ran>>
    BY <1>1 DEF Write
  <2>2. /\ child.left \in 1..MaxOutput /\ child.wrote \in 0..MaxOutput /\ MaxOutput \in Nat
        /\ child.left + child.wrote <= MaxOutput /\ PipeSize \in Nat
    BY <1>0, <2>1, ChildAssumption DEF CpTypeOK, PipeInv
  <2>3. /\ child'.left = child.left - 1 /\ child'.wrote = child.wrote + 1
        /\ child'.exit = child.exit
        /\ child' \in [left : 0..MaxOutput, wrote : 0..MaxOutput,
                       exit : {"none", "ok", "error"}, hangs : BOOLEAN]
    <3>1. child.left - 1 \in 0..MaxOutput /\ child.wrote + 1 \in 0..MaxOutput
      BY <2>2
    <3>2. child \in [left : 0..MaxOutput, wrote : 0..MaxOutput,
                     exit : {"none", "ok", "error"}, hangs : BOOLEAN]
      BY <1>0 DEF CpTypeOK
    <3> QED  BY <2>1, <3>1, <3>2
  <2>4. pipe' \in Seq(Line) /\ Len(pipe') = Len(pipe) + 1 /\ Len(pipe) \in Nat
    BY <1>0, <2>1 DEF CpTypeOK
  <2>5. CpTypeOK'
    BY <1>0, <2>1, <2>2, <2>3, <2>4 DEF CpTypeOK
  <2>6. reader.got \in 0..MaxOutput
    BY <1>0 DEF CpTypeOK
  <2>7. child.exit = "none"
    BY <1>0, <2>1 DEF PipeInv
  <2>8. reader.at # "wait" /\ ran # "ok"
    BY <1>0, <2>7 DEF PipeInv
  <2>9. /\ reader.got + Len(pipe) <= child.wrote
        /\ ~reader.error => child.wrote = reader.got + Len(pipe)
        /\ reader.at = "drain" => reader.error
    BY <1>0 DEF PipeInv
  <2>10. /\ child'.left + child'.wrote <= MaxOutput
         /\ reader.got + Len(pipe') <= child'.wrote
         /\ ~reader.error => child'.wrote = reader.got + Len(pipe')
    <3>1. child'.left + child'.wrote <= MaxOutput
      BY <2>2, <2>3
    <3>2. reader.got + Len(pipe') <= child'.wrote
      BY <2>2, <2>3, <2>4, <2>6, <2>9
    <3>3. ASSUME ~reader.error PROVE child'.wrote = reader.got + Len(pipe')
      <4>1. child.wrote = reader.got + Len(pipe)
        BY <2>9, <3>3
      <4> QED  BY <2>2, <2>3, <2>4, <2>6, <4>1, SMTT(30)
    <3> QED  BY <3>1, <3>2, <3>3
  <2>11. PipeInv'
    BY <2>1, <2>3, <2>7, <2>8, <2>9, <2>10 DEF PipeInv
  <2> QED  BY <2>5, <2>11 DEF PipesOK
<1>2. CASE Exit
  <2>1. PICK x \in {"ok", "error"} : child' = [child EXCEPT !.exit = x]
    BY <1>2 DEF Exit
  <2>2. /\ child.left = 0 /\ child.exit = "none" /\ UNCHANGED <<pipe, reader, ran>>
    BY <1>2 DEF Exit
  <2>3. CpTypeOK'
    BY <1>0, <2>1, <2>2 DEF CpTypeOK
  <2>4. PipeInv'
    BY <1>0, <2>1, <2>2 DEF CpTypeOK, PipeInv
  <2> QED  BY <2>3, <2>4 DEF PipesOK
<1>3. CASE Expire
  <2>1. /\ reader.at # "idle" /\ reader' = [reader EXCEPT !.expired = TRUE]
        /\ UNCHANGED <<pipe, ran>>
        /\ child.exit = "none" => child' = [child EXCEPT !.left = 0, !.exit = "error"]
        /\ child.exit # "none" => child' = child
    BY <1>3 DEF Expire
  <2>2. /\ reader'.at = reader.at /\ reader'.got = reader.got /\ reader'.error = reader.error
        /\ child'.wrote = child.wrote /\ child'.exit # "none" /\ child'.left = 0
        /\ MaxOutput \in Nat
    BY <1>0, <2>1, ChildAssumption DEF CpTypeOK, PipeInv
  <2>3. child' \in [left : 0..MaxOutput, wrote : 0..MaxOutput,
                    exit : {"none", "ok", "error"}, hangs : BOOLEAN]
    <3>1. 0 \in 0..MaxOutput
      BY <2>2
    <3> QED  BY <1>0, <2>1, <3>1 DEF CpTypeOK
  <2>4. CpTypeOK'
    BY <1>0, <2>1, <2>3 DEF CpTypeOK
  <2>5. PipeInv'
    BY <1>0, <2>1, <2>2 DEF CpTypeOK, PipeInv
  <2> QED  BY <2>4, <2>5 DEF PipesOK
<1> QED  BY <1>1, <1>2, <1>3

\* The reader takes lines until the output ends, and then waits for the child.
LEMMA ReaderOK ==
  ASSUME PipesOK, Scan \/ Drain \/ Copy \/ Report
  PROVE  PipesOK'
<1>0. CpTypeOK /\ PipeInv /\ Len(pipe) \in Nat /\ UNCHANGED <<child, ran>>
  BY DEF PipesOK, CpTypeOK, Scan, Drain, Copy, Report
<1>1. reader.at \in {"stream", "output", "report", "drain"} /\ ran # "ok"
  BY <1>0 DEF Scan, Drain, Copy, Report, PipeInv
<1>2. ASSUME EOF, reader' = [reader EXCEPT !.at = "wait"], UNCHANGED pipe
      PROVE  PipesOK'
  <2>1. CpTypeOK'
    BY <1>0, <1>2 DEF CpTypeOK
  <2>2. PipeInv'
    BY <1>0, <1>1, <1>2 DEF CpTypeOK, PipeInv, EOF
  <2> QED  BY <2>1, <2>2 DEF PipesOK
<1>3. ASSUME Take, \/ reader' = [reader EXCEPT !.at = "drain", !.error = TRUE]
                   \/ reader' = [reader EXCEPT !.error = TRUE]
                   \/ reader' = reader /\ reader.error
      PROVE  PipesOK'
  <2>1. /\ pipe' \in Seq(Line) /\ Len(pipe') <= PipeSize
        /\ Len(pipe') = Len(pipe) - 1 /\ Len(pipe) \in Nat \ {0}
    BY <1>0, <1>3, TakeTyped
  <2>2. reader'.error /\ reader'.got = reader.got /\ reader'.at \in {reader.at, "drain"}
    BY <1>0, <1>3 DEF CpTypeOK
  <2>3. CpTypeOK'
    BY <1>0, <1>3, <2>1 DEF CpTypeOK
  <2>4. PipeInv'
    BY <1>0, <1>1, <2>1, <2>2 DEF CpTypeOK, PipeInv
  <2> QED  BY <2>3, <2>4 DEF PipesOK
<1>4. ASSUME Take, reader' = [reader EXCEPT !.got = @ + 1], reader.at # "drain"
      PROVE  PipesOK'
  <2>1. /\ pipe' \in Seq(Line) /\ Len(pipe') <= PipeSize
        /\ Len(pipe') = Len(pipe) - 1 /\ Len(pipe) \in Nat \ {0}
    BY <1>0, <1>4, TakeTyped
  <2>2. /\ reader.got \in 0..MaxOutput /\ child.wrote \in 0..MaxOutput /\ MaxOutput \in Nat
        /\ reader.got + Len(pipe) <= child.wrote
    BY <1>0, ChildAssumption DEF CpTypeOK, PipeInv
  <2>3. /\ reader'.got = reader.got + 1 /\ reader'.at = reader.at
        /\ reader'.error = reader.error /\ reader.got + 1 \in 0..MaxOutput
    BY <1>0, <1>4, <2>1, <2>2 DEF CpTypeOK
  <2>4. CpTypeOK'
    BY <1>0, <1>4, <2>1, <2>3 DEF CpTypeOK
  <2>5. PipeInv'
    BY <1>0, <1>1, <1>4, <2>1, <2>2, <2>3, SMTT(30) DEF PipeInv
  <2> QED  BY <2>4, <2>5 DEF PipesOK
<1>5. CASE Scan
  BY <1>2, <1>3, <1>4, <1>5 DEF Scan
<1>6. CASE Drain
  <2>1. reader.at = "drain" => reader.error
    BY <1>0 DEF PipeInv
  <2> QED  BY <1>2, <1>3, <1>6, <2>1 DEF Drain
<1>7. CASE Copy
  BY <1>2, <1>3, <1>4, <1>7 DEF Copy
<1>8. CASE Report
  <2>1. /\ reader.at = "report"
        /\ \/ EOF /\ reader' = [reader EXCEPT !.at = "wait"] /\ UNCHANGED pipe
           \/ Take /\ reader' = [reader EXCEPT !.at = "drain", !.error = TRUE]
           \/ Take /\ reader' = [reader EXCEPT !.error = TRUE]
           \/ Take /\ reader' = [reader EXCEPT !.got = @ + 1]
    BY <1>8 DEF Report
  <2> QED  BY <1>2, <1>3, <1>4, <2>1
<1> QED  BY <1>5, <1>6, <1>7, <1>8

\* Every step of a run keeps account of its output.
LEMMA ProcessSessionOK ==
  ASSUME PipesOK, CpNext
  PROVE  PipesOK'
<1>0. CpTypeOK /\ PipeInv
  BY DEF PipesOK
<1>1. ASSUME NEW how \in {"stream", "output", "report"}, NEW output \in 0..MaxOutput,
             NEW hangs \in BOOLEAN, Spawn(how, output, hangs)
      PROVE  PipesOK'
  <2>0. MaxOutput \in Nat /\ 0 \in 0..MaxOutput /\ PipeSize \in Nat
    BY ChildAssumption
  <2>1. pipe' = <<>> /\ pipe' \in Seq(Line) /\ Len(pipe') = 0
    BY <1>1 DEF Spawn
  <2>2. CASE /\ child' = [NoChild EXCEPT !.left = output, !.hangs = hangs]
             /\ reader' = [NoReader EXCEPT !.at = how, !.how = how] /\ ran' = "none"
    <3>1. CpTypeOK'
      <4>1. child' = [left |-> output, wrote |-> 0, exit |-> "none", hangs |-> hangs]
        BY <2>2 DEF NoChild
      <4>2. reader' = [at |-> how, how |-> how, got |-> 0, error |-> FALSE, expired |-> FALSE]
        BY <2>2 DEF NoReader
      <4>3. child' \in [left : 0..MaxOutput, wrote : 0..MaxOutput,
                        exit : {"none", "ok", "error"}, hangs : BOOLEAN]
        BY <2>0, <4>1
      <4>4. reader' \in [at : {"idle", "stream", "output", "report", "drain", "wait"},
                         how : {"stream", "output", "report"},
                         got : 0..MaxOutput, error : BOOLEAN, expired : BOOLEAN]
        BY <2>0, <4>2
      <4> QED  BY <2>0, <2>1, <2>2, <4>3, <4>4 DEF CpTypeOK
    <3>2. PipeInv'
      BY <2>0, <2>1, <2>2 DEF PipeInv, NoChild, NoReader
    <3> QED  BY <3>1, <3>2 DEF PipesOK
  <2>3. CASE child' = NoChild /\ reader' = NoReader /\ ran' = "error"
    <3>1. CpTypeOK'
      BY <2>0, <2>1, <2>3 DEF CpTypeOK, NoChild, NoReader
    <3>2. PipeInv'
      BY <2>0, <2>1, <2>3 DEF PipeInv, NoChild, NoReader
    <3> QED  BY <3>1, <3>2 DEF PipesOK
  <2> QED  BY <1>1, <2>2, <2>3 DEF Spawn
<1>2. CASE Wait
  <2>1. /\ reader.at = "wait" /\ child.exit # "none" /\ UNCHANGED <<child, pipe>>
        /\ reader' = [reader EXCEPT !.at = "idle"] /\ ran' \in {"ok", "error"}
        /\ ran' = "ok" => child.exit = "ok" /\ ~reader.error
    BY <1>2 DEF Wait
  <2>2. CpTypeOK'
    BY <1>0, <2>1 DEF CpTypeOK
  <2>3. PipeInv'
    BY <1>0, <2>1 DEF CpTypeOK, PipeInv
  <2> QED  BY <2>2, <2>3 DEF PipesOK
<1> QED  BY <1>1, <1>2, ChildOK, ReaderOK DEF CpNext, ChildStep, ReaderStep

-----------------------------------------------------------------------------
(* Network repairs.                                                        *)

\* What holds of network repairs.
NetworkOK == NrTypeOK /\ RepairInv

\* The type of a repair, and of what it returns.
Repair == [at : {"idle", "each", "add", "steps"}, second : BOOLEAN,
           todo : SUBSET Adapter, now : SUBSET Adapter, asked : SUBSET Adapter,
           failed : SUBSET Adapter, done : Seq(BOOLEAN), errs : BOOLEAN]
Repaired == [ok : BOOLEAN, kind : {"none", "dns", "reset"}, second : BOOLEAN,
             asked : SUBSET Adapter, failed : SUBSET Adapter, done : Seq(BOOLEAN)]

\* The resting repair and the empty result are well typed.
LEMMA RepairRest ==
  /\ NoRepair \in Repair /\ NoRepair.at = "idle" /\ NoRepair.now = {} /\ ~NoRepair.errs
  /\ NoRepair.failed = {} /\ NoRepair.done = <<>>
  /\ NotRepaired \in Repaired /\ NotRepaired.kind = "none"
<1>1. <<>> \in Seq(BOOLEAN)
  OBVIOUS
<1> QED  BY <1>1 DEF NoRepair, NotRepaired, Repair, Repaired

\* The servers an adapter can have are different from one another.
LEMMA ServersTyped ==
  /\ \A second \in BOOLEAN : Wanted(second) \in Servers
  /\ <<"dhcp">> \in Servers /\ <<"primary">> \in Servers /\ <<"secondary">> \in Servers
  /\ <<"primary", "secondary">> \in Servers /\ <<"dhcp">> # <<"primary">>
BY DEF Wanted, Servers

\* Every step of a repair, and of the programs beside it, keeps what was done true.
LEMMA NetworkSessionOK ==
  ASSUME NetworkOK, NrNext
  PROVE  NetworkOK'
<1>0. /\ NrTypeOK /\ RepairInv /\ repair \in Repair /\ repaired \in Repaired
      /\ dns \in [Adapter -> Servers] /\ up \subseteq Adapter /\ touched \subseteq Adapter
  BY DEF NetworkOK, NrTypeOK, Repair, Repaired
<1>1. ASSUME NEW a \in Adapter, Toggle(a)
      PROVE  NetworkOK'
  <2>1. NrTypeOK'
    BY <1>0, <1>1 DEF Toggle, NrTypeOK
  <2>2. RepairInv'
    BY <1>0, <1>1 DEF Toggle, RepairInv, NetworkReported
  <2> QED  BY <2>1, <2>2 DEF NetworkOK
<1>2. ASSUME NEW a \in Adapter, Reassign(a)
      PROVE  NetworkOK'
  <2>1. /\ dns' = [dns EXCEPT ![a] = <<"dhcp">>] /\ touched' = touched \cup {a}
        /\ UNCHANGED <<up, repair, repaired>>
    BY <1>2 DEF Reassign
  <2>2. /\ dns' \in [Adapter -> Servers] /\ touched' \subseteq Adapter
        /\ \A b \in Adapter : b \notin touched' => dns'[b] = dns[b]
    BY <1>0, <2>1, ServersTyped
  <2>3. NrTypeOK'
    BY <1>0, <2>1, <2>2 DEF NrTypeOK
  <2>4. repair.asked \subseteq Adapter /\ repair.now \subseteq Adapter
        /\ repaired.asked \subseteq Adapter
    BY <1>0 DEF Repair, Repaired
  <2>5. RepairInv'
    BY <1>0, <2>1, <2>2, <2>4 DEF RepairInv, NetworkReported
  <2> QED  BY <2>3, <2>5 DEF NetworkOK
<1>3. ASSUME NEW second \in BOOLEAN, BeginDns(second) \/ BeginNetworkReset
      PROVE  NetworkOK'
  <2>1. /\ touched' = {} /\ repaired' = NotRepaired /\ UNCHANGED <<up, dns>>
        /\ \/ repair' = [NoRepair EXCEPT !.at = "each", !.second = second, !.todo = up,
                                         !.asked = up]
           \/ repair' = [NoRepair EXCEPT !.at = "steps"]
    BY <1>3 DEF BeginDns, BeginNetworkReset
  <2>2. /\ repair' \in Repair /\ repair'.at \in {"each", "steps"} /\ repair'.now = {}
        /\ repair'.at = "each" => repair'.asked = repair'.todo
        /\ repair'.failed = {} /\ repair'.done = <<>>
    BY <1>0, <2>1, RepairRest, ZenonT(40) DEF Repair
  <2>3. NrTypeOK'
    BY <1>0, <2>1, <2>2, RepairRest DEF NrTypeOK, Repair, Repaired
  <2>4. RepairInv'
    BY <2>1, <2>2, RepairRest DEF RepairInv, NetworkReported
  <2> QED  BY <2>3, <2>4 DEF NetworkOK
\* An adapter is dealt with, or fails.
<1>4. ASSUME NEW a \in Adapter, repair.at \in {"each", "add"}, a \in repair.todo,
             UNCHANGED <<up, touched, repaired, dns>>, repair' = AdapterFails(a)
      PROVE  NetworkOK'
  <2>1. /\ repair' \in Repair /\ repair'.at = "each" /\ repair'.now = {}
        /\ repair'.second = repair.second /\ repair'.asked = repair.asked
        /\ repair'.todo = repair.todo \ {a} /\ repair'.failed = repair.failed \cup {a}
        /\ repair'.errs
    BY <1>0, <1>4 DEF AdapterFails, Repair
  <2>2. NrTypeOK'
    BY <1>0, <1>4, <2>1 DEF NrTypeOK, Repair
  <2>3. RepairInv'
    BY <1>0, <1>4, <2>1 DEF RepairInv, NetworkReported
  <2> QED  BY <2>2, <2>3 DEF NetworkOK
<1>5. ASSUME NEW a \in Adapter, repair.at \in {"each", "add"}, a \in repair.todo,
             NEW s \in Servers, dns' = [dns EXCEPT ![a] = s],
             a \in touched \/ s = Wanted(repair.second),
             UNCHANGED <<up, touched, repaired>>,
             repair' = [repair EXCEPT !.at = "each", !.todo = @ \ {a}, !.now = {}]
      PROVE  NetworkOK'
  <2>1. /\ repair' \in Repair /\ repair'.at = "each" /\ repair'.now = {}
        /\ repair'.second = repair.second /\ repair'.asked = repair.asked
        /\ repair'.todo = repair.todo \ {a} /\ repair'.failed = repair.failed
        /\ repair'.errs = repair.errs /\ repair'.done = repair.done
    BY <1>0, <1>5 DEF Repair
  <2>2. dns' \in [Adapter -> Servers] /\ dns'[a] = s
        /\ \A b \in Adapter : b # a => dns'[b] = dns[b]
    BY <1>0, <1>5
  <2>3. NrTypeOK'
    BY <1>0, <1>5, <2>1, <2>2 DEF NrTypeOK, Repair
  <2>4. repair.asked \subseteq Adapter
    BY <1>0 DEF Repair
  <2>5. repaired.kind = "none" /\ repaired' = repaired
    BY <1>0, <1>5 DEF RepairInv
  <2>6. \A b \in repair'.asked \ (repair'.todo \cup repair'.failed \cup touched') :
          dns'[b] = Wanted(repair'.second)
    BY <1>0, <1>5, <2>1, <2>2, <2>4 DEF RepairInv
  <2>7. RepairInv'
    BY <1>0, <2>1, <2>5, <2>6 DEF RepairInv, NetworkReported
  <2> QED  BY <2>3, <2>7 DEF NetworkOK
<1>6. ASSUME NEW a \in Adapter, SetPrimary(a)
      PROVE  NetworkOK'
  <2>1. repair.at = "each" /\ a \in repair.todo /\ UNCHANGED <<up, touched, repaired>>
    BY <1>6 DEF SetPrimary
  <2>2. CASE repair' = AdapterFails(a) /\ UNCHANGED dns
    BY <1>4, <2>1, <2>2
  <2>3. CASE /\ dns' = [dns EXCEPT ![a] = <<"primary">>] /\ ~repair.second
             /\ repair' = [repair EXCEPT !.todo = @ \ {a}]
    <3>2. /\ repair' \in Repair /\ repair'.at = "each" /\ repair'.now = repair.now
          /\ repair'.second = repair.second /\ repair'.asked = repair.asked
          /\ repair'.todo = repair.todo \ {a} /\ repair'.failed = repair.failed
          /\ repair'.errs = repair.errs /\ repair'.done = repair.done
      BY <1>0, <2>1, <2>3 DEF Repair
    <3>3. repair.now = {}
      BY <1>0, <2>1 DEF RepairInv
    <3>4. dns' \in [Adapter -> Servers] /\ dns'[a] = Wanted(repair.second)
          /\ \A b \in Adapter : b # a => dns'[b] = dns[b]
      BY <1>0, <2>3, ServersTyped DEF Wanted
    <3>5. NrTypeOK'
      BY <1>0, <2>1, <3>2, <3>3, <3>4 DEF NrTypeOK, Repair
    <3>6. repair.asked \subseteq Adapter /\ repaired.kind = "none" /\ repaired' = repaired
      BY <1>0, <2>1 DEF RepairInv, Repair
    <3>7. \A b \in repair'.asked \ (repair'.todo \cup repair'.failed \cup touched') :
            dns'[b] = Wanted(repair'.second)
      BY <1>0, <2>1, <3>2, <3>4, <3>6 DEF RepairInv
    <3>8. RepairInv'
      BY <1>0, <2>1, <3>2, <3>3, <3>6, <3>7 DEF RepairInv, NetworkReported
    <3> QED  BY <3>5, <3>8 DEF NetworkOK
  <2>4. CASE /\ dns' = [dns EXCEPT ![a] = <<"primary">>] /\ repair.second
             /\ repair' = [repair EXCEPT !.at = "add", !.now = {a}]
    <3>1. /\ repair' \in Repair /\ repair'.at = "add" /\ repair'.now = {a}
          /\ repair'.second = repair.second /\ repair'.asked = repair.asked
          /\ repair'.todo = repair.todo /\ repair'.failed = repair.failed
          /\ repair'.errs = repair.errs /\ repair'.done = repair.done
      BY <1>0, <2>1, <2>4 DEF Repair
    <3>2. dns' \in [Adapter -> Servers] /\ dns'[a] = <<"primary">>
          /\ \A b \in Adapter : b # a => dns'[b] = dns[b]
      BY <1>0, <2>4, ServersTyped
    <3>3. NrTypeOK'
      BY <1>0, <2>1, <3>1, <3>2 DEF NrTypeOK, Repair
    <3>4. repair.asked \subseteq Adapter /\ repaired.kind = "none" /\ repaired' = repaired
      BY <1>0, <2>1 DEF RepairInv, Repair
    <3>5. \A b \in repair'.asked \ (repair'.todo \cup repair'.failed \cup touched') :
            dns'[b] = Wanted(repair'.second)
      BY <1>0, <2>1, <3>1, <3>2, <3>4 DEF RepairInv
    <3>6. RepairInv'
      BY <1>0, <2>1, <2>4, <3>1, <3>2, <3>4, <3>5 DEF RepairInv, NetworkReported
    <3> QED  BY <3>3, <3>6 DEF NetworkOK
  <2> QED  BY <1>6, <2>2, <2>3, <2>4 DEF SetPrimary
<1>7. ASSUME NEW a \in Adapter, AddSecondary(a)
      PROVE  NetworkOK'
  <2>1. repair.at = "add" /\ a \in repair.now /\ UNCHANGED <<up, touched, repaired>>
    BY <1>7 DEF AddSecondary
  <2>2. a \in repair.todo /\ repair.second /\ (a \in touched \/ dns[a] = <<"primary">>)
    BY <1>0, <2>1 DEF NrTypeOK, RepairInv
  <2>3. CASE repair' = AdapterFails(a) /\ UNCHANGED dns
    BY <1>4, <2>1, <2>2, <2>3
  <2>4. CASE /\ dns' = [dns EXCEPT ![a] = IF @ = <<"dhcp">> THEN <<"secondary">>
                                          ELSE <<"primary", "secondary">>]
             /\ repair' = [repair EXCEPT !.at = "each", !.todo = @ \ {a}, !.now = {}]
    <3>1. PICK s : s = IF dns[a] = <<"dhcp">> THEN <<"secondary">>
                       ELSE <<"primary", "secondary">>
      OBVIOUS
    <3>2. s \in Servers /\ (a \in touched \/ s = Wanted(repair.second))
      BY <2>2, <3>1, ServersTyped DEF Wanted
    <3>3. dns' = [dns EXCEPT ![a] = s]
      BY <2>4, <3>1
    <3> QED  BY <1>5, <2>1, <2>2, <2>4, <3>2, <3>3
  <2> QED  BY <1>7, <2>3, <2>4 DEF AddSecondary
<1>8. CASE RunStep
  <2>1. PICK fails \in BOOLEAN :
          repair' = [repair EXCEPT !.done = Append(@, fails), !.errs = @ \/ fails]
    BY <1>8 DEF RunStep
  <2>2. repair.at = "steps" /\ UNCHANGED <<up, dns, touched, repaired>>
        /\ repair.done \in Seq(BOOLEAN)
    BY <1>0, <1>8 DEF RunStep, Repair
  <2>3. /\ repair'.at = "steps" /\ repair'.now = repair.now /\ repair'.todo = repair.todo
        /\ repair'.failed = repair.failed /\ repair'.done = Append(repair.done, fails)
        /\ repair'.errs = (repair.errs \/ fails) /\ repair' \in Repair
    <3>1. Append(repair.done, fails) \in Seq(BOOLEAN)
      BY <2>2
    <3>2. repair.errs \in BOOLEAN
      BY <1>0 DEF Repair
    <3>3. (repair.errs \/ fails) \in BOOLEAN
      BY <3>2
    <3> QED  BY <1>0, <2>1, <2>2, <3>1, <3>3 DEF Repair
  <2>4. NrTypeOK'
    BY <1>0, <2>2, <2>3 DEF NrTypeOK, Repair
  <2>5. ASSUME ~repair'.errs, NEW n \in DOMAIN repair'.done
        PROVE  ~repair'.done[n]
    <3>1. ~repair.errs /\ ~fails
      BY <2>3, <2>5
    <3>2. \A k \in DOMAIN repair.done : ~repair.done[k]
      BY <1>0, <3>1 DEF RepairInv
    <3>3. n \in 1..(Len(repair.done) + 1) /\ Len(repair.done) \in Nat
      BY <2>2, <2>3, <2>5
    <3>4. CASE n = Len(repair.done) + 1
      BY <2>2, <2>3, <3>1, <3>4
    <3>5. CASE n \in 1..Len(repair.done)
      BY <2>2, <2>3, <3>2, <3>5
    <3> QED  BY <3>3, <3>4, <3>5
  <2>6. RepairInv'
    BY <1>0, <2>2, <2>3, <2>5 DEF RepairInv, NetworkReported
  <2> QED  BY <2>4, <2>6 DEF NetworkOK
<1>9. CASE EndRepair
  <2>1. /\ repaired' = [ok |-> ~repair.errs,
                        kind |-> IF repair.at = "each" THEN "dns" ELSE "reset",
                        second |-> repair.second, asked |-> repair.asked,
                        failed |-> repair.failed, done |-> repair.done]
        /\ repair' = NoRepair /\ UNCHANGED <<up, dns, touched>>
        /\ \/ repair.at = "each" /\ repair.todo = {}
           \/ repair.at = "steps" /\ Len(repair.done) = Len(ResetSteps)
    BY <1>9 DEF EndRepair
  <2>2. /\ repaired' \in Repaired /\ repaired'.ok = ~repair.errs
        /\ repaired'.kind = (IF repair.at = "each" THEN "dns" ELSE "reset")
        /\ repaired'.second = repair.second /\ repaired'.asked = repair.asked
        /\ repaired'.failed = repair.failed /\ repaired'.done = repair.done
    BY <1>0, <2>1 DEF Repair, Repaired
  <2>3. NrTypeOK'
    BY <1>0, <2>1, <2>2, RepairRest DEF NrTypeOK, Repair, Repaired
  <2>4. repair.at = "each" =>
          \A a \in repair.asked \ (repair.failed \cup touched) : dns[a] = Wanted(repair.second)
    BY <1>0, <2>1 DEF RepairInv
  <2>5. ~repair.errs => repair.failed = {} /\ TRUE \notin Range(repair.done)
    BY <1>0 DEF RepairInv, Range
  <2>6. NetworkReported'
    BY <2>1, <2>2, <2>4, <2>5 DEF NetworkReported, Wanted
  <2>7. RepairInv'
    BY <2>1, <2>6, RepairRest DEF RepairInv
  <2> QED  BY <2>3, <2>7 DEF NetworkOK
<1> QED
  BY <1>1, <1>2, <1>3, <1>6, <1>7, <1>8, <1>9 DEF NrNext, NrStep

-----------------------------------------------------------------------------
(* Builds of an image.                                                     *)

\* What holds of a build.
ImageOK == IsoTypeOK /\ BuildInv

\* The type of a build, and of what it returns.
Build == [at : {"idle", "list", "create", "prepare", "export", "workdir", "copy",
                "swap", "pack", "cleanup"},
          wanted : SUBSET Edition, todo : SUBSET All, cleanup : Seq({"wim", "work"}),
          source : SUBSET All, iso : SUBSET All, err : BOOLEAN]
Built == [at : {"none", "returned"}, ok : BOOLEAN, wanted : SUBSET Edition, iso : SUBSET All]

\* The resting build and the empty result are well typed.
LEMMA BuildRest ==
  /\ NoBuild \in Build /\ NoBuild.at = "idle" /\ NoBuild.cleanup = <<>>
  /\ NoBuild.source = All /\ ~NoBuild.err
  /\ NotBuilt \in Built /\ NotBuilt.at = "none" /\ ~NotBuilt.ok
<1>1. <<>> \in Seq({"wim", "work"})
  OBVIOUS
<1> QED  BY <1>1 DEF NoBuild, NotBuilt, Build, Built

\* A path that is registered joins the others.
LEMMA Registered ==
  ASSUME NEW paths \in Seq({"wim", "work"}), NEW path \in {"wim", "work"}
  PROVE  /\ Append(paths, path) \in Seq({"wim", "work"})
         /\ path \in Range(Append(paths, path))
         /\ Range(paths) \subseteq Range(Append(paths, path))
<1>1. Append(paths, path) \in Seq({"wim", "work"}) /\ Len(paths) \in Nat
  OBVIOUS
<1>2. DOMAIN Append(paths, path) = 1..(Len(paths) + 1) /\ DOMAIN paths = 1..Len(paths)
  OBVIOUS
<1>3. Append(paths, path)[Len(paths) + 1] = path
  OBVIOUS
<1>4. \A i \in 1..Len(paths) : Append(paths, path)[i] = paths[i]
  OBVIOUS
<1> QED  BY <1>1, <1>2, <1>3, <1>4 DEF Range

\* The last path is among those registered, and the others stay.
LEMMA Unregistered ==
  ASSUME NEW paths \in Seq({"wim", "work"}), paths # <<>>
  PROVE  /\ Last(paths) \in {"wim", "work"} /\ Front(paths) \in Seq({"wim", "work"})
         /\ Range(paths) \subseteq Range(Front(paths)) \cup {Last(paths)}
<1>1. Len(paths) \in Nat \ {0} /\ DOMAIN paths = 1..Len(paths)
  OBVIOUS
<1>2. Last(paths) \in {"wim", "work"}
  BY <1>1 DEF Last
<1>3. /\ Front(paths) \in Seq({"wim", "work"}) /\ Len(Front(paths)) = Len(paths) - 1
      /\ \A i \in 1..(Len(paths) - 1) : Front(paths)[i] = paths[i]
  BY <1>1 DEF Front
<1>4. DOMAIN Front(paths) = 1..(Len(paths) - 1)
  BY <1>1, <1>3
<1>5. ASSUME NEW i \in 1..Len(paths)
      PROVE  paths[i] \in Range(Front(paths)) \cup {Last(paths)}
  <2>1. CASE i = Len(paths)
    BY <2>1 DEF Last
  <2>2. CASE i \in 1..(Len(paths) - 1)
    BY <1>3, <1>4, <2>2 DEF Range
  <2>3. i = Len(paths) \/ i \in 1..(Len(paths) - 1)
    <3>1. PICK n \in Nat : n = Len(paths)
      BY <1>1
    <3>2. i \in 1..n => i = n \/ i \in 1..(n - 1)
      BY <3>1
    <3> QED  BY <3>1, <3>2
  <2> QED  BY <2>1, <2>2, <2>3
<1>6. Range(paths) \subseteq Range(Front(paths)) \cup {Last(paths)}
  BY <1>1, <1>5 DEF Range
<1> QED  BY <1>2, <1>3, <1>6

\* An error leads to the clean-up of whatever is registered.
LEMMA BuildFails ==
  ASSUME ImageOK, Fails, build.at \notin {"idle", "cleanup"},
         temp' \subseteq temp \cup (Range(build.cleanup) \cap {"wim"})
  PROVE  ImageOK'
<1>0. /\ build \in Build /\ built \in Built /\ temp \subseteq {"wim", "work"} /\ BuildInv
      /\ IsoTypeOK
  BY DEF ImageOK, IsoTypeOK, Build, Built
<1>1. build' = [build EXCEPT !.at = "cleanup", !.err = TRUE] /\ UNCHANGED <<content, stuck, built>>
  BY DEF Fails
<1>2. /\ build' \in Build /\ build'.at = "cleanup" /\ build'.err
      /\ build'.cleanup = build.cleanup
  BY <1>0, <1>1 DEF Build
<1>3. temp' \subseteq {"wim", "work"}
  BY <1>0
<1>4. IsoTypeOK'
  BY <1>0, <1>1, <1>2, <1>3 DEF IsoTypeOK, Build
<1>5. temp' \subseteq Range(build'.cleanup) \cup stuck' /\ built' = built
      /\ built.at = "none" /\ ~built.ok
  BY <1>0, <1>1, <1>2 DEF BuildInv
<1>6. BuildInv'
  BY <1>2, <1>5 DEF BuildInv, IsoComplete
<1> QED  BY <1>4, <1>6 DEF ImageOK

\* A step of a build that goes well and is not yet the clean-up.
LEMMA BuildGoesOn ==
  ASSUME ImageOK, build.at \notin {"idle", "cleanup"},
         build' \in Build, build'.at \notin {"idle", "cleanup", "workdir"},
         build'.wanted = build.wanted, UNCHANGED <<stuck, built>>,
         content' \subseteq All, temp' \subseteq {"wim", "work"},
         temp' \subseteq Range(build'.cleanup),
         build'.at # "pack" => build.wanted # {},
         build'.at = "list" => FALSE,
         build'.at = "create" => build'.cleanup = <<>> /\ content' = {},
         build'.at \notin {"list", "create"} /\ build.wanted # {} => "wim" \in Range(build'.cleanup),
         build'.at \in {"create", "prepare"} =>
           content' = {} /\ build'.todo = Selected(build.wanted),
         build'.at = "export" => content' \cup build'.todo = Selected(build.wanted),
         build'.at \in {"copy", "swap"} => content' = Selected(build.wanted),
         build'.at = "pack" =>
           build'.source = IF build.wanted = {} THEN All ELSE Selected(build.wanted)
  PROVE  ImageOK'
<1>1. stuck = {} /\ built.at = "none" /\ ~built.ok
  BY DEF ImageOK, BuildInv
<1>2. IsoTypeOK'
  BY DEF ImageOK, IsoTypeOK, Build
<1>3. BuildInv'
  BY <1>1 DEF BuildInv, IsoComplete
<1> QED  BY <1>2, <1>3 DEF ImageOK

\* Every step of a build keeps account of the editions and of the temporary paths.
LEMMA ImageSessionOK ==
  ASSUME ImageOK, IsoNext
  PROVE  ImageOK'
<1>0. /\ build \in Build /\ built \in Built /\ BuildInv /\ IsoTypeOK
      /\ temp \subseteq {"wim", "work"} /\ stuck \subseteq {"wim", "work"} /\ content \subseteq All
      /\ build.cleanup \in Seq({"wim", "work"})
      /\ Selected(build.wanted) \subseteq All
  BY DEF ImageOK, IsoTypeOK, Build, Built, Selected
<1>a. build.at \notin {"idle", "cleanup"} => temp \subseteq Range(build.cleanup)
  BY <1>0 DEF BuildInv
<1>1. ASSUME NEW wanted \in SUBSET Edition, BeginBuild(wanted)
      PROVE  ImageOK'
  <2>1. build.at = "idle" /\ temp' = {} /\ content' = {} /\ stuck' = {}
    BY <1>1 DEF BeginBuild
  <2>2. CASE /\ build' = [NoBuild EXCEPT !.at = IF wanted = {} THEN "pack" ELSE "list",
                                         !.wanted = wanted]
             /\ built' = NotBuilt
    <3>1. /\ build' \in Build /\ build'.wanted = wanted /\ build'.cleanup = <<>>
          /\ build'.source = All /\ build'.at = IF wanted = {} THEN "pack" ELSE "list"
      BY <2>2, BuildRest DEF Build
    <3>2. IsoTypeOK'
      BY <2>1, <2>2, <3>1, BuildRest DEF IsoTypeOK, Build, Built
    <3>3. BuildInv'
      BY <2>1, <2>2, <3>1, BuildRest DEF BuildInv, IsoComplete
    <3> QED  BY <3>2, <3>3 DEF ImageOK
  <2>3. CASE /\ build' = NoBuild
             /\ built' = [at |-> "returned", ok |-> FALSE, wanted |-> wanted, iso |-> {}]
    <3>1. IsoTypeOK'
      BY <2>1, <2>3, BuildRest DEF IsoTypeOK, Build, Built
    <3>2. BuildInv'
      BY <2>1, <2>3, BuildRest DEF BuildInv, IsoComplete
    <3> QED  BY <3>1, <3>2 DEF ImageOK
  <2> QED  BY <1>1, <2>2, <2>3 DEF BeginBuild
<1>2. CASE ListEditions
  <2>1. build.at = "list" /\ temp' = temp
    BY <1>2 DEF ListEditions
  <2>2. CASE Fails
    BY <2>1, <2>2, BuildFails
  <2>3. CASE /\ build' = [build EXCEPT !.at = "create", !.todo = Selected(build.wanted)]
             /\ UNCHANGED <<content, stuck, built>>
    <3>1. /\ build' \in Build /\ build'.at = "create" /\ build'.wanted = build.wanted
          /\ build'.todo = Selected(build.wanted) /\ build'.cleanup = build.cleanup
      BY <1>0, <2>3 DEF Build
    <3>2. build.cleanup = <<>> /\ content = {} /\ build.wanted # {}
      BY <1>0, <2>1 DEF BuildInv
    <3> QED  BY <1>0, <1>a, <2>1, <2>3, <3>1, <3>2, BuildGoesOn
  <2> QED  BY <1>2, <2>2, <2>3 DEF ListEditions
<1>3. CASE CreateTemp
  <2>1. build.at = "create"
    BY <1>3 DEF CreateTemp
  <2>2. CASE Fails /\ UNCHANGED temp
    BY <2>1, <2>2, BuildFails
  <2>3. CASE /\ temp' = temp \cup {"wim"}
             /\ build' = [build EXCEPT !.at = "prepare", !.cleanup = Append(@, "wim")]
             /\ UNCHANGED <<content, stuck, built>>
    <3>1. /\ Append(build.cleanup, "wim") \in Seq({"wim", "work"})
          /\ "wim" \in Range(Append(build.cleanup, "wim"))
          /\ Range(build.cleanup) \subseteq Range(Append(build.cleanup, "wim"))
      BY <1>0, Registered
    <3>2. /\ build' \in Build /\ build'.at = "prepare" /\ build'.wanted = build.wanted
          /\ build'.todo = build.todo /\ build'.cleanup = Append(build.cleanup, "wim")
      BY <1>0, <2>3, <3>1 DEF Build
    <3>3. content = {} /\ build.wanted # {} /\ build.todo = Selected(build.wanted)
      BY <1>0, <2>1 DEF BuildInv
    <3> QED  BY <1>0, <1>a, <2>1, <2>3, <3>1, <3>2, <3>3, BuildGoesOn
  <2> QED  BY <1>3, <2>2, <2>3 DEF CreateTemp
<1>4. CASE Prepare
  <2>1. build.at = "prepare"
    BY <1>4 DEF Prepare
  <2>2. CASE Fails /\ UNCHANGED temp
    BY <2>1, <2>2, BuildFails
  <2>3. CASE /\ temp' = temp \ {"wim"} /\ build' = [build EXCEPT !.at = "export"]
             /\ UNCHANGED <<content, stuck, built>>
    <3>1. /\ build' \in Build /\ build'.at = "export" /\ build'.wanted = build.wanted
          /\ build'.todo = build.todo /\ build'.cleanup = build.cleanup
      BY <1>0, <2>3 DEF Build
    <3>2. content = {} /\ build.wanted # {} /\ build.todo = Selected(build.wanted)
          /\ "wim" \in Range(build.cleanup)
      BY <1>0, <2>1 DEF BuildInv
    <3> QED  BY <1>0, <1>a, <2>1, <2>3, <3>1, <3>2, BuildGoesOn
  <2> QED  BY <1>4, <2>2, <2>3 DEF Prepare
<1>5. CASE Export
  <2>1. build.at = "export"
    BY <1>5 DEF Export
  <2>2. /\ build.wanted # {} /\ content \cup build.todo = Selected(build.wanted)
        /\ "wim" \in Range(build.cleanup)
    BY <1>0, <2>1 DEF BuildInv
  <2>3. CASE Fails /\ temp' \in {temp, temp \cup {"wim"}}
    BY <2>1, <2>2, <2>3, BuildFails
  <2>4. CASE /\ temp' = temp \cup {"wim"}
             /\ \E i \in build.todo : /\ content' = content \cup {i}
                                      /\ build' = [build EXCEPT !.todo = @ \ {i}]
             /\ UNCHANGED <<stuck, built>>
    <3>1. PICK i \in build.todo : /\ content' = content \cup {i}
                                  /\ build' = [build EXCEPT !.todo = @ \ {i}]
      BY <2>4
    <3>2. /\ build' \in Build /\ build'.at = "export" /\ build'.wanted = build.wanted
          /\ build'.todo = build.todo \ {i} /\ build'.cleanup = build.cleanup
      BY <1>0, <2>1, <3>1 DEF Build
    <3>3. content' \cup build'.todo = Selected(build.wanted) /\ content' \subseteq All
      BY <1>0, <2>2, <3>1, <3>2
    <3> QED  BY <1>0, <1>a, <2>1, <2>2, <2>4, <3>2, <3>3, BuildGoesOn
  <2> QED  BY <1>5, <2>3, <2>4 DEF Export
<1>6. CASE MakeWorkDir
  <2>1. build.at = "export" /\ build.todo = {}
    BY <1>6 DEF MakeWorkDir
  <2>2. /\ build.wanted # {} /\ content = Selected(build.wanted)
        /\ "wim" \in Range(build.cleanup)
    BY <1>0, <2>1 DEF BuildInv
  <2>3. CASE Fails /\ UNCHANGED temp
    BY <2>1, <2>3, BuildFails
  <2>4. CASE /\ temp' = temp \cup {"work"}
             /\ build' = [build EXCEPT !.at = "copy", !.cleanup = Append(@, "work")]
             /\ UNCHANGED <<content, stuck, built>>
    <3>1. /\ Append(build.cleanup, "work") \in Seq({"wim", "work"})
          /\ "work" \in Range(Append(build.cleanup, "work"))
          /\ Range(build.cleanup) \subseteq Range(Append(build.cleanup, "work"))
      BY <1>0, Registered
    <3>2. /\ build' \in Build /\ build'.at = "copy" /\ build'.wanted = build.wanted
          /\ build'.cleanup = Append(build.cleanup, "work")
      BY <1>0, <2>4, <3>1 DEF Build
    <3> QED  BY <1>0, <1>a, <2>1, <2>2, <2>4, <3>1, <3>2, BuildGoesOn
  <2> QED  BY <1>6, <2>3, <2>4 DEF MakeWorkDir
<1>7. CASE CopySource
  <2>1. build.at = "copy" /\ temp' = temp
    BY <1>7 DEF CopySource
  <2>2. /\ build.wanted # {} /\ content = Selected(build.wanted)
        /\ "wim" \in Range(build.cleanup)
    BY <1>0, <2>1 DEF BuildInv
  <2>3. CASE Fails
    BY <2>1, <2>3, BuildFails
  <2>4. CASE /\ build' = [build EXCEPT !.at = "swap", !.source = {}]
             /\ UNCHANGED <<content, stuck, built>>
    <3>1. /\ build' \in Build /\ build'.at = "swap" /\ build'.wanted = build.wanted
          /\ build'.cleanup = build.cleanup
      BY <1>0, <2>4 DEF Build
    <3> QED  BY <1>0, <1>a, <2>1, <2>2, <2>4, <3>1, BuildGoesOn
  <2> QED  BY <1>7, <2>3, <2>4 DEF CopySource
<1>8. CASE SwapImage
  <2>1. build.at = "swap"
    BY <1>8 DEF SwapImage
  <2>2. /\ build.wanted # {} /\ content = Selected(build.wanted)
        /\ "wim" \in Range(build.cleanup)
    BY <1>0, <2>1 DEF BuildInv
  <2>3. CASE Fails /\ UNCHANGED temp
    BY <2>1, <2>3, BuildFails
  <2>4. CASE /\ temp' = temp \ {"wim"}
             /\ build' = [build EXCEPT !.at = "pack", !.source = content]
             /\ UNCHANGED <<content, stuck, built>>
    <3>1. /\ build' \in Build /\ build'.at = "pack" /\ build'.wanted = build.wanted
          /\ build'.cleanup = build.cleanup /\ build'.source = Selected(build.wanted)
      BY <1>0, <2>2, <2>4 DEF Build
    <3> QED  BY <1>0, <1>a, <2>1, <2>2, <2>4, <3>1, BuildGoesOn
  <2> QED  BY <1>8, <2>3, <2>4 DEF SwapImage
<1>9. CASE Pack
  <2>1. build.at = "pack" /\ temp' = temp
    BY <1>9 DEF Pack
  <2>2. CASE Fails
    BY <2>1, <2>2, BuildFails
  <2>3. CASE /\ build' = [build EXCEPT !.at = "cleanup", !.iso = build.source]
             /\ UNCHANGED <<content, stuck, built>>
    <3>1. /\ build' \in Build /\ build'.at = "cleanup" /\ build'.wanted = build.wanted
          /\ build'.cleanup = build.cleanup /\ build'.iso = build.source
          /\ build'.err = build.err
      BY <1>0, <2>3 DEF Build
    <3>2. IsoTypeOK'
      BY <1>0, <2>1, <2>3, <3>1 DEF IsoTypeOK, Build
    <3>3. /\ build.source = (IF build.wanted = {} THEN All ELSE Selected(build.wanted))
          /\ built.at = "none" /\ ~built.ok /\ stuck = {}
      BY <1>0, <2>1 DEF BuildInv
    <3>4. BuildInv'
      BY <1>a, <2>1, <2>3, <3>1, <3>3 DEF BuildInv, IsoComplete
    <3> QED  BY <3>2, <3>4 DEF ImageOK
  <2> QED  BY <1>9, <2>2, <2>3 DEF Pack
<1>10. CASE CleanUp
  <2>1. PICK path : path = Last(build.cleanup)
    OBVIOUS
  <2>2. /\ build.at = "cleanup" /\ build.cleanup # <<>> /\ UNCHANGED <<content, built>>
        /\ \/ /\ temp' = temp \ {path} /\ stuck' = stuck
              /\ build' = [build EXCEPT !.cleanup = Front(@)]
           \/ /\ temp' = temp /\ stuck' = stuck \cup {path}
              /\ build' = [build EXCEPT !.cleanup = Front(@), !.err = TRUE]
    BY <1>10, <2>1 DEF CleanUp
  <2>3. /\ path \in {"wim", "work"} /\ Front(build.cleanup) \in Seq({"wim", "work"})
        /\ Range(build.cleanup) \subseteq Range(Front(build.cleanup)) \cup {path}
    BY <1>0, <2>1, <2>2, Unregistered
  <2>4. /\ build' \in Build /\ build'.at = "cleanup" /\ build'.wanted = build.wanted
        /\ build'.iso = build.iso /\ build'.cleanup = Front(build.cleanup)
        /\ (stuck' = stuck /\ build'.err = build.err) \/ build'.err
    BY <1>0, <2>2, <2>3 DEF Build
  <2>5. IsoTypeOK'
    BY <1>0, <2>2, <2>3, <2>4 DEF IsoTypeOK, Build
  <2>6. /\ temp \subseteq Range(build.cleanup) \cup stuck /\ (stuck # {} => build.err)
        /\ built.at = "none" /\ ~built.ok
        /\ ~build.err => build.iso = IF build.wanted = {} THEN All ELSE Selected(build.wanted)
    BY <1>0, <2>2 DEF BuildInv
  <2>7. temp' \subseteq Range(build'.cleanup) \cup stuck'
    BY <2>2, <2>3, <2>4, <2>6
  <2>8. BuildInv'
    BY <2>2, <2>4, <2>6, <2>7 DEF BuildInv, IsoComplete
  <2> QED  BY <2>5, <2>8 DEF ImageOK
<1>11. CASE EndBuild
  <2>1. /\ build.at = "cleanup" /\ build.cleanup = <<>> /\ build' = NoBuild
        /\ built' = [at |-> "returned", ok |-> ~build.err, wanted |-> build.wanted,
                     iso |-> build.iso]
        /\ UNCHANGED <<temp, content, stuck>>
    BY <1>11 DEF EndBuild
  <2>2. IsoTypeOK'
    BY <1>0, <2>1, BuildRest DEF IsoTypeOK, Build, Built
  <2>3. /\ temp \subseteq stuck /\ (stuck # {} => build.err)
        /\ ~build.err => build.iso = IF build.wanted = {} THEN All ELSE Selected(build.wanted)
    BY <1>0, <2>1 DEF BuildInv, Range
  <2>4. IsoComplete'
    BY <2>1, <2>3 DEF IsoComplete
  <2>5. BuildInv'
    BY <2>1, <2>4, BuildRest DEF BuildInv
  <2> QED  BY <2>2, <2>5 DEF ImageOK
<1> QED
  BY <1>1, <1>2, <1>3, <1>4, <1>5, <1>6, <1>7, <1>8, <1>9, <1>10, <1>11 DEF IsoNext, IsoStep

-----------------------------------------------------------------------------
(* All sessions.                                                           *)

\* What holds of every component.
Sound == session \in Session /\ ResetOK /\ PackagesOK /\ PipesOK /\ NetworkOK /\ ImageOK

\* What a component holds is about its own variables: it stands still in another's session.
LEMMA StandStill ==
  /\ ResetOK /\ UNCHANGED <<session, resetVars>> => ResetOK'
  /\ PackagesOK /\ UNCHANGED pcVars => PackagesOK'
  /\ PipesOK /\ UNCHANGED cpVars => PipesOK'
  /\ NetworkOK /\ UNCHANGED nrVars => NetworkOK'
  /\ ImageOK /\ UNCHANGED isoVars => ImageOK'
<1>1. ASSUME ResetOK, UNCHANGED <<session, resetVars>>
      PROVE  ResetOK'
  <2>1. UNCHANGED <<session, svc, mode, call, expired, seen, reply, reset, cache, tried, outcome>>
    BY <1>1 DEF resetVars, scVars
  <2>2. CallsOK' /\ ResetTypeOK'
    BY <1>1, <2>1 DEF ResetOK, CallsOK, ScTypeOK, CallInv, ReplyInv, RepliesSeen, ResetTypeOK
  <2>3. ResetInv'
    BY <1>1, <2>1 DEF ResetOK, ResetInv, ServicesBroughtBack, Concerns, AllSeen
  <2> QED  BY <2>2, <2>3 DEF ResetOK
<1>2. ASSUME PackagesOK, UNCHANGED pcVars
      PROVE  PackagesOK'
  BY <1>2 DEF pcVars, PackagesOK, PcTypeOK, CacheInv, RemovalTruthful
<1>3. ASSUME PipesOK, UNCHANGED cpVars
      PROVE  PipesOK'
  BY <1>3 DEF cpVars, PipesOK, CpTypeOK, PipeInv
<1>4. ASSUME NetworkOK, UNCHANGED nrVars
      PROVE  NetworkOK'
  BY <1>4 DEF nrVars, NetworkOK, NrTypeOK, RepairInv, NetworkReported
<1>5. ASSUME ImageOK, UNCHANGED isoVars
      PROVE  ImageOK'
  BY <1>5 DEF isoVars, ImageOK, IsoTypeOK, BuildInv, IsoComplete
<1> QED  BY <1>1, <1>2, <1>3, <1>4, <1>5

\* In the first state nothing has been done, and nothing is claimed.
LEMMA Beginning == Init => Sound
<1> SUFFICES ASSUME Init PROVE Sound
  OBVIOUS
<1>1. session \in Session /\ ResetInit /\ PcInit /\ CpInit /\ NrInit /\ IsoInit
  BY DEF Init
<1>2. ResetOK
  <2>1. /\ svc \in [Service -> {"Running", "Stopped"}] /\ mode = [s \in Service |-> "auto"]
        /\ call = Idle /\ expired = FALSE /\ seen = [s \in Service |-> NoState]
        /\ reply = NoReply
    BY <1>1 DEF ResetInit, ScInit
  <2>2. svc \in [Service -> State] /\ mode \in [Service -> StartMode]
        /\ seen \in [Service -> State \cup {NoState}]
    BY <2>1 DEF State, StartMode
  <2>3. ScTypeOK
    BY <2>1, <2>2, RestTyped DEF ScTypeOK, Call
  <2>4. CallInv /\ ReplyInv
    BY <2>1, RestTyped DEF CallInv, ReplyInv, RepliesSeen
  <2>5. reset = AtRest /\ cache \in SUBSET {"dir", "bak"} /\ tried = {} /\ outcome = "none"
    BY <1>1 DEF ResetInit
  <2>6. /\ AtRest \in [at : {"idle", "stopping", "cleaning", "moving", "starting"},
                       i : 0..Len(StopOrder) + 1, failed : BOOLEAN, stopFailed : BOOLEAN]
        /\ AtRest.at = "idle"
    BY OrderAssumption DEF AtRest
  <2>7. ResetTypeOK
    BY <2>3, <2>5, <2>6 DEF ResetTypeOK
  <2>8. ResetInv
    BY <2>1, <2>5, <2>6, RestTyped DEF ResetInv, ServicesBroughtBack
  <2> QED  BY <2>3, <2>4, <2>7, <2>8 DEF ResetOK, CallsOK
<1>3. PackagesOK
  BY <1>1, PackagesRest, ProvisionedAssumption
     DEF PcInit, PackagesOK, PcTypeOK, Removal, CacheInv, RemovalTruthful
<1>4. PipesOK
  <2>1. CpTypeOK
    BY <1>1, ChildAssumption DEF CpInit, CpTypeOK, NoChild, NoReader
  <2>2. PipeInv
    BY <1>1, ChildAssumption DEF CpInit, PipeInv, NoChild, NoReader
  <2> QED  BY <2>1, <2>2 DEF PipesOK
<1>5. NetworkOK
  <2>1. dns \in [Adapter -> Servers]
    BY <1>1, ServersTyped DEF NrInit
  <2>2. NrTypeOK
    BY <1>1, <2>1, RepairRest DEF NrInit, NrTypeOK, Repair, Repaired
  <2>3. RepairInv
    BY <1>1, RepairRest DEF NrInit, RepairInv, NetworkReported
  <2> QED  BY <2>2, <2>3 DEF NetworkOK
<1>6. ImageOK
  <2>1. IsoTypeOK
    BY <1>1, BuildRest DEF IsoInit, IsoTypeOK, Build, Built
  <2>2. BuildInv
    BY <1>1, BuildRest DEF IsoInit, BuildInv, IsoComplete
  <2> QED  BY <2>1, <2>2 DEF ImageOK
<1> QED  BY <1>1, <1>2, <1>3, <1>4, <1>5, <1>6 DEF Sound

\* Every step keeps what holds of every component.
LEMMA Stepwise == Sound /\ [Next]_vars => Sound'
<1> SUFFICES ASSUME Sound, [Next]_vars PROVE Sound'
  OBVIOUS
<1>0. session \in Session /\ ResetOK /\ PackagesOK /\ PipesOK /\ NetworkOK /\ ImageOK
  BY DEF Sound
<1>1. CASE ServiceSession
  BY <1>0, <1>1, ServiceSessionOK, StandStill DEF ServiceSession, Sound
<1>2. CASE ResetSession
  BY <1>0, <1>2, ResetSessionOK, StandStill DEF ResetSession, Sound
<1>3. CASE PackageSession
  BY <1>0, <1>3, PackageSessionOK, StandStill DEF PackageSession, Sound
<1>4. CASE ProcessSession
  BY <1>0, <1>4, ProcessSessionOK, StandStill DEF ProcessSession, Sound
<1>5. CASE NetworkSession
  BY <1>0, <1>5, NetworkSessionOK, StandStill DEF NetworkSession, Sound
<1>6. CASE ImageSession
  BY <1>0, <1>6, ImageSessionOK, StandStill DEF ImageSession, Sound
<1>7. CASE UNCHANGED vars
  BY <1>0, <1>7, StandStill DEF vars, Sound
<1> QED  BY <1>1, <1>2, <1>3, <1>4, <1>5, <1>6, <1>7 DEF Next

\* So every component keeps what holds of it for ever.
LEMMA AlwaysSound == Spec => []Sound
BY Beginning, Stepwise, PTL DEF Spec

\* The state of every component is well typed.
THEOREM RepairTypes == Spec => []TypeOK
<1>1. Sound => TypeOK
  BY DEF Sound, TypeOK, ResetOK, PackagesOK, PipesOK, NetworkOK, ImageOK
<1> QED  BY <1>1, AlwaysSound, PTL

\* A control is sent to a service only over a handle opened with the right for it, however
\* the service moves between the looks of Start and Stop.
THEOREM HandlesSuffice == Spec => []ControlRights
<1>1. Sound => ControlRights
  <2> SUFFICES ASSUME Sound, call.at = "control" PROVE Needed \in call.rights
    BY DEF ControlRights
  <2>1. /\ call.op \in {"start", "stop"} /\ call.rights = Rights(call.op, call.observed)
        /\ call.op = "start" =>
             seen[call.name] = call.observed /\ call.observed \in {"Stopped", "Paused"}
    BY DEF Sound, ResetOK, CallsOK, CallInv
  <2>2. CASE call.op = "stop"
    BY <2>1, <2>2 DEF Needed, Rights
  <2>3. CASE call.op = "start" /\ call.observed = "Paused"
    BY <2>1, <2>3 DEF Needed, Rights
  <2>4. CASE call.op = "start" /\ call.observed = "Stopped"
    BY <2>1, <2>4 DEF Needed, Rights
  <2> QED  BY <2>1, <2>2, <2>3, <2>4
<1> QED  BY <1>1, AlwaysSound, PTL

\* Start and Stop report success only after the service showed the wanted state.
THEOREM SuccessSeen == Spec => []RepliesSeen
<1>1. Sound => RepliesSeen
  BY DEF Sound, ResetOK, CallsOK, ReplyInv
<1> QED  BY <1>1, AlwaysSound, PTL

\* A reset tries to start every service again, and success means each was seen running.
THEOREM ResetRestarts == Spec => []ServicesBroughtBack
<1>1. Sound => ServicesBroughtBack
  BY DEF Sound, ResetOK, ResetInv
<1> QED  BY <1>1, AlwaysSound, PTL

\* A removal of provisioned packages that reports success left none of them, but for those
\* that came since the list was read.
THEOREM RemovalsHold == Spec => []RemovalTruthful
<1>1. Sound => RemovalTruthful
  BY DEF Sound, PackagesOK, CacheInv
<1> QED  BY <1>1, AlwaysSound, PTL

\* A command, a network repair and a build report success only of what they did.
THEOREM ReportsHold == Spec => []OutcomesReported
<1>1. Sound => OutcomesReported
  <2> SUFFICES ASSUME Sound PROVE OutcomesReported
    OBVIOUS
  <2>1. NetworkReported /\ IsoComplete /\ PipeInv /\ CpTypeOK
    BY DEF Sound, NetworkOK, RepairInv, ImageOK, BuildInv, PipesOK
  <2>2. ran = "ok" => child.wrote = reader.got + 0 /\ child.exit = "ok"
    BY <2>1 DEF PipeInv
  <2>3. OutputComplete
    BY <2>1, <2>2 DEF OutputComplete, CpTypeOK
  <2> QED  BY <2>1, <2>3 DEF OutcomesReported
<1> QED  BY <1>1, AlwaysSound, PTL

\* The cache of Windows Update is moved aside only by a reset that has seen every one of its
\* services stopped.
THEOREM CacheStandsStill == Spec => CacheMovedWhenStopped
<1> DEFINE Moved == cache # {"bak"} /\ cache' = {"bak"} /\ "dir" \in cache
           Quiet == \A i \in DOMAIN StopOrder : seen[StopOrder[i]] = "Stopped"
<1>1. Sound /\ [Next]_vars => [Moved => Quiet]_resetVars
  <2> SUFFICES ASSUME Sound, [Next]_vars, Moved PROVE Quiet
    OBVIOUS
  <2>1. cache' # cache
    OBVIOUS
  <2>2. ResetSession /\ ResetNext
    BY <2>1 DEF Next, vars, ServiceSession, ResetSession, PackageSession, ProcessSession,
                NetworkSession, ImageSession, own, resetVars
  <2>3. MoveCache
    BY <2>1, <2>2 DEF ResetNext, ResetStep, ServiceStep, own, BeginReset, StopNext, Calls,
                      Stopped, AllStopped, RemoveBackup, StartNext, Started, EndReset, Recreate
  <2> QED  BY <2>3 DEF MoveCache, Sound, ResetOK, ResetInv
<1> QED  BY <1>1, AlwaysSound, PTL DEF Spec, CacheMovedWhenStopped

=============================================================================
