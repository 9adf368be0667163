---------------------------- MODULE WindowsCalls ----------------------------
(***************************************************************************)
(* The operations that talk to COM and to the Windows Runtime side by      *)
(* side: restore points with and without their throttle, Windows Update,   *)
(* and the removal of Appx packages.  Every one of them pins a thread and  *)
(* keeps its objects to itself, so a behaviour is a session of one kind;   *)
(* creating and listing restore points, which share the process's COM      *)
(* security, overlap in a session.                                         *)
(***************************************************************************)
EXTENDS RestoreThrottle, UpdateClient, AppxRemoval

VARIABLE session

vars == <<session, throttleVars, ucVars, arVars>>

Session == {"restore", "throttle", "updates", "appx"}

OnlyUpdates == <<updates, client, answer>>
OnlyAppx == <<installed, async, removal, again, removed>>
OnlyRestore == <<points, policy, security, once, rp, created, listed>>
OnlyThrottle == <<now, logger, last, asker, reply, successes>>

TypeOK == session \in Session /\ RpTypeOK /\ ThrottleTypeOK /\ UcTypeOK /\ ArTypeOK

\* What a session does not use starts in one state.
Init == /\ session \in Session
        /\ ThrottleInit /\ UcInit /\ ArInit
        /\ session # "updates" => Missing = {}
        /\ session # "throttle" => logger

RestoreSession == /\ session = "restore"
                  /\ UNCHANGED <<session, OnlyThrottle, OnlyUpdates, OnlyAppx>>
                  /\ RpNext

ThrottleSession == /\ session = "throttle"
                   /\ UNCHANGED <<session, OnlyUpdates, OnlyAppx>>
                   /\ ThrottleNext

UpdateSession == /\ session = "updates"
                 /\ UNCHANGED <<session, OnlyRestore, OnlyThrottle, OnlyAppx>>
                 /\ UcNext

AppxSession == /\ session = "appx"
               /\ UNCHANGED <<session, OnlyRestore, OnlyThrottle, OnlyUpdates>>
               /\ ArNext

Next == RestoreSession \/ ThrottleSession \/ UpdateSession \/ AppxSession

\* The program goes on and time passes.  What Windows does asynchronously may never end.
Fairness == RpFairness /\ WF_throttleVars(EndCreate) /\ WF_ucVars(UcStep) /\ ArFairness

Spec == Init /\ [][Next]_vars /\ Fairness

-----------------------------------------------------------------------------

Idle(o) == CASE o = "create" -> rp["create"].at = "idle" /\ asker.at = "idle"
             [] o = "list" -> rp["list"].at = "idle"
             [] o = "update" -> client.at = "idle"
             [] o = "appx" -> removal.at = "idle"

\* Every object, string, buffer, apartment and thread is given back exactly once, in an order
\* that works, and none is left when the operation has returned, whichever call of it failed.
ComReleased == OrderlyRelease /\ \A o \in Operation : Idle(o) => NothingHeld(o)

\* Success is reported only for what Windows has done, and what could not be read or finished
\* is an error: restore points created and listed, updates found and installed, packages
\* removed.
CallsTruthful == RestorePointsTruthful /\ UpdatesTruthful /\ AppxTruthful

\* Every operation returns, although a provider may go on listing restore points for ever and
\* the removal of a package may never end.  But for creating and listing restore points there
\* is one operation in a session.
CallsEnd ==
    LET Idles(O) == \A o \in O : Idle(o)
    IN  /\ ~Idle("list") ~> Idle("list")
        /\ ~Idles(Operation \ {"list"}) ~> Idles(Operation \ {"list"})
=============================================================================
