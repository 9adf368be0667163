---------------------------- MODULE AppxRemoval ----------------------------
(***************************************************************************)
(* Removing the current user's packages of one identity through the        *)
(* Windows Runtime (internal/maintenance/appx_windows.go): the packages    *)
(* are enumerated, and each match is removed by an asynchronous operation  *)
(* that is polled until it ends, is cancelled after a time-out and is      *)
(* closed only when it has ended.                                          *)
(***************************************************************************)
EXTENDS ComObjects, FiniteSets

CONSTANTS
    AppxPackage,  \* full names of packages
    Wanted,       \* those that match the identity to be removed
    Main,         \* those of them that are no resource packages
    MaxPackages,  \* packages an enumeration looks at
    MaxMatched    \* matching packages that are accepted

ASSUME AppxAssumption == /\ Wanted \subseteq AppxPackage /\ Main \subseteq Wanted
                         /\ MaxPackages \in Nat /\ MaxMatched \in Nat

VARIABLES
    installed,  \* the user's packages
    async,      \* the asynchronous operation: its status, and whether it was closed
    removal,    \* the removal in progress
    again,      \* history: packages that others installed since it began
    removed     \* what the last removal returned

arVars == <<installed, async, removal, again, removed, comVars>>

Self == "appx"

Ended == {"completed", "canceled", "error"}

NoAsync == [status |-> "none", missing |-> FALSE, gone |-> FALSE, canceling |-> FALSE,
            closed |-> FALSE]
NoRemoval == [at |-> "idle", n |-> 0, feed |-> {}, snapshot |-> {}, pkg |-> {}, names |-> <<>>,
              time |-> "waiting", err |-> FALSE]
NotRemoved == [at |-> "none", err |-> FALSE, asked |-> {}]

ArTypeOK ==
    /\ ComTypeOK
    /\ installed \subseteq AppxPackage /\ again \subseteq AppxPackage
    /\ async \in [status : Ended \cup {"none", "started"}, missing : BOOLEAN,
                  gone : BOOLEAN, canceling : BOOLEAN, closed : BOOLEAN]
    /\ removal.at \in {"idle", "enter", "obtain", "enumerate", "has", "id", "read", "found",
                       "names", "operation", "info", "poll", "result", "read result", "end",
                       "leave"}
    /\ removal.n \in 0..(MaxPackages + 2) /\ removal.names \in Seq(Wanted)
    /\ removal.feed \subseteq removal.snapshot /\ removal.snapshot \subseteq AppxPackage
    /\ removal.pkg \subseteq AppxPackage
    /\ removal.time \in {"waiting", "late", "canceling", "overdue"} /\ removal.err \in BOOLEAN
    /\ removed.at \in {"none", "returned"} /\ removed.err \in BOOLEAN

ArInit ==
    /\ ComInit
    /\ installed = AppxPackage /\ again = {} /\ async = NoAsync
    /\ removal = NoRemoval /\ removed = NotRemoved

GoTo(place) == removal' = [removal EXCEPT !.at = place]
GiveUp == removal' = [removal EXCEPT !.at = "leave", !.err = TRUE]

-----------------------------------------------------------------------------
(* Windows.                                                                *)

\* Another program installs a package again, or removes one, as an operation does that was
\* given up before it ended.
Reinstall(p) ==
    /\ p \notin installed
    /\ installed' = installed \cup {p} /\ again' = again \cup {p}
    /\ UNCHANGED <<async, removal, removed, comVars>>

Uninstall(p) ==
    /\ p \in installed /\ installed' = installed \ {p}
    /\ UNCHANGED <<async, removal, again, removed, comVars>>

\* The resource packages go with the main package.
Without(p) == IF p \in Main THEN installed \ Wanted ELSE installed \ {p}

\* The operation ends.  "completed" does not mean that the package is gone.
AsyncEnds ==
    /\ async.status = "started"
    /\ LET p == Head(removal.names)
       IN  \/ /\ async' = [async EXCEPT !.status = "completed", !.gone = TRUE]
              /\ installed' = Without(p)
           \/ /\ async' = [async EXCEPT !.status = "completed"] /\ UNCHANGED installed
           \/ /\ \E missing \in {p \notin installed, FALSE} :
                   async' = [async EXCEPT !.status = "error", !.missing = missing]
              /\ UNCHANGED installed
           \/ async' = [async EXCEPT !.status = "canceled"] /\ UNCHANGED installed
    /\ UNCHANGED <<removal, again, removed, comVars>>

\* Ten minutes for the operation, then thirty seconds for its cancellation.
TimePassesAppx ==
    /\ removal.at = "poll" /\ async.status = "started"
    /\ \/ removal.time = "waiting" /\ removal' = [removal EXCEPT !.time = "late"]
       \/ removal.time = "canceling" /\ removal' = [removal EXCEPT !.time = "overdue"]
    /\ UNCHANGED <<installed, async, again, removed, comVars>>

-----------------------------------------------------------------------------
(* Finding the packages.                                                   *)

BeginRemoval ==
    /\ removal.at = "idle"
    /\ removal' = [NoRemoval EXCEPT !.at = "enter"]
    /\ again' = {} /\ async' = NoAsync /\ removed' = NotRemoved
    /\ UNCHANGED <<installed, comVars>>

EnterRuntime ==
    /\ removal.at = "enter"
    /\ \/ /\ held' = [held EXCEPT ![Self]["thread"] = @ + 1, ![Self]["apartment"] = @ + 1]
          /\ deferred' = [deferred EXCEPT ![Self] = @ \o <<"thread", "apartment">>]
          /\ GoTo("obtain")
       \/ GiveUp /\ UNCHANGED comVars
    /\ UNCHANGED <<installed, async, again, removed>>

ManagerObjects == <<"classID", "inspectable", "pm">>

ObtainManager ==
    /\ removal.at = "obtain"
    /\ \/ /\ Obtain(Self, ManagerObjects[removal.n + 1])
          /\ removal' = IF removal.n = 2 THEN [removal EXCEPT !.at = "enumerate", !.n = 0]
                        ELSE [removal EXCEPT !.n = @ + 1]
       \/ GiveUp /\ UNCHANGED comVars
    /\ UNCHANGED <<installed, async, again, removed>>

\* findPackageFullNames has deferred calls of its own.
BeginFind ==
    /\ removal.at = "enumerate" /\ removal.n = 0
    /\ \/ /\ held' = [held EXCEPT ![Self]["currentUser"] = @ + 1]
          /\ deferred' = [deferred EXCEPT ![Self] = @ \o <<"call", "currentUser">>]
          /\ removal' = [removal EXCEPT !.n = 1]
       \/ GiveUp /\ UNCHANGED comVars
    /\ UNCHANGED <<installed, async, again, removed>>

Enumerate ==
    /\ removal.at = "enumerate" /\ removal.n > 0
    /\ \/ /\ removal.n = 1 /\ Obtain(Self, "iterable")
          /\ removal' = [removal EXCEPT !.n = 2, !.feed = installed, !.snapshot = installed]
       \/ /\ removal.n = 2 /\ Obtain(Self, "iterator")
          /\ removal' = [removal EXCEPT !.at = "has", !.n = 0]
       \/ GiveUp /\ UNCHANGED comVars
    /\ UNCHANGED <<installed, async, again, removed>>

\* HasCurrent and Current, for so many packages at most; what MoveNext answered does not
\* matter, so a broken iterator may come back to a package it has had.
HasCurrent ==
    /\ removal.at = "has"
    /\ \/ GiveUp /\ UNCHANGED comVars
       \/ /\ removal.n < MaxPackages /\ removal.feed = {}
          /\ GoTo("found") /\ UNCHANGED comVars
       \/ /\ removal.n < MaxPackages /\ Take(Self, "pkg")
          /\ \E p \in removal.snapshot :
               removal' = [removal EXCEPT !.at = "id", !.n = @ + 1, !.pkg = {p},
                                          !.feed = @ \ {p}]
    /\ UNCHANGED <<installed, async, again, removed>>

\* readPackageIdentity
GetId ==
    /\ removal.at = "id"
    /\ \/ Take(Self, "id") /\ GoTo("read")
       \/ Give(Self, "pkg") /\ GiveUp
    /\ UNCHANGED <<installed, async, again, removed>>

\* A main package comes before the others.
Matched(names, p) == IF p \notin Wanted \/ p \in Range(names) THEN names
                     ELSE IF p \in Main THEN <<p>> \o names
                     ELSE Append(names, p)

ReadIdentity ==
    /\ removal.at = "read"
    /\ held' = [held EXCEPT ![Self]["id"] = @ - 1, ![Self]["pkg"] = @ - 1]
    /\ UNCHANGED deferred
    /\ \/ GiveUp
       \/ \E p \in removal.pkg :
            /\ Len(Matched(removal.names, p)) <= MaxMatched
            /\ removal' = [removal EXCEPT !.at = "has", !.pkg = {},
                                          !.names = Matched(@, p)]
    /\ UNCHANGED <<installed, async, again, removed>>

EndFind == /\ removal.at = "found" /\ Returned(Self)
           /\ GoTo("names")
           /\ UNCHANGED <<installed, async, again, removed>>

-----------------------------------------------------------------------------
(* removePackageByFullName                                                 *)

\* The removal of one package is over, well or not.
Ends(err) == removal' = [removal EXCEPT !.at = "end", !.err = @ \/ err]

NextName ==
    /\ removal.at = "names"
    /\ IF removal.names = <<>> THEN GoTo("leave") /\ UNCHANGED comVars
       ELSE \/ /\ held' = [held EXCEPT ![Self]["pkgName"] = @ + 1]
               /\ deferred' = [deferred EXCEPT ![Self] = @ \o <<"call", "pkgName">>]
               /\ removal' = [removal EXCEPT !.at = "operation", !.time = "waiting"]
            \/ /\ UNCHANGED comVars
               /\ removal' = [removal EXCEPT !.names = Tail(@), !.err = TRUE]
    /\ async' = NoAsync
    /\ UNCHANGED <<installed, again, removed>>

\* A package that is not there any more counts as removed.
StartAsync ==
    /\ removal.at = "operation"
    /\ \/ Head(removal.names) \notin installed /\ Ends(FALSE) /\ UNCHANGED <<async, comVars>>
       \/ Ends(TRUE) /\ UNCHANGED <<async, comVars>>
       \/ /\ Obtain(Self, "op") /\ GoTo("info")
          /\ async' = [NoAsync EXCEPT !.status = "started"]
    /\ UNCHANGED <<installed, again, removed>>

GetInfo ==
    /\ removal.at = "info"
    /\ \/ Obtain(Self, "info") /\ GoTo("poll")
       \/ Ends(TRUE) /\ UNCHANGED comVars
    /\ UNCHANGED <<installed, async, again, removed>>

TimedOut == removal.time # "waiting"

\* Mutant: the operation is closed however the waiting ended.
PollFailsClosing ==
    /\ removal.at = "poll" /\ Obtain(Self, "running") /\ Ends(TRUE)
    /\ UNCHANGED <<installed, async, again, removed>>

\* get_Status fails, or answers with a status there is not: the operation may still run.
PollFails ==
    /\ removal.at = "poll" /\ Ends(TRUE)
    /\ UNCHANGED <<installed, async, again, removed, comVars>>

\* Mutant: completed means removed.
PollEndedTrusting ==
    /\ removal.at = "poll" /\ async.status \in Ended /\ Obtain(Self, "running")
    /\ Ends(TimedOut \/ ~(async.status = "completed" \/ async.missing))
    /\ UNCHANGED <<installed, async, again, removed>>

\* An operation that has ended is to be closed.  After a time-out even "completed" is an error.
PollEnded ==
    /\ removal.at = "poll" /\ async.status \in Ended /\ Obtain(Self, "running")
    /\ IF async.status = "completed" /\ ~TimedOut THEN GoTo("result")
       ELSE Ends(TimedOut \/ ~async.missing)
    /\ UNCHANGED <<installed, async, again, removed>>

\* Mutant: the cancellation is waited for without end.
PollTimesOutPatiently ==
    /\ removal.at = "poll" /\ async.status = "started"
    /\ \/ /\ removal.time = "late"
          /\ \/ /\ async' = [async EXCEPT !.canceling = TRUE]
                /\ removal' = [removal EXCEPT !.time = "canceling"]
             \/ Ends(TRUE) /\ UNCHANGED async
       \/ /\ removal.time = "overdue" /\ removal' = [removal EXCEPT !.time = "canceling"]
          /\ UNCHANGED async
    /\ UNCHANGED <<installed, again, removed, comVars>>

\* The deadline has passed: the operation is asked to cancel, and may refuse; then the grace
\* has passed, too.
PollTimesOut ==
    /\ removal.at = "poll" /\ async.status = "started"
    /\ \/ /\ removal.time = "late"
          /\ \/ /\ async' = [async EXCEPT !.canceling = TRUE]
                /\ removal' = [removal EXCEPT !.time = "canceling"]
             \/ Ends(TRUE) /\ UNCHANGED async
       \/ removal.time = "overdue" /\ Ends(TRUE) /\ UNCHANGED async
    /\ UNCHANGED <<installed, again, removed, comVars>>

\* readDeploymentResult
GetResults ==
    /\ removal.at = "result"
    /\ \/ Take(Self, "deployment") /\ GoTo("read result")
       \/ Ends(Head(removal.names) \in installed) /\ UNCHANGED comVars
       \/ Ends(TRUE) /\ UNCHANGED comVars
    /\ UNCHANGED <<installed, async, again, removed>>

ReadResult ==
    /\ removal.at = "read result" /\ Give(Self, "deployment")
    /\ \/ Ends(~async.gone /\ Head(removal.names) \in installed)
       \/ Ends(TRUE)
    /\ UNCHANGED <<installed, async, again, removed>>

-----------------------------------------------------------------------------

\* Closing the operation is one of the deferred calls; if it fails, that is an error, too.
ArUnwind ==
    /\ removal.at \in {"found", "end", "leave"} /\ RunDeferred(Self)
    /\ IF Last(deferred[Self]) = "running"
       THEN /\ async' = [async EXCEPT !.closed = TRUE]
            /\ \E failed \in BOOLEAN : removal' = [removal EXCEPT !.err = @ \/ failed]
       ELSE UNCHANGED <<async, removal>>
    /\ UNCHANGED <<installed, again, removed>>

EndName ==
    /\ removal.at = "end" /\ Returned(Self)
    /\ removal' = [removal EXCEPT !.at = "names", !.names = Tail(@)]
    /\ async' = NoAsync
    /\ UNCHANGED <<installed, again, removed>>

\* findPackageFullNames failed, and its caller fails with it.
FailFind == /\ removal.at = "leave" /\ deferred[Self] # <<>> /\ Returned(Self)
            /\ UNCHANGED <<installed, async, removal, again, removed>>

ArReturn ==
    /\ removal.at = "leave" /\ deferred[Self] = <<>>
    /\ removed' = [at |-> "returned", err |-> removal.err,
                   asked |-> removal.snapshot \cap Wanted]
    /\ removal' = NoRemoval
    /\ UNCHANGED <<installed, async, again, comVars>>

ArStep ==
    \/ EnterRuntime \/ ObtainManager \/ BeginFind \/ Enumerate \/ HasCurrent \/ GetId
    \/ ReadIdentity \/ EndFind \/ NextName \/ StartAsync \/ GetInfo \/ PollEnded
    \/ PollTimesOut \/ GetResults \/ ReadResult \/ ArUnwind \/ EndName \/ FailFind \/ ArReturn

ArNext == \/ ArStep \/ PollFails \/ AsyncEnds \/ TimePassesAppx \/ BeginRemoval
          \/ \E p \in Wanted : Reinstall(p) \/ Uninstall(p)

\* The program goes on and time passes.  The operation itself may never end.
ArFairness == WF_arVars(ArStep) /\ WF_arVars(TimePassesAppx)

ArSpec == ArInit /\ [][ArNext]_arVars /\ ArFairness

-----------------------------------------------------------------------------

\* A removal without an error leaves none of the packages it found, but for those that others
\* installed meanwhile; and an operation is closed only after it has ended.
AppxTruthful ==
    /\ removed.at = "returned" /\ ~removed.err => removed.asked \cap installed \subseteq again
    /\ async.closed => async.status \in Ended
=============================================================================
