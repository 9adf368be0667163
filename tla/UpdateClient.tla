---------------------------- MODULE UpdateClient ----------------------------
(***************************************************************************)
(* The Windows Update client (internal/updater/updater_windows.go): search *)
(* lists updates, installAll searches, downloads and installs.  The agent  *)
(* may do a part only, and may call that a success as a whole.             *)
(***************************************************************************)
EXTENDS ComObjects, FiniteSets

CONSTANTS
    Update,          \* the updates there are
    MaxUpdates,      \* the largest collection that is accepted
    MaxResultErrors  \* failed updates that an error describes

ASSUME UpdateAssumption == /\ IsFiniteSet(Update) /\ MaxUpdates \in Nat
                           /\ MaxResultErrors \in Nat

VARIABLES
    updates,  \* [Update -> how far it is]
    client,   \* the call in progress
    answer    \* what the last call returned

ucVars == <<updates, client, answer, comVars>>

Me == "update"

\* search(false), search(true) and installAll
Kind == {"search", "installed", "install"}

NoCall == [at |-> "idle", kind |-> "search", n |-> 0, found |-> {}, code |-> "succeeded",
           todo |-> {}, now |-> {}, phase |-> "download", list |-> {}, errs |-> 0,
           truncated |-> FALSE, err |-> FALSE]
NoAnswer == [kind |-> "none", err |-> FALSE, asked |-> {}, list |-> {}]

UcTypeOK ==
    /\ ComTypeOK
    /\ updates \in [Update -> {"missing", "downloaded", "installed"}]
    /\ client \in [at : {"idle", "enter", "connect", "obtain", "items", "item", "downloader", "download",
                         "results", "result", "install", "leave"},
                   kind : Kind, n : 0..5, found : SUBSET Update,
                   code : {"succeeded", "other"}, todo : SUBSET Update, now : SUBSET Update,
                   phase : {"download", "install"}, list : SUBSET Update,
                   errs : 0..MaxResultErrors, truncated : BOOLEAN, err : BOOLEAN]
    /\ answer \in [kind : Kind \cup {"none"}, err : BOOLEAN, asked : SUBSET Update,
                   list : SUBSET Update]

UcInit == /\ ComInit /\ updates \in [Update -> {"missing", "installed"}]
          /\ client = NoCall /\ answer = NoAnswer

Missing == {u \in Update : updates[u] # "installed"}

\* What the search of a call is for.
Matching(kind) == IF kind = "installed" THEN Update \ Missing ELSE Missing

Go(place) == client' = [client EXCEPT !.at = place]
Quit == client' = [client EXCEPT !.at = "leave", !.err = TRUE, !.list = {}]

-----------------------------------------------------------------------------
(* Up to the collection of updates.                                        *)

BeginCall(kind) ==
    /\ client.at = "idle"
    /\ client' = [NoCall EXCEPT !.at = "enter", !.kind = kind]
    /\ answer' = NoAnswer
    /\ UNCHANGED <<updates, comVars>>

EnterThread ==
    /\ client.at = "enter"
    /\ \/ TakeApartment(Me) /\ Go("connect")
       \/ Quit /\ UNCHANGED comVars
    /\ UNCHANGED <<updates, answer>>

\* Mutant: the apartment is left to the clean-up function that nobody has yet.
ConnectLeaking ==
    /\ client.at = "connect"
    /\ \/ /\ held' = [held EXCEPT ![Me]["session"] = @ + 1]
          /\ deferred' = [deferred EXCEPT ![Me] = @ \o <<"thread", "apartment", "session">>]
          /\ Go("obtain")
       \/ Quit /\ UNCHANGED comVars
    /\ UNCHANGED <<updates, answer>>

\* connect: the clean-up function exists only when there is a session to release.
Connect ==
    /\ client.at = "connect"
    /\ \/ /\ held' = [held EXCEPT ![Me]["session"] = @ + 1]
          /\ deferred' = [deferred EXCEPT ![Me] = @ \o <<"thread", "apartment", "session">>]
          /\ Go("obtain")
       \/ GiveApartment(Me) /\ Quit
    /\ UNCHANGED <<updates, answer>>

Obtains(kind) == (IF kind = "install" THEN <<"installer">> ELSE <<>>)
                 \o <<"searcher", "criteria", "result", "collection">>

\* Mutant: the result code of the search is not looked at.
AcquireCareless ==
    /\ client.at = "obtain" /\ client.n < Len(Obtains(client.kind))
    /\ LET r == Obtains(client.kind)[client.n + 1]
       IN  \/ Quit /\ UNCHANGED comVars
           \/ r # "result" /\ Obtain(Me, r) /\ client' = [client EXCEPT !.n = @ + 1]
           \/ /\ r = "result" /\ Obtain(Me, r)
              /\ \E found \in SUBSET Matching(client.kind) :
                   client' = [client EXCEPT !.n = @ + 1, !.found = found]
    /\ UNCHANGED <<updates, answer>>

\* Every object may be refused or be nil.  A search that did not quite succeed has a part of
\* the updates only, and is given up.
Acquire ==
    /\ client.at = "obtain" /\ client.n < Len(Obtains(client.kind))
    /\ LET r == Obtains(client.kind)[client.n + 1]
       IN  \/ Quit /\ UNCHANGED comVars
           \/ r # "result" /\ Obtain(Me, r) /\ client' = [client EXCEPT !.n = @ + 1]
           \/ /\ r = "result" /\ Obtain(Me, r)
              /\ \E found \in SUBSET Matching(client.kind), code \in {"succeeded", "other"} :
                   /\ code = "succeeded" => found = Matching(client.kind)
                   /\ client' = [client EXCEPT
                        !.n = @ + 1, !.found = found, !.code = code, !.err = code = "other",
                        !.at = IF code = "other" THEN "leave" ELSE "obtain"]
    /\ UNCHANGED <<updates, answer>>

\* The number of updates may be out of the question; with none there is nothing to install.
Count ==
    /\ client.at = "obtain" /\ client.n = Len(Obtains(client.kind))
    /\ IF Cardinality(client.found) > MaxUpdates THEN Quit
       ELSE client' = [client EXCEPT
              !.todo = client.found,
              !.at = IF client.kind # "install" THEN "items"
                     ELSE IF client.found = {} THEN "leave" ELSE "downloader"]
    /\ UNCHANGED <<updates, answer, comVars>>

-----------------------------------------------------------------------------
(* search                                                                  *)

GetItem(u) ==
    /\ client.at = "items" /\ u \in client.todo
    /\ \/ Take(Me, "upd")
          /\ client' = [client EXCEPT !.at = "item", !.todo = @ \ {u}, !.now = {u}]
       \/ Quit /\ UNCHANGED comVars
    /\ UNCHANGED <<updates, answer>>

\* readUpdate and the budget for titles.
ReadItem ==
    /\ client.at = "item" /\ Give(Me, "upd")
    /\ \/ client' = [client EXCEPT !.at = "items", !.list = @ \cup client.now, !.now = {}]
       \/ Quit
    /\ UNCHANGED <<updates, answer>>

EndItems == /\ client.at = "items" /\ client.todo = {} /\ Go("leave")
            /\ UNCHANGED <<updates, answer, comVars>>

-----------------------------------------------------------------------------
(* installAll                                                              *)

ObtainDownloader ==
    /\ client.at = "downloader"
    /\ \/ Obtain(Me, "downloader") /\ Go("download")
       \/ Quit /\ UNCHANGED comVars
    /\ UNCHANGED <<updates, answer>>

\* What the agent does with the collection: some part of it.
Work(from, to) ==
    \E done \in SUBSET {u \in client.found : updates[u] = from} :
      updates' = [u \in Update |-> IF u \in done THEN to ELSE updates[u]]

\* put_Updates, the operation, its result code and, after an installation, whether to reboot.
\* When one of these calls fails, a part may have been done nevertheless.
Operate(phase, object, from, to) ==
    /\ client.at = phase /\ Work(from, to)
    /\ \/ Quit /\ UNCHANGED comVars
       \/ Obtain(Me, object) /\ Quit
       \/ /\ Obtain(Me, object)
          /\ \E code \in {"succeeded", "other"} :
               client' = [client EXCEPT !.at = "results", !.phase = phase, !.code = code,
                                        !.todo = client.found, !.errs = 0, !.truncated = FALSE]
    /\ UNCHANGED answer

Download == Operate("download", "downloadResult", "missing", "downloaded")
Install == Operate("install", "installResult", "downloaded", "installed")

\* Mutant: every error is described.
NotedUnbounded(c) == client' = [c EXCEPT !.errs = @ + 1]

\* addErr: an error that is too much is only counted.
Noted(c) == \/ client' = [c EXCEPT !.truncated = TRUE]
            \/ c.errs < MaxResultErrors /\ client' = [c EXCEPT !.errs = @ + 1]

\* collectUpdateResultErrors goes through the updates one by one.
GetUpdateResult(u) ==
    /\ client.at = "results" /\ u \in client.todo
    /\ LET rest == [client EXCEPT !.todo = @ \ {u}]
       IN  \/ /\ Take(Me, "updateResult")
              /\ client' = [rest EXCEPT !.at = "result", !.now = {u}]
           \/ Noted(rest) /\ UNCHANGED comVars
    /\ UNCHANGED <<updates, answer>>

Reached(u) == updates[u] = "installed" \/ (client.phase = "download" /\ updates[u] = "downloaded")

\* Mutant: the update's own result is not compared with success.
ReadUpdateResultTrusting ==
    /\ client.at = "result" /\ Give(Me, "updateResult")
    /\ LET read == [client EXCEPT !.at = "results", !.now = {}]
       IN  \/ Noted(read)
           \/ client' = read
    /\ UNCHANGED <<updates, answer>>

\* The result of an update that is not done is a failure; and a result may be unreadable.
ReadUpdateResult ==
    /\ client.at = "result" /\ Give(Me, "updateResult")
    /\ LET read == [client EXCEPT !.at = "results", !.now = {}]
       IN  \/ Noted(read)
           \/ (\A u \in client.now : Reached(u)) /\ client' = read
    /\ UNCHANGED <<updates, answer>>

\* Mutant: errors that were only counted are forgotten.
FailedShort == client.errs > 0 \/ client.code # "succeeded"

Failed == client.errs > 0 \/ client.truncated \/ client.code # "succeeded"

\* Nothing is installed when anything could not be downloaded.
EndResults ==
    /\ client.at = "results" /\ client.todo = {}
    /\ IF client.phase = "install"
       THEN client' = [client EXCEPT !.at = "leave", !.err = Failed]
       ELSE IF Failed THEN Quit ELSE Go("install")
    /\ UNCHANGED <<updates, answer, comVars>>

-----------------------------------------------------------------------------

UcUnwind == client.at = "leave" /\ RunDeferred(Me) /\ UNCHANGED <<updates, client, answer>>

UcReturn ==
    /\ client.at = "leave" /\ Returned(Me)
    /\ answer' = [kind |-> client.kind, err |-> client.err, asked |-> client.found,
                  list |-> client.list]
    /\ client' = NoCall
    /\ UNCHANGED updates

UcStep ==
    \/ EnterThread \/ Connect \/ Acquire \/ Count \/ ReadItem \/ EndItems
    \/ ObtainDownloader \/ Download \/ Install \/ ReadUpdateResult \/ EndResults
    \/ UcUnwind \/ UcReturn
    \/ \E u \in Update : GetItem(u) \/ GetUpdateResult(u)

UcNext == UcStep \/ \E kind \in Kind : BeginCall(kind)

UcSpec == UcInit /\ [][UcNext]_ucVars /\ WF_ucVars(UcStep)

-----------------------------------------------------------------------------

\* An installation without an error has installed every update that was missing when it
\* searched, whatever the agent says of the operation as a whole; none is begun when an update
\* could not be downloaded; and a search without an error lists all it asked for.
UpdatesTruthful ==
    /\ answer.kind = "install" /\ ~answer.err =>
         \A u \in Update : updates[u] = "installed"
    /\ client.at = "install" => \A u \in client.found : updates[u] # "missing"
    /\ answer.kind = "search" /\ ~answer.err => answer.list = Missing
    /\ answer.kind = "installed" /\ ~answer.err => answer.list = Update \ Missing
=============================================================================
