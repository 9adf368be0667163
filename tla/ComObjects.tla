----------------------------- MODULE ComObjects -----------------------------
(***************************************************************************)
(* What an operation that talks to COM or the Windows Runtime holds        *)
(* (internal/restorepoint, internal/updater, internal/maintenance): the    *)
(* OS thread it is pinned to, the apartment on that thread, interface      *)
(* pointers, strings and local memory; and the deferred calls that give    *)
(* them back, last one first, function by function.                        *)
(***************************************************************************)
EXTENDS Integers, Sequences, SequencesExt

VARIABLES
    held,     \* [Operation -> [Resource -> how many references it has not given back]]
    deferred  \* [Operation -> the deferred releases, with "call" where a function begins]

comVars == <<held, deferred>>

\* The operations; each of them runs once at a time.
Operation == {"create", "list", "update", "appx"}

Plain == {"thread", "apartment"}

\* Memory and strings, which need no apartment.
Memory == [create |-> {"sid", "acl"},
           list   |-> {"sid", "acl", "netRes", "lang", "query"},
           update |-> {"criteria"},
           appx   |-> {"classID", "currentUser", "pkgName"}]

\* Interface pointers, which are given back in the apartment.  "running" is the duty to close
\* an asynchronous operation that has ended.
Interface == [create |-> {},
              list   |-> {"locator", "services", "enum", "obj"},
              update |-> {"session", "installer", "searcher", "result", "collection", "upd",
                          "downloader", "downloadResult", "installResult", "updateResult"},
              appx   |-> {"inspectable", "pm", "iterable", "iterator", "pkg", "id", "op",
                          "info", "running", "deployment"}]

Resource(o) == Plain \cup Memory[o] \cup Interface[o]

ComTypeOK ==
    \A o \in Operation : /\ held[o] \in [Resource(o) -> Int]
                         /\ deferred[o] \in Seq(Resource(o) \cup {"call"})

ComInit == /\ held = [o \in Operation |-> [r \in Resource(o) |-> 0]]
           /\ deferred = [o \in Operation |-> <<>>]

-----------------------------------------------------------------------------

\* r was obtained and `defer` was told to give it back.
Obtain(o, r) == /\ held' = [held EXCEPT ![o][r] = @ + 1]
                /\ deferred' = [deferred EXCEPT ![o] = Append(@, r)]

\* r was obtained and is given back explicitly.
Take(o, r) == held' = [held EXCEPT ![o][r] = @ + 1] /\ UNCHANGED deferred
Give(o, r) == held' = [held EXCEPT ![o][r] = @ - 1] /\ UNCHANGED deferred

\* A function with deferred calls of its own is called.
Call(o) == deferred' = [deferred EXCEPT ![o] = Append(@, "call")] /\ UNCHANGED held

\* Deferred calls of the function that returns are left.
Unwinding(o) == deferred[o] # <<>> /\ Last(deferred[o]) # "call"

\* The last deferred call of the function that returns.
RunDeferred(o) == /\ Unwinding(o)
                  /\ held' = [held EXCEPT ![o][Last(deferred[o])] = @ - 1]
                  /\ deferred' = [deferred EXCEPT ![o] = Front(@)]

\* All of them have run, and the caller goes on.
Returned(o) == /\ ~Unwinding(o)
               /\ deferred' = [deferred EXCEPT ![o] = IF @ = <<>> THEN @ ELSE Front(@)]
               /\ UNCHANGED held

\* The thread is pinned and its apartment entered; S_OK and S_FALSE count alike.
TakeApartment(o) ==
    /\ held' = [held EXCEPT ![o]["thread"] = @ + 1, ![o]["apartment"] = @ + 1]
    /\ UNCHANGED deferred

\* CoUninitialize and UnlockOSThread, called at once ...
GiveApartment(o) ==
    /\ held' = [held EXCEPT ![o]["thread"] = @ - 1, ![o]["apartment"] = @ - 1]
    /\ UNCHANGED deferred

\* ... or by the clean-up function that the caller defers.
DeferApartment(o) ==
    /\ deferred' = [deferred EXCEPT ![o] = @ \o <<"thread", "apartment">>]
    /\ UNCHANGED held

-----------------------------------------------------------------------------

Holds(o, r) == held[o][r] > 0

\* Nothing is given back twice; the thread stays pinned while it is in an apartment, and the
\* apartment is left only after every interface pointer was released.
OrderlyRelease ==
    \A o \in Operation :
      /\ \A r \in Resource(o) : held[o][r] >= 0
      /\ held[o]["thread"] >= held[o]["apartment"]
      /\ (\E r \in Interface[o] : Holds(o, r)) => Holds(o, "apartment")

NothingHeld(o) == \A r \in Resource(o) : held[o][r] = 0
=============================================================================
