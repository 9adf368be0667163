-------------------------- MODULE ProvisionedCache --------------------------
(***************************************************************************)
(* Removing provisioned Appx packages through DISM, with the list of them  *)
(* cached between calls (internal/maintenance/maintenance_windows.go,      *)
(* parseProvisionedPackages in maintenance.go).  The cache has a mutex of  *)
(* its own, so calls come one at a time; Windows and other programs        *)
(* provision packages whenever they like.                                  *)
(***************************************************************************)
EXTENDS Naturals

CONSTANTS
    Package,   \* version-specific package names
    Name,      \* names a caller may ask to remove
    Matching,  \* [Name -> the packages of that display or package name]
    TTL,       \* provisionedAppxCacheTTL, in ticks
    MissAge    \* provisionedAppxMissRefreshAfter

ASSUME ProvisionedAssumption ==
    /\ Name # {} /\ Matching \in [Name -> SUBSET Package]
    /\ MissAge \in Nat /\ TTL \in Nat \ {0} /\ MissAge <= TTL

VARIABLES
    provisioned,  \* what Windows has
    packages,     \* provisionedAppxCache.packages
    age,          \* time since loadedAt, as far as it matters; TTL also before any load
    removal,      \* the call in progress
    added,        \* history: packages that others provisioned since the cache was loaded
    removed       \* what the last call returned

pcVars == <<provisioned, packages, age, removal, added, removed>>

NoRemoval == [at |-> "idle", name |-> CHOOSE n \in Name : TRUE, todo |-> {}, kept |-> {},
              errs |-> FALSE]
NoResult == [none |-> TRUE, ok |-> FALSE, name |-> CHOOSE n \in Name : TRUE, left |-> {}]

PcTypeOK ==
    /\ provisioned \subseteq Package /\ packages \subseteq Package
    /\ age \in 0..TTL
    /\ removal \in [at : {"idle", "fresh", "miss", "list", "remove"}, name : Name,
                    todo : SUBSET Package, kept : SUBSET Package, errs : BOOLEAN]
    /\ added \subseteq Package
    /\ removed \in [none : BOOLEAN, ok : BOOLEAN, name : Name, left : SUBSET Package]

PcInit ==
    /\ provisioned \in SUBSET Package
    /\ packages = {} /\ age = TTL
    /\ removal = NoRemoval /\ added = {} /\ removed = NoResult

-----------------------------------------------------------------------------

Tick ==
    /\ age < TTL /\ age' = age + 1
    /\ UNCHANGED <<provisioned, packages, removal, added, removed>>

Provision(p) ==
    /\ p \notin provisioned
    /\ provisioned' = provisioned \cup {p} /\ added' = added \cup {p}
    /\ UNCHANGED <<packages, age, removal, removed>>

Finish(ok) ==
    /\ removal' = NoRemoval
    /\ removed' = [none |-> FALSE, ok |-> ok, name |-> removal.name,
                   left |-> provisioned' \cap Matching[removal.name]]

\* Mutant: output without DISM's success marker is taken for the whole list.
RefreshTruncated(next) ==
    \/ /\ \E listing \in SUBSET provisioned : packages' = listing
       /\ age' = 0 /\ added' = {}
       /\ removal' = [removal EXCEPT !.at = next] /\ UNCHANGED <<provisioned, removed>>
    \/ UNCHANGED <<provisioned, packages, age, added>> /\ Finish(FALSE)

\* refreshProvisionedAppxCache: the list replaces the cached one only if DISM succeeded and
\* its output is complete; a truncated or malformed one is an error and changes nothing.
Refresh(next) ==
    \/ /\ packages' = provisioned
       /\ age' = 0 /\ added' = {}
       /\ removal' = [removal EXCEPT !.at = next] /\ UNCHANGED <<provisioned, removed>>
    \/ UNCHANGED <<provisioned, packages, age, added>> /\ Finish(FALSE)

BeginRemoval(n) ==
    /\ removal.at = "idle"
    /\ removal' = [NoRemoval EXCEPT !.at = "fresh", !.name = n]
    /\ removed' = NoResult
    /\ UNCHANGED <<provisioned, packages, age, added>>

CheckFresh ==
    /\ removal.at = "fresh"
    /\ IF age < TTL
       THEN /\ removal' = [removal EXCEPT !.at = "miss"]
            /\ UNCHANGED <<provisioned, packages, age, added, removed>>
       ELSE Refresh("miss")

\* A name the cache does not have is looked up again when the cache is older than MissAge.
CheckMiss ==
    /\ removal.at = "miss"
    /\ IF packages \cap Matching[removal.name] = {} /\ age >= MissAge THEN Refresh("list")
       ELSE /\ removal' = [removal EXCEPT !.at = "list"]
            /\ UNCHANGED <<provisioned, packages, age, added, removed>>

List ==
    /\ removal.at = "list"
    /\ removal' = [removal EXCEPT !.at = "remove",
                                  !.todo = packages \cap Matching[removal.name],
                                  !.kept = packages \ Matching[removal.name]]
    /\ UNCHANGED <<provisioned, packages, age, added, removed>>

\* Mutant: a package that could not be removed is forgotten.
RemoveOneForgetting(p) ==
    /\ removal.at = "remove" /\ p \in removal.todo
    /\ \/ /\ provisioned' = provisioned \ {p}
          /\ removal' = [removal EXCEPT !.todo = @ \ {p}]
       \/ /\ removal' = [removal EXCEPT !.todo = @ \ {p}, !.errs = TRUE]
          /\ UNCHANGED provisioned
    /\ UNCHANGED <<packages, age, added, removed>>

\* dism /Remove-ProvisionedAppxPackage for one of the matches; a failure is remembered.
RemoveOne(p) ==
    /\ removal.at = "remove" /\ p \in removal.todo
    /\ \/ /\ provisioned' = provisioned \ {p}
          /\ removal' = [removal EXCEPT !.todo = @ \ {p}]
       \/ /\ removal' = [removal EXCEPT !.todo = @ \ {p}, !.kept = @ \cup {p}, !.errs = TRUE]
          /\ UNCHANGED provisioned
    /\ UNCHANGED <<packages, age, added, removed>>

EndRemoval ==
    /\ removal.at = "remove" /\ removal.todo = {}
    /\ packages' = removal.kept
    /\ UNCHANGED <<provisioned, age, added>>
    /\ Finish(~removal.errs)

PcStep == CheckFresh \/ CheckMiss \/ List \/ (\E p \in Package : RemoveOne(p)) \/ EndRemoval

PcNext == \/ Tick \/ PcStep
          \/ \E p \in Package : Provision(p)
          \/ \E n \in Name : BeginRemoval(n)

PcSpec == PcInit /\ [][PcNext]_pcVars

-----------------------------------------------------------------------------

\* A removal that reports success leaves none of the packages it was asked to remove,
\* except those that another program provisioned after the cached list was loaded: neither
\* a failed removal nor an incomplete list makes a later call believe there is nothing to do.
RemovalTruthful == removed.ok => removed.left \subseteq added
=============================================================================
