---------------------------- MODULE RestorePoint ----------------------------
(***************************************************************************)
(* System restore points (internal/restorepoint): creating one takes a     *)
(* begin and an end call of SRSetRestorePointW, listing them goes through  *)
(* WMI.  Both enter COM first, and the first of them that gets there       *)
(* configures the security of the whole process, once and for all.         *)
(* Creating and listing may overlap: listing takes no lock.                *)
(***************************************************************************)
EXTENDS ComObjects, FiniteSets

CONSTANTS
    SidTypes,          \* security identifiers in the access list (5)
    MaxRestorePoints,  \* rows a listing reads at most
    MaxRowErrors,      \* malformed rows a listing describes
    MaxPoints          \* bound: restore points ever begun

ASSUME RestoreAssumption == /\ SidTypes \in Nat \ {0} /\ MaxRestorePoints \in Nat
                            /\ MaxRowErrors \in Nat /\ MaxPoints \in Nat

VARIABLES
    points,    \* the system's restore points in the order of their creation: are they ended?
    policy,    \* does the process have a COM security policy that was set explicitly?
    security,  \* comSecurityErr, and whether comSecurityOnce is done
    once,      \* the operations inside comSecurityOnce.Do
    rp,        \* [RpOp -> the operation in progress]
    created,   \* what the last creation returned
    listed     \* what the last listing returned

rpVars == <<points, policy, security, once, rp, created, listed, comVars>>

RpOp == {"create", "list"}
Point == 1..MaxPoints

NoOp == [at |-> "idle", sids |-> 0, outcome |-> "unset", number |-> 0, err |-> FALSE, n |-> 0,
         feed |-> {}, runaway |-> FALSE, row |-> 0, rows |-> <<>>, bad |-> {}, errs |-> 0,
         dropped |-> FALSE, snapshot |-> {}]
NotCreated == [at |-> "none", err |-> FALSE, number |-> 0]
NotListed == [at |-> "none", err |-> FALSE, rows |-> <<>>, bad |-> {}, snapshot |-> {}]

RpTypeOK ==
    /\ ComTypeOK
    /\ points \in Seq(BOOLEAN) /\ Len(points) <= MaxPoints
    /\ policy \in BOOLEAN /\ security \in {"unset", "ok", "failed"} /\ once \subseteq RpOp
    /\ \A o \in RpOp :
         /\ rp[o].at \in {"idle", "enter", "security", "sids", "configure", "configured",
                          "begin", "end", "acquire", "rows", "row", "leave"}
         /\ rp[o].sids \in 0..SidTypes /\ rp[o].number \in 0..MaxPoints
         /\ rp[o].outcome \in {"unset", "ok", "failed"} /\ rp[o].err \in BOOLEAN
         /\ rp[o].n \in 0..(MaxRestorePoints + 6) /\ rp[o].rows \in Seq(Point)
         /\ rp[o].feed \cup rp[o].bad \cup rp[o].snapshot \subseteq Point
         /\ rp[o].errs \in 0..MaxRowErrors /\ rp[o].dropped \in BOOLEAN
    /\ created.at \in {"none", "returned"} /\ listed.at \in {"none", "returned"}

RpInit ==
    /\ ComInit
    /\ points = <<>> /\ policy = FALSE /\ security = "unset" /\ once = {}
    /\ rp = [o \in RpOp |-> NoOp] /\ created = NotCreated /\ listed = NotListed

Goto(o, place) == rp' = [rp EXCEPT ![o].at = place]

\* An error: the operation returns, by way of its deferred calls.
Abort(o) == rp' = [rp EXCEPT ![o].at = "leave", ![o].err = TRUE, ![o].rows = <<>>]

-----------------------------------------------------------------------------
(* Entering COM.                                                           *)

\* A description with a NUL in it is refused.
BeginCreate ==
    /\ rp["create"].at = "idle"
    /\ \/ /\ Len(points) < MaxPoints
          /\ rp' = [rp EXCEPT !["create"] = [NoOp EXCEPT !.at = "enter"]]
          /\ created' = NotCreated
       \/ UNCHANGED rp /\ created' = [NotCreated EXCEPT !.at = "returned", !.err = TRUE]
    /\ UNCHANGED <<points, policy, security, once, listed, comVars>>

BeginList ==
    /\ rp["list"].at = "idle"
    /\ rp' = [rp EXCEPT !["list"] = [NoOp EXCEPT !.at = "enter"]]
    /\ listed' = NotListed
    /\ UNCHANGED <<points, policy, security, once, created, comVars>>

EnterCom(o) ==
    /\ rp[o].at = "enter"
    /\ \/ TakeApartment(o) /\ Goto(o, "security")
       \/ Abort(o) /\ UNCHANGED comVars
    /\ UNCHANGED <<points, policy, security, once, created, listed>>

\* Mutant: a failure to configure security leaves the apartment entered.
AfterSecurityLeaking(o) ==
    /\ rp[o].at = "security" /\ security # "unset"
    /\ \/ security = "ok" /\ DeferApartment(o)
          /\ Goto(o, IF o = "create" THEN "begin" ELSE "acquire")
       \/ security = "failed" /\ Abort(o) /\ UNCHANGED comVars
    /\ UNCHANGED <<points, policy, security, once, created, listed>>

\* enterCOM goes on when the once has been done, by whomever.
AfterSecurity(o) ==
    /\ rp[o].at = "security" /\ security # "unset"
    /\ \/ security = "ok" /\ DeferApartment(o)
          /\ Goto(o, IF o = "create" THEN "begin" ELSE "acquire")
       \/ security = "failed" /\ GiveApartment(o) /\ Abort(o)
    /\ UNCHANGED <<points, policy, security, once, created, listed>>

\* Mutant: the check for the first one is not made under a lock.
BeginOnceRacing(o) ==
    /\ rp[o].at = "security" /\ security = "unset"
    /\ once' = once \cup {o} /\ Goto(o, "sids") /\ Call(o)
    /\ UNCHANGED <<points, policy, security, created, listed>>

\* comSecurityOnce.Do: the first one configures, another one waits for it.
BeginOnce(o) ==
    /\ rp[o].at = "security" /\ security = "unset" /\ once = {}
    /\ once' = {o} /\ Goto(o, "sids") /\ Call(o)
    /\ UNCHANGED <<points, policy, security, created, listed>>

Outcome(o, outcome) == rp' = [rp EXCEPT ![o].at = "configured", ![o].outcome = outcome]

\* LocalAlloc, then CreateWellKnownSid; either may fail, and a missing procedure panics.
MakeSid(o) ==
    /\ rp[o].at = "sids" /\ rp[o].sids < SidTypes
    /\ \/ Obtain(o, "sid") /\ rp' = [rp EXCEPT ![o].sids = @ + 1]
       \/ Obtain(o, "sid") /\ Outcome(o, "failed")
       \/ UNCHANGED comVars /\ Outcome(o, "failed")
    /\ UNCHANGED <<points, policy, security, once, created, listed>>

MakeAcl(o) ==
    /\ rp[o].at = "sids" /\ rp[o].sids = SidTypes
    /\ \/ Obtain(o, "acl") /\ Goto(o, "configure")
       \/ UNCHANGED comVars /\ Outcome(o, "failed")
    /\ UNCHANGED <<points, policy, security, once, created, listed>>

\* The descriptor is filled in and CoInitializeSecurity called.  It is "ok" as well when
\* another COM client of the process was first (RPC_E_TOO_LATE).
Configure(o) ==
    /\ rp[o].at = "configure"
    /\ \/ Outcome(o, "ok") /\ policy' = TRUE
       \/ Outcome(o, "failed") /\ UNCHANGED policy
    /\ UNCHANGED <<points, security, once, created, listed, comVars>>

\* Mutant: a panic ends the once without an error.
EndOnceForgetting(o) ==
    /\ rp[o].at = "configured" /\ Returned(o)
    /\ security' = "ok" /\ once' = once \ {o}
    /\ Goto(o, "security")
    /\ UNCHANGED <<points, policy, created, listed>>

\* The buffers have been freed; the outcome stays, a recovered panic being a failure.
EndOnce(o) ==
    /\ rp[o].at = "configured" /\ Returned(o)
    /\ security' = rp[o].outcome /\ once' = once \ {o}
    /\ Goto(o, "security")
    /\ UNCHANGED <<points, policy, created, listed>>

-----------------------------------------------------------------------------
(* create                                                                  *)

BeginChange ==
    /\ rp["create"].at = "begin"
    /\ \/ /\ points' = Append(points, FALSE)
          /\ rp' = [rp EXCEPT !["create"].at = "end", !["create"].number = Len(points) + 1]
       \/ Abort("create") /\ UNCHANGED points
    /\ UNCHANGED <<policy, security, once, created, listed, comVars>>

\* Mutant: the error of the end call is not returned.
EndChangeIgnored ==
    /\ rp["create"].at = "end" /\ Goto("create", "leave")
    /\ \/ points' = [points EXCEPT ![rp["create"].number] = TRUE]
       \/ UNCHANGED points
    /\ UNCHANGED <<policy, security, once, created, listed, comVars>>

\* When the end call fails the point exists, and is returned together with the error.
EndChange ==
    /\ rp["create"].at = "end"
    /\ \/ points' = [points EXCEPT ![rp["create"].number] = TRUE] /\ Goto("create", "leave")
       \/ UNCHANGED points /\ Abort("create")
    /\ UNCHANGED <<policy, security, once, created, listed, comVars>>

-----------------------------------------------------------------------------
(* list                                                                    *)

\* What list obtains, each with a deferred release, up to the enumerator.
ListObtains == <<"locator", "netRes", "services", "lang", "query", "enum">>

\* Any call may fail or return nil; so may the proxy blanket, when services is held already.
\* The enumerator goes through the points there are; a broken provider never comes to an end.
ObtainNext ==
    /\ rp["list"].at = "acquire"
    /\ LET r == ListObtains[rp["list"].n + 1]
       IN  \/ UNCHANGED comVars /\ Abort("list")
           \/ r = "services" /\ Obtain("list", r) /\ Abort("list")
           \/ r # "enum" /\ Obtain("list", r) /\ rp' = [rp EXCEPT !["list"].n = @ + 1]
           \/ /\ r = "enum" /\ Obtain("list", r)
              /\ \E runaway \in BOOLEAN :
                   rp' = [rp EXCEPT !["list"].at = "rows", !["list"].n = 0,
                                    !["list"].feed = DOMAIN points,
                                    !["list"].snapshot = DOMAIN points,
                                    !["list"].runaway = runaway]
    /\ UNCHANGED <<points, policy, security, once, created, listed>>

\* IEnumWbemClassObject::Next with a time-out; a failure, a time-out or a senseless answer ends
\* the listing, and so does the limit on the rows.
NextRow ==
    /\ rp["list"].at = "rows"
    /\ LET op == rp["list"]
       IN  \/ UNCHANGED comVars /\ Abort("list")
           \/ /\ op.n < MaxRestorePoints
              /\ \E row \in IF op.runaway THEN op.snapshot ELSE op.feed :
                   /\ Take("list", "obj")
                   /\ rp' = [rp EXCEPT !["list"].at = "row", !["list"].row = row,
                                       !["list"].feed = @ \ {row}]
    /\ UNCHANGED <<points, policy, security, once, created, listed>>

\* Mutant: only good rows count against the limit.
MalformedUncounted(op) ==
    [op EXCEPT !.at = "rows", !.bad = @ \cup {op.row},
               !.errs = IF @ < MaxRowErrors THEN @ + 1 ELSE @,
               !.dropped = @ \/ op.errs = MaxRowErrors]

\* A malformed row is noted; when there are too many it is only known that there were more.
Malformed(op) ==
    [op EXCEPT !.at = "rows", !.n = @ + 1, !.bad = @ \cup {op.row},
               !.errs = IF @ < MaxRowErrors THEN @ + 1 ELSE @,
               !.dropped = @ \/ op.errs = MaxRowErrors]

\* readRestorePoint; a row that exhausts the budget for descriptions ends the listing.
ReadRow ==
    /\ rp["list"].at = "row" /\ Give("list", "obj")
    /\ \/ rp' = [rp EXCEPT !["list"] = Malformed(@)]
       \/ rp' = [rp EXCEPT !["list"].at = "rows", !["list"].n = @ + 1,
                           !["list"].rows = Append(@, rp["list"].row)]
       \/ Abort("list")
    /\ UNCHANGED <<points, policy, security, once, created, listed>>

\* sort.Slice by the time of creation, the order of which is that of the numbers.
NewestFirst(rows) ==
    LET order == CHOOSE p \in Bijection(DOMAIN rows, DOMAIN rows) :
                   \A i, j \in DOMAIN rows : i < j => rows[p[i]] >= rows[p[j]]
    IN  [i \in DOMAIN rows |-> rows[order[i]]]

\* Mutant: malformed rows that were noted are not an error.
EndRowsShort ==
    /\ rp["list"].at = "rows" /\ rp["list"].n < MaxRestorePoints
    /\ rp["list"].feed = {} /\ ~rp["list"].runaway
    /\ rp' = [rp EXCEPT !["list"].at = "leave", !["list"].rows = NewestFirst(@),
                        !["list"].err = rp["list"].dropped]
    /\ UNCHANGED <<points, policy, security, once, created, listed, comVars>>

\* S_FALSE: the rows are sorted, the newest first, and malformed ones are an error that comes
\* with the others.
EndRows ==
    /\ rp["list"].at = "rows" /\ rp["list"].n < MaxRestorePoints
    /\ rp["list"].feed = {} /\ ~rp["list"].runaway
    /\ rp' = [rp EXCEPT !["list"].at = "leave", !["list"].rows = NewestFirst(@),
                        !["list"].err = rp["list"].errs > 0 \/ rp["list"].dropped]
    /\ UNCHANGED <<points, policy, security, once, created, listed, comVars>>

-----------------------------------------------------------------------------

RpUnwind(o) ==
    /\ rp[o].at \in {"configured", "leave"} /\ RunDeferred(o)
    /\ UNCHANGED <<points, policy, security, once, rp, created, listed>>

RpReturn(o) ==
    /\ rp[o].at = "leave" /\ Returned(o)
    /\ rp' = [rp EXCEPT ![o] = NoOp]
    /\ \/ /\ o = "create" /\ UNCHANGED listed
          /\ created' = [at |-> "returned", err |-> rp[o].err, number |-> rp[o].number]
       \/ /\ o = "list" /\ UNCHANGED created
          /\ listed' = [at |-> "returned", err |-> rp[o].err, rows |-> rp[o].rows,
                        bad |-> rp[o].bad, snapshot |-> rp[o].snapshot]
    /\ UNCHANGED <<points, policy, security, once>>

RpStep(o) ==
    \/ EnterCom(o) \/ BeginOnce(o) \/ MakeSid(o) \/ MakeAcl(o) \/ Configure(o) \/ EndOnce(o)
    \/ AfterSecurity(o) \/ RpUnwind(o) \/ RpReturn(o)
    \/ o = "create" /\ (BeginChange \/ EndChange)
    \/ o = "list" /\ (ObtainNext \/ NextRow \/ ReadRow \/ EndRows)

RpNext == BeginCreate \/ BeginList \/ \E o \in RpOp : RpStep(o)

RpFairness == \A o \in RpOp : WF_rpVars(RpStep(o))

RpSpec == RpInit /\ [][RpNext]_rpVars /\ RpFairness

-----------------------------------------------------------------------------

\* A restore point is reported as created only when both calls succeeded; an error that names
\* a point says that it was begun and not ended; and an error without one left none behind.
CreatedTruthful ==
    created.at = "returned" =>
      IF created.number = 0 THEN created.err
      ELSE created.number \in DOMAIN points /\ (points[created.number] <=> ~created.err)

\* A listing without an error has every restore point of the moment it asked for them; one
\* with an error has all that could be read, or none; and the newest always come first.
ListedTruthful ==
    /\ \A i, j \in DOMAIN listed.rows : i < j => listed.rows[i] > listed.rows[j]
    /\ listed.rows # <<>> => Range(listed.rows) = listed.snapshot \ listed.bad
    /\ listed.at = "returned" /\ ~listed.err => Range(listed.rows) = listed.snapshot

\* The process's security is configured by one operation at a time, and no operation goes on
\* without a policy.
SecuredBeforeUse ==
    /\ Cardinality(once) <= 1
    /\ \A o \in RpOp : rp[o].at \in {"begin", "end", "acquire", "rows", "row"} =>
                         policy /\ Holds(o, "apartment")

RestorePointsTruthful == CreatedTruthful /\ ListedTruthful /\ SecuredBeforeUse
=============================================================================
