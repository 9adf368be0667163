----------------------------- MODULE FrontEnds ------------------------------
(***************************************************************************)
(* What stands between a user and the operations, side by side: the start   *)
(* of the application with its catalogs and packs, the rate limiter of the  *)
(* dashboard, and the path of a command from a request or a command line to *)
(* its operation and back.  They share no state: a command sees the limiter *)
(* as an answer and the start as a success or a failure.  A behaviour is a  *)
(* session of one of them.                                                  *)
(***************************************************************************)
EXTENDS RateLimiter, Commands, Plugins

VARIABLE session

vars == <<session, limiterVars, cmdVars, packVars>>

TypeOK == /\ session \in {"limiter", "commands", "packs"}
          /\ LimiterTypeOK /\ CommandsTypeOK /\ PacksTypeOK

\* What a session does not use starts in one state.
Init == /\ session \in {"limiter", "commands", "packs"}
        /\ LimiterInit /\ CommandsInit /\ PacksInit
        /\ session # "commands" => front = "cli" /\ ~elevated
        /\ session # "packs" => ~admin /\ host = CHOOSE h \in ScriptHosts : TRUE

LimiterSession == /\ session = "limiter"
                  /\ UNCHANGED <<session, cmdVars, packVars>>
                  /\ LimiterNext

CommandSession == /\ session = "commands"
                  /\ UNCHANGED <<session, limiterVars, packVars>>
                  /\ CommandsNext

PackSession == /\ session = "packs"
               /\ UNCHANGED <<session, limiterVars, cmdVars>>
               /\ PacksNext

Next == LimiterSession \/ CommandSession \/ PackSession

\* A client need not come back and a script need not end; a command goes on.
Spec == Init /\ [][Next]_vars /\ CommandsFairness

-----------------------------------------------------------------------------

\* What the other requests in progress are: a direct change and a background job.
OtherCommands == {HandleApplyTweak, HandleInstall}
=============================================================================
