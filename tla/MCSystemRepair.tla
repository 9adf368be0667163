--------------------------- MODULE MCSystemRepair ---------------------------
(* Values for the constants of SystemRepair. *)
EXTENDS SystemRepair

\* Two of the three update services: the first and the last of the loops.
MCStopOrder == <<"wuauserv", "cryptSvc">>

MCResetSteps == <<"winsock", "ip", "release", "renew", "flushdns">>

\* A display name with two provisioned versions, and the name of one of them.
MCMatching == [app |-> {"app_1", "app_2"}, app_2 |-> {"app_2"}]

MCImage == <<"home", "pro", "home">>
=============================================================================
