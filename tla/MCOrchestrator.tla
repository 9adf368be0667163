--------------------------- MODULE MCOrchestrator ---------------------------
(* Instances of Orchestrator for TLC. *)
EXTENDS Orchestrator, TLC

CONSTANTS c1, c2, app, cli, x, y, z, a, b, clear, setX, iface, command

OneCaller == c1 :> app
OneProcess == (c1 :> app) @@ (c2 :> app)
TwoProcesses == (c1 :> app) @@ (c2 :> cli)

SetTo(t, v) == [kind |-> "set", on |-> {t}, to |-> v]
Delete(t) == [kind |-> "delete", on |-> {t}, to |-> Absent]
DeleteKey(T) == [kind |-> "delete_key", on |-> T, to |-> Absent]
Netbios(T, v) == [kind |-> "netbios", on |-> T, to |-> v]
Command(T, v) == [kind |-> "unary", on |-> T, to |-> v]

(* Undo: two tweaks that fight over one value, applied and undone in every   *)
(* order.                                                                    *)
UndoOperations == (setX :> <<SetTo(x, a)>>) @@ (clear :> <<Delete(x)>>)
UndoRevert == (setX :> <<Delete(x)>>) @@ (clear :> <<SetTo(x, b)>>)
UndoCatalog == <<setX, clear>>
UndoFactory == x :> b

(* Maintenance: clear contradicts iface, which comes before it; command       *)
(* cannot be verified and undoes clear when a user runs it.                  *)
MaintenanceOperations ==
    (iface :> <<Netbios({x, y}, b)>>)
    @@ (clear :> <<Delete(x), SetTo(z, a)>>)
    @@ (command :> <<Command({z}, b)>>)
MaintenanceRevert ==
    (iface :> <<DeleteKey({x, y})>>)
    @@ (clear :> <<SetTo(x, b)>>)
    @@ (command :> <<>>)
MaintenanceCatalog == <<iface, clear, command>>
MaintenanceFactory == (x :> b) @@ (y :> Absent) @@ (z :> b)
=============================================================================
