------------------------------ MODULE LuaPack -------------------------------
(***************************************************************************)
(* internal/plugin/lua.go and lua_windows.go: the interface a Lua pack      *)
(* proposes tweaks through.  A script opens a tweak, proposes operations    *)
(* for it and for its undo, and commits it; it may do so in any order and   *)
(* as often as it likes, and it may catch the errors it is given.           *)
(*                                                                         *)
(* A call maps the state of the script's API to the state it leaves behind  *)
(* and to whether it returns or raises a Lua error.  Strings hold no NUL:   *)
(* a name with one is accepted, but the handle of its operation cannot be   *)
(* handed to the script.                                                    *)
(*                                                                         *)
(* The API is the same for every ScriptHost.  The one that runs lua54.dll   *)
(* stops a script before its first call (StopsAtFirstLine); the tests make    *)
(* the calls themselves, as a host would.                                   *)
(***************************************************************************)
EXTENDS Catalog

CONSTANTS MaxLogEntries,   \* log entries of a script (256)
          MaxOps           \* bound on the operations of a list

ASSUME LuaAssumption == {MaxLogEntries, MaxOps} \subseteq Nat

\* The operations a script may propose: no command, no Appx package, no scheduled task.
AllowedPluginOpTypes == RegistryWrites \cup {"registry_delete", "service_start_mode"}

\* newLuaAPI: the tweak being built, if any, and the ones committed.
NewLuaAPI == [open |-> <<>>, committed |-> <<>>, logs |-> 0]

Returns(api) == [api |-> api, ok |-> TRUE]
Raises(api)  == [api |-> api, ok |-> FALSE]

\* winforge.tweak: an id is required and every field has its type (proper).
BeginTweak(api, t, proper) ==
    IF api.open # <<>> \/ ~proper THEN Raises(api) ELSE Returns([api EXCEPT !.open = <<t>>])

Acceptable(o) == o.type \in AllowedPluginOpTypes /\ ValidOperation(o)

\* recordOp: an operation of the open tweak.
RecordOp(api, o) ==
    IF api.open = <<>> \/ ~Acceptable(o)
    THEN Raises(api)
    ELSE Returns([api EXCEPT !.open[1].operations = Append(@, o)])

\* winforge.registry.set knows three kinds of values; the other two calls know one type.
RegistrySet(api, o) == IF o.type \in RegistryWrites THEN RecordOp(api, o) ELSE Raises(api)
RegistryDelete(api, o) == IF o.type = "registry_delete" THEN RecordOp(api, o) ELSE Raises(api)
ServiceSetStartMode(api, o) == IF o.type = "service_start_mode" THEN RecordOp(api, o) ELSE Raises(api)

\* Mutant: what a script hands to winforge.revert is taken as it is.
RevertTrusting(api, o) ==
    IF api.open = <<>> THEN Raises(api)
    ELSE Returns([api EXCEPT !.open[1].revert = Append(@, o)])

\* winforge.revert: any table is decoded and validated again, whether it is a handle or not.
Revert(api, o) ==
    IF api.open = <<>> \/ ~Acceptable(o)
    THEN Raises(api)
    ELSE Returns([api EXCEPT !.open[1].revert = Append(@, o)])

\* winforge.log: a bounded number of entries.
Log(api) == IF api.logs >= MaxLogEntries THEN Raises(api) ELSE Returns([api EXCEPT !.logs = @ + 1])

\* commit: the open tweak is validated and, either way, no longer open.
Commit(api) ==
    IF api.open = <<>> THEN Raises(api)
    ELSE LET closed == [api EXCEPT !.open = <<>>]
         IN  IF ValidTweaks(api.open)
             THEN Returns([closed EXCEPT !.committed = Append(@, api.open[1])])
             ELSE Raises(closed)

\* Every call a script can make with tweaks T and operations O.
Called(api, T, O) ==
    {BeginTweak(api, t, p) : t \in T, p \in BOOLEAN} \cup {Log(api), Commit(api)}
    \cup (IF api.open # <<>> /\ Len(api.open[1].operations) >= MaxOps THEN {}
          ELSE {RegistrySet(api, o) : o \in O} \cup {RegistryDelete(api, o) : o \in O}
                  \cup {ServiceSetStartMode(api, o) : o \in O})
    \cup (IF api.open # <<>> /\ Len(api.open[1].revert) >= MaxOps THEN {}
          ELSE {Revert(api, o) : o \in O})

-----------------------------------------------------------------------------
(* The hook of lua_windows.go.                                              *)

\* The events of a hook in Lua 5.4, from the lowest bit of its mask (LUA_MASKCALL, LUA_MASKRET,
\* LUA_MASKLINE, LUA_MASKCOUNT in lua.h).
HookEvents == <<"call", "return", "line", "count">>

\* luaMaskCount is 1 << 2.
HookEvent == HookEvents[2 + 1]

\* hostHook raises its error on the first event, whatever the count passed with it: every chunk,
\* even an empty one, begins with the line event of its first line.
StopsAtFirstLine == HookEvent = "line"
=============================================================================
