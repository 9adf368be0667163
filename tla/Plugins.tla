------------------------------ MODULE Plugins -------------------------------
(***************************************************************************)
(* How the application gets its catalog when it starts (internal/app,       *)
(* newApp; internal/config; internal/plugin): embedded catalogs or the      *)
(* user's overrides of them, then the packs in the plugin directory, one    *)
(* folder after the other in the order of their names, then the merge.      *)
(*                                                                         *)
(* A folder is chosen when it is read.  Nothing else touches the state of a *)
(* process that starts, so reading a folder is one step; the calls of a Lua *)
(* script are a step each.                                                 *)
(*                                                                         *)
(* Scripts run in the ScriptHost that newScriptHost returns.  "windows" is  *)
(* the program's own, lua54.dll behind lua_windows.go.  "other" is any that *)
(* keeps to the interface and lets scripts call the API, as the tests do in *)
(* its place: what loadLuaPlugin promises must hold for it, too.           *)
(***************************************************************************)
EXTENDS LuaPack, FiniteSets, SequencesExt

CONSTANTS MaxFolders,      \* bound on the folders there are
          MaxDirectories,  \* folders that are scanned (1024)
          MaxPacks,        \* packs that are loaded (256)
          MaxPackTweaks,   \* tweaks of all packs together (10000)
          MaxCommits,      \* bound on the tweaks a script commits
          ScriptHosts      \* the hosts newScriptHost may return

VARIABLES admin,     \* the process is elevated
          phase,     \* how far the start has come
          left,      \* folders that are still to be read
          packs,     \* the tweaks of each loaded pack
          script,    \* the API of the running script
          host,      \* what newScriptHost returns
          lastPack,  \* history: what the last folder held, and what became of it
          base,      \* the tweaks the packs are merged into
          catalog    \* the tweaks of the application

packVars == <<admin, phase, left, packs, script, host, lastPack, base, catalog>>

ASSUME PackAssumption ==
    /\ {MaxFolders, MaxDirectories, MaxPacks, MaxPackTweaks, MaxCommits} \subseteq Nat
    /\ ScriptHosts # {} /\ ScriptHosts \subseteq {"windows", "other"}

-----------------------------------------------------------------------------
(* What files and scripts are made of.                                      *)

\* A well-formed operation, if its type takes a name and a small number.
Operation(type) ==
    [type |-> type, hive |-> "HKCU", path |-> 2, name |-> "name", value |-> "small",
     args |-> "plain", long |-> FALSE, fit |-> TRUE]

SetMarker == Operation("registry_set_dword")

\* One operation wrong in each way.
Unfit ==
    {[Operation("registry_set_dword") EXCEPT !.hive = "HKXX", !.fit = FALSE],
     [Operation("registry_set_string") EXCEPT !.path = 0, !.value = "text", !.fit = FALSE],
     [Operation("registry_set_qword") EXCEPT !.value = "negative", !.fit = FALSE],
     [Operation("registry_delete_key") EXCEPT !.name = "", !.path = 1, !.fit = FALSE],
     [Operation("service_start_mode") EXCEPT !.value = "text", !.fit = FALSE],
     [Operation("service_stop") EXCEPT !.name = "", !.fit = FALSE],
     [Operation("task_delete") EXCEPT !.path = 0, !.fit = FALSE],
     [Operation("power_scheme") EXCEPT !.value = "text", !.fit = FALSE],
     [Operation("power_hibernate") EXCEPT !.fit = FALSE],
     [Operation("power_hibernate") EXCEPT !.value = "missing", !.fit = FALSE],
     [Operation("power_processor_state") EXCEPT !.value = "null", !.fit = FALSE],
     [Operation("power_processor_state") EXCEPT !.value = "percents swapped", !.fit = FALSE],
     [Operation("netbios") EXCEPT !.value = "dword", !.fit = FALSE],
     [Operation("command") EXCEPT !.value = "program args", !.fit = FALSE],
     [Operation("command") EXCEPT !.value = "program", !.args = "quoted", !.fit = FALSE],
     [Operation("registry_delete") EXCEPT !.long = TRUE, !.fit = FALSE],
     [Operation("format_disk") EXCEPT !.fit = FALSE]}

\* Fit for the engine, but not for a script.
RunProgram == [Operation("command") EXCEPT !.value = "program"]

\* null where true or false belongs: hibernation is switched off.
NullFlag == [Operation("power_hibernate") EXCEPT !.value = "null"]

\* The operations a script may propose.  It has no null: a field of a table that is nil is missing.
Operations == Unfit \cup {SetMarker, RunProgram}

Tweak(id, operations, revert, reversible) ==
    [id |-> id, operations |-> operations, revert |-> revert, reversible |-> reversible,
     risk |-> "", long |-> FALSE]

Sound(id) == Tweak(id, <<SetMarker>>, <<SetMarker>>, TRUE)
OneWay(id) == Tweak(id, <<SetMarker>>, <<>>, FALSE)
BuiltIn == <<Sound("a")>>

\* The tweaks a file may hold besides those.
FlawedTweaks ==
    {Tweak("b", <<>>, <<SetMarker>>, TRUE), Tweak("b", <<SetMarker>>, <<>>, TRUE), Sound(""),
     [Sound("b") EXCEPT !.long = TRUE], [Sound("b") EXCEPT !.risk = "extreme"]}
    \cup {Tweak("b", <<o>>, <<SetMarker>>, TRUE) : o \in Unfit}
    \cup {Tweak("b", <<SetMarker>>, <<o>>, TRUE) : o \in Unfit}

TweakLists == {<<>>, <<Tweak("b", <<RunProgram, NullFlag>>, <<>>, FALSE)>>, <<Sound("a"), Sound("b")>>,
               <<Sound("b"), OneWay("b")>>}
              \cup {<<Sound("a"), t>> : t \in FlawedTweaks}

\* The tweak files there may be in a folder or among the overrides.
TweakFiles == {Absent, Unreadable, Malformed} \cup {File(l) : l \in TweakLists}

Entry(id, flaw) == [id |-> id, flaw |-> flaw]

\* The files of the other three catalogs.
OtherFiles == {Absent, Unreadable, Malformed, File(<<Entry("x", "none"), Entry("x", "none")>>)}
              \cup {File(<<Entry("x", "none"), Entry("y", f)>>) :
                       f \in {"none", "id", "name", "long", "padded", "servers"}}

-----------------------------------------------------------------------------

Phase == {"config", "plugins", "folder", "script", "up", "failed"}

\* What a folder held: tweaks, whether something went wrong while they were read, the kind of pack,
\* and how many instructions the script takes that was stopped by the hook.
Content(tweaks, wrong, from) ==
    [tweaks |-> tweaks, wrong |-> wrong, from |-> from, taken |-> FALSE]

NoPack == Content(<<>>, TRUE, "none")

PacksTypeOK ==
    /\ admin \in BOOLEAN /\ phase \in Phase /\ host \in ScriptHosts
    /\ left \in 0..MaxFolders
    /\ Len(packs) <= MaxPacks
    /\ Len(script.open) <= 1 /\ Len(script.committed) <= MaxCommits /\ script.logs \in 0..MaxLogEntries
    /\ phase # "script" => script = NewLuaAPI

PacksInit ==
    /\ admin \in BOOLEAN /\ host \in ScriptHosts
    /\ phase = "config"
    /\ left = 0 /\ packs = <<>> /\ script = NewLuaAPI
    /\ lastPack = NoPack /\ base = <<>> /\ catalog = <<>>

\* The four loads of newApp.  Elevated, there is no override directory.
LoadConfig ==
    /\ phase = "config"
    /\ \E tweaks \in (IF admin THEN {Absent} ELSE TweakFiles),
          apps, dns, services \in (IF admin THEN {Absent} ELSE OtherFiles) :
          /\ Cardinality({f \in {apps, dns, services} : f # Absent}) <= 1
          /\ LET f == ReadFile(tweaks, File(BuiltIn))
                 other(o) == ReadFile(o, File(<<Entry("x", "none")>>))
             IN IF /\ LoadTweaks(f) /\ LoadApps(other(apps)) /\ LoadDns(other(dns))
                   /\ LoadProtectedServices(other(services))
                THEN phase' = "plugins" /\ base' = f.entries
                ELSE phase' = "failed" /\ UNCHANGED base
    /\ UNCHANGED <<admin, left, packs, script, host, lastPack, catalog>>

\* readPluginDirectories: the log directory is made, and the plugin directory scanned.  It may be
\* missing.  Elevated, neither is touched.
ScanFolders ==
    /\ phase = "plugins"
    /\ \E n \in (IF admin THEN {0} ELSE 0..MaxFolders) :
          \/ n <= MaxDirectories /\ phase' = "folder" /\ left' = n
          \/ n > MaxDirectories /\ phase' = "failed" /\ UNCHANGED left
    /\ UNCHANGED <<admin, packs, script, host, lastPack, base, catalog>>

\* The log directory cannot be made, or the plugin directory cannot be read.
ScanFails ==
    /\ phase = "plugins" /\ ~admin
    /\ phase' = "failed"
    /\ UNCHANGED <<admin, left, packs, script, host, lastPack, base, catalog>>

TotalTweaks == Len(FlattenSeq(packs))

\* A folder that is no plugin, or whose plugin is broken, is left out.
Skip(content) ==
    /\ left' = left - 1
    /\ phase' = "folder"
    /\ lastPack' = content
    /\ UNCHANGED packs

\* A valid plugin is added, unless that makes too many of them.
Add(content) ==
    /\ lastPack' = [content EXCEPT !.taken = TRUE]
    /\ IF Len(packs) >= MaxPacks \/ Len(content.tweaks) > MaxPackTweaks - TotalTweaks
       THEN phase' = "failed" /\ UNCHANGED <<left, packs>>
       ELSE /\ packs' = Append(packs, content.tweaks)
            /\ left' = left - 1
            /\ phase' = "folder"

\* A folder without a manifest, with one that cannot be read, decoded or has another type, with a
\* WASM module, for which no build has a runtime, or with a Lua script that cannot be read or for
\* which there is no lua54.dll.
SkipFolder ==
    /\ phase = "folder" /\ left > 0
    /\ Skip(Content(<<>>, TRUE, "folder"))
    /\ UNCHANGED <<admin, script, host, base, catalog>>

\* loadJSONPlugin: the file of tweaks is optional.
LoadJSONPlugin ==
    /\ phase = "folder" /\ left > 0
    /\ \E f \in TweakFiles :
          LET content == Content(f.entries, f \in {Unreadable, Malformed}, "json")
          IN IF f = Absent \/ LoadTweaks(f) THEN Add(content) ELSE Skip(content)
    /\ UNCHANGED <<admin, script, host, base, catalog>>

\* loadLuaPlugin: the script is given to the host, which makes a state and an API for it.
StartScript ==
    /\ phase = "folder" /\ left > 0
    /\ phase' = "script"
    /\ script' = NewLuaAPI /\ lastPack' = NoPack
    /\ UNCHANGED <<admin, left, packs, host, base, catalog>>

\* The host lets a script get to its calls.
GetsToCalls == host = "other" \/ ~StopsAtFirstLine

\* Run of lua_windows.go: the script does not get to run (there is no state, it holds a NUL or does
\* not compile), or the hook stops it on its first line.  That is before its first call, so the
\* hook's error meets no pcall that could catch it, and Run returns it.
ScriptStopped ==
    /\ phase = "script" /\ ~GetsToCalls
    /\ Skip(Content(<<>>, TRUE, "lua"))
    /\ script' = NewLuaAPI
    /\ UNCHANGED <<admin, host, base, catalog>>

\* The tweaks a script may open.
Proposals == {Tweak("a", <<>>, <<>>, TRUE), Tweak("b", <<>>, <<>>, FALSE)}

\* Where scripts get to their calls: a call that returns, or whose error the script catches.
ScriptCalls ==
    /\ phase = "script" /\ GetsToCalls
    /\ \E c \in Called(script, Proposals, Operations) :
          Len(c.api.committed) <= MaxCommits /\ script' = c.api
    /\ UNCHANGED <<admin, phase, left, packs, host, lastPack, base, catalog>>

\* Mutant: an error of a script ends it, but what it committed is used.
ScriptFailsHalfway ==
    /\ phase = "script" /\ GetsToCalls
    /\ Add(Content(script.committed, TRUE, "lua"))
    /\ script' = NewLuaAPI
    /\ UNCHANGED <<admin, host, base, catalog>>

\* Run returns an error, whatever the script has committed before: the pack is dropped with it.
ScriptFails ==
    /\ phase = "script" /\ GetsToCalls
    /\ Skip(Content(script.committed, TRUE, "lua"))
    /\ script' = NewLuaAPI
    /\ UNCHANGED <<admin, host, base, catalog>>

\* The script returns.  A tweak that is still open is forgotten; the others are validated together.
ScriptEnds ==
    /\ phase = "script" /\ GetsToCalls
    /\ LET content == Content(script.committed, FALSE, "lua")
       IN IF ValidTweaks(script.committed) THEN Add(content) ELSE Skip(content)
    /\ script' = NewLuaAPI
    /\ UNCHANGED <<admin, host, base, catalog>>

\* Mutant: the ids of the tweaks that were merged before are not noted.
MergeTweaksForgetting(tweaks, extra) ==
    tweaks \o SelectSeq(extra, LAMBDA t : \A i \in DOMAIN base : base[i].id # t.id)

\* A tweak without an id is passed by, and so is one whose id is there.
MergeTweak(out, t) == IF t.id = "" \/ \E u \in ToSet(out) : u.id = t.id THEN out ELSE Append(out, t)

\* MergeTweaks: the tweaks that are there win.
MergeTweaks(tweaks, extra) == FoldLeft(MergeTweak, tweaks, extra)

\* The application is up.
EndDiscovery ==
    /\ phase = "folder" /\ left = 0
    /\ phase' = "up"
    /\ catalog' = FoldLeft(MergeTweaks, base, packs)
    /\ UNCHANGED <<admin, left, packs, script, host, lastPack, base>>

PacksNext == \/ LoadConfig \/ ScanFolders \/ ScanFails \/ SkipFolder \/ LoadJSONPlugin
             \/ StartScript \/ ScriptStopped \/ ScriptCalls \/ ScriptFails \/ ScriptEnds
             \/ EndDiscovery

-----------------------------------------------------------------------------

\* A tweak that can be applied and, if it says so, undone.
FitTweak(t) == /\ t.id # "" /\ ~t.long /\ t.risk # "extreme" /\ t.operations # <<>>
               /\ t.reversible => t.revert # <<>>
               /\ \A o \in ToSet(t.operations \o t.revert) : o.fit

FitList(tweaks) == Distinct(tweaks) /\ \A t \in ToSet(tweaks) : FitTweak(t)

\* A pack is taken whole or not at all, in whichever host, whatever its script does in which order
\* and whichever errors it catches: it is taken if nothing went wrong and all of it is sound, and a script
\* contributes no operation reserved for the curated catalog (plugin.go:156-157, lua.go:294-297).
PackWhole ==
    lastPack.from \in {"json", "lua"} =>
        /\ lastPack.taken <=> ~lastPack.wrong /\ FitList(lastPack.tweaks)
        /\ lastPack.taken /\ lastPack.from = "lua" =>
              \A t \in ToSet(lastPack.tweaks) : RunProgram \notin ToSet(t.operations \o t.revert)

\* Once folders are read, the start fails only at a pack that is sound and exceeds a limit: on the
\* number of packs or on that of their tweaks (plugin.go:183-191).
OnlyLimitsFail ==
    phase = "failed" /\ lastPack.from # "none" =>
        lastPack.taken /\ (Len(packs) = MaxPacks \/ TotalTweaks + Len(lastPack.tweaks) > MaxPackTweaks)

\* The lists of tweaks in the order in which they may claim an id: the base, then the packs.
Offers == <<base>> \o packs

\* The tweaks of the k-th list whose id no earlier list offers.
FirstOffered(k) ==
    {t \in ToSet(Offers[k]) : \A j \in 1..(k - 1) : \A u \in ToSet(Offers[j]) : u.id # t.id}

\* The catalog of a started application: ids are unique, every tweak is sound, the base is
\* there unchanged and first, every id that is offered is there with the tweak of the first that
\* offers it, and an elevated process has the embedded tweaks only (app.go:95-101, 141-144,
\* plugin.go:348-350).
CatalogMerged ==
    phase = "up" =>
        /\ FitList(catalog)
        /\ SubSeq(catalog, 1, Len(base)) = base
        /\ ToSet(catalog) = UNION {FirstOffered(k) : k \in DOMAIN Offers}
        /\ admin => catalog = BuiltIn

\* Nothing of a broken pack gets in, and none keeps the application from starting: a start that
\* fails over the packs fails at a sound one that is too much.
PacksContained == PackWhole /\ OnlyLimitsFail
=============================================================================
