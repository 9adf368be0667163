------------------------------ MODULE Catalog -------------------------------
(***************************************************************************)
(* internal/config: what the strict loader accepts as an operation, a      *)
(* tweak, and the four catalogs (tweaks, applications, DNS presets and     *)
(* protected services), and which file each catalog is read from.          *)
(*                                                                         *)
(* An operation keeps the fields validation looks at.  Registry and task   *)
(* paths are their number of components, a value is the class of JSON it   *)
(* belongs to, and long says that some field exceeds its limit.  fit is    *)
(* not in the file: it says that the operation is of a known type and has  *)
(* a target and a value that type can have, and the properties compare     *)
(* validation with it.  null in place of a value is fit for every type     *)
(* that decodes it: it stands for zero.                                    *)
(***************************************************************************)
EXTENDS Integers, Sequences, TLC

RegistryWrites == {"registry_set_dword", "registry_set_qword", "registry_set_string"}

\* The JSON values an operation may carry, by what they decode to.  null decodes to 0, "" or
\* false without an error; a value that is missing decodes to nothing.
Dwords  == {"small", "dword", "null"}
Qwords  == Dwords \cup {"wide"}
Texts   == {"text", "mode", "scheme", "program", "program args", "pipeline", "", "null"}
Flags   == {"flag", "null"}
Objects == {"percents", "percents swapped"}

\* DwordValue, QwordValue, StringValue, BoolValue, ProcessorStateValue and NetbiosValue succeed.
IsDword(v)     == v \in Dwords
IsQword(v)     == v \in Qwords
IsText(v)      == v \in Texts
IsFlag(v)      == v \in Flags
IsPercents(v)  == v = "percents"
IsNetbios(v)   == IsDword(v) /\ v # "dword"

RegistryTarget(o) == o.hive \in {"HKLM", "HKCU", "HKCR", "HKU"} /\ o.path > 0

\* A key is deleted only two components deep or deeper.  A command names a program alone, without
\* shell syntax; its arguments are a list of their own, without NULs and quotes.
ValidOperation(o) ==
    /\ ~o.long
    /\ CASE o.type = "registry_set_dword" -> RegistryTarget(o) /\ IsDword(o.value)
         [] o.type = "registry_set_qword" -> RegistryTarget(o) /\ IsQword(o.value)
         [] o.type = "registry_set_string" -> RegistryTarget(o) /\ IsText(o.value)
         [] o.type = "registry_delete" -> RegistryTarget(o)
         [] o.type = "registry_delete_key" -> RegistryTarget(o) /\ o.name = "" /\ o.path >= 2
         [] o.type = "service_start_mode" -> o.name # "" /\ o.value = "mode"
         [] o.type \in {"service_start", "service_stop", "appx_remove"} -> o.name # ""
         [] o.type \in {"task_disable", "task_enable", "task_delete"} -> o.path > 0
         [] o.type = "power_scheme" -> o.value = "scheme"
         [] o.type = "power_hibernate" -> IsFlag(o.value)
         [] o.type = "power_processor_state" -> IsPercents(o.value)
         [] o.type = "netbios" -> IsNetbios(o.value)
         [] o.type = "command" -> o.value = "program" /\ o.args = "plain"
         [] OTHER -> FALSE

\* TweakConfig.Validate for one tweak.  long says that a display field or a list exceeds its
\* limit; the name is derived from the id when it is missing, so it cannot be wrong.
ValidTweak(t) ==
    /\ t.id # "" /\ ~t.long
    /\ t.operations # <<>>
    /\ t.reversible => t.revert # <<>>
    /\ t.risk \in {"", "low", "medium", "high", "expert"}
    /\ \A i \in DOMAIN t.operations : ValidOperation(t.operations[i])
    /\ \A i \in DOMAIN t.revert : ValidOperation(t.revert[i])

\* No two entries of a catalog have the same id.
Distinct(entries) ==
    \A i, j \in DOMAIN entries : i # j => entries[i].id # entries[j].id

ValidTweaks(tweaks) == Distinct(tweaks) /\ \A i \in DOMAIN tweaks : ValidTweak(tweaks[i])

\* The other catalogs hold entries with an id (of which the case does not matter) and at most
\* one flaw, and each rejects the flaws that can occur in it.
Flawless(entries, flaws) ==
    Distinct(entries) /\ \A i \in DOMAIN entries : entries[i].flaw \notin flaws

ValidApps(apps) == Flawless(apps, {"id", "name", "long"})
ValidDns(presets) == Flawless(presets, {"name", "long", "padded", "servers"})
ValidServices(names) == Flawless(names, {"name", "long", "padded"})

-----------------------------------------------------------------------------
(* Loading.  A file of the override directory is missing, cannot be read, is *)
(* not the JSON of its catalog, or is a list of entries.                     *)

Absent     == [is |-> "absent", entries |-> <<>>]
Unreadable == [is |-> "unreadable", entries |-> <<>>]
Malformed  == [is |-> "malformed", entries |-> <<>>]
File(entries) == [is |-> "list", entries |-> entries]

\* readFile: an override comes before the embedded file, and one that cannot be read is not
\* passed by.
ReadFile(override, embedded) == IF override = Absent THEN embedded ELSE override

\* A catalog is loaded if it is read, decoded and valid.
LoadTweaks(f) == f.is = "list" /\ ValidTweaks(f.entries)
LoadApps(f) == f.is = "list" /\ ValidApps(f.entries)
LoadDns(f) == f.is = "list" /\ ValidDns(f.entries)

\* The list of protected services is optional.
LoadProtectedServices(f) == f = Absent \/ (f.is = "list" /\ ValidServices(f.entries))
=============================================================================
