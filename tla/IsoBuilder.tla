----------------------------- MODULE IsoBuilder -----------------------------
(***************************************************************************)
(* Building an installation ISO (internal/isobuilder): the wanted editions *)
(* are exported one by one into a temporary image, the source is copied    *)
(* into a temporary directory around it, and oscdimg packs the result.     *)
(* Every step may fail; the temporary paths are removed on every way out.  *)
(***************************************************************************)
EXTENDS Naturals, Sequences, SequencesExt, FiniteSets

CONSTANTS
    Image,   \* the names of the source image's editions, by index
    Edition  \* edition names a caller may ask for

ASSUME ImageAssumption == Image \in Seq(STRING) /\ Image # <<>> /\ IsFiniteSet(Edition)

VARIABLES
    build,    \* the build in progress
    temp,     \* the temporary paths that exist
    content,  \* the editions, by index, in the temporary image
    stuck,    \* history: temporary paths that could not be removed
    built     \* what the last build returned

isoVars == <<build, temp, content, stuck, built>>

All == DOMAIN Image

NoBuild == [at |-> "idle", wanted |-> {}, todo |-> {}, cleanup |-> <<>>, source |-> All,
            iso |-> {}, err |-> FALSE]
NotBuilt == [at |-> "none", ok |-> FALSE, wanted |-> {}, iso |-> {}]

IsoTypeOK ==
    /\ build \in [at : {"idle", "list", "create", "prepare", "export", "workdir", "copy",
                        "swap", "pack", "cleanup"},
                  wanted : SUBSET Edition, todo : SUBSET All, cleanup : Seq({"wim", "work"}),
                  source : SUBSET All, iso : SUBSET All, err : BOOLEAN]
    /\ temp \subseteq {"wim", "work"} /\ stuck \subseteq {"wim", "work"}
    /\ content \subseteq All
    /\ built \in [at : {"none", "returned"}, ok : BOOLEAN, wanted : SUBSET Edition,
                  iso : SUBSET All]

IsoInit == /\ build = NoBuild /\ built = NotBuilt
           /\ temp = {} /\ content = {} /\ stuck = {}

-----------------------------------------------------------------------------

\* Any error ends the build by way of the deferred clean-up.
Fails == /\ build' = [build EXCEPT !.at = "cleanup", !.err = TRUE]
         /\ UNCHANGED <<content, stuck, built>>

\* selectIndexes: every index of every wanted name, once; a name the image does not have is
\* an error.
Selected(wanted) == {i \in All : Image[i] \in wanted}
Known(wanted) == wanted \subseteq Range(Image)

\* No editions means the source as it is.  An elevated process refuses, and so does
\* ValidateOptions when it finds the source or the output unsuitable.
BeginBuild(wanted) ==
    /\ build.at = "idle"
    /\ \/ /\ build' = [NoBuild EXCEPT !.at = IF wanted = {} THEN "pack" ELSE "list",
                                      !.wanted = wanted]
          /\ built' = NotBuilt
       \/ /\ build' = NoBuild
          /\ built' = [at |-> "returned", ok |-> FALSE, wanted |-> wanted, iso |-> {}]
    /\ temp' = {} /\ content' = {} /\ stuck' = {}

ListEditions ==
    /\ build.at = "list" /\ UNCHANGED temp
    /\ \/ Fails
       \/ /\ Known(build.wanted)
          /\ build' = [build EXCEPT !.at = "create", !.todo = Selected(build.wanted)]
          /\ UNCHANGED <<content, stuck, built>>

CreateTemp ==
    /\ build.at = "create"
    /\ \/ Fails /\ UNCHANGED temp
       \/ /\ temp' = temp \cup {"wim"}
          /\ build' = [build EXCEPT !.at = "prepare", !.cleanup = Append(@, "wim")]
          /\ UNCHANGED <<content, stuck, built>>

\* The empty file is closed and removed again: DISM creates it.
Prepare ==
    /\ build.at = "prepare"
    /\ \/ Fails /\ UNCHANGED temp
       \/ /\ temp' = temp \ {"wim"}
          /\ build' = [build EXCEPT !.at = "export"]
          /\ UNCHANGED <<content, stuck, built>>

\* Mutant: an export that failed is passed over.
ExportSkipping ==
    /\ build.at = "export"
    /\ temp' = temp \cup {"wim"}
    /\ \E i \in build.todo : /\ content' \in {content, content \cup {i}}
                             /\ build' = [build EXCEPT !.todo = @ \ {i}]
    /\ UNCHANGED <<stuck, built>>

\* The editions come in the order in which the caller names them.  A failed export may
\* leave a partial image.
Export ==
    /\ build.at = "export" /\ build.todo # {}
    /\ \/ Fails /\ temp' \in {temp, temp \cup {"wim"}}
       \/ /\ temp' = temp \cup {"wim"}
          /\ \E i \in build.todo : /\ content' = content \cup {i}
                                   /\ build' = [build EXCEPT !.todo = @ \ {i}]
          /\ UNCHANGED <<stuck, built>>

\* Mutant: the directory is not registered for the clean-up.
MakeWorkDirUnregistered ==
    /\ build.at = "export" /\ build.todo = {}
    /\ \/ Fails /\ UNCHANGED temp
       \/ /\ temp' = temp \cup {"work"}
          /\ build' = [build EXCEPT !.at = "copy"]
          /\ UNCHANGED <<content, stuck, built>>

MakeWorkDir ==
    /\ build.at = "export" /\ build.todo = {}
    /\ \/ Fails /\ UNCHANGED temp
       \/ /\ temp' = temp \cup {"work"}
          /\ build' = [build EXCEPT !.at = "copy", !.cleanup = Append(@, "work")]
          /\ UNCHANGED <<content, stuck, built>>

\* copyTree copies everything but the original image.
CopySource ==
    /\ build.at = "copy" /\ UNCHANGED temp
    /\ \/ Fails
       \/ /\ build' = [build EXCEPT !.at = "swap", !.source = {}]
          /\ UNCHANGED <<content, stuck, built>>

\* The slimmed image is moved to its place in the copy.
SwapImage ==
    /\ build.at = "swap"
    /\ \/ Fails /\ UNCHANGED temp
       \/ /\ temp' = temp \ {"wim"}
          /\ build' = [build EXCEPT !.at = "pack", !.source = content]
          /\ UNCHANGED <<content, stuck, built>>

\* buildISO: oscdimg or the boot images may be missing, and oscdimg may fail.
Pack ==
    /\ build.at = "pack" /\ UNCHANGED temp
    /\ \/ Fails
       \/ /\ build' = [build EXCEPT !.at = "cleanup", !.iso = build.source]
          /\ UNCHANGED <<content, stuck, built>>

\* os.RemoveAll, last registered first; a failure is joined to the build's error.
CleanUp ==
    /\ build.at = "cleanup" /\ build.cleanup # <<>>
    /\ LET path == Last(build.cleanup)
       IN  \/ /\ temp' = temp \ {path}
              /\ build' = [build EXCEPT !.cleanup = Front(@)] /\ UNCHANGED stuck
           \/ /\ path \in temp /\ stuck' = stuck \cup {path}
              /\ build' = [build EXCEPT !.cleanup = Front(@), !.err = TRUE] /\ UNCHANGED temp
    /\ UNCHANGED <<content, built>>

EndBuild ==
    /\ build.at = "cleanup" /\ build.cleanup = <<>>
    /\ built' = [at |-> "returned", ok |-> ~build.err, wanted |-> build.wanted,
                 iso |-> build.iso]
    /\ build' = NoBuild
    /\ UNCHANGED <<temp, content, stuck>>

IsoStep == \/ ListEditions \/ CreateTemp \/ Prepare \/ Export \/ MakeWorkDir \/ CopySource
           \/ SwapImage \/ Pack \/ CleanUp \/ EndBuild

IsoNext == IsoStep \/ \E wanted \in SUBSET Edition : BeginBuild(wanted)

IsoSpec == IsoInit /\ [][IsoNext]_isoVars

-----------------------------------------------------------------------------

\* A build that reports success has put exactly the wanted editions into the ISO, and no build
\* leaves a temporary path behind unless removing it failed, which is an error.
IsoComplete ==
    /\ built.ok => built.iso = IF built.wanted = {} THEN All ELSE Selected(built.wanted)
    /\ built.at = "returned" => temp \subseteq stuck /\ (stuck # {} => ~built.ok)
=============================================================================
