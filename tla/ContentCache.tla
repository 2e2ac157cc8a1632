----------------------------- MODULE ContentCache -----------------------------
(***************************************************************************)
(* The sealed cache of retail content: RetailContentImporter::run() with   *)
(* the media and the resource graph it publishes, and                      *)
(* RetailContentStore::open() (retail_content.cpp, retail_media.cpp,       *)
(* retail_resource_graph.cpp).                                             *)
(*                                                                         *)
(* An import publishes one file after another, each by a rename from its   *)
(* own staging directory, and three pointers among them.  It may fail or   *)
(* be killed after each of them, other imports and a store being opened    *)
(* run beside it, and the power may go: what was renamed and not synced is *)
(* then there or not, and what was not synced at all may be torn.  A file  *)
(* is named after the digest of its bytes, so its value is whether they    *)
(* are there.  A directory that is synced is taken to keep its own name.   *)
(***************************************************************************)
EXTENDS Naturals, Sequences, SequencesExt

CONSTANTS
    Importers,      \* processes that run one import each
    Targets,        \* identity policies: PAL and NTSC-U/J
    Media,          \* the media assets of each target, in their order
    Payloads,       \* the decoded entries of each target, in their order
    NoTarget,
    MaxLosses       \* bounds the power failures

ASSUME TargetsAssumption ==
    /\ NoTarget \notin Targets
    /\ DOMAIN Media = Targets /\ DOMAIN Payloads = Targets
    /\ \A t \in Targets : /\ Media[t] \in Seq(ToSet(Media[t]))
                         /\ Payloads[t] \in Seq(ToSet(Payloads[t]))

VARIABLES
    disk,           \* what a process finds under each name
    kept,           \* what may be found there after a power failure
    import,         \* each importer: state, target, place in its plan
    alone,          \* the importers nothing has run beside (history)
    reader,         \* a store being opened: its target and its place
    losses          \* power failures so far

vars == <<disk, kept, import, alone, reader, losses>>

-----------------------------------------------------------------------------
(* Files.                                                                  *)

Current == <<"current">>
MediaCurrent == <<"media/current">>
GraphCurrent == <<"graph/current">>
Pointers == {Current, MediaCurrent, GraphCurrent}

Each(kind, names) == [i \in DOMAIN names |-> <<kind, names[i]>>]
MediaManifest(t) == <<"media manifest", t>>
Graph(t) == <<"graph", t>>
Index(t) == <<"index", t>>

\* Mutant: the pointer is replaced before the index it names is there.
PlanPointerFirst(t) ==
    Each("media", Media[t]) \o <<MediaManifest(t), MediaCurrent>>
       \o Each("blob", Payloads[t]) \o <<Graph(t), GraphCurrent>>
       \o <<Current, Index(t)>>

\* What an import publishes, in its order.
Plan(t) ==
    Each("media", Media[t]) \o <<MediaManifest(t), MediaCurrent>>
       \o Each("blob", Payloads[t]) \o <<Graph(t), GraphCurrent>>
       \o <<Index(t), Current>>

Generation(t) == ToSet(Plan(t)) \ Pointers
Files == Pointers \cup UNION {Generation(t) : t \in Targets}

Value(f, t) == IF f \in Pointers THEN t ELSE "good"

\* Published already?  A blob is hashed again, a manifest is taken to be
\* right if it is there, a pointer is always replaced.
Skipped(f) ==
    CASE f[1] \in {"media", "blob", "index"} -> disk[f] = "good"
      [] f[1] \in {"media manifest", "graph"} -> disk[f] # "absent"
      [] OTHER -> FALSE

\* Mutant: a manifest is renamed into place without fsync().
WrittenSyncedOnce(f) == f[1] \in {"blob", "index"}

\* copy_media() only flushes; all the others call fsync() before the rename.
WrittenSynced(f) == f[1] # "media"

\* rename_replace() syncs the directory, replace_file() does not.
NameSynced(f) == f[1] \in {"blob", "index", "current"}

-----------------------------------------------------------------------------
(* The importer.                                                           *)

Active(p) == import[p].state = "running"
File(p) == Plan(import[p].target)[import[p].place]

\* The next file, or the end.
Advanced(p) ==
    LET i == import[p]
    IN  IF i.place = Len(Plan(i.target))
        THEN [i EXCEPT !.state = "passed", !.renamed = FALSE]
        ELSE [i EXCEPT !.place = @ + 1, !.renamed = FALSE]

Init ==
    /\ disk = [f \in Files |-> IF f \in Pointers THEN NoTarget ELSE "absent"]
    /\ kept = [f \in Files |-> {disk[f]}]
    /\ import = [p \in Importers |->
                   [state |-> "idle", target |-> NoTarget, place |-> 1,
                    renamed |-> FALSE]]
    /\ alone = {}
    /\ reader = [target |-> NoTarget, place |-> "closed"]
    /\ losses = 0

\* The source files are qualified and a staging directory is made.
Begin(p, t) ==
    /\ import[p].state = "idle"
    /\ import' = [import EXCEPT ![p].state = "running", ![p].target = t]
    /\ alone' = IF \E q \in Importers : Active(q) THEN {} ELSE {p}
    /\ UNCHANGED <<disk, kept, reader, losses>>

\* What is there already is kept; the bytes are those of the name, so who
\* renames them last makes no difference.
Skip(p) ==
    /\ Active(p) /\ ~import[p].renamed /\ Skipped(File(p))
    /\ import' = [import EXCEPT ![p] = Advanced(p)]
    /\ UNCHANGED <<disk, kept, alone, reader, losses>>

Rename(p) ==
    LET f == File(p)
        v == Value(f, import[p].target)
    IN  /\ Active(p) /\ ~import[p].renamed /\ ~Skipped(f)
        /\ disk' = [disk EXCEPT ![f] = v]
        /\ kept' = [kept EXCEPT ![f] = @ \cup {v}
                                         \cup IF WrittenSynced(f) THEN {} ELSE {"torn"}]
        /\ import' = [import EXCEPT ![p] = IF NameSynced(f)
                                           THEN [@ EXCEPT !.renamed = TRUE]
                                           ELSE Advanced(p)]
        /\ UNCHANGED <<alone, reader, losses>>

SyncDirectory(p) ==
    /\ Active(p) /\ import[p].renamed
    /\ kept' = [kept EXCEPT ![File(p)] = {disk[File(p)]}]
    /\ import' = [import EXCEPT ![p] = Advanced(p)]
    /\ UNCHANGED <<disk, alone, reader, losses>>

\* Mutant: a failed import removes the destination instead of its temporary.
StopCleaningUp(p) ==
    /\ Active(p)
    /\ disk' = IF File(p) \in Pointers THEN disk
               ELSE [disk EXCEPT ![File(p)] = "absent"]
    /\ import' = [import EXCEPT ![p].state = "failed"]
    /\ UNCHANGED <<kept, alone, reader, losses>>

\* An entry that cannot be read or decoded, an error of the file system, a
\* source that has changed, or the end of the process.  Only the staging
\* directory is removed, or left behind.
Stop(p) ==
    /\ Active(p)
    /\ import' = [import EXCEPT ![p].state = "failed"]
    /\ UNCHANGED <<disk, kept, alone, reader, losses>>

-----------------------------------------------------------------------------
(* RetailContentStore::open(): the pointer, its index, the media, the      *)
(* graph, and last every payload.                                          *)

Good(files) == \A f \in files : disk[f] = "good"
MediaFiles(t) == ToSet(Each("media", Media[t])) \cup {MediaManifest(t)}
Blobs(t) == ToSet(Each("blob", Payloads[t]))

OpenSteps == <<"current", "index", "media", "graph", "blobs", "open">>

\* What the store needs to find at each step.
Finds(place, t) ==
    CASE place = "current" -> disk[Current] = t
      [] place = "index" -> Good({Index(t)})
      [] place = "media" -> disk[MediaCurrent] = t /\ Good(MediaFiles(t))
      [] place = "graph" -> disk[GraphCurrent] = t /\ Good({Graph(t)})
      [] place = "blobs" -> Good(Blobs(t))

OpenStore(t) ==
    /\ reader.place = "closed"
    /\ reader' = [target |-> t, place |-> "current"]
    /\ UNCHANGED <<disk, kept, import, alone, losses>>

\* One check: the next one, or the open fails.
Checks ==
    /\ reader.place \in ToSet(OpenSteps) \ {"open"}
    /\ IF Finds(reader.place, reader.target)
       THEN \E i \in 1 .. Len(OpenSteps) - 1 :
               /\ OpenSteps[i] = reader.place
               /\ reader' = [reader EXCEPT !.place = OpenSteps[i + 1]]
       ELSE reader' = [reader EXCEPT !.place = "closed"]
    /\ UNCHANGED <<disk, kept, import, alone, losses>>

CloseStore ==
    /\ reader.place = "open"
    /\ reader' = [reader EXCEPT !.place = "closed"]
    /\ UNCHANGED <<disk, kept, import, alone, losses>>

-----------------------------------------------------------------------------
\* What a power failure may leave: each name has one of its values.
Unsure == {f \in Files : kept[f] # {disk[f]}}

Leftovers ==
    {[f \in Files |-> IF f \in DOMAIN found THEN found[f]
                      ELSE IF f \in DOMAIN named THEN named[f] ELSE disk[f]] :
       found \in {d \in [Unsure \ Pointers -> {"absent", "torn", "good"}] :
                     \A f \in DOMAIN d : d[f] \in kept[f]},
       named \in {d \in [Unsure \cap Pointers -> Targets \cup {NoTarget}] :
                     \A f \in DOMAIN d : d[f] \in kept[f]}}

PowerFails ==
    /\ losses < MaxLosses
    /\ losses' = losses + 1
    /\ disk' \in Leftovers
    /\ kept' = [f \in Files |-> {disk'[f]}]
    /\ import' = [p \in Importers |->
                    IF Active(p) THEN [import[p] EXCEPT !.state = "failed"]
                    ELSE import[p]]
    /\ alone' = {}
    /\ reader' = [reader EXCEPT !.place = "closed"]

Next ==
    \/ \E p \in Importers :
          \/ \E t \in Targets : Begin(p, t)
          \/ Skip(p) \/ Rename(p) \/ SyncDirectory(p) \/ Stop(p)
    \/ \E t \in Targets : OpenStore(t)
    \/ Checks \/ CloseStore \/ PowerFails

Spec == Init /\ [][Next]_vars

-----------------------------------------------------------------------------
(* Properties.                                                             *)

Openable(t) == \A i \in 1 .. Len(OpenSteps) - 1 : Finds(OpenSteps[i], t)

\* As long as the power stays, the generation that current names has all its
\* files, whatever imports fail, die or race; and if no other target was ever
\* imported into the cache, it can be opened at every moment.
PublishedIsComplete ==
    \A t \in Targets : losses = 0 /\ disk[Current] = t =>
       /\ Good(Generation(t))
       /\ {import[p].target : p \in Importers} \subseteq {t, NoTarget} => Openable(t)

\* An import that passes and had the cache for itself leaves a cache that
\* opens, whatever earlier imports and power failures have left there: a
\* manifest that is not looked into again is never torn.
ReimportRepairs ==
    \A p \in alone : import[p].state = "passed" => Openable(import[p].target)

\* A store that is open was checked file by file while imports went on; what
\* it was checked to have stays readable.
OpenedStaysWhole ==
    reader.place = "open" => Good(Generation(reader.target))

-----------------------------------------------------------------------------
(* What the documentation says and the code does not do.                   *)

\* "current is replaced only after every blob and the index have been written
\* and synced" (ace-combat-6/README.md:39-40): the media are not synced, and a
\* blob that is found renamed is not synced again.
CurrentIsDurable ==
    \A t \in Targets : kept[Current] = {t} => \A f \in Generation(t) : kept[f] = {"good"}

\* "a decode error fails before a new generation is published"
\* (ace-combat-6/README.md:28-30): its media and graph pointers may be, and
\* the generation of another target in the same cache no longer opens.
FailureKeepsGeneration ==
    \A t \in Targets :
       /\ losses = 0 /\ disk[Current] = t
       /\ \A p \in Importers : import[p].state \in {"idle", "passed", "failed"}
       => Openable(t)
=============================================================================
