----------------------------- MODULE Artifacts -----------------------------
(***************************************************************************)
(* The two artifact services: InMemoryArtifactService, whose methods never *)
(* suspend, and FileArtifactService, whose methods run in worker threads   *)
(* (asyncio.to_thread), so that the file-system calls of two methods       *)
(* interleave and a process that stops leaves a save half done.            *)
(*                                                                         *)
(* A path is a scope (a session, or the user) and a file name.  Bytes and  *)
(* metadata of a save are the number of the save.  shutil.rmtree is one    *)
(* step here; files of a removed directory cannot be written.              *)
(***************************************************************************)
EXTENDS Naturals, Sequences, FiniteSetsExt

CONSTANTS Savers, SessionIds, UserScope, Files,
          MaxSaves   \* saves begun in a behaviour

\* What the instances ASSUME.
ArtifactsAssumption == UserScope \notin SessionIds /\ MaxSaves \in Nat

VARIABLES
  backend,    \* which service is in use
  versions,   \* InMemoryArtifactService._store: path -> list of saves
  dirs,       \* directories that exist
  payload,    \* files <version>: set of [path, version, save]
  sidecar,    \* files <version>.meta.json: set of [path, version, save]
  saving,     \* the save each worker thread is in
  begun,      \* number of saves begun
  kept        \* history: saves that returned, [path, version, save, alone]

vars == <<backend, versions, dirs, payload, sidecar, saving, begun, kept>>

Paths == (SessionIds \cup {UserScope}) \X Files
Entry == [path : Paths, version : 0..MaxSaves, save : 1..MaxSaves]
Task == [at : {"chosen", "written"}, path : Paths, version : 0..MaxSaves, save : 1..MaxSaves,
         alone : BOOLEAN]
None == [at |-> "none"]

TypeOK ==
  /\ backend \in {"memory", "files"}
  /\ versions \in [Paths -> Seq(1..MaxSaves)]
  /\ dirs \subseteq Paths /\ payload \subseteq Entry /\ sidecar \subseteq Entry
  /\ saving \in [Savers -> {None} \cup Task]
  /\ begun \in 0..MaxSaves
  /\ kept \subseteq [path : Paths, version : 0..MaxSaves, save : 1..MaxSaves, alone : BOOLEAN]

Init ==
  /\ backend \in {"memory", "files"}
  /\ versions = [p \in Paths |-> <<>>]
  /\ dirs = {} /\ payload = {} /\ sidecar = {}
  /\ saving = [w \in Savers |-> None] /\ begun = 0 /\ kept = {}

Begin == begun < MaxSaves /\ begun' = begun + 1

\* list_versions.
Versions(p) ==
  IF backend = "memory" THEN 0..(Len(versions[p]) - 1)
  ELSE {f.version : f \in {x \in payload : x.path = p}}

(***************************************************************************)
(* InMemoryArtifactService.                                                *)
(***************************************************************************)
MemorySave(p) ==
  /\ backend = "memory" /\ Begin
  /\ versions' = [versions EXCEPT ![p] = Append(@, begun')]
  /\ kept' = kept \cup {[path |-> p, version |-> Len(versions[p]), save |-> begun', alone |-> TRUE]}
  /\ UNCHANGED <<backend, dirs, payload, sidecar, saving>>

MemoryDelete(p) ==
  /\ backend = "memory"
  /\ versions' = [versions EXCEPT ![p] = <<>>]
  /\ kept' = {k \in kept : k.path # p}
  /\ UNCHANGED <<backend, dirs, payload, sidecar, saving, begun>>

(***************************************************************************)
(* FileArtifactService.                                                    *)
(***************************************************************************)
Saving(p) == {w \in Savers : saving[w] # None /\ saving[w].path = p}

\* History: the saves of p under way are not alone.
Disturb(p) ==
  [w \in Savers |-> IF w \in Saving(p) THEN [saving[w] EXCEPT !.alone = FALSE] ELSE saving[w]]

\* The latest version again (mutant).
NextVersionOffByOne(p) == IF Versions(p) = {} THEN 0 ELSE Max(Versions(p))

\* One more than the latest version on disk.
NextVersion(p) == IF Versions(p) = {} THEN 0 ELSE Max(Versions(p)) + 1

\* save_artifact: mkdir and the choice of the version.
Choose(w, p) ==
  /\ backend = "files" /\ saving[w] = None /\ Begin
  /\ dirs' = dirs \cup {p}
  /\ saving' = [Disturb(p) EXCEPT ![w] =
       [at |-> "chosen", path |-> p, version |-> NextVersion(p), save |-> begun',
        alone |-> Saving(p) = {}]]
  /\ UNCHANGED <<backend, versions, payload, sidecar, kept>>

File(s) == [path |-> s.path, version |-> s.version, save |-> s.save]

\* The file of this name is overwritten.
Written(files, f) == {g \in files : <<g.path, g.version>> # <<f.path, f.version>>} \cup {f}

WritePayload(w) ==
  /\ saving[w] # None /\ saving[w].at = "chosen"
  /\ saving[w].path \in dirs
  /\ payload' = Written(payload, File(saving[w]))
  /\ saving' = [saving EXCEPT ![w].at = "written"]
  /\ UNCHANGED <<backend, versions, dirs, sidecar, begun, kept>>

\* ... and the version is returned.
WriteSidecar(w) ==
  /\ saving[w] # None /\ saving[w].at = "written"
  /\ saving[w].path \in dirs
  /\ sidecar' = Written(sidecar, File(saving[w]))
  /\ LET s == saving[w] IN
       kept' = {k \in kept : ~(k.path = s.path /\ k.version = s.version /\ ~k.alone)}
                 \cup {[path |-> s.path, version |-> s.version, save |-> s.save, alone |-> s.alone]}
  /\ saving' = [saving EXCEPT ![w] = None]
  /\ UNCHANGED <<backend, versions, dirs, payload, begun>>

\* FileNotFoundError: the directory is gone.
SaveFails(w) ==
  /\ saving[w] # None /\ saving[w].path \notin dirs
  /\ saving' = [saving EXCEPT ![w] = None]
  /\ UNCHANGED <<backend, versions, dirs, payload, sidecar, begun, kept>>

FilesDelete(p) ==
  /\ backend = "files" /\ p \in dirs
  /\ dirs' = dirs \ {p}
  /\ payload' = {f \in payload : f.path # p}
  /\ sidecar' = {f \in sidecar : f.path # p}
  /\ saving' = Disturb(p)
  /\ kept' = {k \in kept : k.path # p}
  /\ UNCHANGED <<backend, versions, begun>>

\* The process stops: memory is lost, the files are as they are.
Crash ==
  /\ saving' = [w \in Savers |-> None]
  /\ versions' = [p \in Paths |-> <<>>]
  /\ kept' = IF backend = "memory" THEN {} ELSE kept
  /\ UNCHANGED <<backend, dirs, payload, sidecar, begun>>

Next ==
  \/ Crash
  \/ \E p \in Paths : MemorySave(p) \/ MemoryDelete(p) \/ FilesDelete(p)
  \/ \E w \in Savers : WritePayload(w) \/ WriteSidecar(w) \/ SaveFails(w)
                       \/ (\E p \in Paths : Choose(w, p))

Spec == Init /\ [][Next]_vars

(***************************************************************************)
(* What the reading methods return.                                        *)
(***************************************************************************)
\* load_artifact of a given version: the saves whose bytes it may return.
Load(p, v) ==
  IF v \notin Versions(p) THEN {}
  ELSE IF backend = "memory" THEN {versions[p][v + 1]}
  ELSE {f.save : f \in {x \in payload : x.path = p /\ x.version = v}}

\* get_artifact_version of a given version.
VersionInfo(p, v) ==
  IF backend = "memory" THEN Load(p, v)
  ELSE {f.save : f \in {x \in sidecar : x.path = p /\ x.version = v}}

\* list_artifact_keys of a session: its own files and the user's.
Listed(session) ==
  {f \in Files : \E scope \in {session, UserScope} :
     IF backend = "memory" THEN versions[<<scope, f>>] # <<>> ELSE <<scope, f>> \in dirs}

\* A save during which nobody else saved or deleted the artifact is kept as it
\* was, bytes and metadata, under the version it returned, whatever later
\* saves, overlapping ones and crashes do, until the artifact is deleted; and
\* the artifact is listed for every session that can see it.
IsolatedSaveIsKept ==
  \A k \in kept : k.alone =>
    /\ Load(k.path, k.version) = {k.save}
    /\ VersionInfo(k.path, k.version) = {k.save}
    /\ \A s \in SessionIds : k.path[1] \in {s, UserScope} => k.path[2] \in Listed(s)
============================================================================
