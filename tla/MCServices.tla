----------------------------- MODULE MCServices -----------------------------
(***************************************************************************)
(* Model-checking instance of the services an invocation uses: sessions,   *)
(* artifacts, file memory, MCP connections, the attestation log, the files *)
(* of a workspace and the signing identity; and of the Composer that puts  *)
(* a runner together with them.  They are checked one at a time: `part`,   *)
(* chosen in the initial state, is the one that moves, and the others stay *)
(* in an initial state.                                                    *)
(***************************************************************************)
EXTENDS McpClient, Sequences, TLC

CONSTANTS Users, Owners, Ids, Keys, SessionEvents, SessionObjects,
          Savers, SessionIds, UserScope, Files, MaxSaves,
          Procs, Names, Types, Slugs, SlugOf, IndexCap, MaxOps,
          Auditors, AuditedEvents, MaxClaims, MaxCrashes,
          YamlFiles, Main, AgentNames, References,
          Up, Dir, Lines, SpelledPaths, MaxLines, MaxPaths,
          Programs, Passwords, NoPassword, MaxKeys, MaxDeaths

\* Named, so that TLC evaluates them once.
LoadedFiles == YamlFiles
SomeFile == CHOOSE f \in YamlFiles : TRUE

VARIABLES
  part,
  backend, heap, lists, store, row, eventRow, held, tx, acked, created,  \* Sessions
  artifactBackend, versions, dirs, payload, sidecar, saving, begun, kept, \* Artifacts
  files, index, op, opsBegun, disturbed,                                  \* FileMemory
  log, ended, claims, revoked, doing, audited, issued, tears, crashes, raced, \* Attestation
  spec, agents, building, subs, result, todo, signed, verifies,           \* Composer
  disk, texts, folders, answers, apart,                                   \* FileSystem
  file, document, program, keys, deaths, unsettled                        \* Identity

Sessions == INSTANCE Sessions WITH Callers <- Users, MaxEvents <- SessionEvents, MaxObjects <- SessionObjects
Artifacts == INSTANCE Artifacts WITH backend <- artifactBackend
Memory == INSTANCE FileMemory WITH begun <- opsBegun
Attestation == INSTANCE Attestation WITH Procs <- Auditors, MaxEvents <- AuditedEvents
Composer == INSTANCE Composer WITH Files <- LoadedFiles, Agents <- AgentNames, Names <- References
FileSystem == INSTANCE FileSystem WITH Spelled <- SpelledPaths, files <- texts, dirs <- folders
Identity == INSTANCE Identity WITH disturbed <- unsettled

\* An event is known by its number: past are the ones created, but for those
\* whose transaction is still open.
PastEvents ==
  {e \in Sessions!Event :
     e.n <= created /\ \A c \in Users : tx[c].at = "appending" => tx[c].event.n # e.n}

\* What a session service promises, seen through what a load would return.
SessionLog == INSTANCE SessionLog WITH
  Event <- Sessions!Event, past <- PastEvents,
  log <- [id \in Ids |-> Sessions!ToSet(Sessions!LoadedEvents(id))]

ASSUME ServicesAssumption ==
  /\ Sessions!SessionsAssumption /\ Artifacts!ArtifactsAssumption
  /\ Memory!FileMemoryAssumption /\ McpAssumption
  /\ Attestation!AttestationAssumption /\ Composer!ComposerAssumption
  /\ FileSystem!FileSystemAssumption /\ Identity!IdentityAssumption

sessionVars == <<backend, heap, lists, store, row, eventRow, held, tx, acked, created>>
artifactVars == <<artifactBackend, versions, dirs, payload, sidecar, saving, begun, kept>>
memoryVars == <<files, index, op, opsBegun, disturbed>>
mcpVars == <<session, depth, conn, nesting, at, joined>>
attestationVars ==
  <<log, ended, claims, revoked, doing, audited, issued, tears, crashes, raced>>
composerVars == <<spec, agents, building, subs, result, todo, signed, verifies>>
filesystemVars == <<disk, texts, folders, answers, apart>>
identityVars == <<file, document, program, keys, deaths, unsettled>>
allVars ==
  <<part, sessionVars, artifactVars, memoryVars, mcpVars, attestationVars, composerVars,
    filesystemVars, identityVars>>

MCInit ==
  /\ part \in {"sessions", "artifacts", "memory", "mcp", "attestation", "composer",
              "filesystem", "identity"}
  /\ Sessions!Init /\ (part # "sessions" => backend = "memory")
  /\ Artifacts!Init /\ (part # "artifacts" => artifactBackend = "memory")
  /\ Memory!Init /\ Init /\ Attestation!Init
  /\ FileSystem!Init /\ (part # "filesystem" => disk = <<>>)
  /\ Identity!Init /\ (part # "identity" => keys = 0)
  /\ IF part = "composer" THEN spec \in LoadedFiles ELSE spec = SomeFile
  /\ Composer!Init

SessionsNext ==
  /\ part = "sessions" /\ Sessions!Next
  /\ UNCHANGED <<part, artifactVars, memoryVars, mcpVars, attestationVars, composerVars,
                 filesystemVars, identityVars>>
ArtifactsNext ==
  /\ part = "artifacts" /\ Artifacts!Next
  /\ UNCHANGED <<part, sessionVars, memoryVars, mcpVars, attestationVars, composerVars,
                 filesystemVars, identityVars>>
MemoryNext ==
  /\ part = "memory" /\ Memory!Next
  /\ UNCHANGED <<part, sessionVars, artifactVars, mcpVars, attestationVars, composerVars,
                 filesystemVars, identityVars>>
McpNext ==
  /\ part = "mcp" /\ Next
  /\ UNCHANGED <<part, sessionVars, artifactVars, memoryVars, attestationVars, composerVars,
                 filesystemVars, identityVars>>
AttestationNext ==
  /\ part = "attestation" /\ Attestation!Next
  /\ UNCHANGED <<part, sessionVars, artifactVars, memoryVars, mcpVars, composerVars,
                 filesystemVars, identityVars>>
ComposerNext ==
  /\ part = "composer" /\ Composer!Next
  /\ UNCHANGED <<part, sessionVars, artifactVars, memoryVars, mcpVars, attestationVars,
                 filesystemVars, identityVars>>
FileSystemNext ==
  /\ part = "filesystem" /\ FileSystem!Next
  /\ UNCHANGED <<part, sessionVars, artifactVars, memoryVars, mcpVars, attestationVars,
                 composerVars, identityVars>>
IdentityNext ==
  /\ part = "identity" /\ Identity!Next
  /\ UNCHANGED <<part, sessionVars, artifactVars, memoryVars, mcpVars, attestationVars,
                 composerVars, filesystemVars>>

MCNext ==
  \/ SessionsNext \/ ArtifactsNext \/ MemoryNext
  \/ McpNext \/ AttestationNext \/ ComposerNext
  \/ FileSystemNext \/ IdentityNext

MCSpec == MCInit /\ [][MCNext]_allVars

-----------------------------------------------------------------------------
(* What the configuration gives the constants.                             *)

\* Two of the names have the same slug.
SharedSlug ==
  LET shared == CHOOSE s \in Slugs : TRUE
      alone == CHOOSE n \in Names : TRUE
  IN [n \in Names |-> IF n = alone THEN CHOOSE s \in Slugs : s # shared ELSE shared]

\* The YAML files: a main agent with two references at most, and two agents
\* with one at most, to each other, to the main agent or to a name nobody
\* defines.
UpTo(n, S) == UNION {[1..k -> S] : k \in 0..n}
Llm(n) ==
  [type : {"llm"}, fault : {"none"}, agents : {<<>>},
   tools : UpTo(n, [kind : {"agent", "transfer"}, agent : References])]
Composite(n, ignored) ==
  [type : {"composite"}, fault : {"none"}, agents : UpTo(n, References) \ {<<>>},
   tools : UpTo(ignored, [kind : {"transfer"}, agent : References])]
Faulty(agent) ==
  [type : {"llm"}, fault : {"early", "late"}, agents : {<<>>},
   tools : {<<[kind |-> "agent", agent |-> agent]>>}]
Rejected ==
  {[type |-> "composite", fault |-> "none", agents |-> <<>>, tools |-> <<>>],
   [type |-> "llm", fault |-> "none", agents |-> <<>>,
    tools |-> <<[kind |-> "both", agent |-> "main"]>>]}
SmallFiles ==
  {[n \in AgentNames |-> IF n = "main" THEN main ELSE IF n = "a" THEN a ELSE b] :
     main \in Llm(2) \cup Composite(2, 1),
     a \in Llm(1) \cup Composite(1, 0) \cup Faulty("b"),
     b \in Llm(1) \cup Composite(1, 0)}
    \cup [{"main"} -> Rejected] \cup [{"a", "b"} -> Llm(0)]

\* Paths of a workspace: siblings, one above another, one spelled with "..",
\* one that leaves the workspace.
SmallPaths ==
  {<<>>, <<"d">>, <<"d", "f">>, <<"d", "g">>, <<"d", Up>>, <<"d", Up, "f">>, <<Up, "f">>}

\* Nothing tells the callers of a service apart; the configuration gives all
\* services the same two callers, so that one renaming does for each.
Symmetry == Permutations(Users) \cup Permutations(Owners)

MCTypeOK ==
  /\ Sessions!TypeOK /\ Artifacts!TypeOK /\ Memory!TypeOK /\ TypeOK
  /\ Attestation!TypeOK /\ Composer!TypeOK
  /\ FileSystem!TypeOK /\ Identity!TypeOK

\* Every event whose append_event has returned is in every later load of the
\* session, in both session services.
AcknowledgedIsLoaded == Sessions!AcknowledgedIsLoaded

\* Both session services are what the base class promises: append_event puts an
\* event into what one session loads, once, an acknowledged one stays there, and
\* only the creation and the deletion of a session take events out.
KeepsSessionLogs == SessionLog!Spec

\* save_artifact of either service: a save that was not disturbed is kept, as
\* it was, under the version it returned.
IsolatedSaveIsKept == Artifacts!IsolatedSaveIsKept

\* update_memory_index: an undisturbed save or deletion leaves an index that
\* lists exactly the newest memories, whatever went wrong before it.
IndexHeals == Memory!IndexHeals

\* LocalAttestationProvider.append_audit: the lines of the log that can be
\* read are chained, whatever crashes tore in between.
ReadableIsChained == Attestation!ReadableIsChained

\* LocalAttestationProvider.revoke: a claim that was issued is on disk, or its
\* revocation is on record, but for what cut-off records made unreadable.
NoClaimVanishes == Attestation!NoClaimVanishes

\* Composer: what is built is exactly what the file asks for, every target of
\* a transfer can be found, and who verifies also signs.
BuildIsExact == Composer!BuildIsExact

\* The filesystem tools: the dictionary behaves as the disk does, but for the
\* named differences.
BackendsAgree == FileSystem!BackendsAgree

\* load_or_create_signing_key: programs that share a key file sign with its
\* key, and the DID on their events leads to it.
IdentityIsShared == Identity!IdentityIsShared
=============================================================================
