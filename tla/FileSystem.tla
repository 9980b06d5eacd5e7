----------------------------- MODULE FileSystem -----------------------------
(***************************************************************************)
(* The filesystem tools over the two backends: a directory on disk and the *)
(* dictionary that stands in for it in tests and sandboxes.  Every call is *)
(* made of both at once, so that their answers can be compared.  No method *)
(* of either backend suspends, so a call is one step of the event loop,    *)
(* edit_file's read and write included.                                    *)
(*                                                                         *)
(* A path is the sequence of its segments, the empty one the root, which   *)
(* the dictionary knows as ".".  Paths are relative to the workspace.  A   *)
(* file is the sequence of its lines.  The limits on the number of results *)
(* cut both answers alike and are left out, and the wording of the answers *)
(* is: an answer is whether the call succeeded, and what it shows.         *)
(***************************************************************************)
EXTENDS Naturals, Sequences, SequencesExt, FiniteSets, Selections

CONSTANTS Spelled,   \* the paths calls are made with
          Up,        \* the segment ".."
          Lines,     \* what a line can hold
          Dir,       \* what is at the path of a directory of the disk
          MaxLines,  \* bound: lines of a file written
          MaxPaths   \* bound: paths on the disk

\* What the instances ASSUME.
FileSystemAssumption ==
  /\ \A p \in Spelled : p \in Seq(STRING \cup {Up})
  /\ Dir \notin Seq(Lines) /\ MaxLines \in Nat /\ MaxPaths \in Nat

VARIABLES
  disk,     \* the workspace: the lines of each file, Dir for a directory
  files,    \* InMemoryFilesystemBackend._files
  dirs,     \* InMemoryFilesystemBackend._dirs
  answers,  \* what the last call gave: of the disk, of the dictionary
  apart     \* history: some call was one the backends do not agree on

vars == <<disk, files, dirs, answers, apart>>
-----------------------------------------------------------------------------
Ups(p, i, j) == Cardinality({k \in i..j : p[k] = Up})

\* _normalize: ".." takes a segment away, or nothing at the root: a segment
\* stays if from it on there are never as many ".." as segments.
Normal(p) ==
  LET kept == {i \in DOMAIN p : \A j \in i..Len(p) : 2 * Ups(p, i, j) <= j - i}
  IN [k \in 1..Cardinality(kept) |-> p[Nth(kept, k)]]

\* _resolve refuses a path that leaves the workspace.  It compares the names: a
\* path that climbs out and then names a sibling whose name begins with the
\* workspace's is let through, and is not among the paths spelled here.
Escapes(p) == \E n \in 1..Len(p) : 2 * Ups(p, 1, n) > n

Parents(q) == {SubSeq(q, 1, n) : n \in 1..(Len(q) - 1)}
Below(q, paths) == {r \in paths : IsStrictPrefix(q, r)}

\* What begins with a path and "/": nothing is below "." to the dictionary.
Under(q, paths) == IF q = <<>> THEN {} ELSE Below(q, paths)

Paths == {Normal(p) : p \in Spelled}
Texts == SeqOf(Lines, MaxLines)
Whole(q) == IF q = <<>> THEN {} ELSE {q}

\* The file at a path, if any: a set of at most one text.
DiskText(p) == IF ~Escapes(p) /\ Normal(p) \in DOMAIN disk
                 THEN {disk[Normal(p)]} \ {Dir} ELSE {}
MemoryText(p) == IF Normal(p) \in DOMAIN files THEN {files[Normal(p)]} ELSE {}

\* exists: a directory is implied by the files below it.
DiskHas(p) == ~Escapes(p) /\ (Normal(p) = <<>> \/ Normal(p) \in DOMAIN disk)
ImplicitDir(q) == Under(q, DOMAIN files) # {}
Present(q) == q = <<>> \/ q \in DOMAIN files \cup dirs \/ ImplicitDir(q)
MemoryHas(p) == Present(Normal(p))

Without(f, q) == [r \in DOMAIN f \ {q} |-> f[r]]
With(f, q, text) == [r \in DOMAIN f \cup {q} |-> IF r = q THEN text ELSE f[r]]
WithDirs(qs) == [r \in DOMAIN disk \cup qs |-> IF r \in DOMAIN disk THEN disk[r] ELSE Dir]

Done(shown) == [ok |-> TRUE, shown |-> shown]
Failed == [ok |-> FALSE, shown |-> {}]
Try(ok, shown) == IF ok THEN Done(shown) ELSE Failed

Answer(onDisk, inMemory, differs) ==
  answers' = <<onDisk, inMemory>> /\ apart' = (apart \/ differs)

Init ==
  /\ \E text \in Texts, q \in Paths :
       /\ files = [r \in Whole(q) |-> text]
       /\ disk = [r \in Whole(q) \cup Parents(q) |-> IF r = q THEN text ELSE Dir]
  /\ dirs = {} /\ answers = <<Done({}), Done({})>> /\ apart = FALSE
-----------------------------------------------------------------------------
\* write_file.  The disk makes the parents; it has no file below another, nor
\* in the place of a directory or of the root, and the dictionary has.
Write(p, text) ==
  LET q == Normal(p)
      fits == /\ ~Escapes(p) /\ q # <<>> /\ (q \in DOMAIN disk => disk[q] # Dir)
              /\ \A r \in Parents(q) \cap DOMAIN disk : disk[r] = Dir
  IN /\ disk' = IF fits THEN With(WithDirs(Parents(q)), q, text) ELSE disk
     /\ files' = With(files, q, text)
     /\ Answer(Try(fits, {}), Done({}), ~fits)
     /\ UNCHANGED dirs

\* How a text is edited: edit_file replaces the first occurrence, edit the
\* only one, or all of them.
Occurrences(text, old) == {i \in DOMAIN text : text[i] = old}
Editable(mode, text, old) ==
  LET n == Cardinality(Occurrences(text, old)) IN n > 0 /\ (mode = "only" => n = 1)
Edited(mode, text, old, new) ==
  [i \in DOMAIN text |->
     IF /\ text[i] = old
        /\ mode # "all" => \A j \in 1..(i - 1) : text[j] # old
       THEN new ELSE text[i]]

\* edit_file, and the backends' edit.
Edit(p, mode, old, new) ==
  LET q == Normal(p)
      onDisk == {t \in DiskText(p) : Editable(mode, t, old)}
      inMemory == {t \in MemoryText(p) : Editable(mode, t, old)}
      Count(t) == IF mode = "all" THEN Cardinality(Occurrences(t, old)) ELSE 1
  IN /\ disk' = [r \in DOMAIN disk |-> IF r = q /\ onDisk # {}
                                         THEN Edited(mode, disk[r], old, new) ELSE disk[r]]
     /\ files' = [r \in DOMAIN files |-> IF r = q /\ inMemory # {}
                                           THEN Edited(mode, files[r], old, new) ELSE files[r]]
     /\ Answer(Try(onDisk # {}, {Count(t) : t \in onDisk}),
               Try(inMemory # {}, {Count(t) : t \in inMemory}), Escapes(p))
     /\ UNCHANGED dirs

\* mkdir.  The dictionary notes the directory and none of its parents, does
\* not look for a file among them, and takes an implied directory and the root
\* for none.
Mkdir(p, existOk) ==
  LET q == Normal(p)
      fits == /\ ~Escapes(p) /\ (q = <<>> => existOk)
              /\ (q \in DOMAIN disk => disk[q] = Dir /\ existOk)
              /\ \A r \in Parents(q) \cap DOMAIN disk : disk[r] = Dir
      takes == q \notin DOMAIN files /\ (q \in dirs => existOk)
  IN /\ disk' = IF fits THEN WithDirs(Parents(q) \cup Whole(q)) ELSE disk
     /\ dirs' = IF takes THEN dirs \cup {q} ELSE dirs
     /\ Answer(Try(fits, {}), Try(takes, {}),
               \/ Escapes(p) \/ q = <<>> \/ (ImplicitDir(q) /\ ~existOk)
               \/ \E r \in Parents(q) : r \in DOMAIN files \/ ~Present(r))
     /\ UNCHANGED files

\* A directory of the dictionary, looked at for files only (mutant).
EmptyOfFiles(q) == Under(q, DOMAIN files) = {}

Empty(q) == Under(q, DOMAIN files \cup dirs) = {}

\* delete.  An implied directory goes with its last file, and asking for it
\* to be deleted before is not refused, nor is the root of a workspace that has
\* something in it; the root of an empty one is made again by the next call.
Delete(p) ==
  LET q == Normal(p)
      bare(r) == r \notin dirs /\ Below(r, DOMAIN files) \subseteq {q}
      fits == ~Escapes(p) /\ (DiskHas(p) => Below(q, DOMAIN disk) = {})
      takes == q \in dirs \ DOMAIN files => Empty(q)
  IN /\ disk' = IF fits THEN Without(disk, q) ELSE disk
     /\ files' = Without(files, q)
     /\ dirs' = IF takes /\ q \notin DOMAIN files THEN dirs \ {q} ELSE dirs
     /\ Answer(Try(fits, {}), Try(takes, {}),
               \/ Escapes(p) \/ (q = <<>> /\ DOMAIN disk # {}) \/ (q \notin dirs /\ ImplicitDir(q))
               \/ q \in DOMAIN files /\ \E r \in Parents(q) : bare(r))
-----------------------------------------------------------------------------
\* ls.  The disk lists a file as itself, the dictionary as an empty directory.
DiskListed(p, q) ==
  IF DiskText(p) # {} THEN {Last(q)}
  ELSE {Last(r) : r \in {r \in DOMAIN disk : IsStrictPrefix(q, r) /\ Len(r) = Len(q) + 1}}
MemoryListed(q) ==
  {r[Len(q) + 1] : r \in Below(q, DOMAIN files)}
    \cup {Last(r) : r \in {r \in Below(q, dirs) : Len(r) = Len(q) + 1}}
Ls(p) ==
  /\ Answer(Try(DiskHas(p), DiskListed(p, Normal(p))), Try(MemoryHas(p), MemoryListed(Normal(p))),
            Escapes(p) \/ MemoryText(p) # {})
  /\ UNCHANGED <<disk, files, dirs>>

\* read_file: numbered lines from offset on, limit of them at most.
Page(texts, offset, limit) ==
  UNION {{<<i, t[i]>> : i \in {i \in DOMAIN t : offset < i /\ i <= offset + limit}} : t \in texts}
Read(p, offset, limit) ==
  LET onDisk == DiskText(p)
      inMemory == MemoryText(p)
  IN /\ Answer(Try(onDisk # {}, Page(onDisk, offset, limit)),
               Try(inMemory # {}, Page(inMemory, offset, limit)), Escapes(p))
     /\ UNCHANGED <<disk, files, dirs>>

\* glob: the files below a path, or anywhere when none is given; of some name.
\* The dictionary finds nothing below a root that is given.
DiskFiles(p, given, names) ==
  {r \in (IF given THEN Below(Normal(p), DOMAIN disk) ELSE DOMAIN disk) : disk[r] # Dir /\ Last(r) \in names}
MemoryUnder(p, given) == IF given THEN Under(Normal(p), DOMAIN files) ELSE DOMAIN files
MemoryFiles(p, given, names) == {r \in MemoryUnder(p, given) : Last(r) \in names}
RootGiven(p, given) == given /\ Normal(p) = <<>> /\ DOMAIN disk # {}
Glob(p, given, names) ==
  /\ Answer(Try(~Escapes(p), DiskFiles(p, given, names)), Done(MemoryFiles(p, given, names)),
            Escapes(p) \/ RootGiven(p, given))
  /\ UNCHANGED <<disk, files, dirs>>

\* grep reads what glob finds, and passes no path when it is spelled ".".
Hits(found, content, line) ==
  UNION {{<<r, i>> : i \in Occurrences(content[r], line)} : r \in found}
Grep(p, names, line) ==
  LET given == p # <<>>
  IN /\ Answer(Try(~Escapes(p), Hits(DiskFiles(p, given, names), disk, line)),
               Done(Hits(MemoryFiles(p, given, names), files, line)), Escapes(p) \/ RootGiven(p, given))
     /\ UNCHANGED <<disk, files, dirs>>

\* The backends' own grep.  The disk also searches a single file.
DiskSearched(p, given) == DiskFiles(p, given, UNION {ToSet(r) : r \in DOMAIN disk})
                            \cup (IF DiskText(p) # {} THEN {Normal(p)} ELSE {})
Search(p, given, line) ==
  /\ Answer(Try(~Escapes(p), Hits(DiskSearched(p, given), disk, line)),
            Done(Hits(MemoryUnder(p, given), files, line)),
            Escapes(p) \/ RootGiven(p, given) \/ MemoryText(p) # {})
  /\ UNCHANGED <<disk, files, dirs>>
-----------------------------------------------------------------------------
Segments == UNION {ToSet(q) : q \in Paths}

\* No path is the one spelled as the root that is not passed on.
Given(p) == {TRUE} \cup {p # <<>>}

Change(p) ==
  \/ \E text \in Texts : Write(p, text)
  \/ \E mode \in {"first", "only", "all"}, old, new \in Lines :
       old # new /\ Edit(p, mode, old, new)
  \/ \E existOk \in BOOLEAN : Mkdir(p, existOk)
  \/ Delete(p)

Look(p) ==
  \/ Ls(p)
  \/ \E offset \in 0..MaxLines, limit \in {1, MaxLines} : Read(p, offset, limit)
  \/ \E names \in {Segments} \cup {{n} : n \in ToSet(Normal(p))} :
       \/ \E given \in Given(p) : Glob(p, given, names)
       \/ \E line \in Lines : Grep(p, names, line)
  \/ \E given \in Given(p), line \in Lines : Search(p, given, line)

\* Bound: a history is followed up to its first named difference.
Next == /\ ~apart
        /\ \E p \in Spelled : Change(p) \/ Look(p)
        /\ Cardinality(DOMAIN disk') <= MaxPaths

Spec == Init /\ [][Next]_vars

TypeOK ==
  /\ DOMAIN disk \subseteq UNION {{q} \cup Parents(q) : q \in Paths}
  /\ \A q \in DOMAIN disk : disk[q] \in Texts \cup {Dir}
  /\ DOMAIN files \subseteq Paths /\ \A q \in DOMAIN files : files[q] \in Texts
  /\ dirs \subseteq Paths /\ apart \in BOOLEAN
  /\ \A i \in {1, 2} : answers[i].ok \in BOOLEAN

\* filesystem/memory.py:48 and tools/filesystem.py:86: tests and sandboxes run
\* the tools over the dictionary in place of the disk.  After any sequence of
\* calls without one of the named differences, both hold the same tree, and
\* they answered the last call alike.
BackendsAgree ==
  ~apart =>
    /\ answers[1] = answers[2]
    /\ files = [q \in {q \in DOMAIN disk : disk[q] # Dir} |-> disk[q]]
    /\ \A q \in DOMAIN disk : Present(q)
    /\ dirs \subseteq {q \in DOMAIN disk : disk[q] = Dir}
=============================================================================
