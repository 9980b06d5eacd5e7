----------------------------- MODULE FileMemory -----------------------------
(***************************************************************************)
(* The memory directory of file_memory_service.py: one markdown file per   *)
(* memory and the index MEMORY.md, rewritten after every change from a     *)
(* scan of the directory.  The functions are synchronous, so one process   *)
(* never interleaves with itself, but the directory belongs to a project   *)
(* and may be open in several processes, each of which may stop anywhere.  *)
(*                                                                         *)
(* _slugify is the constant SlugOf, which need not be injective.  Contents *)
(* are left out; a memory is its file name (type and slug), the name in    *)
(* its frontmatter and its modification time, strictly increasing.         *)
(***************************************************************************)
EXTENDS Naturals, SequencesExt, FiniteSetsExt

CONSTANTS Procs, Names, Types, Slugs, SlugOf,
          IndexCap,   \* _MAX_INDEX_LINES less the two lines of the heading
          MaxOps      \* saves and deletions begun in a behaviour

\* What the instances ASSUME.
FileMemoryAssumption ==
  /\ SlugOf \in [Names -> Slugs] /\ IndexCap \in Nat \ {0} /\ MaxOps \in Nat

VARIABLES
  files,      \* memory files: set of [type, slug, name, mtime]
  index,      \* the entries of MEMORY.md
  op,         \* what each process is doing
  begun,      \* operations begun; also the clock
  disturbed   \* history: an operation was interfered with or cut off, and none
              \* has run undisturbed since

vars == <<files, index, op, begun, disturbed>>

Header == [type : Types, slug : Slugs, name : Names, mtime : 1..MaxOps]
Operation == [at : {"found", "changed", "scanned"}, headers : Seq(Header), alone : BOOLEAN]
None == [at |-> "none"]

TypeOK ==
  /\ files \subseteq Header
  /\ index \in Seq(Header) /\ Len(index) <= IndexCap
  /\ op \in [Procs -> {None} \cup Operation]
  /\ begun \in 0..MaxOps /\ disturbed \in BOOLEAN

Init ==
  /\ files = {} /\ index = <<>> /\ op = [p \in Procs |-> None]
  /\ begun = 0 /\ disturbed = FALSE

\* scan_memory_files: newest first.
Scan ==
  CHOOSE s \in [1..Cardinality(files) -> files] :
    \A j, k \in DOMAIN s : j < k => s[j].mtime > s[k].mtime

\* The oldest memories are listed first (mutant).
IndexOldestFirst(headers) == SubSeq(Reverse(headers), 1, Min({IndexCap, Len(headers)}))

\* The index grows past its cap (mutant).
IndexUncapped(headers) == headers

\* update_memory_index: the newest entries, up to the cap.
Index(headers) == SubSeq(headers, 1, Min({IndexCap, Len(headers)}))

Busy == {p \in Procs : op[p] # None}

\* An operation begins, at its step `at`; those under way are disturbed by it,
\* and it by them.
Begin(p, at, headers) ==
  /\ op[p] = None /\ begun < MaxOps /\ begun' = begun + 1
  /\ op' = [q \in Procs |->
       IF q = p THEN [at |-> at, headers |-> headers, alone |-> Busy = {}]
       ELSE IF q \in Busy THEN [op[q] EXCEPT !.alone = FALSE] ELSE op[q]]
  /\ disturbed' = (disturbed \/ Busy # {})
  /\ UNCHANGED index

Path(f) == <<f.type, f.slug>>

\* save_memory_file: a file of the same type and slug is overwritten, whatever
\* name it had.
Save(p, type, name) ==
  /\ Begin(p, "changed", <<>>)
  /\ files' = {f \in files : Path(f) # <<type, SlugOf[name]>>}
                \cup {[type |-> type, slug |-> SlugOf[name], name |-> name, mtime |-> begun']}

\* delete_memory_file: the newest file of this name in its frontmatter, or the
\* file of this path.
Matching(key) == {f \in files : f.name = key \/ Path(f) = key}

FindToDelete(p, key) ==
  /\ \E f \in Matching(key) :
       /\ \A g \in Matching(key) : g.mtime <= f.mtime
       /\ Begin(p, "found", <<f>>)
  /\ UNCHANGED files

\* unlink goes by the path, whatever the file there has become.
Unlink(p) ==
  /\ op[p].at = "found"
  /\ files' = {f \in files : Path(f) # Path(op[p].headers[1])}
  /\ op' = [op EXCEPT ![p] = [at |-> "changed", headers |-> <<>>, alone |-> @.alone]]
  /\ UNCHANGED <<index, begun, disturbed>>

\* update_memory_index, its scan and its write.
ScanFiles(p) ==
  /\ op[p].at = "changed"
  /\ op' = [op EXCEPT ![p].at = "scanned", ![p].headers = Scan]
  /\ UNCHANGED <<files, index, begun, disturbed>>

WriteIndex(p) ==
  /\ op[p].at = "scanned"
  /\ index' = Index(op[p].headers)
  /\ op' = [op EXCEPT ![p] = None]
  /\ disturbed' = (disturbed /\ ~op[p].alone)
  /\ UNCHANGED <<files, begun>>

\* A process stops between a change and the index.
Crash(p) ==
  /\ op[p] # None
  /\ op' = [op EXCEPT ![p] = None]
  /\ disturbed' = TRUE
  /\ UNCHANGED <<files, index, begun>>

Next ==
  \E p \in Procs :
    \/ \E name \in Names, type \in Types : Save(p, type, name)
    \/ \E key \in Names \cup (Types \X Slugs) : FindToDelete(p, key)
    \/ Unlink(p) \/ ScanFiles(p) \/ WriteIndex(p) \/ Crash(p)

Spec == Init /\ [][Next]_vars

\* The index lists exactly the newest memories, newest first, whenever nothing is under way,
\* unless an operation overlapped another or was cut off: and then the next
\* undisturbed operation repairs it.
IndexHeals ==
  Busy = {} /\ ~disturbed =>
    /\ ToSet(index) \subseteq files /\ Len(index) = Min({IndexCap, Cardinality(files)})
    /\ \A k \in DOMAIN index : \A f \in files :
         f.mtime > index[k].mtime => \E j \in 1..(k - 1) : index[j] = f
=============================================================================
