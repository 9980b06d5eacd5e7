---------------------------- MODULE Attestation ----------------------------
(***************************************************************************)
(* LocalAttestationProvider behind AttestationMiddleware: a hash-chained   *)
(* log, one file per claim, and a log of revocations.  A method's file     *)
(* accesses follow each other without an await, under a lock; but several  *)
(* processes may share the directory, and a process may stop between two   *)
(* accesses or in the middle of a write.                                   *)
(*                                                                         *)
(* A line of the log is the number of its entry, which stands for its      *)
(* hash, and the hash it is linked to; a line that cannot be parsed is     *)
(* torn, and what is written after an end without a line end continues it. *)
(* Signing, verifying and issue_claim's payload are left out.              *)
(***************************************************************************)
EXTENDS Naturals, Sequences, FiniteSets, FiniteSetsExt

CONSTANTS Procs,
          MaxEvents,    \* bound: events audited
          MaxClaims,    \* bound: only the first events have claims
          MaxCrashes    \* bound: crashes and failed writes

\* What the instances ASSUME.
AttestationAssumption == {MaxEvents, MaxClaims, MaxCrashes} \subseteq Nat

VARIABLES
  log,       \* audit.log: lines [n, prev], n = 0 for one that cannot be parsed
  ended,     \* which of the two logs end with a line end
  claims,    \* claims/<id>.json, and whether the file is whole
  revoked,   \* records of revocations.log that can be parsed
  doing,     \* what each process is doing
  audited,   \* number of events so far
  issued,    \* history: claims that issue_claim returned
  tears,     \* history: writes to revocations.log that were cut off
  crashes,   \* failed writes, and times a process stopped
  raced      \* history: two processes were appending at once

vars == <<log, ended, claims, revoked, doing, audited, issued, tears, crashes, raced>>

Entries == 0..MaxEvents
Idle == [at |-> "idle", n |-> 0, prev |-> 0]

TypeOK ==
  /\ log \in Seq([n : Entries, prev : Entries])
  /\ ended \in [{"audit", "revocations"} -> BOOLEAN]
  /\ claims \subseteq [id : 1..MaxEvents, whole : BOOLEAN]
  /\ \A c, d \in claims : c.id = d.id => c = d
  /\ revoked \subseteq 1..MaxEvents /\ issued \subseteq 1..MaxEvents
  /\ doing \in [Procs -> [at : {"idle", "append", "claim", "revoke", "unlink"},
                          n : Entries, prev : Entries]]
  /\ audited \in Entries /\ {tears, crashes} \subseteq 0..MaxCrashes /\ raced \in BOOLEAN

Init ==
  /\ log = <<>> /\ ended = [l \in {"audit", "revocations"} |-> TRUE]
  /\ claims = {} /\ revoked = {} /\ issued = {}
  /\ doing = [p \in Procs |-> Idle]
  /\ audited = 0 /\ tears = 0 /\ crashes = 0 /\ raced = FALSE

\* A torn end starts the chain anew (mutant).
LastHashOrNone(lines) == IF lines = <<>> THEN 0 ELSE lines[Len(lines)].n

\* The lines that can be parsed.
Readable(lines) == {k \in DOMAIN lines : lines[k].n # 0}

\* _read_last_hash: of the last of them.
LastHash(lines) == IF Readable(lines) = {} THEN 0 ELSE lines[Max(Readable(lines))].n

\* append_audit, called for every event: the last hash is read.
ReadHash(p) ==
  /\ doing[p] = Idle /\ audited < MaxEvents /\ audited' = audited + 1
  /\ doing' = [doing EXCEPT ![p] = [at |-> "append", n |-> audited', prev |-> LastHash(log)]]
  /\ raced' = (raced \/ \E q \in Procs : doing[q].at = "append")
  /\ UNCHANGED <<log, ended, claims, revoked, issued, tears, crashes>>

\* The audit log after text that by itself reads as `line`.
Extended(line) ==
  IF ended["audit"] THEN Append(log, line) ELSE [log EXCEPT ![Len(log)].n = 0]

Line(p) == [n |-> doing[p].n, prev |-> doing[p].prev]

\* The middleware goes on to the claims of an event that transfers or calls a
\* tool (one stands for all), or is finished.
Audited(p) ==
  \E at \in {"claim", "idle"} :
    /\ at = "claim" => doing[p].n <= MaxClaims
    /\ doing' = [doing EXCEPT ![p] = IF at = "idle" THEN Idle ELSE [@ EXCEPT !.at = at]]

\* ... and the line is written.
WriteLine(p) ==
  /\ doing[p].at = "append"
  /\ log' = Extended(Line(p)) /\ ended' = [ended EXCEPT !["audit"] = TRUE]
  /\ Audited(p)
  /\ UNCHANGED <<claims, revoked, audited, issued, tears, crashes, raced>>

\* issue_claim.
IssueClaim(p) ==
  /\ doing[p].at = "claim"
  /\ claims' = claims \cup {[id |-> doing[p].n, whole |-> TRUE]}
  /\ issued' = issued \cup {doing[p].n}
  /\ doing' = [doing EXCEPT ![p] = Idle]
  /\ UNCHANGED <<log, ended, revoked, audited, tears, crashes, raced>>

\* revoke.
Revoke(p, id) ==
  /\ doing[p] = Idle /\ id \in issued
  /\ doing' = [doing EXCEPT ![p] = [at |-> "revoke", n |-> id, prev |-> 0]]
  /\ UNCHANGED <<log, ended, claims, revoked, audited, issued, tears, crashes, raced>>

\* The record is lost on a line that was begun before.
Record(p) ==
  /\ doing[p].at = "revoke"
  /\ revoked' = IF ended["revocations"] THEN revoked \cup {doing[p].n} ELSE revoked
  /\ ended' = [ended EXCEPT !["revocations"] = TRUE]
  /\ doing' = [doing EXCEPT ![p].at = "unlink"]
  /\ UNCHANGED <<log, claims, audited, issued, tears, crashes, raced>>

\* The claim's file goes before the record is written (mutant).
UnlinkFirst(p) ==
  /\ doing[p].at \in {"revoke", "unlink"}
  /\ claims' = {c \in claims : c.id # doing[p].n}
  /\ doing' = [doing EXCEPT ![p] = IF @.at = "unlink" THEN Idle ELSE @]
  /\ UNCHANGED <<log, ended, revoked, audited, issued, tears, crashes, raced>>

\* The claim's file is deleted, if it is there.
Unlink(p) ==
  /\ doing[p].at = "unlink"
  /\ claims' = {c \in claims : c.id # doing[p].n}
  /\ doing' = [doing EXCEPT ![p] = Idle]
  /\ UNCHANGED <<log, ended, revoked, audited, issued, tears, crashes, raced>>

\* A write to a log is cut off: nothing, a part or all but the line end of it
\* is there.
Torn(p) ==
  \/ UNCHANGED <<log, ended, tears>>
  \/ /\ doing[p].at = "append"
     /\ \E line \in {Line(p), [n |-> 0, prev |-> 0]} : log' = Extended(line)
     /\ ended' = [ended EXCEPT !["audit"] = FALSE]
     /\ UNCHANGED tears
  \/ /\ doing[p].at = "revoke"
     /\ ended' = [ended EXCEPT !["revocations"] = FALSE] /\ tears' = tears + 1
     /\ UNCHANGED log

\* The disk is full: the middleware logs the exception of append_audit and
\* goes on; revoke raises.
WriteFails(p) ==
  /\ crashes < MaxCrashes /\ crashes' = crashes + 1
  /\ doing[p].at \in {"append", "revoke"}
  /\ Torn(p)
  /\ IF doing[p].at = "append" THEN Audited(p) ELSE doing' = [doing EXCEPT ![p] = Idle]
  /\ UNCHANGED <<claims, revoked, audited, issued, raced>>

\* The process stops, perhaps in the middle of a write.
Crash(p) ==
  /\ crashes < MaxCrashes /\ crashes' = crashes + 1
  /\ Torn(p)
  /\ \/ UNCHANGED claims
     \/ /\ doing[p].at = "claim"
        /\ claims' = claims \cup {[id |-> doing[p].n, whole |-> FALSE]}
  /\ doing' = [doing EXCEPT ![p] = Idle]
  /\ UNCHANGED <<revoked, audited, issued, raced>>

Next ==
  \E p \in Procs :
    \/ ReadHash(p) \/ WriteLine(p) \/ IssueClaim(p) \/ Record(p) \/ Unlink(p)
    \/ WriteFails(p) \/ Crash(p)
    \/ \E id \in 1..MaxEvents : Revoke(p, id)

Spec == Init /\ [][Next]_vars
-----------------------------------------------------------------------------
\* verify_audit_log, of those lines of the log that are in `kept`: each has the
\* hash of the one before it.
Verifies(lines, kept) ==
  \A k \in kept :
    LET before == {j \in kept : j < k}
    IN lines[k].n # 0 /\ lines[k].prev = IF before = {} THEN 0 ELSE lines[Max(before)].n

\* As long as processes do not append at the same time, the lines that can be
\* read are chained, whatever crashes tore in between: the log verifies again
\* once the torn lines are taken out, and at once if there are none.
ReadableIsChained == ~raced => Verifies(log, Readable(log))

\* A claim that was issued is on disk, whole, or its revocation is on record,
\* at every moment, so also after a crash; except that a record which was cut
\* off makes at most one other unreadable, the next.
NoClaimVanishes ==
  Cardinality({id \in issued : [id |-> id, whole |-> TRUE] \notin claims /\ id \notin revoked})
    <= tears
=============================================================================
