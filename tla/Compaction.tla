----------------------------- MODULE Compaction -----------------------------
(***************************************************************************)
(* Session compaction (src/orxhestra/sessions/compaction.py, called by     *)
(* Runner.astream once an invocation's events are out) and the view of the *)
(* session it leaves the model with (apply_compaction, events/filters.py). *)
(*                                                                         *)
(* Invocations of one session append events; each compacts when it is      *)
(* over.  With a summarising model, compact_session decides what to        *)
(* summarise, awaits the model, and appends the summary to a session other *)
(* invocations may have changed meanwhile.  (Without one the two steps     *)
(* follow each other at once, a behaviour of this module too.)             *)
(*                                                                         *)
(* Event timestamps are the wall clock at creation.  They are taken to      *)
(* increase strictly along the session's event list.                       *)
(***************************************************************************)
EXTENDS Naturals, Sequences, FiniteSets, SequencesExt, Selections

CONSTANTS Invocation,  \* the calls of Runner.astream on the session
          Threshold,   \* config.char_threshold
          Retention,   \* config.retention_chars
          MaxChars,    \* bound: characters of one event
          MaxEvents    \* bound: events agents and users append

\* What the instances ASSUME.
CompactionAssumption ==
  /\ Threshold \in Nat /\ Retention \in Nat
  /\ MaxChars \in Nat \ {0} /\ MaxEvents \in Nat

VARIABLES
  events,   \* session.events
  inv       \* each invocation

vars == <<events, inv>>

\* An invocation: pc, the answers it still owes to its last "call" event, and
\* what compact_session holds in its locals while the model is awaited, with
\* the length of the session when it was decided.
Fresh == [pc |-> "running", call |-> 0, owed |-> 0, first |-> 0, last |-> 0,
          covers |-> {}, since |-> 0]

\* An event.  kind "silent": no text, no calls (an agent's end, a marker).
\* chars    its _estimate_event_chars
\* calls    how many tool calls a "call" event holds
\* to       the index of the "call" event a "response" answers
\* first, last, covers   a "summary": its timestamp range; history: the
\*          indices of the events summarised
Raw(kind, chars, calls, to) ==
  [kind |-> kind, chars |-> chars, calls |-> calls, to |-> to,
   first |-> 0, last |-> 0, covers |-> {}]

\* A range that reaches one event too far (mutant).
SummaryTooFar(first, last, covers) ==
  [kind |-> "summary", chars |-> 0, calls |-> 0, to |-> 0,
   first |-> first, last |-> last + 1, covers |-> covers]

Summary(first, last, covers) ==
  [kind |-> "summary", chars |-> 0, calls |-> 0, to |-> 0,
   first |-> first, last |-> last, covers |-> covers]

\* The timestamp of an event: its place, timestamps being strictly increasing.
Timestamp(k) == k

Init == /\ events = <<>>
        /\ inv = [i \in Invocation |-> Fresh]
-----------------------------------------------------------------------------
(* The pure part.  s is a session's event list; c, a sequence of indices   *)
(* into s, the candidates.                                                 *)

SummariesOf(s) == {k \in 1..Len(s) : s[k].kind = "summary"}

\* _find_compaction_boundary; 0 stands for -1, before every timestamp.
Boundary(s) ==
  LET ends == {s[k].last : k \in SummariesOf(s)}
  IN IF ends = {} THEN 0 ELSE CHOOSE m \in ends : \A n \in ends : n <= m

Candidates(s) ==
  InOrder({k \in 1..Len(s) : Timestamp(k) > Boundary(s) /\ s[k].kind # "summary"})

Chars(s, c) == FoldSeq(LAMBDA k, total : total + s[k].chars, 0, c)

\* Whether summarising the first n candidates separates a call from an
\* answer among the candidates kept.
Orphans(s, c, n) ==
  \E i \in 1..n, j \in (n + 1)..Len(c) :
    s[c[i]].kind = "call" /\ s[c[j]].kind = "response" /\ s[c[j]].to = c[i]

\* The split without the walk that keeps calls and answers together (mutant).
SplitAnywhere(s, c) ==
  LET enough == {j \in 1..Len(c) : Chars(s, SubSeq(c, j, Len(c))) >= Retention}
  IN IF enough = {} THEN 0 ELSE CHOOSE j \in enough : \A k \in enough : k <= j

\* _split_by_retention_chars: how many candidates are old.  Walking back from
\* the newest, the event that makes the kept characters reach Retention is
\* itself old; then the split moves back while it separates a call from an
\* answer, at the latest to 0.
Split(s, c) ==
  LET enough == {j \in 1..Len(c) : Chars(s, SubSeq(c, j, Len(c))) >= Retention}
      reached == IF enough = {} THEN 0
                 ELSE CHOOSE j \in enough : \A k \in enough : k <= j
      together == {n \in 0..reached : ~Orphans(s, c, n)}
  IN CHOOSE n \in together : \A m \in together : m <= n

\* Calls of event k that no response in the whole session answers.
Pending(s, k) ==
  s[k].kind = "call" /\
  Cardinality({r \in 1..Len(s) : s[r].kind = "response" /\ s[r].to = k}) < s[k].calls

\* compact_session up to the summary: the old events, or none when it returns
\* False (below the threshold, nothing old, a pending call, a blank text).
ToCompact(s) ==
  LET c == Candidates(s)
      old == SubSeq(c, 1, Split(s, c))
  IN IF \/ Chars(s, c) <= Threshold
        \/ \E k \in ToSet(old) : Pending(s, k)
        \/ \A k \in ToSet(old) : s[k].kind = "silent"
     THEN <<>> ELSE old

\* apply_compaction: the raw events some summary's range hides.
Hidden(s) ==
  {k \in 1..Len(s) : s[k].kind # "summary" /\
     \E m \in SummariesOf(s) : s[m].first <= Timestamp(k) /\ Timestamp(k) <= s[m].last}
-----------------------------------------------------------------------------
RawCount == Cardinality({k \in 1..Len(events) : events[k].kind # "summary"})

Add(e) == RawCount < MaxEvents /\ events' = Append(events, e)

\* A user's or an agent's text, or an event without content.
Say(i) ==
  /\ inv[i].pc = "running"
  /\ \/ \E n \in 1..MaxChars : Add(Raw("text", n, 0, 0))
     \/ Add(Raw("silent", 0, 0, 0))
  /\ UNCHANGED inv

\* The agent's model asks for one or two tools.
Call(i) ==
  /\ inv[i].pc = "running" /\ inv[i].owed = 0
  /\ \E n \in 1..2 :
       /\ Add(Raw("call", 1, n, 0))
       /\ inv' = [inv EXCEPT ![i].call = Len(events) + 1, ![i].owed = n]

\* A tool answers, possibly with an empty result.
Respond(i) ==
  /\ inv[i].pc = "running" /\ inv[i].owed > 0
  /\ \E n \in 0..MaxChars : Add(Raw("response", n, 0, inv[i].call))
  /\ inv' = [inv EXCEPT ![i].owed = @ - 1]

\* The invocation is over, finished or closed by its consumer with calls
\* unanswered: compact_session runs up to the await of the model.
Compact(i) ==
  /\ inv[i].pc = "running"
  /\ LET old == ToCompact(events)
     IN /\ old # <<>>
        /\ inv' = [inv EXCEPT ![i] =
             [pc |-> "summarising", call |-> 0, owed |-> 0,
              first |-> Timestamp(old[1]), last |-> Timestamp(old[Len(old)]),
              covers |-> ToSet(old), since |-> Len(events)]]
  /\ UNCHANGED events

\* compact_session returns False without a model call; another turn begins.
SkipCompaction(i) ==
  /\ inv[i].pc = "running" /\ ToCompact(events) = <<>>
  /\ inv' = [inv EXCEPT ![i] = Fresh]
  /\ UNCHANGED events

\* The model answers and the summary is appended.
Summarise(i) ==
  /\ inv[i].pc = "summarising"
  /\ events' = Append(events, Summary(inv[i].first, inv[i].last, inv[i].covers))
  /\ inv' = [inv EXCEPT ![i] = Fresh]

\* The model call fails; or the invocation is cancelled in it.
SummaryFails(i) ==
  /\ inv[i].pc = "summarising"
  /\ inv' = [inv EXCEPT ![i] = Fresh]
  /\ UNCHANGED events

Next == \E i \in Invocation :
  \/ Say(i) \/ Call(i) \/ Respond(i)
  \/ Compact(i) \/ SkipCompaction(i) \/ Summarise(i) \/ SummaryFails(i)

Spec == Init /\ [][Next]_vars
-----------------------------------------------------------------------------
EventRecord ==
  [kind : {"text", "silent", "call", "response", "summary"}, chars : Nat,
   calls : 0..2, to : Nat, first : Nat, last : Nat, covers : SUBSET Nat]

TypeOK ==
  /\ events \in Seq(EventRecord)
  /\ inv \in [Invocation -> [pc : {"running", "summarising"}, call : Nat, owed : 0..2,
                             first : Nat, last : Nat, covers : SUBSET Nat, since : Nat]]

\* The model's context holds every event exactly once or more, raw or in a
\* summary: the events hidden from it are those some summary covers, whatever
\* was appended while the summaries were made.
SummariesReplaceExactly ==
  Hidden(events) = UNION {events[m].covers : m \in SummariesOf(events)}

\* compaction.py:68-69: the most recent events totalling at least
\* retention_chars characters are always kept raw: when a compaction is
\* decided, what it leaves has that many characters.
RetentionIsKept ==
  \A i \in Invocation : inv[i].pc = "summarising" =>
    LET decided == SubSeq(events, 1, inv[i].since)
        kept == SelectSeq(Candidates(decided), LAMBDA k : k \notin inv[i].covers)
    IN Chars(decided, kept) >= Retention
=============================================================================
