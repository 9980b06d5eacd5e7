---------------------------- MODULE TaskStoreOps ----------------------------
(***************************************************************************)
(* The data structure behind InMemoryTaskStore (src/orxhestra/a2a/store.py):*)
(* an OrderedDict keyed by task id, as the sequence of its keys from the   *)
(* least to the most recently used.  Each operator is the effect of one    *)
(* method; the asyncio.Lock every method takes makes the call atomic.      *)
(***************************************************************************)
EXTENDS Naturals, Sequences, FiniteSets

Keys(s) == {s[i] : i \in 1..Len(s)}

NoDuplicates(s) == \A i, j \in 1..Len(s) : s[i] = s[j] => i = j

Position(s, t) == CHOOSE k \in 1..Len(s) : s[k] = t

\* OrderedDict.move_to_end(t), for a key t of s.
MoveToEnd(s, t) ==
  LET k == Position(s, t)
  IN [i \in 1..Len(s) |-> IF i = Len(s) THEN t
                          ELSE IF i < k THEN s[i] ELSE s[i + 1]]

\* `while len > max: popitem(last=False)`.
Trim(s, max) == IF Len(s) <= max THEN s ELSE SubSeq(s, Len(s) - max + 1, Len(s))

\* get: a hit is moved to the end, a miss changes nothing.
Get(s, t) == IF t \in Keys(s) THEN MoveToEnd(s, t) ELSE s

\* put: insert or replace, then evict from the least recently used end.
Put(s, t, max) ==
  Trim(IF t \in Keys(s) THEN MoveToEnd(s, t) ELSE Append(s, t), max)

\* delete: pop(task_id, None).
Delete(s, t) ==
  IF t \notin Keys(s) THEN s
  ELSE LET k == Position(s, t)
       IN [i \in 1..(Len(s) - 1) |-> IF i < k THEN s[i] ELSE s[i + 1]]

\* reversed(values()), restricted to the tasks a filter matches: what stands on
\* the list up to t, which is newest first.
ListedUpTo(s, matching, t) ==
  {u \in matching : \E i, j \in 1..Len(s) : s[i] = u /\ s[j] = t /\ j <= i}

Listed(s, matching) == Keys(s) \cap matching

\* start + max(1, limit).
PageEnd(cursor, limit) == cursor + (IF limit > 1 THEN limit ELSE 1)

\* all_tasks[start:end] of a slice that may reach past the list.
Page(s, matching, cursor, limit) ==
  {t \in Listed(s, matching) :
     Cardinality(ListedUpTo(s, matching, t)) \in (cursor + 1)..PageEnd(cursor, limit)}

\* No next_cursor one entry before the end (mutant).
LastPageEarly(s, matching, cursor, limit) ==
  PageEnd(cursor, limit) + 1 >= Cardinality(Listed(s, matching))

\* next_cursor is None exactly when the page reaches the end of the list.
LastPage(s, matching, cursor, limit) ==
  PageEnd(cursor, limit) >= Cardinality(Listed(s, matching))
=============================================================================
