--------------------------- MODULE MessageBuilder ---------------------------
(***************************************************************************)
(* The conversation an LlmAgent's turn begins with                         *)
(* (src/orxhestra/agents/message_builder.py), built from the session that  *)
(* Compaction maintains: after apply_compaction, calls without an answer   *)
(* are left out and what carries nothing for the model is filtered.        *)
(*                                                                         *)
(* The turn is one of the root agent, whose branch is empty, so that the   *)
(* events of all earlier and concurrent invocations are looked at (its own *)
(* are not, but it has none yet); an agent on a branch of its own gets no  *)
(* history.  Texts, truncated when long, are left out.                     *)
(***************************************************************************)
EXTENDS Compaction

\* A message: for "ai" the number of calls it makes, and the event it is
\* made from.
Message(kind, k, calls) == [kind |-> kind, at |-> k, calls |-> calls]

\* responded_ids, of the events that compaction left, for the calls of event k.
Responded(s, k) ==
  {r \in (1..Len(s)) \ Hidden(s) : s[r].kind = "response" /\ s[r].to = k}

\* should_include_event, of the events that compaction left.
Included(s) ==
  {k \in (1..Len(s)) \ Hidden(s) :
     \/ s[k].kind \in {"text", "summary", "response"}
     \/ s[k].kind = "call" /\ Responded(s, k) # {}}

\* The message of event k.
MessageOf(s, k) ==
  CASE s[k].kind = "response" -> Message("tool", k, 0)
    [] s[k].kind = "call" -> Message("ai", k, Cardinality(Responded(s, k)))
    [] OTHER -> Message("text", k, 0)

\* events_to_messages.
History(s) ==
  [i \in 1..Cardinality(Included(s)) |-> MessageOf(s, Nth(Included(s), i))]

\* What a model accepts as a history, whenever a turn begins: every tool
\* message is preceded by the message with its call, and every call of an
\* assistant message is answered later, exactly once; also after compactions
\* that overlapped, with calls still running and calls nobody will answer.
HistoryIsWellFormed ==
  LET h == History(events) IN
  \A k \in 1..Len(h) :
    /\ h[k].kind = "tool" =>
         \E m \in 1..(k - 1) : h[m].kind = "ai" /\ h[m].at = events[h[k].at].to
    /\ h[k].kind = "ai" =>
         Cardinality({m \in (k + 1)..Len(h) :
                        h[m].kind = "tool" /\ events[h[m].at].to = h[k].at}) = h[k].calls
=============================================================================
