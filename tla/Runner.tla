------------------------------- MODULE Runner -------------------------------
(***************************************************************************)
(* Runner.astream (src/orxhestra/runner.py) over an in-memory session:     *)
(* persist the user's message, stream an agent's events, persisting each   *)
(* before it is yielded, follow transfers from agent to agent, remember    *)
(* the active agent in session.state for the next turn, and compact at the *)
(* end.  Several calls of astream may run on the session at once.          *)
(*                                                                         *)
(* The session's event list is `log`; `active` is the value of             *)
(* session.state[active_agent_state_key], with Root for a cleared or       *)
(* missing key.  The runner is configured with that key, with a middleware *)
(* stack and with compaction.  An agent is whatever it makes of a message: *)
(* a bounded sequence of events, then an end or an exception.              *)
(***************************************************************************)
EXTENDS Naturals, Sequences

CONSTANTS Invocation,  \* the calls of astream
          Agent,       \* the agents of the tree
          Root,        \* runner.agent
          Stranger,    \* a name find_agent does not resolve
          Nobody,      \* no name at all: None
          Layers,      \* the number of middleware in the stack
          MaxLog       \* bound: agents emit whole events up to this log length

\* What the instances ASSUME.
RunnerAssumption ==
  /\ Root \in Agent /\ Stranger \notin Agent /\ Nobody \notin Agent \cup {Stranger}
  /\ Layers \in Nat /\ MaxLog \in Nat

Name == Agent \cup {Stranger}

VARIABLES
  log,     \* session.events
  active,  \* the persisted active agent
  inv      \* each call of astream

vars == <<log, active, inv>>

\* inv[i].pc       where the generator is suspended
\* inv[i].agent    current_agent
\* inv[i].target   transfer_target
\* inv[i].offered  the transfer carried by the event being yielded
\* inv[i].asked    history: the transfers yielded since the last handoff
\* inv[i].then     where it goes when after_invoke has been through the stack
\* inv[i].inside   the middleware entered and not left, the innermost last
\* inv[i].broken   history: a hook of the stack raised
Idle == [pc |-> "idle", agent |-> Root, target |-> Nobody, offered |-> Nobody,
         asked |-> <<>>, then |-> "done", inside |-> <<>>, broken |-> FALSE]

\* A persisted event.  by: the call it belongs to, or Nobody for an earlier
\* turn; agent: the author, or the agent a marker points to.
Entry(kind, i, a) == [kind |-> kind, by |-> i, agent |-> a]

\* An earlier turn has left a marker, perhaps of an agent since removed.
Init == \E a \in Name :
  /\ log = <<Entry("marker", Nobody, a)>>
  /\ active = a
  /\ inv = [i \in Invocation |-> Idle]

Put(e) == log' = Append(log, e)

Set(i, r) == inv' = [inv EXCEPT ![i] = r]
-----------------------------------------------------------------------------
\* get_or_create_session, the choice of the starting agent, the user event.
Begin(i) ==
  /\ inv[i].pc = "idle"
  /\ LET first == IF active \in Agent THEN active ELSE Root
     IN /\ Set(i, [inv[i] EXCEPT !.pc = "begun", !.agent = first])
        /\ Put(Entry("user", i, first))
  /\ UNCHANGED active

\* before_invoke of the next middleware returns: the first is the outermost.
BeforeInvoke(i) ==
  /\ inv[i].pc = "begun" /\ Len(inv[i].inside) < Layers
  /\ Set(i, [inv[i] EXCEPT !.inside = Append(@, Len(@) + 1)])
  /\ UNCHANGED <<log, active>>

\* All have returned, and only now is the try entered.
Stream(i) ==
  /\ inv[i].pc = "begun" /\ Len(inv[i].inside) = Layers
  /\ Set(i, [inv[i] EXCEPT !.pc = "streaming"])
  /\ UNCHANGED <<log, active>>

\* after_invoke in the order of before_invoke (mutant).
AfterInvokeInOrder(i) ==
  /\ inv[i].pc = "unwinding" /\ inv[i].inside # <<>>
  /\ Set(i, [inv[i] EXCEPT !.inside = Tail(@)])
  /\ UNCHANGED <<log, active>>

\* after_invoke of the innermost middleware not called yet; the last of them
\* lets the call go on.
AfterInvoke(i) ==
  /\ inv[i].pc = "unwinding" /\ inv[i].inside # <<>>
  /\ Set(i, [inv[i] EXCEPT !.inside = SubSeq(@, 1, Len(@) - 1)])
  /\ UNCHANGED <<log, active>>

Unwound(i) ==
  /\ inv[i].pc = "unwinding" /\ inv[i].inside = <<>>
  /\ Set(i, [inv[i] EXCEPT !.pc = inv[i].then])
  /\ UNCHANGED <<log, active>>

\* A hook raises, and those of the stack that were to come are not called.
HookFails(i) ==
  /\ inv[i].pc \in {"begun", "unwinding"} /\ Layers > 0
  /\ Set(i, [inv[i] EXCEPT !.pc = "failed", !.broken = TRUE])
  /\ UNCHANGED <<log, active>>

\* The agent emits a whole event, with or without a transfer: it is appended
\* to the session, then dropped by the middleware, or yielded.
Emit(i) ==
  /\ inv[i].pc = "streaming" /\ Len(log) < MaxLog
  /\ \E ask \in Name \cup {Nobody} :
       /\ Put(Entry("event", i, inv[i].agent))
       /\ \/ UNCHANGED inv
          \/ Set(i, [inv[i] EXCEPT !.pc = "yielded", !.offered = ask,
                                   !.asked = IF ask = Nobody THEN @ ELSE Append(@, ask)])
  /\ UNCHANGED active

\* A partial event carries no transfer and is not persisted.
EmitPartial(i) ==
  /\ inv[i].pc = "streaming"
  /\ Set(i, [inv[i] EXCEPT !.pc = "yielded", !.offered = Nobody])
  /\ UNCHANGED <<log, active>>

\* The first transfer of a stream wins (mutant).
ResumeKeepingFirst(i) ==
  /\ inv[i].pc = "yielded"
  /\ Set(i, [inv[i] EXCEPT !.pc = "streaming", !.offered = Nobody,
                           !.target = IF @ = Nobody THEN inv[i].offered ELSE @])
  /\ UNCHANGED <<log, active>>

\* The consumer asks for more: only now is the event's transfer looked at.
Resume(i) ==
  /\ inv[i].pc = "yielded"
  /\ Set(i, [inv[i] EXCEPT !.pc = "streaming", !.offered = Nobody,
                           !.target = IF inv[i].offered = Nobody THEN @ ELSE inv[i].offered])
  /\ UNCHANGED <<log, active>>

\* A handoff that does not check what find_agent returned (mutant).
HandoffUnresolved(i) ==
  /\ inv[i].pc = "streaming" /\ inv[i].target # Nobody
  /\ LET a == inv[i].target
     IN /\ Put(Entry("marker", i, a))
        /\ active' = a
        /\ Set(i, [inv[i] EXCEPT !.agent = a, !.target = Nobody, !.asked = <<>>])

\* The agent's stream ends after a transfer that resolves: the marker event
\* is appended, its state_delta applied, and the target takes over.
Handoff(i) ==
  /\ inv[i].pc = "streaming" /\ inv[i].target \in Agent
  /\ LET a == inv[i].target
     IN /\ Put(Entry("marker", i, a))
        /\ active' = a
        /\ Set(i, [inv[i] EXCEPT !.agent = a, !.target = Nobody, !.asked = <<>>])

\* The agent's stream ends without one: after_invoke(ctx, None).
AgentEnds(i) ==
  /\ inv[i].pc = "streaming" /\ inv[i].target \notin Agent
  /\ Set(i, [inv[i] EXCEPT !.pc = "unwinding", !.then = "compacting"])
  /\ UNCHANGED <<log, active>>

\* The agent, on_event, the session service or the model raises, or the call is
\* cancelled.  Only the streaming part is inside the try: after_invoke(ctx,
\* exc), then re-raised.
Fail(i) ==
  /\ inv[i].pc \in {"streaming", "compacting", "closing", "notice"}
  /\ Set(i, IF inv[i].pc = "streaming"
               THEN [inv[i] EXCEPT !.pc = "unwinding", !.then = "failed"]
               ELSE [inv[i] EXCEPT !.pc = "failed"])
  /\ UNCHANGED <<log, active>>

\* The consumer closes the generator at an event: GeneratorExit is caught,
\* after_invoke(ctx, None) is called, and the code after the try runs.
Close(i) ==
  /\ inv[i].pc = "yielded"
  /\ Set(i, [inv[i] EXCEPT !.pc = "unwinding", !.then = "closing"])
  /\ UNCHANGED <<log, active>>

\* Below the threshold compact_session does nothing.
SkipCompaction(i) ==
  /\ inv[i].pc \in {"compacting", "closing"}
  /\ Set(i, [inv[i] EXCEPT !.pc = IF inv[i].pc = "closing" THEN "closed" ELSE "done"])
  /\ UNCHANGED <<log, active>>

\* Above it a notice is yielded; a generator that yields while it is being
\* closed is broken off with RuntimeError.
Notice(i) ==
  /\ inv[i].pc \in {"compacting", "closing"}
  /\ Set(i, [inv[i] EXCEPT !.pc = IF inv[i].pc = "closing" THEN "broken" ELSE "notice"])
  /\ UNCHANGED <<log, active>>

\* compact_session appends a summary, or declines; the stream ends, whether
\* or not the consumer takes the last event.
Compact(i) ==
  /\ inv[i].pc = "notice"
  /\ Set(i, [inv[i] EXCEPT !.pc = "done"])
  /\ \/ Put(Entry("summary", i, Root))
     \/ UNCHANGED log
  /\ UNCHANGED active

\* The consumer closes the generator at the notice, outside the try.
CloseAtNotice(i) ==
  /\ inv[i].pc = "notice"
  /\ Set(i, [inv[i] EXCEPT !.pc = "closed"])
  /\ UNCHANGED <<log, active>>
-----------------------------------------------------------------------------
Step(i) == \/ Begin(i) \/ BeforeInvoke(i) \/ Stream(i)
           \/ AfterInvoke(i) \/ Unwound(i) \/ HookFails(i)
           \/ Emit(i) \/ EmitPartial(i) \/ Resume(i)
           \/ Handoff(i) \/ AgentEnds(i)
           \/ Fail(i) \/ Close(i)
           \/ SkipCompaction(i) \/ Notice(i) \/ Compact(i) \/ CloseAtNotice(i)

Next == \E i \in Invocation : Step(i)

Spec == Init /\ [][Next]_vars
-----------------------------------------------------------------------------
Over == {"done", "closed", "broken", "failed"}

TypeOK ==
  /\ log \in Seq([kind : {"user", "event", "marker", "summary"},
                  by : Invocation \cup {Nobody}, agent : Name])
  /\ active \in Name
  /\ inv \in [Invocation ->
       [pc : {"idle", "begun", "streaming", "yielded", "unwinding", "compacting", "closing",
              "notice"} \cup Over,
        agent : Agent, target : Name \cup {Nobody}, offered : Name \cup {Nobody},
        asked : Seq(Name),
        then : {"done", "compacting", "closing", "failed"}, inside : Seq(1..Layers),
        broken : BOOLEAN]]

\* A call never ends by itself while the last transfer its consumer was shown
\* since the last handoff could be followed.
HandoffIsFollowed ==
  \A i \in Invocation :
    inv[i].pc \in {"compacting", "notice", "done"} /\ inv[i].asked # <<>> =>
      inv[i].asked[Len(inv[i].asked)] = Stranger

\* middleware/base.py:50-56: before_invoke wraps, after_invoke unwraps.  The
\* middleware that were entered and not left are the outermost ones, whatever
\* happens; an agent runs inside all of them; and a call that is over, however
\* it ended, has left them all, unless one of their hooks raised.
HooksArePaired ==
  \A i \in Invocation :
    LET c == inv[i]
    IN /\ c.inside = [l \in 1..Len(c.inside) |-> l]
       /\ c.pc \in {"streaming", "yielded"} => Len(c.inside) = Layers
       /\ c.pc \in Over \cup {"compacting", "closing", "notice"} =>
            c.inside = <<>> \/ c.broken

\* runner.py:324-325: compaction runs after all events are yielded, at the end
\* of an invocation and never mid-stream: its notice is not reached by a call
\* whose consumer closed the stream while the agent was in the middle of it.
CompactionFollowsStream ==
  [][\A i \in Invocation :
       inv'[i].pc \in {"notice", "broken"} => inv[i].pc # "closing"]_vars
=============================================================================
