------------------------------ MODULE AgentTool ------------------------------
(***************************************************************************)
(* One AgentTool object, called by the ToolExecutors of several            *)
(* invocations: each call injects its invocation's context into the        *)
(* object, and _arun reads it back after whatever was awaited in between   *)
(* (the before_tool callback, LangChain's ainvoke).                        *)
(*                                                                         *)
(* The sub-agent's stream is the environment: it yields up to MaxEvents    *)
(* events, ends or raises.  The queue of an invocation is read as long as  *)
(* its ToolExecutor runs; what is put there afterwards is seen by nobody.  *)
(***************************************************************************)
EXTENDS Naturals, Sequences, SequencesExt

CONSTANTS Invocations,
          CallsEach,     \* bound: calls of the tool in one answer
          MaxEvents      \* bound: events of one run of the sub-agent

\* What the instances ASSUME.
AgentToolAssumption == CallsEach \in Nat /\ MaxEvents \in Nat

VARIABLES
  injected,   \* AgentTool._ctx: an invocation, or "none"
  call,       \* the locals of each call of the tool
  stream,     \* what each invocation showed: [call, n], n = 0 for the response
  reading     \* invocations whose ToolExecutor is running

vars == <<injected, call, stream, reading>>

Calls == Invocations \X (1..CallsEach)
Of(c) == c[1]

Fresh == [pc |-> "new", ctx |-> "none", events |-> 0, answer |-> "none"]

Init ==
  /\ injected = "none"
  /\ call = [c \in Calls |-> Fresh]
  /\ stream = [i \in Invocations |-> <<>>]
  /\ reading = Invocations

\* _execute_one up to its first await.
Inject(c) ==
  /\ call[c].pc = "new" /\ Of(c) \in reading
  /\ injected' = Of(c)
  /\ call' = [call EXCEPT ![c].pc = "before"]
  /\ UNCHANGED <<stream, reading>>

\* _arun begins: it reads the context that is injected now.
Read(c) ==
  /\ call[c].pc = "before"
  /\ call' = [call EXCEPT ![c].pc = "running", ![c].ctx = injected]
  /\ UNCHANGED <<injected, stream, reading>>

\* event_callback of the context that was read: put_nowait on its queue.
Push(c) ==
  LET i == call[c].ctx IN
  stream' = IF i \notin reading THEN stream
            ELSE [stream EXCEPT ![i] = Append(@, [call |-> c, n |-> call[c].events + 1])]

\* An event of the sub-agent: a final response becomes the answer, and
\* before_agent_callback may answer in its stead.
SubEvent(c) ==
  /\ call[c].pc = "running" /\ call[c].events < MaxEvents
  /\ Push(c)
  /\ \/ \E answer \in {"final", call[c].answer} :
          call' = [call EXCEPT ![c].events = @ + 1, ![c].answer = answer]
     \/ call' = [call EXCEPT ![c].events = @ + 1, ![c].answer = "callback", ![c].pc = "done"]
  /\ UNCHANGED <<injected, reading>>

\* The sub-agent's stream is over; after_agent_callback is given the last event,
\* and without any event the reference to it is an error.
SubEnds(c) ==
  /\ call[c].pc = "running"
  /\ \/ call' = [call EXCEPT ![c].pc = "done",
                             ![c].answer = IF @ = "none" THEN "no answer" ELSE @]
     \/ call[c].events = 0 /\ call' = [call EXCEPT ![c].pc = "done", ![c].answer = "error"]
  /\ UNCHANGED <<injected, stream, reading>>

\* before_tool, the sub-agent or a callback raises.
Raise(c) ==
  /\ call[c].pc \in {"before", "running"}
  /\ call' = [call EXCEPT ![c].pc = "done", ![c].answer = "error"]
  /\ UNCHANGED <<injected, stream, reading>>

\* Every call has ended: the responses, in the order of the calls.
Respond(i) ==
  /\ i \in reading /\ \A c \in Calls : Of(c) = i => call[c].pc = "done"
  /\ stream' = [stream EXCEPT ![i] =
       @ \o [k \in 1..CallsEach |-> [call |-> <<i, k>>, n |-> 0]]]
  /\ reading' = reading \ {i}
  /\ UNCHANGED <<injected, call>>

\* The stream of the invocation is closed; the calls under way go on.
Close(i) ==
  /\ i \in reading
  /\ reading' = reading \ {i}
  /\ UNCHANGED <<injected, call, stream>>

Next ==
  \/ \E c \in Calls : Inject(c) \/ Read(c) \/ SubEvent(c) \/ SubEnds(c) \/ Raise(c)
  \/ \E i \in Invocations : Respond(i) \/ Close(i)

Spec == Init /\ [][Next]_vars
-----------------------------------------------------------------------------
TypeOK ==
  /\ injected \in Invocations \cup {"none"}
  /\ \A c \in Calls :
       /\ call[c].pc \in {"new", "before", "running", "done"}
       /\ call[c].ctx \in Invocations \cup {"none"} /\ call[c].events \in 0..MaxEvents
       /\ call[c].answer \in {"none", "final", "callback", "no answer", "error"}
  /\ stream \in [Invocations -> Seq([call : Calls, n : 0..MaxEvents])]
  /\ reading \subseteq Invocations

\* agent_tool.py:119-124: the context is injected just before the tool runs so
\* that the sub-agent's context preserves branch and session of its caller: a
\* call runs in the context of the invocation that made it.
OwnContext == \A c \in Calls : call[c].ctx \in {Of(c), "none"}
=============================================================================
