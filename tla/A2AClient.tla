----------------------------- MODULE A2AClient -----------------------------
(***************************************************************************)
(* A2AAgent, the agent that stands for a remote one, together with what    *)
(* the server makes of the remote run on the wire: one call of astream,    *)
(* blocking or streaming.  Tasks, webhooks and other clients of the server *)
(* are A2AServer's and PushNotifications' matter.                          *)
(*                                                                         *)
(* The connection is external: it may be lost or time out at any moment,   *)
(* which httpx reports as an exception, also when the server's generator   *)
(* raised in the middle of a stream.  A message the server rejects is      *)
(* answered with an error status, which is raised too.  A text is its      *)
(* event's number, 0 when empty; a signature is whether there is one.      *)
(***************************************************************************)
EXTENDS Naturals, Sequences, SequencesExt, Selections

CONSTANT MaxEvents   \* bound: events of the remote run

\* What the instances ASSUME.
A2AClientAssumption == MaxEvents \in Nat

VARIABLES
  setup,      \* the options of both sides
  remote,     \* the remote run
  produced,   \* history: its events
  wire,       \* frames sent and not read
  client,     \* the local call
  shown       \* the events it yielded

vars == <<setup, remote, produced, wire, client, shown>>

Setups == [streaming : BOOLEAN, clientSigns : BOOLEAN, serverRequires : BOOLEAN,
           serverSigns : BOOLEAN, clientRequires : BOOLEAN]

\* A whole event: a final response, a call of a tool, or its response, with or
\* without text; and what has no counterpart on the wire.
RemoteEvents == [kind : {"answer", "calls", "response", "other"}, text : 0..MaxEvents]
Frame == [kind : {"working", "toolStatus", "artifact", "completed"}, text : 0..MaxEvents]
LocalEvents == [kind : {"start", "message", "end"}, text : 0..MaxEvents]

TypeOK ==
  /\ setup \in Setups
  /\ remote \in {"none", "running", "completed", "failed", "rejected"}
  /\ produced \in Seq(RemoteEvents)
  /\ wire \in Seq(Frame)
  /\ client \in {"start", "posting", "waiting", "answered", "done", "raised", "closed"}
  /\ shown \in Seq(LocalEvents)

Init ==
  /\ setup \in Setups /\ remote = "none" /\ produced = <<>> /\ wire = <<>>
  /\ client = "start" /\ shown = <<>>

Item(kind, text) == [kind |-> kind, text |-> text]
Show(kind, text) == shown' = Append(shown, Item(kind, text))

\* astream, up to its request.
Begin ==
  /\ client = "start" /\ client' = "posting"
  /\ Show("start", 0)
  /\ UNCHANGED <<setup, remote, produced, wire>>

\* _verify_incoming, of a message that sign_message signed or not.
Accepted == setup.serverRequires => setup.clientSigns

\* The request reaches the server; a stream begins with a status.
Post ==
  /\ client = "posting" /\ client' = "waiting"
  /\ remote' = IF Accepted THEN "running" ELSE "rejected"
  /\ wire' = IF Accepted /\ setup.streaming THEN <<Item("working", 0)>> ELSE <<>>
  /\ UNCHANGED <<setup, produced, shown>>

\* events_to_a2a_stream, of one event.
Frames(e) ==
  CASE e.kind \in {"answer", "response"} -> <<Item("artifact", e.text)>>
    [] e.kind = "calls" -> <<Item("toolStatus", e.text)>>
    [] OTHER -> <<>>

RemoteEvent(e) ==
  /\ remote = "running" /\ Len(produced) < MaxEvents
  /\ produced' = Append(produced, e)
  /\ wire' = IF setup.streaming THEN wire \o Frames(e) ELSE wire
  /\ UNCHANGED <<setup, remote, client, shown>>

RemoteEnds ==
  /\ remote = "running" /\ remote' = "completed"
  /\ wire' = IF setup.streaming THEN Append(wire, Item("completed", 0)) ELSE wire
  /\ UNCHANGED <<setup, produced, client, shown>>

RemoteRaises ==
  /\ remote = "running" /\ remote' = "failed"
  /\ UNCHANGED <<setup, produced, wire, client, shown>>

\* An artifact is shown when it has text, whatever it is the artifact of.
Converted(f) == IF f.kind = "artifact" /\ f.text # 0 THEN <<Item("message", f.text)>> ELSE <<>>

\* _sse_iter and _convert_a2a_event_to_sdk.
ReadFrame ==
  /\ client = "waiting" /\ wire # <<>> /\ wire' = Tail(wire)
  /\ Head(wire).kind # "toolStatus"
  /\ shown' = shown \o Converted(Head(wire))
  /\ UNCHANGED <<setup, remote, produced, client>>

\* There is no EventType.TOOL_CALL to convert the status of a tool call to.
ReadToolCall ==
  /\ client = "waiting" /\ wire # <<>> /\ wire' = Tail(wire)
  /\ Head(wire).kind = "toolStatus" /\ client' = "raised"
  /\ UNCHANGED <<setup, remote, produced, shown>>

\* The stream is taken to be over when there is nothing to read (mutant).
StreamOverEarly ==
  /\ setup.streaming /\ client = "waiting" /\ wire = <<>>
  /\ client' = "done" /\ Show("end", 0)
  /\ UNCHANGED <<setup, remote, produced, wire>>

\* The server closed the stream.
StreamOver ==
  /\ setup.streaming /\ client = "waiting" /\ wire = <<>> /\ remote = "completed"
  /\ client' = "done" /\ Show("end", 0)
  /\ UNCHANGED <<setup, remote, produced, wire>>

\* _run_agent_for_task keeps the text of the last final response.
FinalText ==
  LET answers == Select(produced, {e \in RemoteEvents : e.kind = "answer"})
  IN IF answers = <<>> THEN 0 ELSE Last(answers).text

\* _send_message gets its reply, and _extract_answer takes the answer from it.
Reply ==
  /\ ~setup.streaming /\ client = "waiting" /\ remote = "completed"
  /\ IF setup.clientRequires /\ ~setup.serverSigns
       THEN client' = "raised" /\ UNCHANGED shown
       ELSE client' = "answered" /\ Show("message", FinalText)
  /\ UNCHANGED <<setup, remote, produced, wire>>

\* raise_for_status: what the server rejects is HTTP 400, in either mode.
Refused ==
  /\ client = "waiting" /\ remote = "rejected" /\ client' = "raised"
  /\ UNCHANGED <<setup, remote, produced, wire, shown>>

Finish ==
  /\ client = "answered" /\ client' = "done" /\ Show("end", 0)
  /\ UNCHANGED <<setup, remote, produced, wire>>

\* The connection is lost, times out, or was broken by the server.
Lose ==
  /\ client \in {"posting", "waiting"} /\ client' = "raised"
  /\ UNCHANGED <<setup, remote, produced, wire, shown>>

Close ==
  /\ client \notin {"start", "done", "raised", "closed"} /\ client' = "closed"
  /\ UNCHANGED <<setup, remote, produced, wire, shown>>

Next ==
  \/ Begin \/ Post \/ ReadFrame \/ ReadToolCall \/ StreamOver \/ Reply \/ Refused
  \/ Finish \/ Lose \/ Close
  \/ RemoteEnds \/ RemoteRaises
  \/ \E kind \in {"answer", "calls", "response", "other"}, empty \in BOOLEAN :
       RemoteEvent(Item(kind, IF empty THEN 0 ELSE Len(produced) + 1))

Spec == Init /\ [][Next]_vars
-----------------------------------------------------------------------------
Texts(s) == [k \in DOMAIN s |-> s[k].text]

\* What of the remote run a local stream tells, its texts in order; and what it
\* has told.
Told == Texts(Select(produced, {e \in RemoteEvents : e.kind \in {"answer", "response"} /\ e.text # 0}))
Tale == Texts(Select(shown, {s \in LocalEvents : s.kind = "message"}))

CalledTool == \E k \in DOMAIN produced : produced[k].kind = "calls"

\* A local stream tells the remote run, from its beginning and in order.  When
\* it ends by itself the message was accepted and the remote run completed, and
\* it is told whole, by its last final response in blocking mode: it is not a
\* stream that was cut off, a timeout, a refusal or a failure, nor one in which
\* the remote agent called a tool, after which the local stream cannot go on.
TellsTheRemoteRun ==
  /\ setup.streaming => IsPrefix(Tale, Told)
  /\ client = "done" =>
       /\ Last(shown).kind = "end" /\ Accepted /\ remote = "completed"
       /\ IF setup.streaming THEN Tale = Told /\ ~CalledTool ELSE Tale = <<FinalText>>

=============================================================================
