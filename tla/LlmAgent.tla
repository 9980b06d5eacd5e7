------------------------------ MODULE LlmAgent ------------------------------
(***************************************************************************)
(* LlmAgent.astream: the tool loop of one agent object that several        *)
(* invocations run at once.  They share the TaskPlanner's todo list, which *)
(* write_todos replaces, and `_last_llm_error`, and nothing else; so next  *)
(* to the invocations modelled in full stands action Others, for whatever  *)
(* any number of further ones does to these two.                           *)
(*                                                                         *)
(* The model, the tools, the callbacks and the consumer are the            *)
(* environment: a model call streams partial text, answers with or without *)
(* tool calls, or fails.  The todo list is the set of statuses on it.  A   *)
(* message is its kind and a number: for "system" none, for "ai" how many  *)
(* calls it makes, for "tool" which of them it answers.                    *)
(***************************************************************************)
EXTENDS Naturals, Sequences, SequencesExt

CONSTANTS Invocations,
          MaxIterations,
          MaxRetries,     \* max_retries of _call_llm_with_recovery
          MaxCalls,       \* bound: tool calls in one answer
          Boards,         \* bound: todo lists written, as sets of statuses
          InitialTasks    \* what TaskPlanner seeds an empty list with

\* What the instances ASSUME.
LlmAgentAssumption ==
  /\ MaxIterations \in Nat /\ MaxRetries \in Nat \ {0} /\ MaxCalls \in Nat
  /\ Boards \subseteq SUBSET {"pending", "in_progress", "completed", "blocked"}
  /\ {} \in Boards /\ InitialTasks \in Boards

VARIABLES
  inv,         \* the locals of each call of astream, and what it showed
  board,       \* TodoList.todos
  seeded,      \* TaskPlanner._seeded
  lastError    \* whose exception _last_llm_error is

vars == <<inv, board, seeded, lastError>>

Message(kind, n) == [kind |-> kind, n |-> n, board |-> {}]

Fresh ==
  [pc |-> "start", iteration |-> 0, attempt |-> 0, messages |-> <<>>,
   calls |-> 0, running |-> {}, ended |-> FALSE, output |-> FALSE,
   shown |-> <<>>, error |-> "none", waited |-> FALSE, told |-> FALSE]

Init == /\ inv = [i \in Invocations |-> Fresh]
        /\ board = {} /\ seeded = FALSE /\ lastError = "none"

Over == {"done", "raised", "closed"}

\* An event is shown; partial text in a row counts once.
Show(shown, kind) ==
  IF kind = "partial" /\ shown # <<>> /\ Last(shown) = "partial" THEN shown ELSE Append(shown, kind)

\* TodoList.has_pending, "blocked" included.
HasPending(b) == b \ {"completed"} # {}

\* TaskPlanner._ensure_seeded.
Seeded(b) == IF ~seeded /\ InitialTasks # {} /\ b = {} THEN InitialTasks ELSE b

\* The board goes into the prompt of the first call only (mutant).
EnrichedOnce(messages, b) ==
  IF b = {} \/ messages[1].kind # "system" \/ Len(messages) > 2
    THEN messages ELSE [messages EXCEPT ![1].board = b]

\* enrich_prompt: the system message carries the board, unless that is empty:
\* then the message stays as it was.  Without a system message there is nothing
\* to carry it.
Enriched(messages, b) ==
  IF b = {} \/ messages[1].kind # "system" THEN messages ELSE [messages EXCEPT ![1].board = b]

\* The next turn of the for statement up to the before_model callback.
Iterate(i, messages) ==
  LET v == inv[i] IN
  IF v.iteration = MaxIterations
    THEN /\ inv' = [inv EXCEPT ![i].pc = "done", ![i].messages = messages,
                               ![i].shown = Show(@, "max")]
         /\ UNCHANGED <<board, seeded>>
  ELSE IF v.ended
    THEN /\ inv' = [inv EXCEPT ![i].pc = "done", ![i].messages = messages]
         /\ UNCHANGED <<board, seeded>>
  ELSE /\ board' = Seeded(board)
       /\ seeded' = (seeded \/ InitialTasks # {})
       /\ inv' = [inv EXCEPT ![i].pc = "hook", ![i].iteration = @ + 1, ![i].attempt = 0,
                             ![i].messages = Enriched(messages, board')]

\* An agent whose instructions are empty has no system message.
Begin(i) ==
  /\ inv[i].pc = "start"
  /\ \E instructed \in BOOLEAN :
       Iterate(i, (IF instructed THEN <<Message("system", 0)>> ELSE <<>>) \o <<Message("human", 0)>>)
  /\ UNCHANGED lastError

\* before_model returns or raises.
BeforeModel(i) ==
  /\ inv[i].pc = "hook"
  /\ \/ inv' = [inv EXCEPT ![i].pc = "model"]
     \/ inv' = [inv EXCEPT ![i].pc = "done", ![i].shown = Show(@, "error"), ![i].error = i]
  /\ UNCHANGED <<board, seeded, lastError>>

\* _call_llm: text chunks as long as no tool call has been seen.
Partial(i) ==
  /\ inv[i].pc = "model"
  /\ inv' = [inv EXCEPT ![i].shown = Show(@, "partial")]
  /\ UNCHANGED <<board, seeded, lastError>>

\* ... and the whole message; no chunk at all is an empty message.
Answer(i, calls) ==
  /\ inv[i].pc = "model"
  /\ inv' = [inv EXCEPT ![i].pc = "hookAfter", ![i].calls = calls]
  /\ UNCHANGED <<board, seeded, lastError>>

\* A failed attempt is not counted (mutant).
ModelFailsUncounted(i) ==
  /\ inv[i].pc = "model"
  /\ lastError' = i
  /\ inv' = [inv EXCEPT ![i].pc = "backoff"]
  /\ UNCHANGED <<board, seeded>>

\* A pause before giving up, too (mutant).
ModelFailsPausing(i) ==
  /\ inv[i].pc = "model"
  /\ lastError' = i
  /\ \/ /\ inv[i].attempt < MaxRetries - 1
        /\ inv' = [inv EXCEPT ![i].pc = "backoff", ![i].attempt = @ + 1]
     \/ inv' = [inv EXCEPT ![i].pc = "recovering"]
  /\ UNCHANGED <<board, seeded>>

\* One attempt more than max_retries (mutant).
ModelFailsOneMore(i) ==
  /\ inv[i].pc = "model"
  /\ lastError' = i
  /\ \/ /\ inv[i].attempt < MaxRetries
        /\ inv' = [inv EXCEPT ![i].pc = "backoff", ![i].attempt = @ + 1]
     \/ inv' = [inv EXCEPT ![i].pc = "recovering", ![i].waited = TRUE]
     \/ inv' = [inv EXCEPT ![i].pc = "done", ![i].shown = Show(@, "error"), ![i].error = i]
  /\ UNCHANGED <<board, seeded>>

\* The model call raises: again after a pause, if _is_retryable says so and an
\* attempt is left; else on_model_error is awaited; without that callback the
\* error event follows at once.
ModelFails(i) ==
  /\ inv[i].pc = "model"
  /\ lastError' = i
  /\ \/ /\ inv[i].attempt < MaxRetries - 1
        /\ inv' = [inv EXCEPT ![i].pc = "backoff", ![i].attempt = @ + 1]
     \/ inv' = [inv EXCEPT ![i].pc = "recovering", ![i].waited = TRUE]
     \/ inv' = [inv EXCEPT ![i].pc = "done", ![i].shown = Show(@, "error"), ![i].error = i]
  /\ UNCHANGED <<board, seeded>>

Backoff(i) ==
  /\ inv[i].pc = "backoff"
  /\ inv' = [inv EXCEPT ![i].pc = "model"]
  /\ UNCHANGED <<board, seeded, lastError>>

\* The callback recovers with a text, or declines: the error event is made
\* from _last_llm_error as it is now.
Recover(i) ==
  /\ inv[i].pc = "recovering"
  /\ \/ inv' = [inv EXCEPT ![i].pc = "hookAfter", ![i].calls = 0]
     \/ inv' = [inv EXCEPT ![i].pc = "done", ![i].shown = Show(@, "error"),
                           ![i].error = lastError]
  /\ UNCHANGED <<board, seeded, lastError>>

\* The instructions or on_model_error raise, and with them astream.
Raise(i) ==
  /\ inv[i].pc \in {"start", "recovering"}
  /\ inv' = [inv EXCEPT ![i].pc = "raised"]
  /\ UNCHANGED <<board, seeded, lastError>>

Answered(i) == Append(inv[i].messages, Message("ai", inv[i].calls))

\* after_model is over (its exceptions are logged) and the answer has calls:
\* ToolExecutor.execute shows them and starts one coroutine each.
StartTools(i) ==
  /\ inv[i].pc = "hookAfter" /\ inv[i].calls > 0
  /\ inv' = [inv EXCEPT ![i].pc = "tools", ![i].messages = Answered(i),
                        ![i].running = 1..inv[i].calls, ![i].shown = Show(@, "calls")]
  /\ UNCHANGED <<board, seeded, lastError>>

\* The final event, with or without text; output_key goes with text only.
ShowFinal(i, messages, kind) ==
  inv' = [inv EXCEPT ![i].pc = "done", ![i].messages = messages,
                     ![i].shown = Show(@, kind), ![i].output = (kind = "final")]

\* The answer has no calls: _handle_final_response goes on as long as the
\* board has something pending; else the answer is shown, at once or after a
\* structured-output call.
Conclude(i) ==
  /\ inv[i].pc = "hookAfter" /\ inv[i].calls = 0
  /\ IF HasPending(Seeded(board))
       THEN /\ Iterate(i, Append(Answered(i), Message("reminder", 0)))
            /\ UNCHANGED lastError
       ELSE /\ \/ \E kind \in {"final", "blank"} : ShowFinal(i, Answered(i), kind)
               \/ inv' = [inv EXCEPT ![i].pc = "parsing", ![i].messages = Answered(i)]
            /\ UNCHANGED <<board, seeded, lastError>>

\* StructuredOutputParser.parse: its fallback call returns, or fails and is
\* ignored.
Parsed(i) ==
  /\ inv[i].pc = "parsing"
  /\ \E kind \in {"final", "blank"} : ShowFinal(i, inv[i].messages, kind)
  /\ UNCHANGED <<board, seeded, lastError>>

\* A tool ends with a result or an error; write_todos replaces the board when
\* what it is given is valid.
ToolEnds(i, c) ==
  /\ inv[i].pc = "tools" /\ c \in inv[i].running
  /\ inv' = [inv EXCEPT ![i].running = @ \ {c}]
  /\ UNCHANGED <<seeded, lastError>>
  /\ board' \in Boards \cup {board}

\* CallContext.end_invocation in a tool: the flag is set on the copy of the
\* context made for the tools of this answer.
EndFromTool(i) ==
  /\ inv[i].pc = "tools" /\ inv[i].running # {}
  /\ inv' = [inv EXCEPT ![i].told = TRUE]
  /\ UNCHANGED <<board, seeded, lastError>>

\* Whoever holds the invocation's own context sets its flag.
EndFromOutside(i) ==
  /\ inv[i].pc \notin Over
  /\ inv' = [inv EXCEPT ![i].ended = TRUE]
  /\ UNCHANGED <<board, seeded, lastError>>

\* Every call has ended: one response event each, in the order of the calls.
ShowResponses(i) ==
  /\ inv[i].pc = "tools" /\ inv[i].running = {}
  /\ inv' = [inv EXCEPT ![i].pc = "responded", ![i].shown = Show(@, "responses")]
  /\ UNCHANGED <<board, seeded, lastError>>

\* The results of calls that end later than another are lost (mutant).
ExtendDropping(i) ==
  /\ inv[i].pc = "responded"
  /\ Iterate(i, inv[i].messages \o
                  [k \in 1..(inv[i].calls - 1) |-> Message("tool", k)])
  /\ UNCHANGED lastError

\* The consumer took the last one: messages.extend and the next turn.
Extend(i) ==
  /\ inv[i].pc = "responded"
  /\ Iterate(i, inv[i].messages \o [k \in 1..inv[i].calls |-> Message("tool", k)])
  /\ UNCHANGED lastError

\* Another invocation's write_todos or failed model call.
Others ==
  /\ \/ board' \in Boards /\ UNCHANGED lastError
     \/ lastError' = "other" /\ UNCHANGED board
  /\ UNCHANGED <<inv, seeded>>

\* The consumer closes the stream, or its task is cancelled.
Close(i) ==
  /\ inv[i].pc \notin Over
  /\ inv' = [inv EXCEPT ![i].pc = "closed"]
  /\ UNCHANGED <<board, seeded, lastError>>

Run(i) ==
  \/ Begin(i) \/ BeforeModel(i) \/ ModelFails(i) \/ Backoff(i) \/ Recover(i) \/ Raise(i)
  \/ StartTools(i) \/ Conclude(i) \/ Parsed(i) \/ ShowResponses(i) \/ Extend(i)
  \/ \E n \in 0..MaxCalls : Answer(i, n)
  \/ \E c \in 1..MaxCalls : ToolEnds(i, c)

Next ==
  \/ Others
  \/ \E i \in Invocations :
       Run(i) \/ Partial(i) \/ EndFromTool(i) \/ EndFromOutside(i) \/ Close(i)

\* Models, tools, callbacks and consumers come back; they owe nothing else.
Fairness == \A i \in Invocations : WF_vars(Run(i))

Spec == Init /\ [][Next]_vars /\ Fairness
-----------------------------------------------------------------------------
Kinds == {"system", "human", "ai", "tool", "reminder"}
Terminal == {"final", "blank", "error", "max"}

TypeOK ==
  /\ \A i \in Invocations : LET v == inv[i] IN
       /\ v.pc \in Over \cup {"start", "hook", "model", "backoff", "recovering",
                              "hookAfter", "parsing", "tools", "responded"}
       /\ v.iteration \in 0..MaxIterations /\ v.attempt \in 0..(MaxRetries - 1)
       /\ v.messages \in Seq([kind : Kinds, n : 0..MaxCalls, board : Boards])
       /\ v.running \subseteq 1..v.calls /\ v.calls \in 0..MaxCalls
       /\ v.shown \in Seq(Terminal \cup {"partial", "calls", "responses"})
       /\ v.error \in Invocations \cup {"none", "other"}
       /\ {v.ended, v.output, v.waited, v.told} \subseteq BOOLEAN
  /\ board \in Boards /\ seeded \in BOOLEAN /\ lastError \in Invocations \cup {"none", "other"}

\* Whenever the model is called, every message of it that made calls is
\* followed at once by one answer per call, in order: also after answers that
\* failed, after reminders and after retries.
CallsAreAnswered ==
  \A i \in Invocations : inv[i].pc = "model" =>
    \A k \in DOMAIN inv[i].messages :
      LET m == inv[i].messages[k] IN
      m.kind = "ai" => \A c \in 1..m.n :
        k + c <= Len(inv[i].messages) /\ inv[i].messages[k + c] = Message("tool", c)

\* A model that is told to go on since tasks are pending is shown a board with
\* a pending task, although the board is shared and the prompt is written
\* apart from the reminder.  An agent without a system message is told to go on
\* all the same, and is shown no board.
ReminderMatchesBoard ==
  \A i \in Invocations :
    (/\ inv[i].pc \in {"hook", "model"} /\ Last(inv[i].messages).kind = "reminder"
     /\ inv[i].messages[1].kind = "system")
      => HasPending(inv[i].messages[1].board)

\* The error an invocation shows is its own, unless it awaited on_model_error:
\* _last_llm_error belongs to the agent and may have been overwritten then.
ErrorIsOwn ==
  \A i \in Invocations : ~inv[i].waited => inv[i].error \in {"none", i}

\* Every invocation ends, within MaxIterations model calls of MaxRetries
\* attempts, however long tasks stay pending and whatever the model does.
LoopEnds == \A i \in Invocations : <>(inv[i].pc \in Over)

\* call_context.py:87-88: a tool that calls end_invocation causes all agents
\* to stop: the model is not called again.
EndIsObeyed ==
  [][\A i \in Invocations : inv[i].told => inv'[i].iteration = inv[i].iteration]_vars
=============================================================================
