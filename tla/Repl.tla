-------------------------------- MODULE Repl --------------------------------
(***************************************************************************)
(* The interactive terminal (cli/ink_app.py) with the approvals of         *)
(* cli/stream.py: the thread of the user interface, which handles keys;    *)
(* a worker thread per message that was typed while none ran, which takes  *)
(* the messages typed meanwhile; a thread for a slash command that asks    *)
(* for a confirmation (/memory clear); and the one selector with which     *)
(* they all ask the user.                                                  *)
(*                                                                         *)
(* Messages are numbered as they are typed, and a worker has the number of *)
(* the message it was started for.  A turn shows any number of lines and   *)
(* may ask about one tool call or question.  The text being edited, the    *)
(* spinner and the rendering are left out, and so are two children of a    *)
(* ParallelAgent that ask at once.  Approvals are not skipped              *)
(* (--auto-approve is off, and nothing turns it on).                       *)
(***************************************************************************)
EXTENDS Naturals, Sequences, FiniteSets

CONSTANTS MaxTyped,     \* bound: messages typed
          MaxWork,      \* bound: messages typed, lines shown and prompts, together
          Command       \* the thread of the slash command

\* What the instances ASSUME.
ReplAssumption ==
  MaxTyped \in Nat \ {0} /\ MaxWork \in Nat /\ Command \notin Nat

Messages == 1..MaxTyped
Askers == Messages \cup {Command}
NoOne == 0

VARIABLES
  typed,       \* messages typed so far
  running,     \* the ref `running`
  pending,     \* the ref `pending_msgs`
  worker,      \* the worker threads
  history,     \* the scrollback: who wrote a line, for which message
  ask,         \* where each asker's request_input is
  selector,    \* sel_event, sel_result, sel_active, freetext and the prompt
  key,         \* the on_key call that answers a prompt: where it is
  interrupted, \* history: Ctrl-C was used
  disturbed,   \* history: askers whose prompt met another one or was left by Esc
  given        \* history: what the user answered to each asker's prompt

vars == <<typed, running, pending, worker, history, ask, selector, key,
          interrupted, disturbed, given>>

\* pc     "none", "turn", "tool" (the stream is resumed after an approval),
\*        "deciding" (the turn is over), "pushing", "failing", "over"
\* msg    the message it runs;  hand: the drained messages not yet in history
\* ran    the tool was run
Worker == [pc : {"none", "turn", "tool", "deciding", "pushing", "failing", "over"},
           msg : 0..MaxTyped, hand : Seq(Messages), ran : BOOLEAN]

Live == {w \in Messages : worker[w].pc \notin {"none", "over"}}

TypeOK ==
  /\ typed \in 0..MaxTyped /\ running \in BOOLEAN /\ pending \in Seq(Messages)
  /\ worker \in [Messages -> Worker]
  /\ history \in Seq([kind : {"user", "answer", "error"}, msg : Messages])
  /\ ask \in [Askers -> [pc : {"idle", "asking", "waiting", "woken", "answered"},
                         kind : {"approval", "question"}, answer : {"", "y", "n", "text"}]]
  /\ selector \in [event : Askers \cup {NoOne}, result : {"", "y", "n", "text"},
                   active : BOOLEAN, freetext : BOOLEAN, prompt : Askers \cup {NoOne}]
  /\ key \in {"idle", "setting"}
  /\ interrupted \in BOOLEAN /\ disturbed \subseteq Askers
  /\ given \in [Askers -> {"", "y", "n", "text"}]

Init ==
  /\ typed = 0 /\ running = FALSE /\ pending = <<>> /\ history = <<>>
  /\ worker = [w \in Messages |->
                [pc |-> "none", msg |-> 0, hand |-> <<>>, ran |-> FALSE]]
  /\ ask = [a \in Askers |-> [pc |-> "idle", kind |-> "approval", answer |-> ""]]
  /\ selector = [event |-> NoOne, result |-> "", active |-> FALSE, freetext |-> FALSE,
                 prompt |-> NoOne]
  /\ key = "idle" /\ interrupted = FALSE /\ disturbed = {}
  /\ given = [a \in Askers |-> ""]

queueVars == <<typed, running, pending, worker, history, interrupted>>
promptVars == <<ask, selector, key, disturbed, given>>

MoreWork ==
  typed + Cardinality({a \in Askers : ask[a].pc # "idle"})
        + Cardinality({k \in DOMAIN history : history[k].kind = "answer"}) < MaxWork

Line(kind, m) == history' = Append(history, [kind |-> kind, msg |-> m])
-----------------------------------------------------------------------------
(* on_key, when no prompt has the keyboard.                                *)

AtPrompt == selector.active \/ selector.freetext \/ key # "idle"

\* A queued message is put into the scrollback at once (mutant).
EnterShowsQueued ==
  /\ ~AtPrompt /\ typed < MaxTyped /\ MoreWork
  /\ typed' = typed + 1
  /\ Line("user", typed')
  /\ IF running
       THEN pending' = Append(pending, typed') /\ UNCHANGED <<running, worker>>
       ELSE /\ running' = TRUE
            /\ worker' = [worker EXCEPT ![typed'].pc = "turn", ![typed'].msg = typed']
            /\ UNCHANGED pending
  /\ UNCHANGED <<interrupted, promptVars>>

\* Enter: under the lock, the message is queued or a worker starts with it.
Enter ==
  /\ ~AtPrompt /\ typed < MaxTyped /\ MoreWork
  /\ typed' = typed + 1
  /\ IF running
       THEN pending' = Append(pending, typed') /\ UNCHANGED <<running, worker, history>>
       ELSE /\ running' = TRUE
            /\ Line("user", typed')
            /\ worker' = [worker EXCEPT ![typed'].pc = "turn", ![typed'].msg = typed']
            /\ UNCHANGED pending
  /\ UNCHANGED <<interrupted, promptVars>>

\* Ctrl-C while a turn runs, also from the free text of a prompt.  The worker is
\* not told.
CtrlC ==
  /\ (selector.freetext \/ ~selector.active) /\ key = "idle" /\ running
  /\ pending' = <<>> /\ running' = FALSE
  /\ interrupted' = TRUE
  /\ UNCHANGED <<typed, worker, history, promptVars>>
-----------------------------------------------------------------------------
(* A worker: _dispatch_agent.                                              *)

Shows(w) ==
  /\ worker[w].pc = "turn" /\ ask[w].pc \in {"idle", "answered"}
  /\ MoreWork
  /\ Line("answer", worker[w].msg)
  /\ UNCHANGED <<typed, running, pending, worker, interrupted, promptVars>>

TurnEnds(w) ==
  /\ worker[w].pc = "turn" /\ ask[w].pc \in {"idle", "answered"}
  /\ worker' = [worker EXCEPT ![w].pc = "deciding"]
  /\ UNCHANGED <<typed, running, pending, history, interrupted, promptVars>>

\* Under the lock, all queued messages are taken or `running` is reset.
Drain(w) ==
  /\ worker[w].pc = "deciding"
  /\ IF pending = <<>>
       THEN /\ worker' = [worker EXCEPT ![w].pc = "over"] /\ running' = FALSE
            /\ UNCHANGED pending
       ELSE /\ worker' = [worker EXCEPT ![w].pc = "pushing", ![w].hand = pending]
            /\ pending' = <<>> /\ UNCHANGED running
  /\ UNCHANGED <<typed, history, interrupted, promptVars>>

\* Every drained message becomes a line; the last one is run.
Push(w) ==
  LET m == Head(worker[w].hand)
      rest == Tail(worker[w].hand)
  IN /\ worker[w].pc = "pushing"
     /\ Line("user", m)
     /\ worker' = [worker EXCEPT ![w].hand = rest, ![w].msg = m,
                                 ![w].pc = IF rest = <<>> THEN "turn" ELSE "pushing"]
     /\ UNCHANGED <<typed, running, pending, interrupted, promptVars>>

\* The turn raises: an error line, then, under the lock, the queue is dropped.
TurnFails(w) ==
  /\ worker[w].pc = "turn" /\ ask[w].pc \in {"idle", "answered"}
  /\ Line("error", worker[w].msg)
  /\ worker' = [worker EXCEPT ![w].pc = "failing"]
  /\ UNCHANGED <<typed, running, pending, interrupted, promptVars>>

\* `running` is reset and the queue left as it is (mutant).
DropNothing(w) ==
  /\ worker[w].pc = "failing"
  /\ running' = FALSE
  /\ worker' = [worker EXCEPT ![w].pc = "over"]
  /\ UNCHANGED <<typed, pending, history, interrupted, promptVars>>

DropQueue(w) ==
  /\ worker[w].pc = "failing"
  /\ pending' = <<>> /\ running' = FALSE
  /\ worker' = [worker EXCEPT ![w].pc = "over"]
  /\ UNCHANGED <<typed, history, interrupted, promptVars>>

\* The stream is resumed after the approval of its tool call, whatever the
\* answer was: the tool runs.
ToolRuns(w) ==
  /\ worker[w].pc = "tool" /\ ask[w].pc = "answered"
  /\ worker' = [worker EXCEPT ![w].pc = "turn", ![w].ran = TRUE]
  /\ UNCHANGED <<typed, running, pending, history, interrupted, promptVars>>
-----------------------------------------------------------------------------
(* Prompts: request_input, in the thread that asks.                        *)

\* A tool call or a question of the turn, once per worker.
Asks(w, kind) ==
  /\ worker[w].pc = "turn" /\ ask[w].pc = "idle" /\ MoreWork
  /\ ask' = [ask EXCEPT ![w].pc = "asking", ![w].kind = kind]
  /\ worker' = [worker EXCEPT ![w].pc = IF kind = "approval" THEN "tool" ELSE "turn"]
  /\ UNCHANGED <<typed, running, pending, history, interrupted, selector, key, disturbed, given>>

\* /memory clear is typed; its thread asks with an approval prompt.
CommandAsks ==
  /\ ~AtPrompt /\ ask[Command].pc = "idle" /\ MoreWork
  /\ ask' = [ask EXCEPT ![Command].pc = "asking"]
  /\ UNCHANGED <<queueVars, selector, key, disturbed, given>>

Open == {a \in Askers : ask[a].pc \in {"waiting", "woken"}}

\* The prompt is shown before its event is in place (mutant).
PromptBeforeEvent(a) ==
  /\ ask[a].pc = "asking"
  /\ ask' = [ask EXCEPT ![a].pc = "waiting"]
  /\ selector' = [selector EXCEPT !.prompt = a, !.active = TRUE]
  /\ disturbed' = disturbed \cup (IF Open = {} /\ ~AtPrompt THEN {} ELSE Open \cup {a})
  /\ UNCHANGED <<queueVars, key, given>>

\* A new event and an empty result, before anything is shown.
NewEvent(a) ==
  /\ ask[a].pc = "asking"
  /\ ask' = [ask EXCEPT ![a].pc = "waiting"]
  /\ selector' = [selector EXCEPT !.event = a, !.result = ""]
  /\ disturbed' = disturbed \cup (IF Open = {} /\ ~AtPrompt THEN {} ELSE Open \cup {a})
  /\ UNCHANGED <<queueVars, key, given>>

ShowPrompt(a) ==
  /\ ask[a].pc = "waiting" /\ selector.event = a /\ selector.prompt # a
  /\ selector' = [selector EXCEPT !.prompt = a, !.active = TRUE]
  /\ UNCHANGED <<queueVars, ask, key, disturbed, given>>

\* The event was set: the answer is what the result is by then.
Answered(a) ==
  /\ ask[a].pc = "woken"
  /\ ask' = [ask EXCEPT ![a].pc = "answered", ![a].answer = selector.result]
  /\ UNCHANGED <<queueVars, selector, key, disturbed, given>>
-----------------------------------------------------------------------------
(* on_key, when a prompt has the keyboard: it writes the result, closes    *)
(* the prompt and sets the event of whoever asked last.                    *)

Gives(r) ==
  /\ key' = "setting"
  /\ given' = [given EXCEPT ![selector.prompt] = r]

\* The selected option of an approval ("always" counts as yes), an option of a
\* question, or Esc.
Choose(r) ==
  /\ selector.active /\ ~selector.freetext /\ key = "idle"
  /\ r \in IF ask[selector.prompt].kind = "approval" THEN {"y", "n"} ELSE {"text", ""}
  /\ Gives(r)
  /\ selector' = [selector EXCEPT !.result = r]
  /\ UNCHANGED <<queueVars, ask, disturbed>>

\* "Type something": the keyboard goes to the free text.
TypeSomething ==
  /\ selector.active /\ ~selector.freetext /\ key = "idle"
  /\ ask[selector.prompt].kind = "question"
  /\ selector' = [selector EXCEPT !.active = FALSE, !.freetext = TRUE]
  /\ UNCHANGED <<queueVars, ask, key, disturbed, given>>

EnterText ==
  /\ selector.freetext /\ key = "idle"
  /\ Gives("text")
  /\ selector' = [selector EXCEPT !.result = "text"]
  /\ UNCHANGED <<queueVars, ask, disturbed>>

\* Esc in the free text takes the keyboard back and sets no event.
EscapeText ==
  /\ selector.freetext /\ key = "idle"
  /\ selector' = [selector EXCEPT !.freetext = FALSE]
  /\ disturbed' = disturbed \cup {selector.prompt}
  /\ UNCHANGED <<queueVars, ask, key, given>>

\* An answer from the free text leaves an option list shown that was put up
\* meanwhile.
ClosePrompt ==
  /\ key = "setting"
  /\ key' = "idle"
  /\ selector' = IF selector.freetext THEN [selector EXCEPT !.freetext = FALSE]
                                     ELSE [selector EXCEPT !.active = FALSE]
  /\ ask' = [ask EXCEPT ![selector.event].pc = IF @ = "waiting" THEN "woken" ELSE @]
  /\ UNCHANGED <<queueVars, disturbed, given>>
-----------------------------------------------------------------------------
Next ==
  \/ Enter \/ CtrlC \/ CommandAsks
  \/ \E w \in Messages :
       \/ Shows(w) \/ TurnEnds(w) \/ Drain(w) \/ Push(w) \/ TurnFails(w) \/ DropQueue(w)
       \/ ToolRuns(w) \/ Asks(w, "approval") \/ Asks(w, "question")
  \/ \E a \in Askers : NewEvent(a) \/ ShowPrompt(a) \/ Answered(a)
  \/ \E r \in {"y", "n", "text", ""} : Choose(r)
  \/ TypeSomething \/ EnterText \/ EscapeText \/ ClosePrompt

Spec == Init /\ [][Next]_vars

\* A message that was queued has a worker that will take it, also after
\* Ctrl-C, when several workers are alive; without Ctrl-C one worker at most
\* is alive, and exactly while `running` says so.
QueueHasAWorker ==
  /\ pending # <<>> => running
  /\ running => Live # {}
  /\ ~interrupted => Cardinality(Live) = (IF running THEN 1 ELSE 0)

\* The comment at ink_app.py:400-407: without Ctrl-C, messages stand in the
\* scrollback in the order they were typed, and what a turn shows stands
\* between the message it answers and the next one.
LinesFollowTheirMessage ==
  ~interrupted =>
    \A j, k \in DOMAIN history :
      j < k => IF history[k].kind = "user" THEN history[j].msg < history[k].msg
               ELSE history[j].msg <= history[k].msg

\* Who asks is answered with what the user chose at that very prompt, and can
\* be answered as long as it waits, unless another prompt was requested
\* meanwhile, an earlier one was still shown, or the user left the free text by
\* Esc.
PromptsGetTheirAnswer ==
  \A a \in Askers \ disturbed :
    /\ ask[a].pc = "answered" => ask[a].answer = given[a]
    /\ ask[a].pc = "waiting" => selector.event = a
    /\ ask[a].pc = "waiting" /\ selector.prompt = a =>
         selector.active \/ selector.freetext \/ key = "setting"

\* docs/cli/overview.mdx:178 and approval.py:3-4: a destructive tool call is
\* executed only after the user approved it.
DeniedIsNotRun ==
  \A w \in Messages : worker[w].ran => ask[w].answer = "y"
=============================================================================
