----------------------------- MODULE ReActAgent -----------------------------
(***************************************************************************)
(* ReActAgent.astream: thoughts, actions and observations of one           *)
(* invocation.  The loop keeps no state that another invocation sees; it   *)
(* neither looks at end_invocation nor consults the planner after a step.  *)
(* The structured model call streams versions of one step, and may fail or *)
(* stream none at all, which is an error too.                              *)
(***************************************************************************)
EXTENDS Naturals, Sequences, SequencesExt

CONSTANTS MaxIterations, Tools

\* What the instances ASSUME.
ReActAssumption == MaxIterations \in Nat

VARIABLES
  pc,          \* the suspension point
  iteration,   \* steps begun
  action,      \* step.action: a tool, or a name that is none
  dialogue,    \* messages after the first two: "step" and "observation"
  shown        \* the whole events yielded, and "partial" for partial ones

vars == <<pc, iteration, action, dialogue, shown>>

Unknown == "unknown tool"

Init == /\ pc = "start" /\ iteration = 0 /\ action = Unknown
        /\ dialogue = <<>> /\ shown = <<>>

Show(kind) == shown' = Append(shown, kind)

\* The next turn of the for statement, or the error event after the last.
NextStep ==
  IF iteration = MaxIterations
    THEN pc' = "done" /\ Show("max") /\ UNCHANGED iteration
    ELSE pc' = "model" /\ iteration' = iteration + 1 /\ UNCHANGED shown

\* _build_react_system_prompt: the planner's instruction is read once.
Begin ==
  /\ pc = "start"
  /\ NextStep
  /\ UNCHANGED <<action, dialogue>>

\* _invoke_step, a version whose thought or answer differs from the last.
StreamStep ==
  /\ pc = "model"
  /\ IF shown # <<>> /\ Last(shown) = "partial" THEN UNCHANGED shown ELSE Show("partial")
  /\ UNCHANGED <<pc, iteration, action, dialogue>>

\* The model call fails or produced no step.
ModelFails ==
  /\ pc = "model"
  /\ pc' = "done" /\ Show("error")
  /\ UNCHANGED <<iteration, action, dialogue>>

\* The whole thought is shown; then the answer or the action follows.
Think(final, a) ==
  /\ pc = "model"
  /\ Show("thought")
  /\ pc' = IF final THEN "answering" ELSE "acting"
  /\ action' = a
  /\ UNCHANGED <<iteration, dialogue>>

Finish ==
  /\ pc = "answering"
  /\ pc' = "done" /\ Show("answer")
  /\ UNCHANGED <<iteration, action, dialogue>>

\* The action event, of a tool that exists or not.
Act ==
  /\ pc = "acting"
  /\ pc' = IF action \in Tools THEN "calling" ELSE "observing"
  /\ Show("action")
  /\ UNCHANGED <<iteration, action, dialogue>>

\* The call event of a tool that exists; then the tool is awaited.
Call ==
  /\ pc = "calling"
  /\ pc' = "tool" /\ Show("call")
  /\ UNCHANGED <<iteration, action, dialogue>>

\* The tool returns or raises: a response event either way.
ToolEnds ==
  /\ pc = "tool"
  /\ pc' = "observing" /\ Show("response")
  /\ UNCHANGED <<iteration, action, dialogue>>

Observe ==
  /\ pc = "observing"
  /\ pc' = "observed" /\ Show("observation")
  /\ UNCHANGED <<iteration, action, dialogue>>

\* Both messages are appended, and the loop goes on.
Continue ==
  /\ pc = "observed"
  /\ dialogue' = dialogue \o <<"step", "observation">>
  /\ NextStep
  /\ UNCHANGED action

Close ==
  /\ pc \notin {"done", "closed"}
  /\ pc' = "closed"
  /\ UNCHANGED <<iteration, action, dialogue, shown>>

Next ==
  \/ Begin \/ StreamStep \/ ModelFails \/ Finish \/ Act \/ Call \/ ToolEnds \/ Observe \/ Continue \/ Close
  \/ \E final \in BOOLEAN, a \in Tools \cup {Unknown} : Think(final, a)

Spec == Init /\ [][Next]_vars
-----------------------------------------------------------------------------
Terminal == {"answer", "error", "max"}

TypeOK ==
  /\ pc \in {"start", "model", "answering", "acting", "calling", "tool", "observing", "observed",
             "done", "closed"}
  /\ iteration \in 0..MaxIterations /\ action \in Tools \cup {Unknown}
  /\ dialogue \in Seq({"step", "observation"})
  /\ shown \in Seq(Terminal \cup {"partial", "thought", "action", "call", "response", "observation"})

=============================================================================
