--------------------------- MODULE BackgroundTasks ---------------------------
(***************************************************************************)
(* The background tasks of tools/task_tools.py: task_create starts a       *)
(* sub-agent as an asyncio task, and the status in the TaskStore is        *)
(* written by the end of that task and by task_update, while task_stop     *)
(* only asks the event loop to cancel it.                                  *)
(*                                                                         *)
(* asyncio is external: a task starts in a later iteration than its        *)
(* creation, before its id can reach a caller; cancel() is delivered at    *)
(* the next step of the task, instead of what the step would have done.    *)
(***************************************************************************)
EXTENDS Naturals

CONSTANTS Tasks,
          MaxUpdates   \* task_update calls on one task

\* What the instances ASSUME.
BackgroundTasksAssumption == MaxUpdates \in Nat

VARIABLES
  status,    \* BackgroundTask.status; "none" before task_create
  output,    \* BackgroundTask.output, by what it says
  run,       \* the asyncio task: not created, scheduled, running or done
  cancel,    \* cancel() was called and not delivered yet
  updates,   \* task_update calls
  asked      \* history: task_stop answered "stop requested"

vars == <<status, output, run, cancel, updates, asked>>

Ends == {"completed", "stopped", "failed"}
Statuses == {"running"} \cup Ends

TypeOK ==
  /\ status \in [Tasks -> Statuses \cup {"none"}]
  /\ output \in [Tasks -> {"", "answer", "was stopped", "error"}]
  /\ run \in [Tasks -> {"none", "scheduled", "running", "done"}]
  /\ cancel \in [Tasks -> BOOLEAN] /\ asked \in [Tasks -> BOOLEAN]
  /\ updates \in [Tasks -> 0..MaxUpdates]

Init ==
  /\ status = [t \in Tasks |-> "none"] /\ output = [t \in Tasks |-> ""]
  /\ run = [t \in Tasks |-> "none"]
  /\ cancel = [t \in Tasks |-> FALSE] /\ asked = [t \in Tasks |-> FALSE]
  /\ updates = [t \in Tasks |-> 0]

\* task_create.
Create(t) ==
  /\ run[t] = "none"
  /\ status' = [status EXCEPT ![t] = "running"]
  /\ run' = [run EXCEPT ![t] = "scheduled"]
  /\ UNCHANGED <<output, cancel, updates, asked>>

\* The event loop runs the first step of the task.
Start(t) ==
  /\ run[t] = "scheduled"
  /\ run' = [run EXCEPT ![t] = "running"]
  /\ UNCHANGED <<status, output, cancel, updates, asked>>

\* _run_subtask ends: output first, then status, in one step.
End(t, how, what) ==
  /\ run[t] = "running"
  /\ status' = [status EXCEPT ![t] = how]
  /\ output' = [output EXCEPT ![t] = what]
  /\ run' = [run EXCEPT ![t] = "done"]
  /\ cancel' = [cancel EXCEPT ![t] = FALSE]
  /\ UNCHANGED <<updates, asked>>

\* The last event of the sub-agent, or an exception in it.
Finish(t) ==
  /\ ~cancel[t]
  /\ End(t, "completed", "answer") \/ End(t, "failed", "error")

\* The cancellation is swallowed with the other exceptions (mutant).
CancelledAsFailure(t) ==
  /\ cancel[t]
  /\ End(t, "failed", "error")

\* except asyncio.CancelledError.
Cancelled(t) ==
  /\ cancel[t]
  /\ End(t, "stopped", "was stopped")

\* task_update: any task, any status, no check.
Update(t, s) ==
  /\ run[t] \in {"running", "done"} /\ updates[t] < MaxUpdates
  /\ status' = [status EXCEPT ![t] = s]
  /\ updates' = [updates EXCEPT ![t] = @ + 1]
  /\ UNCHANGED <<output, run, cancel, asked>>

\* task_stop.  It looks at the asyncio task, not at the status, and for a task
\* that is done it changes nothing.
Stop(t) ==
  /\ run[t] = "running"
  /\ cancel' = [cancel EXCEPT ![t] = TRUE]
  /\ asked' = [asked EXCEPT ![t] = TRUE]
  /\ UNCHANGED <<status, output, run, updates>>

Next ==
  \E t \in Tasks :
    \/ Create(t) \/ Start(t) \/ Finish(t) \/ Cancelled(t) \/ Stop(t)
    \/ \E s \in Statuses : Update(t, s)

\* The event loop runs what is ready, and delivers a cancellation.  A sub-agent
\* owes nothing.
Fairness == \A t \in Tasks : WF_vars(Start(t)) /\ WF_vars(Cancelled(t))

Spec == Init /\ [][Next]_vars /\ Fairness

\* What task_output shows once a task has ended belongs to the way it ended,
\* and a stop that was accepted ends the task as stopped, whatever task_update
\* wrote before, during and after.
StopsWhenAsked ==
  \A t \in Tasks : asked[t] ~> (run[t] = "done" /\ output[t] = "was stopped")
==============================================================================
