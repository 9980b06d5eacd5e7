----------------------------- MODULE A2AServer -----------------------------
(***************************************************************************)
(* The task lifecycle of A2AServer (src/orxhestra/a2a/server.py): requests *)
(* accepted by SendMessage and SendStreamingMessage run the agent while    *)
(* other requests get, cancel and resubscribe to the same tasks through a  *)
(* bounded InMemoryTaskStore.                                              *)
(*                                                                         *)
(* A Task object is one mutable object shared by the store and by every    *)
(* handler that holds it, so its fields are variables indexed by task and  *)
(* survive eviction; `store` only says which tasks can be looked up.  With *)
(* the in-memory store no await inside a handler suspends except           *)
(* create_session, the agent's stream and the yields of an SSE response.   *)
(* The requests that fail _verify_incoming change nothing and are left     *)
(* out, and so is the webhook side, which is module PushNotifications.     *)
(***************************************************************************)
EXTENDS TaskStoreOps

CONSTANTS Task,        \* the task of each message a client sends
          Subscriber,  \* the tasks/resubscribe requests
          MaxTasks,    \* max_tasks of the store
          MaxEvents    \* bound: agent events a streaming run converts

\* What the instances ASSUME.
ServerAssumption == MaxTasks \in Nat \ {0} /\ MaxEvents \in Nat

VARIABLES
  store,    \* InMemoryTaskStore._tasks, least recently used first
  status,   \* task.status.state, "none" before the task exists
  answer,   \* whether task.artifacts holds the final answer
  mode,     \* which method created the task: "send" or "stream"
  run,      \* the handler or generator running the agent for the task
  frames,   \* SSE frames the creator of a streaming task has received
  replay    \* the SSE response of each resubscribe request

vars == <<store, status, answer, mode, run, frames, replay>>

Terminal == {"completed", "canceled", "failed", "rejected"}

Unsubscribed == [pc |-> "none", task |-> {}, frames |-> <<>>]

Init == /\ store = <<>>
        /\ status = [t \in Task |-> "none"]
        /\ answer = [t \in Task |-> FALSE]
        /\ mode = [t \in Task |-> "none"]
        /\ run = [t \in Task |-> "none"]
        /\ frames = [t \in Task |-> <<>>]
        /\ replay = [s \in Subscriber |-> Unsubscribed]
-----------------------------------------------------------------------------
\* task_store.put(task).
StorePut(t) == store' = Put(store, t, MaxTasks)

\* _update_task_status.
SetStatus(t, state) ==
  /\ status' = [status EXCEPT ![t] = state]
  /\ StorePut(t)

\* _sse_line: a frame for the creator of a streaming task.
Emit(t, frame) ==
  frames' = IF mode[t] = "stream" THEN [frames EXCEPT ![t] = Append(@, frame)]
            ELSE frames

\* SendMessage and SendStreamingMessage up to create_session: the task is
\* created SUBMITTED and stored; a streaming response has not begun yet.
Accept(t, m) ==
  /\ run[t] = "none"
  /\ mode' = [mode EXCEPT ![t] = m]
  /\ run' = [run EXCEPT ![t] = "accepted"]
  /\ SetStatus(t, "submitted")
  /\ UNCHANGED <<answer, frames, replay>>

\* The first frame is built before the status is updated (mutant).
StartFrameFirst(t) ==
  /\ run[t] = "accepted"
  /\ run' = [run EXCEPT ![t] = "running"]
  /\ SetStatus(t, "working")
  /\ Emit(t, status[t])
  /\ UNCHANGED <<answer, mode, replay>>

\* The session exists: the task is WORKING, and a streaming response begins
\* with a frame saying so.
Start(t) ==
  /\ run[t] = "accepted"
  /\ run' = [run EXCEPT ![t] = "running"]
  /\ SetStatus(t, "working")
  /\ Emit(t, "working")
  /\ UNCHANGED <<answer, mode, replay>>

\* events_to_a2a_stream: a tool call becomes a WORKING status, a tool result
\* or an answer becomes an artifact.  SendMessage only remembers the answer.
AgentEvent(t) ==
  /\ run[t] = "running" /\ mode[t] = "stream"
  /\ Len(frames[t]) <= MaxEvents
  /\ \E frame \in {"working", "artifact"} : Emit(t, frame)
  /\ UNCHANGED <<store, status, answer, mode, run, replay>>

\* The task is looked up in the store again before it is completed (mutant).
FinishStored(t) ==
  /\ run[t] = "running"
  /\ run' = [run EXCEPT ![t] = "done"]
  /\ answer' = [answer EXCEPT ![t] = @ \/ mode[t] = "send"]
  /\ IF t \in Keys(store) THEN SetStatus(t, "completed") ELSE UNCHANGED <<store, status>>
  /\ Emit(t, "completed")
  /\ UNCHANGED <<mode, replay>>

\* The agent's stream is exhausted.  SendMessage stores the answer as the
\* task's artifact; a streaming run leaves task.artifacts alone.
Finish(t) ==
  /\ run[t] = "running"
  /\ run' = [run EXCEPT ![t] = "done"]
  /\ answer' = [answer EXCEPT ![t] = @ \/ mode[t] = "send"]
  /\ SetStatus(t, "completed")
  /\ Emit(t, "completed")
  /\ UNCHANGED <<mode, replay>>

\* create_session or the agent raises, or the client of a streaming response
\* disconnects: the handler ends and touches the task no more.
Fail(t) ==
  /\ run[t] \in {"accepted", "running"}
  /\ run' = [run EXCEPT ![t] = "lost"]
  /\ UNCHANGED <<store, status, answer, mode, frames, replay>>

\* tasks/get.
GetTask(t) ==
  /\ t \in Keys(store)
  /\ store' = Get(store, t)
  /\ UNCHANGED <<status, answer, mode, run, frames, replay>>

\* A cancel that does not look at the task's state (mutant).
CancelAnyTask(t) ==
  /\ t \in Keys(store)
  /\ SetStatus(t, "canceled")
  /\ UNCHANGED <<answer, mode, run, frames, replay>>

\* tasks/cancel: refused for a terminal task, which is touched all the same.
\* The run is not told.
CancelTask(t) ==
  /\ t \in Keys(store)
  /\ IF status[t] \in Terminal
       THEN store' = Get(store, t) /\ UNCHANGED status
       ELSE SetStatus(t, "canceled")
  /\ UNCHANGED <<answer, mode, run, frames, replay>>

\* tasks/resubscribe: the response holds the task object; its generator is
\* run later, frame by frame.
Subscribe(s, t) ==
  /\ replay[s].pc = "none"
  /\ t \in Keys(store)
  /\ store' = Get(store, t)
  /\ replay' = [replay EXCEPT ![s] = [pc |-> "begin", task |-> {t}, frames |-> <<>>]]
  /\ UNCHANGED <<status, answer, mode, run, frames>>

\* _replay_task_stream, first frame: the status the task has now.
ReplayStatus(s) ==
  /\ replay[s].pc = "begin"
  /\ \E t \in replay[s].task :
       replay' = [replay EXCEPT ![s].pc = "artifacts",
                                ![s].frames = Append(@, status[t])]
  /\ UNCHANGED <<store, status, answer, mode, run, frames>>

\* Then the artifacts the task has by then, and the end of the stream.
ReplayArtifacts(s) ==
  /\ replay[s].pc = "artifacts"
  /\ \E t \in replay[s].task :
       replay' = [replay EXCEPT ![s].pc = "end",
                                ![s].frames = IF answer[t] THEN Append(@, "artifact") ELSE @]
  /\ UNCHANGED <<store, status, answer, mode, run, frames>>
-----------------------------------------------------------------------------
Run(t) == Start(t) \/ AgentEvent(t) \/ Finish(t)

Client(t) == GetTask(t) \/ CancelTask(t) \/ \E s \in Subscriber : Subscribe(s, t)

Next == \/ \E t \in Task : (\E m \in {"send", "stream"} : Accept(t, m)) \/ Fail(t)
        \/ \E t \in Task : Run(t) \/ Client(t)
        \/ \E s \in Subscriber : ReplayStatus(s) \/ ReplayArtifacts(s)

Spec == Init /\ [][Next]_vars

\* A handler that can go on does, as long as the agent's stream does: every
\* agent loop is bounded by max_iterations.  Clients owe nothing.
FairSpec == Spec /\ \A t \in Task : WF_vars(Run(t))
-----------------------------------------------------------------------------
State == {"none", "submitted", "working"} \cup Terminal

TypeOK ==
  /\ store \in Seq(Task)
  /\ status \in [Task -> State]
  /\ answer \in [Task -> BOOLEAN]
  /\ mode \in [Task -> {"none", "send", "stream"}]
  /\ run \in [Task -> {"none", "accepted", "running", "done", "lost"}]
  /\ frames \in [Task -> Seq({"working", "artifact", "completed"})]
  /\ replay \in [Subscriber -> [pc : {"none", "begin", "artifacts", "end"},
                                task : SUBSET Task,
                                frames : Seq(State \cup {"artifact"})]]

\* Whoever is told that a task is COMPLETED is told the truth for good: the
\* creator by the final frame or the response of SendMessage, a subscriber by
\* the first frame of its replay.
CompletionIsTrue ==
  \A t \in Task :
    \/ status[t] = "completed"
    \/ /\ run[t] # "done"
       /\ "completed" \notin Keys(frames[t])
       /\ \A s \in Subscriber : replay[s].task = {t} => "completed" \notin Keys(replay[s].frames)

\* Every accepted task settles for good: its state is terminal from some time
\* on, whatever clients do to it meanwhile and though the store may have evicted
\* it before its run ends.  Only a run that is lost (the agent raises, the
\* client of a stream disconnects) may leave its task WORKING.
AcceptedIsSettled ==
  \A t \in Task : run[t] = "accepted" ~> (run[t] = "lost" \/ [](status[t] \in Terminal))

\* types.py:271 calls CANCELED terminal, as COMPLETED is: the state of a task
\* that reached a terminal state does not change.
TerminalIsFinal ==
  [][\A t \in Task : status[t] \in Terminal => status'[t] = status[t]]_vars
=============================================================================
