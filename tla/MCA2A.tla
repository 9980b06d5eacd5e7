------------------------------- MODULE MCA2A -------------------------------
(***************************************************************************)
(* Model-checking instance of the A2A side: the server's task lifecycle,   *)
(* the paging clients of its task store, the webhooks of one task, and the *)
(* client agent.                                                           *)
(* They are checked one at a time: `part`, chosen in the initial state, is *)
(* the one that moves, and the others stay in an initial state.            *)
(***************************************************************************)
EXTENDS A2AServer

CONSTANTS StoreTask, StoreCapacity, Limit,
          Config, BadUrl, MaxRetries, LastEvent,
          ClientEvents

VARIABLES
  part,
  lru, open, made, pager,                                   \* TaskStore
  configs, event, client, post, attempt,                    \* PushNotifications
  setup, remote, produced, wire, caller, shown              \* A2AClient

Tasks == INSTANCE TaskStore WITH Task <- StoreTask, MaxTasks <- StoreCapacity, store <- lru
Push == INSTANCE PushNotifications
Agent == INSTANCE A2AClient WITH MaxEvents <- ClientEvents, client <- caller

ASSUME A2AAssumption ==
  /\ ServerAssumption /\ Tasks!TaskStoreAssumption
  /\ Push!PushAssumption /\ Agent!A2AClientAssumption

serverVars == <<store, status, answer, mode, run, frames, replay>>
tasksVars == <<lru, open, made, pager>>
pushVars == <<configs, event, client, post, attempt>>
clientVars == <<setup, remote, produced, wire, caller, shown>>
allVars == <<part, serverVars, tasksVars, pushVars, clientVars>>

MCInit ==
  /\ part \in {"server", "tasks", "push", "client"}
  /\ Init /\ Tasks!Init /\ Push!Init /\ Agent!Init
  /\ part # "client" => setup = [option \in DOMAIN setup |-> FALSE]

ServerNext ==
  part = "server" /\ Next /\ UNCHANGED <<part, tasksVars, pushVars, clientVars>>
TasksNext ==
  part = "tasks" /\ Tasks!Next /\ UNCHANGED <<part, serverVars, pushVars, clientVars>>
PushNext ==
  part = "push" /\ Push!Next /\ UNCHANGED <<part, serverVars, tasksVars, clientVars>>
ClientNext ==
  part = "client" /\ Agent!Next /\ UNCHANGED <<part, serverVars, tasksVars, pushVars>>

MCNext == ServerNext \/ TasksNext \/ PushNext \/ ClientNext

MCSpec == MCInit /\ [][MCNext]_allVars

\* The server's handlers go on, as FairSpec says.
MCFairSpec == MCSpec /\ \A t \in Task : WF_serverVars(part = "server" /\ Run(t))

MCTypeOK == TypeOK /\ Tasks!TypeOK /\ Push!TypeOK /\ Agent!TypeOK

\* A client that follows next_cursor of InMemoryTaskStore.list to the end has
\* seen every task that was stored throughout and that nobody used meanwhile.
UnusedTaskIsListed == Tasks!UnusedTaskIsListed

\* A2AAgent.astream: a local stream tells the remote run in order, and ends by
\* itself only when the message was accepted, the run is completed and it is
\* told whole; never when the connection broke, the server refused or a tool
\* call was streamed.
TellsTheRemoteRun == Agent!TellsTheRemoteRun
=============================================================================
