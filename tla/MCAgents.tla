------------------------------ MODULE MCAgents ------------------------------
(***************************************************************************)
(* Model-checking instance of the agents and of the tools that run agents: *)
(* LlmAgent, ReActAgent, trees of composite agents, AgentTool and          *)
(* background tasks.  They are checked one at a time: `part`, chosen in    *)
(* the initial state, is the one that moves, and the others stay in an     *)
(* initial state.                                                          *)
(***************************************************************************)
EXTENDS LlmAgent

CONSTANTS Steps, Tools,
          Passes,
          Callers, CallsEach, MaxEvents,
          Tasks, MaxUpdates

\* The agents above n, in a tree at most three agents deep.
Parents(kids, S) == {p \in DOMAIN kids : S \cap ToSet(kids[p]) # {}}
Ancestors(kids, n) ==
  LET parents == Parents(kids, {n})
      grandparents == Parents(kids, parents)
  IN parents \cup grandparents \cup Parents(kids, grandparents)

\* The kind of an agent is its name; a, b and c are leaves.
Tree(root, kids, events) ==
  [root |-> root, kids |-> kids, events |-> events,
   kind |-> [n \in DOMAIN kids |->
     CASE n = "pipeline" -> "sequence" [] n = "fork" -> "parallel"
       [] n \in {"loop", "outer"} -> "loop" [] OTHER -> "leaf"],
   above |-> [n \in DOMAIN kids |-> Ancestors(kids, n)]]

LoopOverFork ==
  Tree("loop", [loop |-> <<"fork">>, fork |-> <<"a", "b">>, a |-> <<>>, b |-> <<>>],
       [loop |-> 0, fork |-> 0, a |-> 1, b |-> 1])
PipelineAfterFork ==
  Tree("pipeline", [pipeline |-> <<"fork", "c">>, fork |-> <<"a", "b">>,
                    a |-> <<>>, b |-> <<>>, c |-> <<>>],
       [pipeline |-> 0, fork |-> 0, a |-> 2, b |-> 1, c |-> 1])
ForkOverLoop ==
  Tree("fork", [fork |-> <<"loop", "b">>, loop |-> <<"a">>, a |-> <<>>, b |-> <<>>],
       [loop |-> 0, fork |-> 0, a |-> 1, b |-> 0])
LoopInLoop ==
  Tree("outer", [outer |-> <<"loop">>, loop |-> <<"a">>, a |-> <<>>],
       [loop |-> 0, outer |-> 0, a |-> 1])
LoopOverPipeline ==
  Tree("loop", [loop |-> <<"pipeline">>, pipeline |-> <<"a", "b">>, a |-> <<>>, b |-> <<>>],
       [loop |-> 0, pipeline |-> 0, a |-> 1, b |-> 1])

Trees == {LoopOverFork, PipelineAfterFork, ForkOverLoop, LoopInLoop, LoopOverPipeline}

VARIABLES
  part,
  pc, iteration, action, dialogue, steps,              \* ReActAgent
  tree, node, queue, waiting, shown, stateful,         \* CompositeAgents
  injected, call, stream, reading,                     \* AgentTool
  status, output, run, cancel, updates, asked          \* BackgroundTasks

ReAct == INSTANCE ReActAgent WITH MaxIterations <- Steps, shown <- steps
Composite == INSTANCE CompositeAgents WITH MaxIterations <- Passes
Tool == INSTANCE AgentTool WITH Invocations <- Callers
Background == INSTANCE BackgroundTasks

ASSUME AgentsAssumption ==
  /\ LlmAgentAssumption /\ ReAct!ReActAssumption /\ Composite!CompositeAssumption
  /\ Tool!AgentToolAssumption /\ Background!BackgroundTasksAssumption

llmVars == <<inv, board, seeded, lastError>>
reactVars == <<pc, iteration, action, dialogue, steps>>
treeVars == <<tree, node, queue, waiting, shown, stateful>>
toolVars == <<injected, call, stream, reading>>
taskVars == <<status, output, run, cancel, updates, asked>>
allVars == <<part, llmVars, reactVars, treeVars, toolVars, taskVars>>

MCInit ==
  /\ part \in {"llm", "react", "tree", "tool", "tasks"}
  /\ Init /\ ReAct!Init /\ Composite!Init /\ Tool!Init /\ Background!Init
  /\ part # "tree" => tree = LoopInLoop

LlmNext == part = "llm" /\ Next /\ UNCHANGED <<part, reactVars, treeVars, toolVars, taskVars>>
ReActNext ==
  part = "react" /\ ReAct!Next /\ UNCHANGED <<part, llmVars, treeVars, toolVars, taskVars>>
TreeNext ==
  part = "tree" /\ Composite!Next /\ UNCHANGED <<part, llmVars, reactVars, toolVars, taskVars>>
ToolNext == part = "tool" /\ Tool!Next /\ UNCHANGED <<part, llmVars, reactVars, treeVars, taskVars>>
TasksNext ==
  part = "tasks" /\ Background!Next /\ UNCHANGED <<part, llmVars, reactVars, treeVars, toolVars>>

MCNext == LlmNext \/ ReActNext \/ TreeNext \/ ToolNext \/ TasksNext

\* The fairness of the part that moves.
MCFairness ==
  /\ \A i \in Invocations : WF_llmVars(part = "llm" /\ Run(i))
  /\ WF_treeVars(part = "tree" /\ Composite!Progress)
  /\ \A t \in Tasks : WF_taskVars(part = "tasks" /\ (Background!Start(t) \/ Background!Cancelled(t)))

MCSpec == MCInit /\ [][MCNext]_allVars /\ MCFairness

MCTypeOK ==
  TypeOK /\ ReAct!TypeOK /\ Composite!TypeOK /\ Tool!TypeOK /\ Background!TypeOK

\* Every invocation of an LlmAgent ends.
LoopsEnd == part = "llm" => LoopEnds

\* LoopAgent: after an event that escalates out of a loop the consumer sees
\* nothing more of that loop.
NothingAfterEscalation == Composite!NothingAfterEscalation

\* A ParallelAgent that is over has passed on all that its tasks yielded.
MergeIsComplete == Composite!MergeIsComplete

\* Every stream of a tree of agents ends and leaves no task running, except
\* where a child of a ParallelAgent raised.
StreamEnds == part = "tree" => Composite!StreamEnds

\* tools/task_tools.py: a stop that was accepted ends the task as stopped,
\* whatever task_update wrote.
StopsWhenAsked == Background!StopsWhenAsked
=============================================================================
