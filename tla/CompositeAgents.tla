-------------------------- MODULE CompositeAgents --------------------------
(***************************************************************************)
(* One invocation of a tree of SequentialAgent, LoopAgent and              *)
(* ParallelAgent over arbitrary leaf agents.                               *)
(*                                                                         *)
(* Streams are async generators, pulled from above.  An event a leaf       *)
(* yields reaches the consumer of the stream, or the queue of the nearest  *)
(* ParallelAgent above it; when it is asked for the next one, the code     *)
(* after each `yield event` runs from the outermost generator inwards.  A  *)
(* ParallelAgent is itself the source of the events it takes from its      *)
(* queue.  A generator that is left behind (its LoopAgent returned, the    *)
(* consumer closed) is finalised by the event loop some time later, and    *)
(* the tasks of a ParallelAgent run on until then.                         *)
(*                                                                         *)
(* An event is where it came from, its number within that run of its       *)
(* agent, and whether it is a final response and carries actions.escalate. *)
(***************************************************************************)
EXTENDS Naturals, Sequences, SequencesExt, FiniteSets

CONSTANTS Trees,           \* trees: [root, kind, kids, above, events]: `above` are
                           \* the proper ancestors; a leaf has no kids, and in one
                           \* run at most so many `events` (bound)
          MaxIterations    \* of every LoopAgent

Consumer == "consumer"

\* Each agent object is registered once, with one parent, so that the agents
\* above one are above each other; one that is registered twice is left out.
\* A composite without sub-agents returns at once and counts as a leaf.
IsTree(t) ==
  LET agents == DOMAIN t.kind
      parents(n) == {p \in agents : n \in ToSet(t.kids[p])}
  IN /\ IsFiniteSet(agents) /\ t.root \in agents /\ Consumer \notin agents
     /\ t.kind \in [agents -> {"leaf", "sequence", "loop", "parallel"}]
     /\ t.kids \in [agents -> Seq(agents)] /\ t.events \in [agents -> Nat]
     /\ t.above \in [agents -> SUBSET agents]
     /\ \A n \in agents :
          /\ t.kids[n] = <<>> <=> t.kind[n] = "leaf"
          /\ \A i, j \in DOMAIN t.kids[n] : t.kids[n][i] = t.kids[n][j] => i = j
          /\ n # t.root => t.root \in t.above[n]
          /\ n \notin t.above[n]
          /\ t.above[n] = UNION {{p} \cup t.above[p] : p \in parents(n)}
          /\ \A p, q \in parents(n) : p = q
          /\ \A p, q \in t.above[n] : p = q \/ p \in t.above[q] \/ q \in t.above[p]
          /\ \A p \in t.above[n] : t.above[p] \subseteq t.above[n]

\* What the instances ASSUME.
CompositeAssumption ==
  /\ MaxIterations \in Nat
  /\ \A t \in Trees : IsTree(t)

VARIABLES
  tree,      \* the agents
  node,      \* the locals of the current run of each agent
  queue,     \* `merged` of each ParallelAgent: events, and End for None
  waiting,   \* the event at whose yield the consumer holds the stream
  shown,     \* events the consumer was given
  stateful   \* agent_states, shared by all contexts: who has one

vars == <<tree, node, queue, waiting, shown, stateful>>

Nodes == DOMAIN tree.kind
Kind(n) == tree.kind[n]
Kids(n) == tree.kids[n]

Above(n) == tree.above[n]
Below(n) == {m \in Nodes : n \in Above(m)}

Deepest(S) == CHOOSE n \in S : S \cap Below(n) = {}
Outermost(S) == CHOOSE n \in S : S \cap Above(n) = {}

\* Who pulls the stream n is part of, and the generators in between.
Owner(n) ==
  LET forks == {p \in Above(n) : Kind(p) = "parallel"}
  IN IF forks = {} THEN Consumer ELSE Deepest(forks)
Chain(n) == IF Owner(n) = Consumer THEN Above(n) ELSE Above(n) \cap Below(Owner(n))

User == [at |-> Consumer, n |-> 0, final |-> TRUE, escalate |-> FALSE]
Idle == [st |-> "idle", step |-> 0, iteration |-> 0, input |-> User, next |-> User,
         ended |-> FALSE, emitted |-> 0]
None == [at |-> "none"]
End == [at |-> "end"]

Init ==
  /\ tree \in Trees
  /\ node = [n \in Nodes |-> IF n = tree.root THEN [Idle EXCEPT !.st = "running"] ELSE Idle]
  /\ queue = [n \in Nodes |-> <<>>]
  /\ waiting = None /\ shown = <<>> /\ stateful = {}

\* A stream whose consumer holds an event goes no further.
Free(n) == Owner(n) = Consumer => waiting = None
Runs(n) == node[n].st = "running" /\ Free(n)

\* ctx.derive for child c of n: the flag end_invocation is copied.  The branch,
\* which grows by the child's name, is left out.
Derived(n, input) ==
  [Idle EXCEPT !.st = "running", !.input = input, !.next = input, !.ended = node[n].ended]

\* The nodes after everything below `top` is left behind: tasks of a parallel
\* agent run on.
LeftBehind(ns, top) ==
  [m \in Nodes |->
     IF m \in Below(top) /\ ns[m].st = "running"
        /\ ~\E p \in Above(m) \cap Below(top) : Kind(p) = "parallel"
       THEN [ns[m] EXCEPT !.st = "dropped"] ELSE ns[m]]

\* The innermost loop returns (mutant).
AfterInnermost(x, e, ns) ==
  LET loops == {l \in Chain(x) : Kind(l) = "loop"} IN
  IF e.escalate /\ loops # {}
    THEN [LeftBehind(ns, Deepest(loops)) EXCEPT ![Deepest(loops)].st = "ended"]
    ELSE [m \in Nodes |-> IF m \in Chain(x) /\ Kind(m) = "sequence" /\ e.final
                            THEN [ns[m] EXCEPT !.next = e] ELSE ns[m]]

\* What follows the yields of event e, coming from x: the outermost loop
\* returns if the event escalates; else a sequence keeps a final response as
\* the input of its next step.
After(x, e, ns) ==
  LET loops == {l \in Chain(x) : Kind(l) = "loop"} IN
  IF e.escalate /\ loops # {}
    THEN [LeftBehind(ns, Outermost(loops)) EXCEPT ![Outermost(loops)].st = "ended"]
    ELSE [m \in Nodes |-> IF m \in Chain(x) /\ Kind(m) = "sequence" /\ e.final
                            THEN [ns[m] EXCEPT !.next = e] ELSE ns[m]]

\* x yields e, being left in state ns: to the consumer, or to run_and_forward,
\* which puts it and asks for the next one.
Yield(x, e, ns) ==
  IF Owner(x) = Consumer
    THEN /\ shown' = Append(shown, e) /\ waiting' = [at |-> x, event |-> e]
         /\ node' = ns /\ UNCHANGED queue
    ELSE /\ queue' = [queue EXCEPT ![Owner(x)] = Append(@, e)]
         /\ node' = After(x, e, ns) /\ UNCHANGED <<shown, waiting>>

Event(x, n, final, escalate) ==
  [at |-> x, n |-> n, final |-> final, escalate |-> escalate]

\* The consumer asks for the next event.
Resume ==
  /\ waiting # None
  /\ node' = After(waiting.at, waiting.event, node)
  /\ waiting' = None
  /\ UNCHANGED <<tree, queue, shown, stateful>>

\* The consumer closes the stream instead.
Close ==
  /\ waiting # None
  /\ node' = [LeftBehind(node, tree.root) EXCEPT ![tree.root].st = "dropped"]
  /\ waiting' = None
  /\ UNCHANGED <<tree, queue, shown, stateful>>

\* The owner of the root's context sets end_invocation.
Kill ==
  /\ ~node[tree.root].ended
  /\ node' = [node EXCEPT ![tree.root].ended = TRUE]
  /\ UNCHANGED <<tree, queue, waiting, shown, stateful>>
-----------------------------------------------------------------------------
\* set_agent_state by n, and reset_sub_agent_states of everything below n.
Kept(n) == stateful \cup {n}
Forgotten(n) == stateful \ Below(n)

\* A leaf yields an event; it may keep a state under its name.
LeafYields(n) ==
  /\ Kind(n) = "leaf" /\ Runs(n) /\ node[n].emitted < tree.events[n]
  /\ \E final, escalate \in BOOLEAN :
       Yield(n, Event(n, node[n].emitted + 1, final, escalate), [node EXCEPT ![n].emitted = @ + 1])
  /\ stateful' = Kept(n)
  /\ UNCHANGED tree

LeafEnds(n) ==
  /\ Kind(n) = "leaf" /\ Runs(n)
  /\ \E st \in {"ended", "raised"} : node' = [node EXCEPT ![n].st = st]
  /\ UNCHANGED <<tree, queue, waiting, shown, stateful>>

\* A sequence or loop starts its next child; end_invocation is looked at by a
\* sequence before every child, by a loop before the first.
Child(n) == Kids(n)[node[n].step]
ChildOver(n) == IF node[n].step = 0 THEN TRUE ELSE node[Child(n)].st = "ended"

NextChild(n) ==
  /\ Kind(n) \in {"sequence", "loop"} /\ Runs(n) /\ ChildOver(n)
  /\ node[n].step < Len(Kids(n))
  /\ Kind(n) = "loop" /\ node[n].step = 0 => node[n].iteration < MaxIterations
  /\ LET c == Kids(n)[node[n].step + 1]
         input == IF Kind(n) = "sequence" THEN node[n].next ELSE node[n].input
     IN node' =
       IF node[n].ended /\ (Kind(n) = "sequence" \/ node[n].step = 0)
         THEN [node EXCEPT ![n].st = "ended"]
         ELSE [node EXCEPT ![n].step = @ + 1, ![c] = Derived(n, input)]
  /\ UNCHANGED <<tree, queue, waiting, shown, stateful>>

SequenceEnds(n) ==
  /\ Kind(n) = "sequence" /\ Runs(n) /\ ChildOver(n) /\ node[n].step = Len(Kids(n))
  /\ node' = [node EXCEPT ![n].st = "ended"]
  /\ UNCHANGED <<tree, queue, waiting, shown, stateful>>

\* A pass of the loop is over: should_continue, if there is one, may end it
\* (it is asked from the first event on; the model allows it in any pass).
PassEnds(n) ==
  /\ Kind(n) = "loop" /\ Runs(n) /\ ChildOver(n) /\ node[n].step = Len(Kids(n))
  /\ \/ /\ node' = [node EXCEPT ![n].st = "ended"]
        /\ UNCHANGED stateful
     \/ /\ node' = [node EXCEPT ![n].step = 0, ![n].iteration = @ + 1]
        /\ stateful' = Forgotten(n)
  /\ UNCHANGED <<tree, queue, waiting, shown>>

\* max_iterations: an error event, after which the loop returns.
LoopExhausted(n) ==
  /\ Kind(n) = "loop" /\ Runs(n) /\ node[n].step = 0 /\ ~node[n].ended
  /\ node[n].iteration = MaxIterations
  /\ Yield(n, Event(n, node[n].emitted + 1, FALSE, FALSE), [node EXCEPT ![n].st = "ended"])
  /\ UNCHANGED <<tree, stateful>>

\* A loop whose flag was set after its last pass returns without that event.
LoopKilled(n) ==
  /\ Kind(n) = "loop" /\ Runs(n) /\ node[n].step = 0 /\ node[n].ended
  /\ node' = [node EXCEPT ![n].st = "ended"]
  /\ UNCHANGED <<tree, queue, waiting, shown, stateful>>

\* An exception passes through sequences and loops.
Propagate(n) ==
  /\ Kind(n) \in {"sequence", "loop"} /\ Runs(n)
  /\ node[n].step > 0 /\ node[Child(n)].st = "raised"
  /\ node' = [node EXCEPT ![n].st = "raised"]
  /\ UNCHANGED <<tree, queue, waiting, shown, stateful>>

\* ParallelAgent starts one task per child.
Fork(n) ==
  /\ Kind(n) = "parallel" /\ Runs(n) /\ node[n].step = 0
  /\ node' = [m \in Nodes |->
       IF m = n THEN [node[n] EXCEPT !.step = 1]
       ELSE IF m \in ToSet(Kids(n)) THEN Derived(n, node[n].input) ELSE node[m]]
  /\ queue' = [queue EXCEPT ![n] = <<>>]
  /\ UNCHANGED <<tree, waiting, shown, stateful>>

\* run_and_forward of a child that ended puts None; of one that raised, no.
PutEnd(n) ==
  /\ node[n].st = "ended" /\ \E p \in Above(n) : Kind(p) = "parallel" /\ n \in ToSet(Kids(p))
  /\ node' = [node EXCEPT ![n].st = "joined"]
  /\ queue' = [queue EXCEPT ![Owner(n)] = Append(@, End)]
  /\ UNCHANGED <<tree, waiting, shown, stateful>>

\* The merge loop takes an event and yields it ...
TakeEvent(n) ==
  /\ Kind(n) = "parallel" /\ Runs(n) /\ queue[n] # <<>> /\ Head(queue[n]) # End
  /\ IF Owner(n) = Consumer
       THEN /\ shown' = Append(shown, Head(queue[n]))
            /\ waiting' = [at |-> n, event |-> Head(queue[n])]
            /\ queue' = [queue EXCEPT ![n] = Tail(@)] /\ UNCHANGED node
       ELSE /\ queue' = [queue EXCEPT ![n] = Tail(@),
                                      ![Owner(n)] = Append(@, Head(queue[n]))]
            /\ node' = After(n, Head(queue[n]), node) /\ UNCHANGED <<shown, waiting>>
  /\ UNCHANGED <<tree, stateful>>

\* The merge waits for one None too many (mutant).
TakeEndOneMore(n) ==
  /\ Kind(n) = "parallel" /\ Runs(n) /\ queue[n] # <<>> /\ Head(queue[n]) = End
  /\ queue' = [queue EXCEPT ![n] = Tail(@)]
  /\ node' = [node EXCEPT ![n].emitted = @ + 1,
                          ![n].st = IF node[n].emitted = Len(Kids(n)) THEN "ended" ELSE @]
  /\ UNCHANGED <<tree, waiting, shown, stateful>>

\* The merge is over with the first None (mutant).
TakeFirstEnd(n) ==
  /\ Kind(n) = "parallel" /\ Runs(n) /\ queue[n] # <<>> /\ Head(queue[n]) = End
  /\ queue' = [queue EXCEPT ![n] = Tail(@)]
  /\ node' = [node EXCEPT ![n].emitted = @ + 1, ![n].st = "ended"]
  /\ UNCHANGED <<tree, waiting, shown, stateful>>

\* ... or a None: after one per child it is over.
TakeEnd(n) ==
  /\ Kind(n) = "parallel" /\ Runs(n) /\ queue[n] # <<>> /\ Head(queue[n]) = End
  /\ queue' = [queue EXCEPT ![n] = Tail(@)]
  /\ node' = [node EXCEPT ![n].emitted = @ + 1,
                          ![n].st = IF node[n].emitted + 1 = Len(Kids(n)) THEN "ended" ELSE @]
  /\ UNCHANGED <<tree, waiting, shown, stateful>>

\* The finally clause of a parallel agent that was left behind: its tasks are
\* cancelled and awaited.
Cancel(n) ==
  /\ Kind(n) = "parallel" /\ node[n].st = "dropped"
  /\ \E m \in Below(n) : node[m].st = "running"
  /\ node' = [m \in Nodes |-> IF m \in Below(n) /\ node[m].st = "running"
                                THEN [node[m] EXCEPT !.st = "dropped"] ELSE node[m]]
  /\ UNCHANGED <<tree, queue, waiting, shown, stateful>>

Step(n) ==
  \/ LeafYields(n) \/ LeafEnds(n) \/ NextChild(n) \/ SequenceEnds(n) \/ PassEnds(n)
  \/ LoopExhausted(n) \/ LoopKilled(n) \/ Propagate(n) \/ Fork(n) \/ PutEnd(n)
  \/ TakeEvent(n) \/ TakeEnd(n) \/ Cancel(n)

Progress == Resume \/ Close \/ \E n \in Nodes : Step(n)

Next == Progress \/ Kill

\* The event loop runs every task and finalises what was left behind, leaves
\* come back, the consumer goes on or closes.  No step can be repeated for
\* ever, so it is enough that some step is taken.
Fairness == WF_vars(Progress)

Spec == Init /\ [][Next]_vars /\ Fairness
-----------------------------------------------------------------------------
Over(n) == node[n].st \in {"ended", "raised", "dropped"}
TypeOK ==
  /\ \A n \in Nodes :
       /\ node[n].st \in {"idle", "running", "ended", "raised", "dropped", "joined"}
       /\ node[n].step \in 0..Len(Kids(n)) /\ node[n].iteration \in 0..MaxIterations
       /\ node[n].emitted \in 0..(tree.events[n] + Len(Kids(n)) + 1)
  /\ waiting = None \/ waiting.at \in Nodes
  /\ stateful \subseteq Nodes

\* After an event that escalates out of a loop the consumer sees nothing more
\* of that loop: neither what its parallel agents had queued, nor what tasks
\* that are not cancelled yet produce, nor another iteration.
NothingAfterEscalation ==
  \A k \in DOMAIN shown : shown[k].escalate =>
    LET loops == {l \in Above(shown[k].at) : Kind(l) = "loop" /\ Owner(l) = Consumer}
    IN loops # {} =>
         \A m \in (k + 1)..Len(shown) : shown[m].at \notin Below(Outermost(loops)) \cup loops

\* No loop that can run n again is itself below a ParallelAgent.
Sole(n) == \A l \in Above(n) : Kind(l) = "loop" => Owner(l) = Consumer

\* A ParallelAgent that is over has passed on all that its tasks yielded, and none
\* of them goes on: the last None it takes is the last item of its queue.
MergeIsComplete ==
  \A n \in Nodes : Kind(n) = "parallel" /\ Sole(n) /\ node[n].st \in {"ended", "joined"} =>
    queue[n] = <<>> /\ \A m \in Nodes : Owner(m) = n => node[m].st # "running"

\* Every stream ends and leaves no task running, except that of a parallel
\* agent one of whose tasks raised: it waits for the end of that one for ever.
StreamEnds ==
  <>[]( \/ Over(tree.root) /\ \A n \in Nodes : node[n].st # "running"
        \/ \E n \in Nodes : Kind(n) = "parallel" /\ node[n].st = "running"
             /\ \E c \in ToSet(Kids(n)) : node[c].st = "raised" )

=============================================================================
