----------------------------- MODULE EventGather -----------------------------
(***************************************************************************)
(* gather_with_event_queue (src/orxhestra/concurrency.py): N coroutines    *)
(* run as asyncio tasks; the consumer iterates an async generator that     *)
(* merges the items they push on a shared queue with their results.        *)
(*                                                                         *)
(* A step runs one party from one suspension point to the next: a task up  *)
(* to its next await, the queue_task that performs event_queue.get(), or   *)
(* the generator between two awaits or yields.                             *)
(***************************************************************************)
EXTENDS Naturals, Sequences, FiniteSets

CONSTANTS N,        \* number of coroutines
          MaxPush   \* bound: items pushed over a whole run

ASSUME NAssumption == N \in Nat \ {0}
ASSUME MaxPushAssumption == MaxPush \in Nat

Coro == 1..N
Item == [from : Coro, seq : 1..MaxPush]

VARIABLES
  task,       \* task[i]: the asyncio task of coroutine i
  pending,    \* the dict `tasks`: coroutines whose result is not harvested
  done,       \* the snapshot asyncio.wait returned, without queue_task
  queue,      \* event_queue
  getter,     \* queue_task: waiting, ready (holds an item), spent, cancelled
  held,       \* the item queue_task has taken off the queue, if any
  pc,         \* where the generator is suspended
  emitted,    \* number of results already yielded
  pushed,     \* history: every item ever put on the queue
  delivered   \* history: every queue item the consumer received

vars == <<task, pending, done, queue, getter, held, pc, emitted, pushed, delivered>>

gatherVars == <<pending, done, pc, emitted, delivered>>

Init ==
  /\ task = [i \in Coro |-> "running"]
  /\ pending = Coro
  /\ done = {}
  /\ queue = <<>>
  /\ getter = "waiting"
  /\ held = <<>>
  /\ pc = "wait"
  /\ emitted = 0
  /\ pushed = <<>>
  /\ delivered = <<>>
-----------------------------------------------------------------------------
(* The coroutines.  They do not know whether the generator is still there. *)

\* event_queue.put_nowait(item), called by a running coroutine.
Push(i) ==
  /\ task[i] = "running"
  /\ Len(pushed) < MaxPush
  /\ LET item == [from |-> i, seq |-> Len(pushed) + 1]
     IN /\ queue' = Append(queue, item)
        /\ pushed' = Append(pushed, item)
  /\ UNCHANGED <<task, getter, held, gatherVars>>

Return(i) ==
  /\ task[i] = "running"
  /\ task' = [task EXCEPT ![i] = "returned"]
  /\ UNCHANGED <<queue, getter, held, pushed, gatherVars>>

Raise(i) ==
  /\ task[i] = "running"
  /\ task' = [task EXCEPT ![i] = "raised"]
  /\ UNCHANGED <<queue, getter, held, pushed, gatherVars>>
-----------------------------------------------------------------------------
(* queue_task = asyncio.create_task(event_queue.get())                     *)

GetterTakes ==
  /\ getter = "waiting"
  /\ queue # <<>>
  /\ getter' = "ready"
  /\ held' = <<Head(queue)>>
  /\ queue' = Tail(queue)
  /\ UNCHANGED <<task, pushed, gatherVars>>
-----------------------------------------------------------------------------
(* The generator.                                                          *)

Finished == {i \in pending : task[i] # "running"}

\* Lines 73-82: results[idx] = task.result() for the snapshot `finished`,
\* then, when the loop is left, queue_task.cancel().  A queue_task that is
\* already done ignores cancel(), and what it holds is dropped with it.
Harvest(finished) ==
  LET failed == {i \in finished : task[i] = "raised"}
  IN \/ /\ failed # {}
        /\ \E popped \in SUBSET finished :
             popped \cap failed # {} /\ pending' = pending \ popped
        /\ pc' = "raised"
        /\ getter' = "cancelled" /\ held' = <<>>
     \/ /\ failed = {}
        /\ pending' = pending \ finished
        /\ IF pending' = {}
             THEN pc' = "drain" /\ getter' = "cancelled" /\ held' = <<>>
             ELSE pc' = "wait" /\ getter' = "waiting" /\ held' = <<>>

\* A wake-up that looks at the finished tasks before a ready queue_task (mutant).
WakeForTasksFirst ==
  /\ pc = "wait" /\ Finished # {}
  /\ Harvest(Finished)
  /\ UNCHANGED <<task, done, queue, emitted, pushed, delivered>>

\* Lines 64-70: asyncio.wait returns with queue_task among the done tasks;
\* its item is yielded before any result is looked at.
WakeForItem ==
  /\ pc = "wait" /\ getter = "ready"
  /\ delivered' = delivered \o held
  /\ held' = <<>> /\ getter' = "spent"
  /\ done' = Finished
  /\ pc' = "yielding"
  /\ UNCHANGED <<task, pending, queue, emitted, pushed>>

\* Lines 64-77 when only coroutines are done: no suspension point between
\* the wake-up and the harvest.
WakeForTasks ==
  /\ pc = "wait" /\ getter = "waiting"
  /\ Finished # {}
  /\ Harvest(Finished)
  /\ UNCHANGED <<task, done, queue, emitted, pushed, delivered>>

\* A resume that starts no new queue_task (mutant).
ResumeWithoutGetter ==
  /\ pc = "yielding"
  /\ IF done = pending THEN pc' = "drain" ELSE pc' = "wait"
  /\ pending' = pending \ done
  /\ getter' = "cancelled" /\ held' = <<>> /\ done' = {}
  /\ UNCHANGED <<task, queue, emitted, pushed, delivered>>

\* Lines 71-77: the consumer asks for more; a new queue_task is created and
\* the (possibly stale) snapshot is harvested.
Resume ==
  /\ pc = "yielding"
  /\ Harvest(done)
  /\ done' = {}
  /\ UNCHANGED <<task, queue, emitted, pushed, delivered>>

\* Results first, leftovers never (mutant).
DrainSkipped ==
  /\ pc = "drain"
  /\ pc' = "results"
  /\ UNCHANGED <<task, pending, done, queue, getter, held, emitted, pushed, delivered>>

\* Lines 84-86: yield what was pushed after the last wake-up.
Drain ==
  /\ pc = "drain"
  /\ IF queue = <<>>
       THEN pc' = "results" /\ UNCHANGED <<queue, delivered>>
       ELSE /\ delivered' = Append(delivered, Head(queue))
            /\ queue' = Tail(queue)
            /\ UNCHANGED pc
  /\ UNCHANGED <<task, pending, done, getter, held, emitted, pushed>>

\* Lines 88-90: one result per coroutine, in the original order.
YieldResult ==
  /\ pc = "results" /\ emitted < N
  /\ emitted' = emitted + 1
  /\ UNCHANGED <<task, pending, done, queue, getter, held, pc, pushed, delivered>>

Close ==
  /\ pc = "results" /\ emitted = N
  /\ pc' = "closed"
  /\ UNCHANGED <<task, pending, done, queue, getter, held, emitted, pushed, delivered>>

\* The consumer closes the generator at a yield, or is itself cancelled while
\* the generator awaits asyncio.wait: the finally clause runs, the coroutines
\* go on.
Abandon ==
  /\ pc \in {"wait", "yielding", "drain", "results"}
  /\ pc' = "abandoned"
  /\ getter' = "cancelled" /\ held' = <<>>
  /\ UNCHANGED <<task, pending, done, queue, emitted, pushed, delivered>>
-----------------------------------------------------------------------------
Over == pc \in {"closed", "raised", "abandoned"}

\* Everything is over: every coroutine has ended too.
Terminated ==
  /\ Over /\ \A i \in Coro : task[i] # "running"
  /\ UNCHANGED vars

Generator == WakeForItem \/ WakeForTasks \/ Resume \/ Drain \/ YieldResult \/ Close

Next == \/ \E i \in Coro : Push(i) \/ Return(i) \/ Raise(i)
        \/ GetterTakes
        \/ Generator
        \/ Abandon
        \/ Terminated

Spec == Init /\ [][Next]_vars

\* The event loop runs every ready callback, and the consumer keeps asking:
\* the tool loop iterates with `async for` and does nothing else.  Nothing
\* makes a coroutine return, and nothing makes a consumer go away.
FairSpec == Spec /\ WF_vars(GetterTakes) /\ WF_vars(Generator)
-----------------------------------------------------------------------------
TypeOK ==
  /\ task \in [Coro -> {"running", "returned", "raised"}]
  /\ pending \subseteq Coro
  /\ done \subseteq Coro
  /\ queue \in Seq(Item)
  /\ getter \in {"waiting", "ready", "spent", "cancelled"}
  /\ held \in Seq(Item)
  /\ pc \in {"wait", "yielding", "drain", "results", "closed", "raised", "abandoned"}
  /\ emitted \in 0..N
  /\ pushed \in Seq(Item)
  /\ delivered \in Seq(Item)

\* No event is lost, repeated or reordered: until the stream breaks, what was
\* pushed is exactly what was delivered, then what queue_task holds, then
\* what is queued.  In particular queue_task is never cancelled with an item.
NoEventLost ==
  pc \notin {"raised", "abandoned"} => pushed = delivered \o held \o queue

\* A result is yielded only after every event pushed by any coroutine, and
\* only when every coroutine has returned (lines 84-90).
ResultsComeLast ==
  pc \in {"results", "closed"} =>
    /\ delivered = pushed
    /\ \A i \in Coro : task[i] = "returned"

\* Once every coroutine has ended the generator ends, by closing or raising.
Completes == (\A i \in Coro : task[i] # "running") ~> Over

\* EventGather implements the promise.
Promise == INSTANCE OrderedStream WITH
  live <- {i \in Coro : task[i] = "running"},
  status <- CASE pc = "closed" -> "complete"
              [] pc \in {"raised", "abandoned"} -> "broken"
              [] OTHER -> "open"

\* Every behaviour of the generator is one OrderedStream allows.
KeepsPromise == Promise!Spec
=============================================================================
