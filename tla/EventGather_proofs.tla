------------------------- MODULE EventGather_proofs -------------------------
(***************************************************************************)
(* Proofs about module EventGather, for every number of coroutines and     *)
(* every bound on the pushes: its type invariant, that no event is lost,   *)
(* that results come last, and that it implements module OrderedStream.    *)
(***************************************************************************)
EXTENDS EventGather, SequenceTheorems, TLAPS

(***************************************************************************)
(* Sequences: what the steps do to delivered \o held \o queue.             *)
(***************************************************************************)

\* Pushing an item at the end of the queue pushes it at the end of the whole
\* (Push).
LEMMA PushAtEnd ==
  ASSUME NEW S, NEW a \in Seq(S), NEW c \in Seq(S), NEW e \in S
  PROVE  a \o Append(c, e) = Append(a \o c, e)
OBVIOUS

\* Moving the head of the queue to the empty hands of queue_task moves nothing
\* in the whole (GetterTakes).
LEMMA TakeHead ==
  ASSUME NEW S, NEW a \in Seq(S), NEW c \in Seq(S), c # <<>>
  PROVE  /\ a \o <<>> \o c = a \o <<Head(c)>> \o Tail(c)
         /\ Append(a, Head(c)) \o Tail(c) = a \o c
         /\ Head(c) \in S /\ Tail(c) \in Seq(S)
<1>1. Head(c) \in S /\ Tail(c) \in Seq(S)
  BY HeadTailProperties
<1>2. c = <<Head(c)>> \o Tail(c)
  BY <1>1
<1>3. <<Head(c)>> \in Seq(S)
  BY <1>1
<1>4. a \o <<Head(c)>> \o Tail(c) = a \o c
  BY <1>1, <1>2, <1>3, ConcatAssociative
<1>5. a \o <<>> = a
  BY ConcatEmptySeq
<1>6. Append(a, Head(c)) = a \o <<Head(c)>>
  BY <1>1, AppendIsConcat
<1> QED
  BY <1>1, <1>4, <1>5, <1>6

(***************************************************************************)
(* The inductive invariant.  NoEventLost alone is not inductive: a wake-up *)
(* for a finished coroutine drops what queue_task holds, so the proof must *)
(* know that it holds nothing then, and where it stands at each suspension *)
(* point of the generator (GetterPlace).  ResultsComeLast needs that a     *)
(* coroutine leaves `pending` only by returning (HarvestPlace), and that   *)
(* results are yielded from an empty queue (OutputPlace).                  *)
(***************************************************************************)
Broken == pc \in {"raised", "abandoned"}

\* Where queue_task stands at each suspension point, and what it holds.
GetterPlace ==
  /\ pc = "wait" => getter \in {"waiting", "ready"}
  /\ pc = "yielding" => getter = "spent"
  /\ pc \notin {"wait", "yielding"} => getter = "cancelled"
  /\ IF getter = "ready" THEN \E x \in Item : held = <<x>> ELSE held = <<>>

\* What a snapshot and the dict `tasks` say of the coroutines.
HarvestPlace ==
  /\ ~Broken => \A i \in Coro \ pending : task[i] = "returned"
  /\ \A i \in done : task[i] # "running"
  /\ pc \in {"drain", "results", "closed"} => pending = {}

\* How far the generator is with its results.
OutputPlace ==
  /\ pc \in {"results", "closed"} => queue = <<>>
  /\ pc \in {"wait", "yielding", "drain"} => emitted = 0
  /\ pc = "closed" => emitted = N

IInv == TypeOK /\ NoEventLost /\ GetterPlace /\ HarvestPlace /\ OutputPlace

\* The initial state.
LEMMA InitIInv == Init => IInv
<1> SUFFICES ASSUME Init PROVE IInv
  OBVIOUS
<1> USE DEF Init
<1>1. TypeOK
  BY NAssumption DEF TypeOK, Coro
<1>2. NoEventLost
  BY DEF NoEventLost
<1>3. GetterPlace /\ HarvestPlace /\ OutputPlace
  BY DEF GetterPlace, HarvestPlace, OutputPlace, Broken
<1> QED
  BY <1>1, <1>2, <1>3 DEF IInv

\* A coroutine pushes an item.
LEMMA PushIInv ==
  ASSUME IInv, NEW i \in Coro, Push(i)
  PROVE  IInv'
<1> DEFINE item == [from |-> i, seq |-> Len(pushed) + 1]
<1> USE DEF IInv
<1>1. item \in Item
  <2>1. Len(pushed) \in Nat /\ Len(pushed) < MaxPush
    BY LenProperties DEF TypeOK, Push
  <2> QED
    BY <2>1, MaxPushAssumption DEF Item
<1>2. queue' = Append(queue, item) /\ pushed' = Append(pushed, item)
  BY DEF Push
<1>3. UNCHANGED <<task, getter, held, pending, done, pc, emitted, delivered>>
  BY DEF Push, gatherVars
<1>4. TypeOK'
  BY <1>1, <1>2, <1>3, AppendProperties DEF TypeOK
<1>5. NoEventLost'
  <2>1. delivered \o held \o Append(queue, item) = Append(delivered \o held \o queue, item)
    <3>1. delivered \o held \in Seq(Item) /\ queue \in Seq(Item)
      BY ConcatProperties DEF TypeOK
    <3> QED
      BY <1>1, <3>1, PushAtEnd
  <2> QED
    BY <1>2, <1>3, <2>1 DEF NoEventLost
<1>6. GetterPlace' /\ HarvestPlace'
  BY <1>3 DEF GetterPlace, HarvestPlace, Broken
<1>7. OutputPlace'
  <2>1. pc \notin {"results", "closed"}
    \* A running coroutine has not been harvested.
    BY DEF Push, HarvestPlace, Broken
  <2> QED
    BY <2>1, <1>3 DEF OutputPlace
<1> QED
  BY <1>4, <1>5, <1>6, <1>7

\* A coroutine returns or raises: only a running one does, and a running one
\* is in no snapshot and has not been harvested.
LEMMA LeaveIInv ==
  ASSUME IInv, NEW i \in Coro, Return(i) \/ Raise(i)
  PROVE  IInv'
<1> USE DEF IInv
<1>1. /\ task[i] = "running"
      /\ \E e \in {"returned", "raised"} : task' = [task EXCEPT ![i] = e]
      /\ UNCHANGED <<queue, getter, held, pushed, pending, done, pc, emitted, delivered>>
  BY DEF Return, Raise, gatherVars
<1>2. TypeOK'
  BY <1>1 DEF TypeOK
<1>3. NoEventLost' /\ GetterPlace' /\ OutputPlace'
  BY <1>1 DEF NoEventLost, GetterPlace, OutputPlace
<1>4. HarvestPlace'
  BY <1>1 DEF HarvestPlace, Broken, TypeOK
<1> QED
  BY <1>2, <1>3, <1>4

\* queue_task takes the head of the queue.
LEMMA GetterTakesIInv ==
  ASSUME IInv, GetterTakes
  PROVE  IInv'
<1> USE DEF IInv
<1>1. /\ getter = "waiting" /\ getter' = "ready" /\ queue # <<>>
      /\ held = <<>> /\ held' = <<Head(queue)>> /\ queue' = Tail(queue)
      /\ UNCHANGED <<task, pushed, pending, done, pc, emitted, delivered>>
  BY DEF GetterTakes, GetterPlace, gatherVars
<1>2. Head(queue) \in Item /\ Tail(queue) \in Seq(Item)
  BY <1>1, TakeHead DEF TypeOK
<1>3. TypeOK'
  BY <1>1, <1>2 DEF TypeOK
<1>4. NoEventLost'
  <2>1. delivered \in Seq(Item) /\ queue \in Seq(Item) /\ queue # <<>>
    BY <1>1 DEF TypeOK
  <2>2. delivered \o <<>> \o queue = delivered \o <<Head(queue)>> \o Tail(queue)
    BY ONLY <2>1, TakeHead
  <2> QED
    BY <1>1, <2>2 DEF NoEventLost
<1>5. GetterPlace'
  BY <1>1, <1>2 DEF GetterPlace
<1>6. HarvestPlace' /\ OutputPlace'
  BY <1>1 DEF HarvestPlace, OutputPlace, Broken, GetterPlace
<1> QED
  BY <1>3, <1>4, <1>5, <1>6

\* The harvest of ended coroutines, from a state in which queue_task holds
\* nothing: what WakeForTasks and Resume have in common.
LEMMA HarvestIInv ==
  ASSUME IInv, NEW finished \in SUBSET Coro,
         \A i \in finished : task[i] # "running",
         pc \in {"wait", "yielding"}, held = <<>>, Harvest(finished),
         done' \in SUBSET done,
         UNCHANGED <<task, queue, emitted, pushed, delivered>>
  PROVE  IInv'
<1> USE DEF IInv
<1>1. /\ pending' \subseteq pending
      /\ held' = <<>>
      /\ \/ pc' = "raised" /\ getter' = "cancelled"
         \/ /\ \A i \in finished : task[i] # "raised"
            /\ pending' = pending \ finished
            /\ \/ pc' = "drain" /\ getter' = "cancelled" /\ pending' = {}
               \/ pc' = "wait" /\ getter' = "waiting"
  BY DEF Harvest
<1>2. TypeOK'
  BY <1>1, EmptySeq DEF TypeOK
<1>3. NoEventLost'
  BY <1>1 DEF NoEventLost
<1>4. GetterPlace'
  BY <1>1 DEF GetterPlace
<1>5. HarvestPlace'
  <2>1. \A i \in finished : pc' # "raised" => task[i] = "returned"
    BY <1>1 DEF TypeOK
  <2> QED
    BY <1>1, <2>1 DEF HarvestPlace, Broken
<1>6. OutputPlace'
  BY <1>1 DEF OutputPlace
<1> QED
  BY <1>2, <1>3, <1>4, <1>5, <1>6

\* The generator's own steps.
LEMMA GeneratorIInv ==
  ASSUME IInv, Generator
  PROVE  IInv'
<1> USE DEF IInv
<1>1. CASE WakeForItem
  <2>1. /\ pc = "wait" /\ pc' = "yielding" /\ getter' = "spent"
        /\ delivered' = delivered \o held /\ held' = <<>> /\ done' = Finished
        /\ UNCHANGED <<task, pending, queue, emitted, pushed>>
    BY <1>1 DEF WakeForItem
  <2>2. TypeOK'
    BY <2>1, EmptySeq, ConcatProperties DEF TypeOK, Finished
  <2>3. NoEventLost'
    BY <2>1, ConcatProperties, ConcatEmptySeq DEF NoEventLost, TypeOK
  <2>4. GetterPlace' /\ HarvestPlace' /\ OutputPlace'
    BY <2>1 DEF GetterPlace, HarvestPlace, OutputPlace, Broken, Finished
  <2> QED
    BY <2>2, <2>3, <2>4
<1>2. CASE WakeForTasks
  <2>1. Finished \in SUBSET Coro /\ \A i \in Finished : task[i] # "running"
    BY DEF Finished, TypeOK
  <2> QED
    BY <1>2, <2>1, HarvestIInv DEF WakeForTasks, GetterPlace
<1>3. CASE Resume
  BY <1>3, HarvestIInv DEF Resume, GetterPlace, HarvestPlace, TypeOK
<1>4. CASE Drain
  <2>1. /\ pc = "drain" /\ held = <<>>
        /\ UNCHANGED <<task, pending, done, getter, held, emitted, pushed>>
    BY <1>4 DEF Drain, GetterPlace
  <2>2. CASE queue = <<>>
    <3>1. pc' = "results" /\ UNCHANGED <<queue, delivered>>
      BY <1>4, <2>2 DEF Drain
    <3> QED
      BY <2>1, <2>2, <3>1
      DEF TypeOK, NoEventLost, GetterPlace, HarvestPlace, OutputPlace, Broken
  <2>3. CASE queue # <<>>
    <3>1. delivered' = Append(delivered, Head(queue)) /\ queue' = Tail(queue) /\ pc' = pc
      BY <1>4, <2>3 DEF Drain
    <3>2. delivered \in Seq(Item) /\ queue \in Seq(Item)
      BY DEF TypeOK
    <3>3. /\ Append(delivered, Head(queue)) \in Seq(Item)
          /\ Append(delivered, Head(queue)) \o Tail(queue) = delivered \o queue
          /\ Tail(queue) \in Seq(Item)
      BY ONLY <2>3, <3>2, TakeHead, AppendProperties
    <3>4. TypeOK'
      BY <2>1, <3>1, <3>3 DEF TypeOK
    <3>5. NoEventLost'
      <4>1. /\ delivered \o held \o queue = delivered \o queue
            /\ delivered' \o held' \o queue' = delivered' \o queue'
        BY <2>1, <3>1, <3>2, <3>3, ConcatEmptySeq
      <4> QED
        BY <2>1, <3>1, <3>3, <4>1 DEF NoEventLost
    <3>6. GetterPlace' /\ HarvestPlace' /\ OutputPlace'
      BY <2>1, <3>1 DEF GetterPlace, HarvestPlace, OutputPlace, Broken
    <3> QED
      BY <3>4, <3>5, <3>6
  <2> QED
    BY <2>2, <2>3
<1>5. CASE YieldResult \/ Close
  <2>1. /\ pc = "results"
        /\ \/ emitted < N /\ emitted' = emitted + 1 /\ pc' = pc
           \/ emitted = N /\ emitted' = emitted /\ pc' = "closed"
        /\ UNCHANGED <<task, pending, done, queue, getter, held, pushed, delivered>>
    BY <1>5 DEF YieldResult, Close
  <2>2. TypeOK'
    BY <2>1, NAssumption DEF TypeOK
  <2>3. NoEventLost' /\ GetterPlace' /\ HarvestPlace' /\ OutputPlace'
    BY <2>1 DEF NoEventLost, GetterPlace, HarvestPlace, OutputPlace, Broken
  <2> QED
    BY <2>2, <2>3
<1> QED
  BY <1>1, <1>2, <1>3, <1>4, <1>5 DEF Generator

\* Every step.
LEMMA NextIInv == IInv /\ [Next]_vars => IInv'
<1> SUFFICES ASSUME IInv, [Next]_vars PROVE IInv'
  OBVIOUS
<1>1. ASSUME NEW i \in Coro, Push(i) \/ Return(i) \/ Raise(i) PROVE IInv'
  BY <1>1, PushIInv, LeaveIInv
<1>2. CASE GetterTakes
  BY <1>2, GetterTakesIInv
<1>3. CASE Generator
  BY <1>3, GeneratorIInv
<1>4. CASE Abandon
  BY <1>4, EmptySeq DEF Abandon, IInv, TypeOK, NoEventLost, GetterPlace, HarvestPlace,
                        OutputPlace, Broken
<1>5. CASE UNCHANGED vars
  BY <1>5 DEF vars, IInv, TypeOK, NoEventLost, GetterPlace, HarvestPlace, OutputPlace, Broken
<1> QED
  BY <1>1, <1>2, <1>3, <1>4, <1>5 DEF Next, Terminated

THEOREM Invariance == Spec => []IInv
BY InitIInv, NextIInv, PTL DEF Spec

\* The variables keep their types.
THEOREM TypeCorrect == Spec => []TypeOK
BY Invariance, PTL DEF IInv

\* gather_with_event_queue loses, repeats and reorders no event, however the
\* coroutines, queue_task and the generator interleave.
THEOREM EventsAreKept == Spec => []NoEventLost
BY Invariance, PTL DEF IInv

\* No result is yielded before every event has been, nor before every
\* coroutine has returned.
THEOREM ResultsAreLast == Spec => []ResultsComeLast
<1>1. IInv => ResultsComeLast
  <2> SUFFICES ASSUME IInv, pc \in {"results", "closed"}
               PROVE  delivered = pushed /\ \A i \in Coro : task[i] = "returned"
    BY DEF ResultsComeLast
  <2>1. held = <<>> /\ queue = <<>>
    BY DEF IInv, GetterPlace, OutputPlace
  <2>2. delivered = pushed
    BY <2>1, ConcatEmptySeq DEF IInv, NoEventLost, TypeOK
  <2>3. \A i \in Coro : task[i] = "returned"
    BY DEF IInv, HarvestPlace, Broken
  <2> QED
    BY <2>2, <2>3
<1> QED
  BY <1>1, Invariance, PTL

(***************************************************************************)
(* EventGather implements OrderedStream: every step of one maps to a step  *)
(* of the other, or to none.                                               *)
(***************************************************************************)
Live == {i \in Coro : task[i] = "running"}

Status == CASE pc = "closed" -> "complete"
            [] pc \in {"raised", "abandoned"} -> "broken"
            [] OTHER -> "open"

\* An item delivered in order is the oldest one the consumer does not have.
LEMMA Oldest ==
  ASSUME NEW S, NEW a \in Seq(S), NEW x \in S, NEW c \in Seq(S)
  PROVE  /\ Len(a) < Len(a \o <<x>> \o c)
         /\ (a \o <<x>> \o c)[Len(a) + 1] = x
         /\ a \o <<x>> = Append(a, x)
OBVIOUS

\* A harvest shows the consumer nothing, unless it raises.
LEMMA HarvestStep ==
  ASSUME NEW finished, Harvest(finished), pc \in {"wait", "yielding"},
         UNCHANGED <<task, queue, emitted, pushed, delivered>>
  PROVE  [Promise!Next]_(Promise!vars)
<1>1. CASE pc' = "raised"
  <2>1. Status = "open" /\ Status' = "broken"
    BY <1>1 DEF Status
  <2> QED
    BY <2>1 DEF Promise!Next, Promise!Break, Status
<1>2. CASE pc' \in {"wait", "drain"}
  <2>1. Status = Status'
    BY <1>2 DEF Status
  <2> QED
    BY <2>1 DEF Promise!vars, Status
<1> QED
  BY <1>1, <1>2 DEF Harvest

\* The next item, the head of what is neither delivered nor dropped.
LEMMA DeliverStep ==
  ASSUME IInv, NEW x \in Item, NEW rest \in Seq(Item),
         pushed = delivered \o <<x>> \o rest, delivered' = Append(delivered, x),
         pc \in {"wait", "drain"}, pc' \in {"yielding", "drain"},
         UNCHANGED <<task, emitted, pushed>>
  PROVE  Promise!Deliver
<1>1. Status = "open" /\ Status' = "open"
  BY DEF Status
<1>2. emitted = 0
  BY DEF IInv, OutputPlace
<1>3. delivered \in Seq(Item)
  BY DEF IInv, TypeOK
<1>4. Len(delivered) < Len(pushed) /\ pushed[Len(delivered) + 1] = x
  BY <1>3, Oldest
<1> QED
  BY <1>1, <1>2, <1>4 DEF Promise!Deliver, Status

LEMMA StepSimulation == IInv /\ [Next]_vars => [Promise!Next]_(Promise!vars)
<1> SUFFICES ASSUME IInv, [Next]_vars PROVE [Promise!Next]_(Promise!vars)
  OBVIOUS
<1>1. ASSUME NEW i \in Coro, Push(i) PROVE Promise!Next
  <2> DEFINE item == [from |-> i, seq |-> Len(pushed) + 1]
  <2>1. item \in Item
    BY <1>1, LenProperties, MaxPushAssumption DEF IInv, TypeOK, Push, Item
  <2>2. Promise!Push(item)
    BY <1>1 DEF Push, gatherVars, Promise!Push
  <2> QED
    BY <2>1, <2>2 DEF Promise!Next
<1>2. ASSUME NEW i \in Coro, Return(i) \/ Raise(i) PROVE Promise!Next
  <2>1. /\ i \in Live /\ Live' = Live \ {i}
        /\ UNCHANGED <<pushed, pc, emitted, delivered>>
    BY <1>2 DEF Return, Raise, gatherVars, Live, IInv, TypeOK
  <2>2. Promise!Leave(i)
    BY <2>1 DEF Promise!Leave, Live
  <2> QED
    BY <2>2 DEF Promise!Next, Coro
<1>3. CASE GetterTakes
  BY <1>3 DEF GetterTakes, gatherVars, Promise!vars
<1>4. CASE WakeForItem
  <2>1. PICK x \in Item : held = <<x>>
    BY <1>4 DEF WakeForItem, IInv, GetterPlace
  <2>2. pc = "wait" /\ pc' = "yielding" /\ delivered' = delivered \o <<x>>
    BY <1>4, <2>1 DEF WakeForItem
  <2>3. delivered \in Seq(Item) /\ queue \in Seq(Item)
    BY DEF IInv, TypeOK
  <2>4. delivered' = Append(delivered, x)
    BY <2>2, <2>3, Oldest
  <2>5. pushed = delivered \o <<x>> \o queue
    BY <2>1, <2>2 DEF IInv, NoEventLost
  <2> QED
    BY <1>4, <2>2, <2>3, <2>4, <2>5, DeliverStep DEF WakeForItem, Promise!Next
<1>5. CASE WakeForTasks \/ Resume
  BY <1>5, HarvestStep DEF WakeForTasks, Resume
<1>6. CASE Drain
  <2>1. CASE queue = <<>>
    <3>1. Status = Status' /\ UNCHANGED <<task, pushed, delivered, emitted>>
      BY <1>6, <2>1 DEF Drain, Status
    <3> QED
      BY <3>1 DEF Promise!vars, Status
  <2>2. CASE queue # <<>>
    <3>1. /\ held = <<>> /\ delivered \in Seq(Item) /\ queue \in Seq(Item)
          /\ pushed = delivered \o held \o queue
      BY <1>6 DEF Drain, IInv, TypeOK, GetterPlace, NoEventLost
    <3>2. /\ Head(queue) \in Item /\ Tail(queue) \in Seq(Item)
          /\ pushed = delivered \o <<Head(queue)>> \o Tail(queue)
      BY <2>2, <3>1, TakeHead
    <3> QED
      BY <1>6, <2>2, <3>2, DeliverStep DEF Drain, Promise!Next
  <2> QED
    BY <2>1, <2>2
<1>7. CASE YieldResult \/ Close
  <2>1. pc = "results" /\ UNCHANGED <<task, pushed, delivered>>
    BY <1>7 DEF YieldResult, Close
  <2>2. Live = {} /\ delivered = pushed
    <3>1. held = <<>> /\ queue = <<>> /\ \A i \in Coro : task[i] = "returned"
      BY <2>1 DEF IInv, GetterPlace, HarvestPlace, OutputPlace, Broken
    <3> QED
      BY <2>1, <3>1, ConcatEmptySeq DEF Live, IInv, NoEventLost, TypeOK
  <2>3. Status = "open"
    BY <2>1 DEF Status
  <2>4. CASE YieldResult
    BY <2>1, <2>2, <2>3, <2>4 DEF YieldResult, Promise!Next, Promise!Result, Status, Live
  <2>5. CASE Close
    <3>1. Status' = "complete"
      BY <2>5 DEF Close, Status
    <3> QED
      BY <2>1, <2>3, <2>5, <3>1 DEF Close, Promise!Next, Promise!Complete, Status
  <2> QED
    BY <1>7, <2>4, <2>5
<1>8. CASE Abandon
  <2>1. Status = "open" /\ Status' = "broken" /\ UNCHANGED <<task, pushed, delivered, emitted>>
    BY <1>8 DEF Abandon, Status
  <2> QED
    BY <2>1 DEF Promise!Next, Promise!Break, Status
<1>9. CASE UNCHANGED vars
  BY <1>9 DEF vars, Promise!vars
<1> QED
  BY <1>1, <1>2, <1>3, <1>4, <1>5, <1>6, <1>7, <1>8, <1>9 DEF Next, Generator, Terminated

\* The merged stream keeps its promise: items in real time in the order they
\* were pushed, then one result per coroutine, then the end, or a break.
THEOREM Implements == Spec => KeepsPromise
<1>1. Init => Promise!Init
  <2> SUFFICES ASSUME Init PROVE Promise!Init
    OBVIOUS
  <2>1. Live = 1..N /\ Status = "open"
    BY DEF Init, Live, Status, Coro
  <2> QED
    BY <2>1 DEF Init, Promise!Init, Live, Status
<1> QED
  BY <1>1, StepSimulation, Invariance, PTL DEF Spec, KeepsPromise, Promise!Spec
=============================================================================
