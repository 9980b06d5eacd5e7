----------------------------- MODULE A2A_proofs -----------------------------
(***************************************************************************)
(* The A2A side, for any number of tasks, subscribers, webhooks and        *)
(* events, any capacity of the store, page size and number of retries: the *)
(* server's task lifecycle, the paging clients of its task store, the      *)
(* webhooks of one task and the client agent.  Each has an inductive       *)
(* invariant of its own; a step of the composition is a step of one of     *)
(* them, or leaves its variables alone, so that every behaviour of the     *)
(* composition is one of each.                                             *)
(***************************************************************************)
EXTENDS MCA2A, Selections_proofs

\* The instances count and select as this module does.
LEMMA SameOperators ==
  ASSUME NEW S
  PROVE  /\ Tasks!Cardinality(S) = Cardinality(S)
         /\ \A s : Agent!Select(s, S) = Select(s, S)
<1>1. Tasks!Cardinality(S) = Cardinality(S)
  BY Zenon DEF Tasks!Cardinality, Cardinality
<1>2. ASSUME NEW T PROVE Agent!Cardinality(T) = Cardinality(T)
  BY Zenon DEF Agent!Cardinality, Cardinality
<1>3. ASSUME NEW T, NEW k PROVE Agent!Rank(T, k) = Rank(T, k)
  BY <1>2 DEF Agent!Rank, Rank
<1>4. ASSUME NEW T, NEW i PROVE Agent!Nth(T, i) = Nth(T, i)
  BY <1>3 DEF Agent!Nth, Nth
<1>5. ASSUME NEW s PROVE Agent!Select(s, S) = Select(s, S)
  BY <1>2, <1>4 DEF Agent!Select, Select, Agent!Places, Places
<1> QED BY <1>1, <1>5

(***************************************************************************)
(* The server. What is told of a task does not depend on the store.        *)
(***************************************************************************)
Frame == {"working", "artifact", "completed"}

Replay == [pc : {"none", "begin", "artifacts", "end"}, task : SUBSET Task,
           frames : Seq(State \cup {"artifact"})]

\* The part of TypeOK that is not about the store.
Types ==
  /\ status \in [Task -> State]
  /\ run \in [Task -> {"none", "accepted", "running", "done", "lost"}]
  /\ frames \in [Task -> Seq(Frame)]
  /\ replay \in [Subscriber -> Replay]

\* Why nothing takes COMPLETED away again: only a run that has ended put it
\* there, and cancel leaves it alone.
CompletedIsDone == \A t \in Task : status[t] = "completed" => run[t] = "done"

StoreTypes ==
  /\ store \in Seq(Task)
  /\ answer \in [Task -> BOOLEAN] /\ mode \in [Task -> {"none", "send", "stream"}]

ServerInv == Types /\ CompletedIsDone /\ CompletionIsTrue

LEMMA KeysOfAppend ==
  ASSUME NEW S, NEW s \in Seq(S), NEW e \in S
  PROVE  Append(s, e) \in Seq(S) /\ Keys(Append(s, e)) = Keys(s) \cup {e}
<1>1. /\ Append(s, e) \in Seq(S) /\ Len(Append(s, e)) = Len(s) + 1 /\ Len(s) \in Nat
      /\ \A k \in 1..Len(s) : Append(s, e)[k] = s[k]
      /\ Append(s, e)[Len(s) + 1] = e
  OBVIOUS
<1>2. ASSUME NEW x \in Keys(Append(s, e)) PROVE x \in Keys(s) \cup {e}
  <2>1. PICK k \in 1..(Len(s) + 1) : Append(s, e)[k] = x
    BY <1>1, <1>2 DEF Keys
  <2>2. CASE k = Len(s) + 1
    BY <1>1, <2>1, <2>2
  <2>3. CASE k \in 1..Len(s)
    BY <1>1, <2>1, <2>3 DEF Keys
  <2> QED BY <1>1, <2>2, <2>3
<1>3. ASSUME NEW x \in Keys(s) PROVE x \in Keys(Append(s, e))
  <2>1. PICK k \in 1..Len(s) : s[k] = x
    BY <1>3 DEF Keys
  <2>2. k \in 1..Len(Append(s, e)) /\ Append(s, e)[k] = x
    BY <1>1, <2>1
  <2> QED BY <2>2 DEF Keys
<1>4. e \in Keys(Append(s, e))
  <2>1. Len(s) + 1 \in 1..Len(Append(s, e))
    BY <1>1
  <2> QED BY <1>1, <2>1 DEF Keys
<1> QED BY <1>1, <1>2, <1>3, <1>4

\* What a frame does to what the creator of a task has been told.
LEMMA EmitTells ==
  ASSUME Types, NEW t \in Task, NEW f \in Frame, Emit(t, f)
  PROVE  /\ frames' \in [Task -> Seq(Frame)]
         /\ \A u \in Task : "completed" \in Keys(frames'[u]) =>
              "completed" \in Keys(frames[u]) \/ (u = t /\ f = "completed")
<1>1. /\ Append(frames[t], f) \in Seq(Frame)
      /\ Keys(Append(frames[t], f)) = Keys(frames[t]) \cup {f}
  BY KeysOfAppend DEF Types
<1>2. CASE mode[t] = "stream"
  BY <1>1, <1>2 DEF Types, Emit
<1>3. CASE mode[t] # "stream"
  BY <1>3 DEF Types, Emit
<1> QED BY <1>2, <1>3

LEMMA ServerInit == ASSUME Init PROVE ServerInv
<1>1. Types
  BY DEF Init, Types, State, Terminal, Replay, Unsubscribed, Frame
<1>2. CompletedIsDone /\ CompletionIsTrue
  BY DEF Init, CompletedIsDone, CompletionIsTrue, Keys, Unsubscribed
<1> QED BY <1>1, <1>2 DEF ServerInv

LEMMA AcceptIsTrue ==
  ASSUME ServerInv, NEW t \in Task, NEW m, Accept(t, m) PROVE ServerInv'
<1>1. Types'
  BY DEF ServerInv, Accept, SetStatus, Types, State
<1>2. status[t] # "completed"
  BY DEF ServerInv, CompletedIsDone, Accept
<1>3. CompletedIsDone' /\ CompletionIsTrue'
  BY <1>2 DEF ServerInv, Types, Accept, SetStatus, CompletedIsDone, CompletionIsTrue
<1> QED BY <1>1, <1>3 DEF ServerInv

LEMMA StartIsTrue == ASSUME ServerInv, NEW t \in Task, Start(t) PROVE ServerInv'
<1>1. /\ frames' \in [Task -> Seq(Frame)]
      /\ \A u \in Task : "completed" \in Keys(frames'[u]) => "completed" \in Keys(frames[u])
  BY EmitTells DEF Start, ServerInv, Frame
<1>2. Types'
  BY <1>1 DEF ServerInv, Start, SetStatus, Types, State
<1>3. status[t] # "completed"
  BY DEF ServerInv, CompletedIsDone, Start
<1>4. CompletedIsDone'
  BY <1>3 DEF ServerInv, Types, Start, SetStatus, CompletedIsDone
<1>5. CompletionIsTrue'
  BY <1>1, <1>3 DEF ServerInv, Types, Start, SetStatus, CompletionIsTrue
<1> QED BY <1>2, <1>4, <1>5 DEF ServerInv

LEMMA AgentEventIsTrue == ASSUME ServerInv, NEW t \in Task, AgentEvent(t) PROVE ServerInv'
<1>1. PICK f \in {"working", "artifact"} : Emit(t, f)
  BY DEF AgentEvent
<1>2. /\ frames' \in [Task -> Seq(Frame)]
      /\ \A u \in Task : "completed" \in Keys(frames'[u]) => "completed" \in Keys(frames[u])
  BY <1>1, EmitTells DEF ServerInv, Frame
<1>3. Types' /\ CompletedIsDone'
  BY <1>2 DEF ServerInv, AgentEvent, Types, CompletedIsDone
<1>4. CompletionIsTrue'
  BY <1>2 DEF ServerInv, AgentEvent, CompletionIsTrue
<1> QED BY <1>3, <1>4 DEF ServerInv

LEMMA FinishIsTrue == ASSUME ServerInv, NEW t \in Task, Finish(t) PROVE ServerInv'
<1>1. /\ frames' \in [Task -> Seq(Frame)]
      /\ \A u \in Task \ {t} :
           "completed" \in Keys(frames'[u]) => "completed" \in Keys(frames[u])
  BY EmitTells DEF Finish, ServerInv, Frame
<1>2. Types'
  BY <1>1 DEF ServerInv, Finish, SetStatus, Types, State, Terminal
<1>3. CompletedIsDone'
  BY DEF ServerInv, Types, Finish, SetStatus, CompletedIsDone
<1>4. CompletionIsTrue'
  BY <1>1 DEF ServerInv, Types, Finish, SetStatus, CompletionIsTrue
<1> QED BY <1>2, <1>3, <1>4 DEF ServerInv

LEMMA FailIsTrue == ASSUME ServerInv, NEW t \in Task, Fail(t) PROVE ServerInv'
BY DEF ServerInv, Types, Fail, CompletedIsDone, CompletionIsTrue

LEMMA CancelTaskIsTrue == ASSUME ServerInv, NEW t \in Task, CancelTask(t) PROVE ServerInv'
<1>1. CASE status[t] \in Terminal
  BY <1>1 DEF ServerInv, Types, CancelTask, CompletedIsDone, CompletionIsTrue
<1>2. CASE status[t] \notin Terminal
  <2>1. status[t] # "completed"
    BY <1>2 DEF Terminal
  <2>2. Types'
    BY <1>2 DEF ServerInv, CancelTask, SetStatus, Types, State, Terminal
  <2>3. CompletedIsDone' /\ CompletionIsTrue'
    BY <1>2, <2>1 DEF ServerInv, Types, CancelTask, SetStatus, CompletedIsDone, CompletionIsTrue
  <2> QED BY <2>2, <2>3 DEF ServerInv
<1> QED BY <1>1, <1>2

LEMMA SubscribeIsTrue ==
  ASSUME ServerInv, NEW s \in Subscriber, NEW t \in Task, Subscribe(s, t) PROVE ServerInv'
<1>1. Types'
  BY DEF ServerInv, Subscribe, Types, Replay
<1>2. CompletedIsDone'
  BY DEF ServerInv, Subscribe, CompletedIsDone
<1>3. "completed" \notin Keys(<<>>)
  BY DEF Keys
<1>4. CompletionIsTrue'
  BY <1>3 DEF ServerInv, Types, Subscribe, CompletionIsTrue
<1> QED BY <1>1, <1>2, <1>4 DEF ServerInv

LEMMA ReplayStatusIsTrue ==
  ASSUME ServerInv, NEW s \in Subscriber, ReplayStatus(s) PROVE ServerInv'
<1>1. PICK t \in replay[s].task :
        replay' = [replay EXCEPT ![s].pc = "artifacts", ![s].frames = Append(@, status[t])]
  BY DEF ReplayStatus
<1>2. /\ t \in Task /\ replay[s] \in Replay /\ replay[s].frames \in Seq(State \cup {"artifact"})
      /\ status[t] \in State
  BY <1>1 DEF ServerInv, Types, Replay
<1>3. /\ Append(replay[s].frames, status[t]) \in Seq(State \cup {"artifact"})
      /\ Keys(Append(replay[s].frames, status[t])) = Keys(replay[s].frames) \cup {status[t]}
  BY <1>2, KeysOfAppend
<1>4. Types' /\ CompletedIsDone'
  BY <1>1, <1>2, <1>3 DEF ServerInv, ReplayStatus, Types, Replay, CompletedIsDone
<1>5. /\ replay'[s].task = replay[s].task
      /\ replay'[s].frames = Append(replay[s].frames, status[t])
      /\ \A r \in Subscriber \ {s} : replay'[r] = replay[r]
  BY <1>1, <1>2 DEF ServerInv, Types, Replay
<1>6. ASSUME NEW u \in Task, status[u] # "completed", NEW r \in Subscriber,
             replay'[r].task = {u}
      PROVE  "completed" \notin Keys(replay'[r].frames)
  <2>1. CASE r = s
    <3>1. u = t /\ replay[s].task = {u}
      BY <1>1, <1>5, <1>6, <2>1
    <3>2. "completed" \notin Keys(replay[s].frames)
      BY <1>6, <3>1 DEF ServerInv, CompletionIsTrue
    <3> QED BY <1>3, <1>5, <1>6, <2>1, <3>1, <3>2
  <2>2. CASE r # s
    BY <1>5, <1>6, <2>2 DEF ServerInv, CompletionIsTrue
  <2> QED BY <2>1, <2>2
<1>7. CompletionIsTrue'
  BY <1>6 DEF ServerInv, ReplayStatus, CompletionIsTrue
<1> QED BY <1>4, <1>7 DEF ServerInv

LEMMA ReplayArtifactsIsTrue ==
  ASSUME ServerInv, NEW s \in Subscriber, ReplayArtifacts(s) PROVE ServerInv'
<1>1. PICK t \in replay[s].task :
        replay' = [replay EXCEPT ![s].pc = "end",
                     ![s].frames = IF answer[t] THEN Append(@, "artifact") ELSE @]
  BY DEF ReplayArtifacts
<1>2. replay[s] \in Replay /\ replay[s].frames \in Seq(State \cup {"artifact"})
  BY DEF ServerInv, Types, Replay
<1>3. /\ Append(replay[s].frames, "artifact") \in Seq(State \cup {"artifact"})
      /\ Keys(Append(replay[s].frames, "artifact")) = Keys(replay[s].frames) \cup {"artifact"}
  BY <1>2, KeysOfAppend
<1>4. Types' /\ CompletedIsDone'
  BY <1>1, <1>2, <1>3 DEF ServerInv, ReplayArtifacts, Types, Replay, CompletedIsDone
<1>5. /\ replay'[s].task = replay[s].task
      /\ "completed" \in Keys(replay'[s].frames) => "completed" \in Keys(replay[s].frames)
      /\ \A r \in Subscriber \ {s} : replay'[r] = replay[r]
  BY <1>1, <1>2, <1>3 DEF ServerInv, Types, Replay
<1>6. CompletionIsTrue'
  BY <1>5, ZenonT(60) DEF ServerInv, ReplayArtifacts, CompletionIsTrue
<1> QED BY <1>4, <1>6 DEF ServerInv

LEMMA ServerStep == ASSUME ServerInv, [Next]_vars PROVE ServerInv'
<1>1. ASSUME NEW t \in Task, GetTask(t) PROVE ServerInv'
  BY <1>1 DEF ServerInv, Types, GetTask, CompletedIsDone, CompletionIsTrue
<1>2. CASE UNCHANGED vars
  BY <1>2 DEF ServerInv, Types, vars, CompletedIsDone, CompletionIsTrue
<1> QED
  BY <1>1, <1>2, AcceptIsTrue, StartIsTrue, AgentEventIsTrue, FinishIsTrue, FailIsTrue,
     CancelTaskIsTrue, SubscribeIsTrue, ReplayStatusIsTrue, ReplayArtifactsIsTrue
  DEF Next, Run, Client

\* put and get keep the store a list of tasks.
LEMMA StoreOfTasks ==
  ASSUME NEW T, NEW s \in Seq(T), NEW t \in T, NEW max \in Nat
  PROVE  Put(s, t, max) \in Seq(T) /\ Get(s, t) \in Seq(T)
<1>1. ASSUME t \in Keys(s) PROVE MoveToEnd(s, t) \in Seq(T)
  <2> DEFINE k == Position(s, t)
  <2>1. MoveToEnd(s, t) = [i \in 1..Len(s) |-> IF i = Len(s) THEN t
                                              ELSE IF i < k THEN s[i] ELSE s[i + 1]]
    BY DEF MoveToEnd
  <2> HIDE DEF k
  <2>2. \A i \in 1..Len(s) : (IF i = Len(s) THEN t ELSE IF i < k THEN s[i] ELSE s[i + 1]) \in T
    OBVIOUS
  <2>3. Len(s) \in Nat
    OBVIOUS
  <2> QED BY <2>1, <2>2, <2>3
<1>2. ASSUME NEW z \in Seq(T) PROVE Trim(z, max) \in Seq(T)
  <2>1. CASE Len(z) <= max
    BY <2>1 DEF Trim
  <2>2. CASE ~ (Len(z) <= max)
    <3>1. Len(z) - max + 1 \in Nat /\ 1 <= Len(z) - max + 1 /\ Len(z) \in Nat
      BY <2>2
    <3>2. SubSeq(z, Len(z) - max + 1, Len(z)) \in Seq(T)
      BY <3>1
    <3> QED BY <2>2, <3>2 DEF Trim
  <2> QED BY <2>1, <2>2
<1>3. Append(s, t) \in Seq(T)
  OBVIOUS
<1> QED BY <1>1, <1>2, <1>3 DEF Put, Get

LEMMA StoreStep ==
  ASSUME ServerAssumption, ServerInv, StoreTypes, [Next]_vars
  PROVE  StoreTypes'
<1>1. MaxTasks \in Nat /\ store \in Seq(Task)
  BY DEF ServerAssumption, StoreTypes
<1>2. \A t \in Task : Put(store, t, MaxTasks) \in Seq(Task) /\ Get(store, t) \in Seq(Task)
  BY <1>1, StoreOfTasks
<1>3. ASSUME NEW t \in Task, (\E m \in {"send", "stream"} : Accept(t, m)) \/ Fail(t)
      PROVE  StoreTypes'
  BY <1>2, <1>3 DEF StoreTypes, Accept, Fail, SetStatus, StorePut
<1>4. ASSUME NEW t \in Task, Run(t) PROVE StoreTypes'
  BY <1>2, <1>4 DEF StoreTypes, Run, Start, AgentEvent, Finish, SetStatus, StorePut
<1>5. ASSUME NEW t \in Task, Client(t) PROVE StoreTypes'
  BY <1>2, <1>5 DEF StoreTypes, Client, GetTask, CancelTask, Subscribe, SetStatus, StorePut
<1>6. ASSUME NEW s \in Subscriber, ReplayStatus(s) \/ ReplayArtifacts(s) PROVE StoreTypes'
  BY <1>6 DEF StoreTypes, ReplayStatus, ReplayArtifacts
<1>7. CASE UNCHANGED vars
  BY <1>7 DEF vars, StoreTypes
<1> QED BY <1>3, <1>4, <1>5, <1>6, <1>7 DEF Next

LEMMA ServerLift == MCSpec => Spec
<1>1. MCInit => Init
  BY DEF MCInit
<1>2. [MCNext]_allVars => [Next]_vars
  BY DEF MCNext, ServerNext, TasksNext, PushNext, ClientNext, allVars, serverVars, vars
<1> QED BY <1>1, <1>2, PTL DEF MCSpec, Spec

LEMMA ServerAlways == Spec => [](ServerInv /\ StoreTypes)
<1>0. ServerAssumption
  BY A2AAssumption
<1>1. Init => ServerInv /\ StoreTypes
  BY ServerInit DEF Init, StoreTypes
<1>2. ServerInv /\ StoreTypes /\ [Next]_vars => (ServerInv /\ StoreTypes)'
  BY <1>0, ServerStep, StoreStep
<1> QED BY <1>1, <1>2, PTL DEF Spec

\* Whoever has been told that a task is COMPLETED - the creator by its last
\* frame, a subscriber by the first frame of its replay - was told the truth for
\* good, whatever is canceled, evicted or lost meanwhile (a2a/server.py,
\* _stream_task, _handle_cancel_task and _replay_task_stream).
THEOREM ToldTheTruth == MCSpec => []CompletionIsTrue
<1>1. ServerInv /\ StoreTypes => CompletionIsTrue
  BY DEF ServerInv
<1> QED BY <1>1, ServerAlways, ServerLift, PTL

(***************************************************************************)
(* The task store and a client that pages through it.                      *)
(***************************************************************************)
\* The tasks of z that stand in s stand in the same order in both, but for x.
KeepsOrder(s, z, x) ==
  \A i, j \in 1..Len(s) :
    j <= i /\ s[j] # x /\ s[i] \in Tasks!Keys(z) /\ s[j] \in Tasks!Keys(z)
      => \E a, b \in 1..Len(z) : b <= a /\ z[a] = s[i] /\ z[b] = s[j]

OneOfEach(s) == s \in Seq(StoreTask) /\ Tasks!NoDuplicates(s)

LEMMA PositionIsThere ==
  ASSUME NEW s, OneOfEach(s), NEW t \in Tasks!Keys(s)
  PROVE  Tasks!Position(s, t) \in 1..Len(s) /\ s[Tasks!Position(s, t)] = t
BY DEF Tasks!Keys, Tasks!Position

LEMMA EndKeepsOrder ==
  ASSUME NEW s, OneOfEach(s), NEW t \in Tasks!Keys(s)
  PROVE  /\ OneOfEach(Tasks!MoveToEnd(s, t)) /\ Tasks!Keys(Tasks!MoveToEnd(s, t)) = Tasks!Keys(s)
         /\ KeepsOrder(s, Tasks!MoveToEnd(s, t), t)
<1> DEFINE k == Tasks!Position(s, t)
           z == Tasks!MoveToEnd(s, t)
<1>1. k \in 1..Len(s) /\ s[k] = t /\ s \in Seq(StoreTask) /\ Len(s) \in Nat
  BY PositionIsThere DEF OneOfEach
<1>2. z = [i \in 1..Len(s) |-> IF i = Len(s) THEN t ELSE IF i < k THEN s[i] ELSE s[i + 1]]
  BY DEF Tasks!MoveToEnd
<1> HIDE DEF k, z
<1>3. z \in Seq(StoreTask) /\ Len(z) = Len(s)
  <2>1. \A i \in 1..Len(s) : z[i] \in StoreTask
    BY <1>1, <1>2
  <2> QED BY <1>1, <1>2, <2>1
<1>4. z[Len(s)] = t
  BY <1>1, <1>2
<1>5. \A i \in 1..Len(s) : i < k => z[i] = s[i] /\ i < Len(s)
  BY <1>1, <1>2
<1>6. \A i \in 1..Len(s) : i > k => i - 1 \in 1..Len(s) /\ z[i - 1] = s[i]
  BY <1>1, <1>2
<1>7. Tasks!Keys(z) = Tasks!Keys(s)
  <2>1. ASSUME NEW i \in 1..Len(s) PROVE z[i] \in Tasks!Keys(s)
    BY <1>1, <1>2 DEF Tasks!Keys
  <2>2. ASSUME NEW i \in 1..Len(s) PROVE s[i] \in Tasks!Keys(z)
    <3>1. CASE i = k
      BY <3>1, <1>1, <1>3, <1>4 DEF Tasks!Keys
    <3>2. CASE i < k
      BY <3>2, <1>1, <1>3, <1>5 DEF Tasks!Keys
    <3>3. CASE i > k
      BY <3>3, <1>1, <1>3, <1>6 DEF Tasks!Keys
    <3> QED BY <3>1, <3>2, <3>3, <1>1
  <2> QED BY <2>1, <2>2, <1>3 DEF Tasks!Keys
<1>8. Tasks!NoDuplicates(z)
  <2>1. Tasks!NoDuplicates(s)
    BY DEF OneOfEach
  <2>2. SUFFICES ASSUME NEW i \in 1..Len(s), NEW j \in 1..Len(s), z[i] = z[j], i < j PROVE FALSE
    BY <1>1, <1>3 DEF Tasks!NoDuplicates
  <2>3. CASE j = Len(s)
    BY <2>1, <2>2, <2>3, <1>1, <1>2 DEF Tasks!NoDuplicates
  <2>4. CASE j # Len(s)
    BY <2>1, <2>2, <2>4, <1>1, <1>2 DEF Tasks!NoDuplicates
  <2> QED BY <2>3, <2>4
<1>9. KeepsOrder(s, z, t)
  <2> SUFFICES ASSUME NEW i \in 1..Len(s), NEW j \in 1..Len(s), j <= i, s[j] # t
               PROVE  \E a, b \in 1..Len(z) : b <= a /\ z[a] = s[i] /\ z[b] = s[j]
    BY DEF KeepsOrder
  <2>1. j # k
    BY <1>1
  <2>2. CASE i = k
    BY <2>1, <2>2, <1>1, <1>3, <1>4, <1>5
  <2>3. CASE i < k
    BY <2>1, <2>3, <1>1, <1>3, <1>5
  <2>4. CASE i > k /\ j < k
    BY <2>1, <2>4, <1>1, <1>3, <1>5, <1>6
  <2>5. CASE i > k /\ j > k
    BY <2>1, <2>5, <1>1, <1>3, <1>5, <1>6
  <2> QED BY <2>1, <2>2, <2>3, <2>4, <2>5, <1>1
<1> QED BY <1>3, <1>7, <1>8, <1>9 DEF z, OneOfEach

LEMMA AppendKeepsOrder ==
  ASSUME NEW s, OneOfEach(s), NEW t \in StoreTask, t \notin Tasks!Keys(s)
  PROVE  /\ OneOfEach(Append(s, t)) /\ Tasks!Keys(Append(s, t)) = Tasks!Keys(s) \cup {t}
         /\ KeepsOrder(s, Append(s, t), t)
<1> DEFINE z == Append(s, t)
<1>1. z \in Seq(StoreTask) /\ Len(z) = Len(s) + 1 /\ z[Len(s) + 1] = t
      /\ (\A i \in 1..Len(s) : z[i] = s[i]) /\ s \in Seq(StoreTask) /\ Len(s) \in Nat
  BY DEF OneOfEach
<1> HIDE DEF z
<1>2. \A i \in 1..Len(s) : i \in 1..Len(z)
  BY <1>1
<1>3. Tasks!Keys(z) = Tasks!Keys(s) \cup {t}
  BY <1>1, <1>2 DEF Tasks!Keys
<1>4. Tasks!NoDuplicates(z)
  BY <1>1 DEF Tasks!NoDuplicates, OneOfEach, Tasks!Keys
<1>5. KeepsOrder(s, z, t)
  BY <1>1, <1>2 DEF KeepsOrder
<1> QED BY <1>1, <1>3, <1>4, <1>5 DEF z, OneOfEach

LEMMA TrimKeepsOrder ==
  ASSUME NEW s, OneOfEach(s), NEW max \in Nat, NEW x
  PROVE  /\ OneOfEach(Tasks!Trim(s, max)) /\ Tasks!Keys(Tasks!Trim(s, max)) \subseteq Tasks!Keys(s)
         /\ KeepsOrder(s, Tasks!Trim(s, max), x)
<1>1. s \in Seq(StoreTask) /\ Len(s) \in Nat
  BY DEF OneOfEach
<1>2. CASE Len(s) <= max
  BY <1>2, <1>1 DEF Tasks!Trim, KeepsOrder, Tasks!Keys
<1>3. CASE Len(s) > max
  <2> DEFINE d == Len(s) - max
             z == SubSeq(s, d + 1, Len(s))
  <2>1. Tasks!Trim(s, max) = z
    BY <1>1, <1>3 DEF Tasks!Trim
  <2>2. d \in Nat /\ Len(s) = d + max
    BY <1>1, <1>3
  <2>3. z \in Seq(StoreTask) /\ Len(z) = max /\ \A i \in 1..max : z[i] = s[i + d] /\ i + d \in 1..Len(s)
    BY <1>1, <2>2
  <2> HIDE DEF d, z
  <2>4. Tasks!Keys(z) \subseteq Tasks!Keys(s)
    BY <2>3 DEF Tasks!Keys
  <2>5. Tasks!NoDuplicates(z)
    BY <2>2, <2>3 DEF Tasks!NoDuplicates, OneOfEach
  <2>6. ASSUME NEW i \in 1..Len(s), s[i] \in Tasks!Keys(z)
        PROVE  i - d \in 1..Len(z) /\ z[i - d] = s[i]
    <3>1. PICK a \in 1..Len(z) : z[a] = s[i]
      BY <2>6 DEF Tasks!Keys
    <3>2. a + d = i
      BY <3>1, <2>2, <2>3, SMTT(30) DEF Tasks!NoDuplicates, OneOfEach
    <3>3. i - d = a
      BY <3>2, <2>2
    <3> QED BY <3>1, <3>3
  <2>7. KeepsOrder(s, z, x)
    <3> SUFFICES ASSUME NEW i \in 1..Len(s), NEW j \in 1..Len(s), j <= i,
                        s[i] \in Tasks!Keys(z), s[j] \in Tasks!Keys(z)
                 PROVE  \E a, b \in 1..Len(z) : b <= a /\ z[a] = s[i] /\ z[b] = s[j]
      BY DEF KeepsOrder
    <3>1. j - d <= i - d
      BY <2>2
    <3> QED BY <3>1, <2>6
  <2> QED BY <2>1, <2>3, <2>4, <2>5, <2>7 DEF OneOfEach
<1> QED BY <1>1, <1>2, <1>3

LEMMA PutKeepsOrder ==
  ASSUME NEW s, OneOfEach(s), NEW t \in StoreTask, NEW max \in Nat
  PROVE  /\ OneOfEach(Tasks!Put(s, t, max)) /\ Tasks!Keys(Tasks!Put(s, t, max)) \subseteq Tasks!Keys(s) \cup {t}
         /\ KeepsOrder(s, Tasks!Put(s, t, max), t)
<1> DEFINE y == IF t \in Tasks!Keys(s) THEN Tasks!MoveToEnd(s, t) ELSE Append(s, t)
           z == Tasks!Trim(y, max)
<1>1. OneOfEach(y) /\ Tasks!Keys(y) = Tasks!Keys(s) \cup {t} /\ KeepsOrder(s, y, t)
  BY EndKeepsOrder, AppendKeepsOrder
<1>2. Tasks!Put(s, t, max) = z
  BY DEF Tasks!Put
<1> HIDE DEF y
<1>3. OneOfEach(z) /\ Tasks!Keys(z) \subseteq Tasks!Keys(y) /\ KeepsOrder(y, z, t)
  BY <1>1, TrimKeepsOrder
<1> HIDE DEF z
<1>4. ASSUME NEW i \in 1..Len(s), NEW j \in 1..Len(s),
             j <= i, s[j] # t, s[i] \in Tasks!Keys(z), s[j] \in Tasks!Keys(z)
      PROVE  \E a, b \in 1..Len(z) : b <= a /\ z[a] = s[i] /\ z[b] = s[j]
  <2>1. s[i] \in Tasks!Keys(y) /\ s[j] \in Tasks!Keys(y)
    BY <1>3, <1>4
  <2>2. PICK c, d \in 1..Len(y) : d <= c /\ y[c] = s[i] /\ y[d] = s[j]
    BY <1>1, <1>4, <2>1 DEF KeepsOrder
  <2>3. y[d] # t /\ y[c] \in Tasks!Keys(z) /\ y[d] \in Tasks!Keys(z)
    BY <1>4, <2>2
  <2>4. \E a, b \in 1..Len(z) : b <= a /\ z[a] = y[c] /\ z[b] = y[d]
    BY <1>3, <2>2, <2>3 DEF KeepsOrder
  <2> QED BY <2>2, <2>4
<1>5. KeepsOrder(s, z, t)
  BY <1>4 DEF KeepsOrder
<1> QED BY <1>1, <1>2, <1>3, <1>5

LEMMA GetKeepsOrder ==
  ASSUME NEW s, OneOfEach(s), NEW t \in Tasks!Keys(s)
  PROVE  /\ OneOfEach(Tasks!Get(s, t)) /\ Tasks!Keys(Tasks!Get(s, t)) = Tasks!Keys(s)
         /\ KeepsOrder(s, Tasks!Get(s, t), t)
BY EndKeepsOrder DEF Tasks!Get

LEMMA DeleteKeepsOrder ==
  ASSUME NEW s, OneOfEach(s), NEW t \in Tasks!Keys(s)
  PROVE  /\ OneOfEach(Tasks!Delete(s, t)) /\ Tasks!Keys(Tasks!Delete(s, t)) = Tasks!Keys(s) \ {t}
         /\ KeepsOrder(s, Tasks!Delete(s, t), t)
<1> DEFINE k == Tasks!Position(s, t)
           z == Tasks!Delete(s, t)
<1>1. k \in 1..Len(s) /\ s[k] = t /\ s \in Seq(StoreTask) /\ Len(s) \in Nat
  BY PositionIsThere DEF OneOfEach
<1>2. z = [i \in 1..(Len(s) - 1) |-> IF i < k THEN s[i] ELSE s[i + 1]]
  BY DEF Tasks!Delete
<1> HIDE DEF k, z
<1>3. z \in Seq(StoreTask) /\ Len(z) = Len(s) - 1
  <2>1. \A i \in 1..(Len(s) - 1) : z[i] \in StoreTask
    BY <1>1, <1>2
  <2>2. Len(s) - 1 \in Nat
    BY <1>1
  <2> QED BY <1>1, <1>2, <2>1, <2>2
<1>4. Tasks!NoDuplicates(s)
  BY DEF OneOfEach
<1>5. \A i \in 1..Len(s) : i < k => i \in 1..Len(z) /\ z[i] = s[i]
  BY <1>1, <1>2, <1>3
<1>6. \A i \in 1..Len(s) : i > k => i - 1 \in 1..Len(z) /\ z[i - 1] = s[i]
  BY <1>1, <1>2, <1>3
<1>7. Tasks!NoDuplicates(z)
  <2>1. SUFFICES ASSUME NEW i \in 1..(Len(s) - 1), NEW j \in 1..(Len(s) - 1), z[i] = z[j], i < j
                 PROVE FALSE
    BY <1>1, <1>3 DEF Tasks!NoDuplicates
  <2> QED BY <2>1, <1>1, <1>2, <1>4 DEF Tasks!NoDuplicates
<1>8. Tasks!Keys(z) = Tasks!Keys(s) \ {t}
  <2>1. ASSUME NEW i \in 1..Len(z) PROVE z[i] \in Tasks!Keys(s) /\ z[i] # t
    BY <1>1, <1>2, <1>3, <1>4 DEF Tasks!Keys, Tasks!NoDuplicates
  <2>2. ASSUME NEW i \in 1..Len(s), s[i] # t PROVE s[i] \in Tasks!Keys(z)
    <3>2. CASE i < k
      BY <3>2, <1>1, <1>3, <1>5 DEF Tasks!Keys
    <3>3. CASE i > k
      BY <3>3, <1>1, <1>3, <1>6 DEF Tasks!Keys
    <3> QED BY <3>2, <3>3, <2>2, <1>1
  <2> QED BY <2>1, <2>2 DEF Tasks!Keys
<1>9. KeepsOrder(s, z, t)
  <2> SUFFICES ASSUME NEW i \in 1..Len(s), NEW j \in 1..Len(s), j <= i, s[j] # t, s[i] # t
               PROVE  \E a, b \in 1..Len(z) : b <= a /\ z[a] = s[i] /\ z[b] = s[j]
    BY <1>8 DEF KeepsOrder
  <2>1. j # k /\ i # k
    BY <1>1
  <2>3. CASE i < k
    BY <2>1, <2>3, <1>1, <1>5
  <2>4. CASE i > k /\ j < k
    BY <2>1, <2>4, <1>1, <1>5, <1>6
  <2>5. CASE i > k /\ j > k
    BY <2>1, <2>5, <1>1, <1>6
  <2> QED BY <2>1, <2>3, <2>4, <2>5, <1>1
<1> QED BY <1>3, <1>7, <1>8, <1>9 DEF z, OneOfEach

LEMMA KeysAreFinite ==
  ASSUME NEW s, OneOfEach(s)
  PROVE  IsFiniteSet(Tasks!Keys(s)) /\ Tasks!Keys(s) \subseteq StoreTask
<1> DEFINE f == [i \in 1..Len(s) |-> s[i]]
<1>1. Len(s) \in Nat
  BY DEF OneOfEach
<1>2. IsFiniteSet(1..Len(s))
  BY <1>1, FS_Interval
<1>3. f \in Surjection(1..Len(s), Tasks!Keys(s))
  BY DEF Surjection, Tasks!Keys
<1>4. IsFiniteSet(Tasks!Keys(s))
  BY <1>2, <1>3, FS_Surjection
<1> QED BY <1>4 DEF Tasks!Keys, OneOfEach

LEMMA ListedUpToIsFinite ==
  ASSUME NEW s, OneOfEach(s), NEW M, NEW t
  PROVE  /\ IsFiniteSet(Tasks!Listed(s, M)) /\ Tasks!ListedUpTo(s, M, t) \subseteq Tasks!Listed(s, M)
         /\ Tasks!Cardinality(Tasks!ListedUpTo(s, M, t)) \in Nat /\ Tasks!Cardinality(Tasks!Listed(s, M)) \in Nat
         /\ Tasks!Cardinality(Tasks!ListedUpTo(s, M, t)) <= Tasks!Cardinality(Tasks!Listed(s, M))
         /\ t \in Tasks!Listed(s, M) => Tasks!Cardinality(Tasks!ListedUpTo(s, M, t)) > 0
<1>1. IsFiniteSet(Tasks!Listed(s, M))
  BY KeysAreFinite, FS_Subset DEF Tasks!Listed
<1>2. Tasks!ListedUpTo(s, M, t) \subseteq Tasks!Listed(s, M)
  BY DEF Tasks!ListedUpTo, Tasks!Listed, Tasks!Keys
<1>3. IsFiniteSet(Tasks!ListedUpTo(s, M, t)) /\ Tasks!Cardinality(Tasks!ListedUpTo(s, M, t)) <= Tasks!Cardinality(Tasks!Listed(s, M))
  BY <1>1, <1>2, FS_Subset, SameOperators
<1>4. Tasks!Cardinality(Tasks!ListedUpTo(s, M, t)) \in Nat /\ Tasks!Cardinality(Tasks!Listed(s, M)) \in Nat
  BY <1>1, <1>3, FS_CardinalityType, SameOperators
<1>5. ASSUME t \in Tasks!Listed(s, M) PROVE Tasks!Cardinality(Tasks!ListedUpTo(s, M, t)) # 0
  <2>1. t \in Tasks!ListedUpTo(s, M, t)
    BY <1>5 DEF Tasks!ListedUpTo, Tasks!Listed, Tasks!Keys, OneOfEach
  <2> QED BY <2>1, <1>3, FS_EmptySet, SameOperators
<1> QED BY <1>1, <1>2, <1>3, <1>4, <1>5

\* What other calls do to a list leaves at least as many tasks up to one that
\* they did not use, unless a listed task went other than from its end.
LEMMA ListedUpToGrows ==
  ASSUME NEW s, OneOfEach(s), NEW z, OneOfEach(z), NEW M, NEW N, NEW x, NEW t,
         KeepsOrder(s, z, x), t # x, t \in Tasks!Keys(s), t \in Tasks!Listed(z, N),
         \A v \in Tasks!Listed(s, M) \ Tasks!Listed(z, N) : v = s[1]
  PROVE  Tasks!Cardinality(Tasks!ListedUpTo(s, M, t)) <= Tasks!Cardinality(Tasks!ListedUpTo(z, N, t))
<1>1. ASSUME NEW u \in Tasks!ListedUpTo(s, M, t) PROVE u \in Tasks!ListedUpTo(z, N, t)
  <2>1. PICK i, j \in 1..Len(s) : s[i] = u /\ s[j] = t /\ j <= i
    BY <1>1 DEF Tasks!ListedUpTo
  <2>2. u \in Tasks!Listed(s, M) /\ Len(s) \in Nat /\ 1 \in 1..Len(s)
    BY <1>1, <2>1 DEF Tasks!ListedUpTo, Tasks!Listed, Tasks!Keys, OneOfEach
  <2>3. u \in Tasks!Listed(z, N)
    <3> SUFFICES ASSUME u \notin Tasks!Listed(z, N) PROVE FALSE
      OBVIOUS
    <3>1. u = s[1]
      BY <2>2
    <3>2. i = 1
      BY <3>1, <2>1, <2>2 DEF OneOfEach, Tasks!NoDuplicates
    <3>3. j = 1
      BY <3>2, <2>1
    <3> QED BY <3>2, <3>3, <2>1
  <2>4. \E a, b \in 1..Len(z) : b <= a /\ z[a] = s[i] /\ z[b] = s[j]
    BY <2>1, <2>3 DEF KeepsOrder, Tasks!Listed
  <2> QED BY <2>1, <2>3, <2>4 DEF Tasks!ListedUpTo, Tasks!Listed
<1>2. IsFiniteSet(Tasks!ListedUpTo(z, N, t))
  BY ListedUpToIsFinite, FS_Subset
<1> QED BY <1>1, <1>2, FS_Subset, SameOperators

Wanted(f, o) == {t \in StoreTask : Tasks!Matching(f, o, t)}

\* While a client pages, what was there all along is on the list; and unless a
\* listed task was deleted or stopped matching, each such task that the client
\* has not seen stands beyond its cursor.
StillToCome ==
  LET wanted == Wanted(pager.filter, open)
  IN /\ pager.pc = "paging" =>
          /\ pager.steady \subseteq Tasks!Listed(lru, wanted)
          /\ ~pager.shrunk => \A t \in pager.steady \ pager.seen :
               Tasks!Cardinality(Tasks!ListedUpTo(lru, wanted, t)) > pager.cursor
     /\ pager.pc = "finished" /\ ~pager.shrunk => pager.steady \subseteq pager.seen

PagerInv == Tasks!TypeOK /\ Tasks!NoDuplicates(lru) /\ StillToCome

LEMMA TasksInit ==
  ASSUME Tasks!TaskStoreAssumption, Tasks!Init
  PROVE  PagerInv
BY DEF Tasks!Init, PagerInv, Tasks!TypeOK, Tasks!NoDuplicates, StillToCome, Tasks!Idle, Tasks!Filter, Tasks!Keys

\* A call that used x, and observed it.
LEMMA ObservedStaysToCome ==
  ASSUME PagerInv, NEW x \in StoreTask, OneOfEach(lru'), KeepsOrder(lru, lru', x),
         Tasks!Keys(lru') \subseteq Tasks!Keys(lru) \cup {x}, Tasks!Observe(x, lru', open')
  PROVE  /\ StillToCome'
         /\ pager' \in [pc : {"idle", "paging", "finished"}, filter : Tasks!Filter, cursor : Nat,
                        seen : SUBSET StoreTask, steady : SUBSET StoreTask, shrunk : BOOLEAN]
<1>1. CASE pager.pc # "paging"
  BY <1>1 DEF Tasks!Observe, PagerInv, Tasks!TypeOK, StillToCome
<1>2. CASE pager.pc = "paging"
  <2> DEFINE f == pager.filter
             matching == {u \in Tasks!Keys(lru') : Tasks!Matching(f, open', u)}
             left == {u \in Tasks!Keys(lru) \ matching : Tasks!Matching(f, open, u)}
             evicted == IF Tasks!Keys(lru) \subseteq Tasks!Keys(lru') THEN {} ELSE {lru[1]}
             gone == \E u \in left : u \notin evicted
             M == Wanted(f, open)
             N == Wanted(f, open')
  <2>0. pager' = [pager EXCEPT !.steady = (@ \cap matching) \ {x}, !.shrunk = @ \/ gone]
    BY <1>2 DEF Tasks!Observe
  <2>1. pager \in [pc : {"idle", "paging", "finished"}, filter : Tasks!Filter, cursor : Nat,
                   seen : SUBSET StoreTask, steady : SUBSET StoreTask, shrunk : BOOLEAN]
    BY DEF PagerInv, Tasks!TypeOK
  <2>2. OneOfEach(lru) /\ Tasks!Keys(lru) \subseteq StoreTask /\ Tasks!Keys(lru') \subseteq StoreTask
    BY KeysAreFinite DEF PagerInv, Tasks!TypeOK, OneOfEach
  <2>3. matching = Tasks!Listed(lru', N) /\ left = Tasks!Listed(lru, M) \ matching
    BY <2>2 DEF Wanted, Tasks!Listed
  <2>4. gone \in BOOLEAN
    OBVIOUS
  <2> HIDE DEF gone
  <2>5. /\ pager'.pc = pager.pc /\ pager'.filter = f /\ pager'.cursor = pager.cursor
        /\ pager'.seen = pager.seen /\ pager'.steady = (pager.steady \cap matching) \ {x}
    BY <2>0, <2>1
  <2>6. pager'.shrunk = (pager.shrunk \/ gone)
    BY <2>0, <2>1
  <2>7. pager' \in [pc : {"idle", "paging", "finished"}, filter : Tasks!Filter, cursor : Nat,
                    seen : SUBSET StoreTask, steady : SUBSET StoreTask, shrunk : BOOLEAN]
    BY <2>0, <2>1, <2>4
  <2>8. ASSUME ~pager'.shrunk, NEW t \in pager'.steady \ pager'.seen
        PROVE  Tasks!Cardinality(Tasks!ListedUpTo(lru', N, t)) > pager'.cursor
    <3>1. ~pager.shrunk /\ ~gone
      BY <2>6, <2>8, Zenon
    <3>2. t \in pager.steady \ pager.seen /\ t # x /\ t \in matching
      BY <2>5, <2>8
    <3>3. Tasks!Cardinality(Tasks!ListedUpTo(lru, M, t)) > pager.cursor /\ t \in Tasks!Keys(lru)
      BY <1>2, <3>1, <3>2 DEF PagerInv, StillToCome, Tasks!Listed
    <3>4. \A v \in Tasks!Listed(lru, M) \ Tasks!Listed(lru', N) : v = lru[1]
      BY <3>1, <2>3 DEF gone
    <3>5. Tasks!Cardinality(Tasks!ListedUpTo(lru, M, t)) <= Tasks!Cardinality(Tasks!ListedUpTo(lru', N, t))
      BY <3>2, <3>3, <3>4, <2>2, <2>3, ListedUpToGrows
    <3>6. /\ Tasks!Cardinality(Tasks!ListedUpTo(lru, M, t)) \in Nat
          /\ Tasks!Cardinality(Tasks!ListedUpTo(lru', N, t)) \in Nat /\ pager.cursor \in Nat
      BY <2>1, <2>2, ListedUpToIsFinite
    <3> QED BY <3>3, <3>5, <3>6, <2>5
  <2>9. pager'.steady \subseteq Tasks!Listed(lru', N)
    BY <2>3, <2>5
  <2> QED BY <1>2, <2>5, <2>7, <2>8, <2>9 DEF StillToCome
<1> QED BY <1>1, <1>2

LEMMA HandlerSteps ==
  ASSUME Tasks!TaskStoreAssumption, PagerInv, NEW t \in StoreTask,
         Tasks!Create(t) \/ Tasks!Update(t) \/ Tasks!Lookup(t) \/ Tasks!Remove(t)
  PROVE  PagerInv'
<1>1. OneOfEach(lru) /\ Tasks!Keys(lru) \subseteq made /\ made \subseteq StoreTask /\ open \subseteq made
  BY DEF PagerInv, Tasks!TypeOK, OneOfEach
<1>2. StoreCapacity \in Nat
  BY DEF Tasks!TaskStoreAssumption
<1>3. CASE Tasks!Create(t)
  <2>1. /\ OneOfEach(lru') /\ KeepsOrder(lru, lru', t)
        /\ Tasks!Keys(lru') \subseteq Tasks!Keys(lru) \cup {t}
    BY <1>1, <1>2, <1>3, PutKeepsOrder DEF Tasks!Create
  <2>2. Tasks!Observe(t, lru', open') /\ made' = made \cup {t} /\ open' = open \cup {t}
    BY <1>3 DEF Tasks!Create
  <2> QED BY <1>1, <2>1, <2>2, ObservedStaysToCome DEF PagerInv, Tasks!TypeOK, OneOfEach
<1>4. CASE Tasks!Update(t)
  <2>1. /\ OneOfEach(lru') /\ KeepsOrder(lru, lru', t)
        /\ Tasks!Keys(lru') \subseteq Tasks!Keys(lru) \cup {t}
    BY <1>1, <1>2, <1>4, PutKeepsOrder DEF Tasks!Update
  <2>2. Tasks!Observe(t, lru', open') /\ made' = made /\ open' \subseteq open /\ t \in open
    BY <1>4 DEF Tasks!Update
  <2> QED BY <1>1, <2>1, <2>2, ObservedStaysToCome DEF PagerInv, Tasks!TypeOK, OneOfEach
<1>5. CASE Tasks!Lookup(t) /\ t \in Tasks!Keys(lru)
  <2>1. /\ OneOfEach(lru') /\ KeepsOrder(lru, lru', t) /\ Tasks!Keys(lru') = Tasks!Keys(lru)
    BY <1>1, <1>5, GetKeepsOrder DEF Tasks!Lookup
  <2>2. Tasks!Observe(t, lru', open') /\ made' = made /\ open' = open
    BY <1>5 DEF Tasks!Lookup
  <2> QED BY <1>1, <2>1, <2>2, ObservedStaysToCome DEF PagerInv, Tasks!TypeOK, OneOfEach
<1>6. CASE Tasks!Lookup(t) /\ t \notin Tasks!Keys(lru)
  <2>1. UNCHANGED Tasks!vars
    BY <1>6 DEF Tasks!Lookup, Tasks!Get, Tasks!vars
  <2> QED BY <2>1 DEF Tasks!vars, PagerInv, Tasks!TypeOK, StillToCome
<1>7. CASE Tasks!Remove(t)
  <2>1. t \in Tasks!Keys(lru) /\ OneOfEach(lru') /\ KeepsOrder(lru, lru', t)
        /\ Tasks!Keys(lru') = Tasks!Keys(lru) \ {t}
    BY <1>1, <1>7, DeleteKeepsOrder DEF Tasks!Remove
  <2>2. made' = made /\ open' = open
    BY <1>7 DEF Tasks!Remove
  <2>3. pager \in [pc : {"idle", "paging", "finished"}, filter : Tasks!Filter, cursor : Nat,
                   seen : SUBSET StoreTask, steady : SUBSET StoreTask, shrunk : BOOLEAN]
    BY DEF PagerInv, Tasks!TypeOK
  <2>4. CASE pager.pc # "paging"
    <3>1. pager' = pager
      BY <1>7, <2>4 DEF Tasks!Remove
    <3> QED BY <1>1, <2>1, <2>2, <2>3, <2>4, <3>1 DEF PagerInv, Tasks!TypeOK, OneOfEach, StillToCome
  <2>5. CASE pager.pc = "paging"
    <3> DEFINE gone == Tasks!Matching(pager.filter, open, t)
               M == Wanted(pager.filter, open)
    <3>1. pager' = [pager EXCEPT !.steady = @ \ {t}, !.shrunk = @ \/ gone]
      BY <1>7, <2>5 DEF Tasks!Remove
    <3>2. gone \in BOOLEAN
      BY DEF Tasks!Matching
    <3> HIDE DEF gone
    <3>3. /\ pager'.pc = pager.pc /\ pager'.filter = pager.filter /\ pager'.cursor = pager.cursor
          /\ pager'.seen = pager.seen /\ pager'.steady = pager.steady \ {t}
      BY <3>1, <2>3
    <3>4. pager'.shrunk = (pager.shrunk \/ gone)
      BY <3>1, <2>3
    <3>5. pager' \in [pc : {"idle", "paging", "finished"}, filter : Tasks!Filter, cursor : Nat,
                      seen : SUBSET StoreTask, steady : SUBSET StoreTask, shrunk : BOOLEAN]
      BY <3>1, <3>2, <2>3
    <3>6. pager.steady \subseteq Tasks!Listed(lru, M)
      BY <2>5 DEF PagerInv, StillToCome
    <3>7. pager'.steady \subseteq Tasks!Listed(lru', M)
      BY <3>3, <3>6, <2>1 DEF Tasks!Listed
    <3>8. ASSUME ~pager'.shrunk, NEW u \in pager'.steady \ pager'.seen
          PROVE  Tasks!Cardinality(Tasks!ListedUpTo(lru', M, u)) > pager'.cursor
      <4>1. ~pager.shrunk /\ ~gone
        BY <3>4, <3>8, Zenon
      <4>2. u \in pager.steady \ pager.seen /\ u # t
        BY <3>3, <3>8
      <4>3. Tasks!Cardinality(Tasks!ListedUpTo(lru, M, u)) > pager.cursor /\ u \in Tasks!Keys(lru)
        BY <2>5, <3>6, <4>1, <4>2 DEF PagerInv, StillToCome, Tasks!Listed
      <4>4. t \notin M
        BY <4>1 DEF gone, Wanted
      <4>5. Tasks!Listed(lru, M) \ Tasks!Listed(lru', M) = {}
        BY <4>4, <2>1 DEF Tasks!Listed
      <4>6. u \in Tasks!Listed(lru', M)
        BY <3>7, <3>8
      <4>7. Tasks!Cardinality(Tasks!ListedUpTo(lru, M, u)) <= Tasks!Cardinality(Tasks!ListedUpTo(lru', M, u))
        BY <4>2, <4>3, <4>5, <4>6, <1>1, <2>1, ListedUpToGrows
      <4>8. /\ Tasks!Cardinality(Tasks!ListedUpTo(lru, M, u)) \in Nat
            /\ Tasks!Cardinality(Tasks!ListedUpTo(lru', M, u)) \in Nat /\ pager.cursor \in Nat
        BY <1>1, <2>1, <2>3, ListedUpToIsFinite
      <4> QED BY <4>3, <4>7, <4>8, <3>3
    <3>9. StillToCome'
      BY <2>2, <2>5, <3>3, <3>7, <3>8 DEF StillToCome
    <3> QED BY <1>1, <2>1, <2>2, <3>5, <3>9 DEF PagerInv, Tasks!TypeOK, OneOfEach
  <2> QED BY <2>4, <2>5
<1> QED BY <1>3, <1>4, <1>5, <1>6, <1>7

LEMMA PageSteps ==
  ASSUME Tasks!TaskStoreAssumption, PagerInv, (\E f \in Tasks!Filter : Tasks!FirstPage(f)) \/ Tasks!NextPage
  PROVE  PagerInv'
<1>1. OneOfEach(lru) /\ Tasks!Keys(lru) \subseteq StoreTask /\ Limit \in Nat
  BY KeysAreFinite DEF PagerInv, Tasks!TypeOK, OneOfEach, Tasks!TaskStoreAssumption
<1>2. /\ lru' = lru /\ open' = open /\ made' = made
  BY DEF Tasks!FirstPage, Tasks!NextPage
<1>3. ASSUME NEW p \in [pc : {"idle", "paging", "finished"}, filter : Tasks!Filter, cursor : Nat,
                        seen : SUBSET StoreTask, steady : SUBSET StoreTask, shrunk : BOOLEAN],
             pager' = Tasks!PageAfter(p),
             p.steady \subseteq Tasks!Listed(lru, Wanted(p.filter, open)),
             ~p.shrunk => \A t \in p.steady \ p.seen :
               Tasks!Cardinality(Tasks!ListedUpTo(lru, Wanted(p.filter, open), t)) > p.cursor
      PROVE  PagerInv'
  <2> DEFINE M == Wanted(p.filter, open)
             last == Tasks!LastPage(lru, M, p.cursor, Limit)
             page == Tasks!Page(lru, M, p.cursor, Limit)
             end == Tasks!PageEnd(p.cursor, Limit)
  <2>1. pager' = [p EXCEPT !.pc = IF last THEN "finished" ELSE "paging",
                           !.cursor = end, !.seen = @ \cup page]
    BY <1>3 DEF Tasks!PageAfter, Wanted
  <2>2. end \in Nat /\ end >= p.cursor
    BY <1>1 DEF Tasks!PageEnd
  <2>3. page \subseteq StoreTask
    BY <1>1 DEF Tasks!Page, Tasks!Listed
  <2> HIDE DEF page, end, last
  <2>4. /\ pager'.pc = (IF last THEN "finished" ELSE "paging") /\ pager'.filter = p.filter
        /\ pager'.cursor = end /\ pager'.seen = p.seen \cup page
        /\ pager'.steady = p.steady /\ pager'.shrunk = p.shrunk
    BY <2>1
  <2>5. pager' \in [pc : {"idle", "paging", "finished"}, filter : Tasks!Filter, cursor : Nat,
                    seen : SUBSET StoreTask, steady : SUBSET StoreTask, shrunk : BOOLEAN]
    BY <2>1, <2>2, <2>3
  <2>6. ASSUME ~p.shrunk, NEW t \in p.steady \ pager'.seen
        PROVE  Tasks!Cardinality(Tasks!ListedUpTo(lru, M, t)) > end
    <3>1. t \in p.steady \ p.seen /\ t \notin page
      BY <2>4, <2>6
    <3>2. Tasks!Cardinality(Tasks!ListedUpTo(lru, M, t)) > p.cursor /\ t \in Tasks!Listed(lru, M)
      BY <1>3, <2>6, <3>1
    <3>3. Tasks!Cardinality(Tasks!ListedUpTo(lru, M, t)) \in Nat
      BY <1>1, ListedUpToIsFinite
    <3>4. Tasks!Cardinality(Tasks!ListedUpTo(lru, M, t)) \notin (p.cursor + 1)..end
      BY <3>1, <3>2 DEF page, Tasks!Page, end
    <3> QED BY <2>2, <3>2, <3>3, <3>4
  <2>7. ASSUME ~p.shrunk, last PROVE p.steady \subseteq pager'.seen
    <3> SUFFICES ASSUME NEW t \in p.steady \ pager'.seen PROVE FALSE
      OBVIOUS
    <3>1. Tasks!Cardinality(Tasks!ListedUpTo(lru, M, t)) > end
      BY <2>6, <2>7
    <3>2. end >= Tasks!Cardinality(Tasks!Listed(lru, M))
      BY <2>7 DEF last, Tasks!LastPage, end
    <3>3. /\ Tasks!Cardinality(Tasks!ListedUpTo(lru, M, t)) \in Nat /\ Tasks!Cardinality(Tasks!Listed(lru, M)) \in Nat
          /\ Tasks!Cardinality(Tasks!ListedUpTo(lru, M, t)) <= Tasks!Cardinality(Tasks!Listed(lru, M))
      BY <1>1, ListedUpToIsFinite
    <3> QED BY <2>2, <3>1, <3>2, <3>3
  <2>8. StillToCome'
    BY <1>2, <1>3, <2>4, <2>6, <2>7 DEF StillToCome
  <2> QED BY <1>2, <2>5, <2>8 DEF PagerInv, Tasks!TypeOK
<1>4. ASSUME NEW f \in Tasks!Filter, Tasks!FirstPage(f) PROVE PagerInv'
  <2> DEFINE matching == {t \in Tasks!Keys(lru) : Tasks!Matching(f, open, t)}
             p == [Tasks!Idle EXCEPT !.filter = f, !.steady = matching]
  <2>1. pager' = Tasks!PageAfter(p)
    BY <1>4 DEF Tasks!FirstPage
  <2>2. matching = Tasks!Listed(lru, Wanted(f, open)) /\ matching \subseteq StoreTask
    BY <1>1 DEF Tasks!Listed, Wanted
  <2> HIDE DEF matching
  <2>3. /\ Tasks!Idle \in [pc : {"idle", "paging", "finished"}, filter : Tasks!Filter, cursor : Nat,
                      seen : SUBSET StoreTask, steady : SUBSET StoreTask, shrunk : BOOLEAN]
        /\ Tasks!Idle.cursor = 0
    BY DEF Tasks!Idle, Tasks!Filter
  <2>4. /\ p \in [pc : {"idle", "paging", "finished"}, filter : Tasks!Filter, cursor : Nat,
                  seen : SUBSET StoreTask, steady : SUBSET StoreTask, shrunk : BOOLEAN]
        /\ p.steady = matching /\ p.filter = f /\ p.cursor = 0
    BY <2>2, <2>3
  <2> HIDE DEF p
  <2>5. \A t \in p.steady : Tasks!Cardinality(Tasks!ListedUpTo(lru, Wanted(p.filter, open), t)) > p.cursor
    BY <1>1, <2>2, <2>4, ListedUpToIsFinite
  <2> QED BY <1>3, <2>1, <2>2, <2>4, <2>5
<1>5. CASE Tasks!NextPage
  <2>1. pager' = Tasks!PageAfter(pager) /\ pager.pc = "paging"
    BY <1>5 DEF Tasks!NextPage
  <2> QED BY <1>3, <2>1 DEF PagerInv, Tasks!TypeOK, StillToCome
<1> QED BY <1>4, <1>5

LEMMA TasksStep ==
  ASSUME Tasks!TaskStoreAssumption, PagerInv, [Tasks!Next]_Tasks!vars
  PROVE  PagerInv'
<1>1. CASE Tasks!Next
  BY <1>1, HandlerSteps, PageSteps DEF Tasks!Next
<1>2. CASE UNCHANGED Tasks!vars
  BY <1>2 DEF Tasks!vars, PagerInv, Tasks!TypeOK, StillToCome
<1> QED BY <1>1, <1>2

LEMMA PagerSafe == PagerInv => Tasks!UnusedTaskIsListed
BY DEF PagerInv, StillToCome, Tasks!UnusedTaskIsListed

LEMMA TasksLift == MCSpec => Tasks!Spec
<1>1. MCInit => Tasks!Init
  BY DEF MCInit
<1>2. [MCNext]_allVars => [Tasks!Next]_Tasks!vars
  BY DEF MCNext, ServerNext, TasksNext, PushNext, ClientNext, allVars, tasksVars, Tasks!vars
<1> QED BY <1>1, <1>2, PTL DEF MCSpec, Tasks!Spec

LEMMA TasksAlways == Tasks!Spec => []PagerInv
<1>0. Tasks!TaskStoreAssumption
  BY A2AAssumption
<1>1. Tasks!Init => PagerInv
  BY <1>0, TasksInit
<1>2. PagerInv /\ [Tasks!Next]_Tasks!vars => PagerInv'
  BY <1>0, TasksStep
<1> QED BY <1>1, <1>2, PTL DEF Tasks!Spec

\* InMemoryTaskStore.list: whatever other handlers put, get, evict and delete
\* between two pages, a client that follows next_cursor to the end has seen
\* every task that was stored throughout and that nobody used, as long as no
\* listed task is deleted or stops matching.
THEOREM PagesMissNothing == MCSpec => []UnusedTaskIsListed
<1>1. PagerInv => UnusedTaskIsListed
  BY PagerSafe DEF UnusedTaskIsListed
<1> QED BY <1>1, TasksAlways, TasksLift, PTL

(***************************************************************************)
(* The webhooks of one task.                                               *)
(***************************************************************************)
\* A post under way has not used up its retries.
PushInv ==
  /\ Push!TypeOK
  /\ \A p \in Push!Posts :
       post[p] \in {"none", "trying", "waiting"} => attempt[p] <= MaxRetries
  /\ \A p \in Push!Posts : p[2] > event => post[p] = "none"

LEMMA PushInit ==
  ASSUME Push!PushAssumption, Push!Init
  PROVE  PushInv
BY DEF Push!PushAssumption, Push!Init, PushInv, Push!TypeOK

LEMMA PushStep ==
  ASSUME Push!PushAssumption, PushInv, [Push!Next]_Push!vars
  PROVE  PushInv'
<1>1. MaxRetries \in Nat /\ LastEvent \in Nat
  BY DEF Push!PushAssumption
<1>2. ASSUME NEW c \in Config, Push!Register(c) \/ Push!Unregister(c) PROVE PushInv'
  BY <1>2 DEF PushInv, Push!TypeOK, Push!Register, Push!Unregister
<1>3. CASE Push!Emit
  <2>1. \A p \in Push!Posts : p[2] = event' => p[2] > event
    BY <1>1, <1>3 DEF PushInv, Push!TypeOK, Push!Emit
  <2>2. ASSUME NEW p \in Push!Posts
        PROVE  /\ post'[p] \in {"none", "trying", "waiting", "ended", "exhausted"}
               /\ post'[p] \in {"none", "trying", "waiting"} => attempt[p] <= MaxRetries
               /\ p[2] > event' => post'[p] = "none"
    <3>1. p[2] \in Nat
      BY <1>1 DEF Push!Posts, Push!Event
    <3> QED BY <1>1, <1>3, <2>1, <3>1 DEF PushInv, Push!TypeOK, Push!Emit
  <2> QED BY <1>1, <1>3, <2>2 DEF PushInv, Push!TypeOK, Push!Emit
<1>4. CASE Push!Disconnect
  BY <1>4 DEF PushInv, Push!TypeOK, Push!Disconnect
<1>5. ASSUME NEW p \in Push!Posts, Push!Answered(p) \/ Push!Retry(p) PROVE PushInv'
  BY <1>1, <1>5 DEF PushInv, Push!TypeOK, Push!Answered, Push!Retry
<1>6. ASSUME NEW p \in Push!Posts, Push!Failed(p) PROVE PushInv'
  BY <1>1, <1>6 DEF PushInv, Push!TypeOK, Push!Failed
<1>7. CASE UNCHANGED Push!vars
  BY <1>7 DEF Push!vars, PushInv, Push!TypeOK
<1> QED BY <1>2, <1>3, <1>4, <1>5, <1>6, <1>7 DEF Push!Next, Push!Post

LEMMA PushLift == MCSpec => Push!Spec
<1>1. MCInit => Push!Init
  BY DEF MCInit
<1>2. [MCNext]_allVars => [Push!Next]_Push!vars
  BY DEF MCNext, ServerNext, TasksNext, PushNext, ClientNext, allVars, pushVars, Push!vars
<1> QED BY <1>1, <1>2, PTL DEF MCSpec, Push!Spec

LEMMA PushAlways == Push!Spec => []PushInv
<1>0. Push!PushAssumption
  BY A2AAssumption
<1>1. Push!Init => PushInv
  BY <1>0, PushInit
<1>2. PushInv /\ [Push!Next]_Push!vars => PushInv'
  BY <1>0, PushStep
<1> QED BY <1>1, <1>2, PTL DEF Push!Spec

(***************************************************************************)
(* The client agent.                                                       *)
(***************************************************************************)
Telling == {e \in Agent!RemoteEvents : e.kind \in {"answer", "response"} /\ e.text # 0}
InTransit == {f \in Agent!Frame : f.kind = "artifact" /\ f.text # 0}
Items == {s \in Agent!LocalEvents : s.kind = "message"}

OnTheWire == Agent!Texts(Select(wire, InTransit))

\* In streaming mode what is told and what is on the wire make the remote run;
\* in blocking mode nothing is told before the reply, and then the last answer
\* of a run that cannot change any more.
NothingIsLost ==
  /\ setup.streaming => Agent!Told = Agent!Tale \o OnTheWire
  /\ ~setup.streaming =>
       /\ caller \notin {"answered", "done", "closed"} => Agent!Tale = << >>
       /\ caller \in {"answered", "done"} => Agent!Tale = <<Agent!FinalText>>

RemoteIsOver ==
  /\ caller \in {"start", "posting"} => remote = "none" /\ produced = << >>
  /\ remote = "none" \/ ~setup.streaming => wire = << >>
  /\ remote = "rejected" => ~Agent!Accepted
  /\ remote \in {"running", "completed", "failed"} => Agent!Accepted
  /\ caller \in {"answered", "done"} => remote = "completed"
  /\ caller = "answered" => ~setup.streaming
  /\ caller = "done" => /\ shown # << >> /\ shown[Len(shown)].kind = "end"
                        /\ setup.streaming => wire = << >>

\* The status of a tool call stays on the wire of a client that reads on.
CallsAreUnread ==
  setup.streaming /\ caller \in {"waiting", "done"} /\ Agent!CalledTool =>
    \E k \in 1..Len(wire) : wire[k].kind = "toolStatus"

AgentInv == Agent!TypeOK /\ NothingIsLost /\ RemoteIsOver /\ CallsAreUnread

LEMMA SameSequence ==
  ASSUME NEW T, NEW s \in Seq(T), NEW t \in Seq(T), Len(s) = Len(t),
         \A k \in 1..Len(s) : s[k] = t[k]
  PROVE  s = t
OBVIOUS

LEMMA TextsOf ==
  ASSUME NEW n \in Nat, NEW T, \A x \in T : x.text \in 0..n, NEW s \in Seq(T)
  PROVE  /\ Agent!Texts(s) \in Seq(0..n) /\ Len(Agent!Texts(s)) = Len(s)
         /\ \A k \in 1..Len(s) : Agent!Texts(s)[k] = s[k].text
<1>1. Agent!Texts(s) = [k \in 1..Len(s) |-> s[k].text]
  BY DEF Agent!Texts
<1>2. \A k \in 1..Len(s) : s[k].text \in 0..n
  OBVIOUS
<1> QED BY <1>1, <1>2

LEMMA TextsOfAppended ==
  ASSUME NEW n \in Nat, NEW T, \A x \in T : x.text \in 0..n, NEW s \in Seq(T), NEW e \in T
  PROVE  Agent!Texts(Append(s, e)) = Append(Agent!Texts(s), e.text)
<1> DEFINE u == Append(s, e)
           v == Append(Agent!Texts(s), e.text)
<1>1. u \in Seq(T) /\ Len(u) = Len(s) + 1 /\ Len(s) \in Nat /\ u[Len(s) + 1] = e
      /\ \A k \in 1..Len(s) : u[k] = s[k]
  OBVIOUS
<1>2. Agent!Texts(s) \in Seq(0..n) /\ Len(Agent!Texts(s)) = Len(s) /\ \A k \in 1..Len(s) : Agent!Texts(s)[k] = s[k].text
  BY TextsOf
<1>3. v \in Seq(0..n) /\ Len(v) = Len(s) + 1 /\ v[Len(s) + 1] = e.text
      /\ \A k \in 1..Len(s) : v[k] = s[k].text
  BY <1>1, <1>2
<1> HIDE DEF u, v
<1>4. Agent!Texts(u) \in Seq(0..n) /\ Len(Agent!Texts(u)) = Len(u) /\ \A k \in 1..Len(u) : Agent!Texts(u)[k] = u[k].text
  BY <1>1, TextsOf
<1>5. \A k \in 1..(Len(s) + 1) : Agent!Texts(u)[k] = v[k]
  <2> SUFFICES ASSUME NEW k \in 1..(Len(s) + 1) PROVE Agent!Texts(u)[k] = v[k]
    OBVIOUS
  <2>1. k \in 1..Len(u) /\ Agent!Texts(u)[k] = u[k].text
    BY <1>1, <1>4
  <2>2. k = Len(s) + 1 \/ k \in 1..Len(s)
    BY <1>1
  <2> QED BY <2>1, <2>2, <1>1, <1>3
<1>6. Agent!Texts(u) = v
  BY <1>1, <1>3, <1>4, <1>5, SameSequence
<1> QED BY <1>6 DEF u, v

LEMMA TextsOfTail ==
  ASSUME NEW n \in Nat, NEW T, \A x \in T : x.text \in 0..n, NEW s \in Seq(T), s # << >>
  PROVE  Agent!Texts(Tail(s)) = Tail(Agent!Texts(s))
<1> DEFINE u == Tail(s)
           w == Agent!Texts(s)
           v == Tail(w)
<1>1. u \in Seq(T) /\ Len(u) = Len(s) - 1 /\ Len(u) \in Nat
      /\ \A k \in 1..Len(u) : u[k] = s[k + 1] /\ k + 1 \in 1..Len(s)
  OBVIOUS
<1>2. w \in Seq(0..n) /\ Len(w) = Len(s) /\ \A k \in 1..Len(s) : w[k] = s[k].text
  BY TextsOf
<1> HIDE DEF w
<1>3. w # << >>
  BY <1>1, <1>2
<1>4. v \in Seq(0..n) /\ Len(v) = Len(s) - 1 /\ \A k \in 1..(Len(s) - 1) : v[k] = w[k + 1]
  BY <1>2, <1>3
<1> HIDE DEF u, v
<1>5. Agent!Texts(u) \in Seq(0..n) /\ Len(Agent!Texts(u)) = Len(u) /\ \A k \in 1..Len(u) : Agent!Texts(u)[k] = u[k].text
  BY <1>1, TextsOf, ZenonT(60)
<1>6. \A k \in 1..Len(u) : Agent!Texts(u)[k] = v[k]
  BY <1>1, <1>2, <1>4, <1>5
<1>7. Agent!Texts(u) = v
  <2>1. Len(Agent!Texts(u)) = Len(v) /\ \A k \in 1..Len(Agent!Texts(u)) : Agent!Texts(u)[k] = v[k]
    BY <1>1, <1>4, <1>5, <1>6
  <2> QED BY <1>4, <1>5, <2>1, SameSequence
<1> QED BY <1>7 DEF u, v, w

LEMMA TextsOfNone == Agent!Texts(<< >>) = << >>
BY DEF Agent!Texts

LEMMA TextsAreNumbers ==
  /\ \A x \in Agent!RemoteEvents : x.text \in 0..ClientEvents
  /\ \A x \in Agent!Frame : x.text \in 0..ClientEvents
  /\ \A x \in Agent!LocalEvents : x.text \in 0..ClientEvents
BY DEF Agent!RemoteEvents, Agent!Frame, Agent!LocalEvents

LEMMA TellingTypes ==
  ASSUME Agent!A2AClientAssumption, Agent!TypeOK
  PROVE  /\ Agent!Told \in Seq(0..ClientEvents) /\ Agent!Tale \in Seq(0..ClientEvents) /\ OnTheWire \in Seq(0..ClientEvents)
         /\ Select(produced, Telling) \in Seq(Agent!RemoteEvents)
         /\ Select(wire, InTransit) \in Seq(Agent!Frame)
         /\ Select(shown, Items) \in Seq(Agent!LocalEvents)
         /\ Agent!Told = Agent!Texts(Select(produced, Telling)) /\ Agent!Tale = Agent!Texts(Select(shown, Items))
<1>1. Agent!Told = Agent!Texts(Select(produced, Telling)) /\ Agent!Tale = Agent!Texts(Select(shown, Items))
  BY SameOperators DEF Agent!Told, Agent!Tale, Telling, Items
<1>2. Select(produced, Telling) \in Seq(Agent!RemoteEvents)
  BY SelectType DEF Agent!TypeOK
<1>3. Select(wire, InTransit) \in Seq(Agent!Frame)
  BY SelectType DEF Agent!TypeOK
<1>4. Select(shown, Items) \in Seq(Agent!LocalEvents)
  BY SelectType DEF Agent!TypeOK
<1>5. ClientEvents \in Nat
  BY DEF Agent!A2AClientAssumption
<1>6. Agent!Texts(Select(produced, Telling)) \in Seq(0..ClientEvents)
  BY <1>2, <1>5, TextsAreNumbers, TextsOf
<1>7. OnTheWire \in Seq(0..ClientEvents)
  BY <1>3, <1>5, TextsAreNumbers, TextsOf DEF OnTheWire
<1>8. Agent!Texts(Select(shown, Items)) \in Seq(0..ClientEvents)
  BY <1>4, <1>5, TextsAreNumbers, TextsOf
<1> QED BY <1>1, <1>2, <1>3, <1>4, <1>6, <1>7, <1>8

\* One more event of the remote run, frame on the wire or event shown.
LEMMA TellsOneMore ==
  ASSUME Agent!A2AClientAssumption, Agent!TypeOK
  PROVE  /\ \A e \in Agent!RemoteEvents :
              Agent!Texts(Select(Append(produced, e), Telling)) =
                IF e \in Telling THEN Append(Agent!Told, e.text) ELSE Agent!Told
         /\ \A f \in Agent!Frame :
              Agent!Texts(Select(Append(wire, f), InTransit)) =
                IF f \in InTransit THEN Append(OnTheWire, f.text) ELSE OnTheWire
         /\ \A s \in Agent!LocalEvents :
              Agent!Texts(Select(Append(shown, s), Items)) =
                IF s \in Items THEN Append(Agent!Tale, s.text) ELSE Agent!Tale
<1>1. ClientEvents \in Nat /\ produced \in Seq(Agent!RemoteEvents) /\ wire \in Seq(Agent!Frame) /\ shown \in Seq(Agent!LocalEvents)
  BY DEF Agent!A2AClientAssumption, Agent!TypeOK
<1>2. ASSUME NEW e \in Agent!RemoteEvents
      PROVE  Agent!Texts(Select(Append(produced, e), Telling)) =
               IF e \in Telling THEN Append(Agent!Told, e.text) ELSE Agent!Told
  <2>1. CASE e \notin Telling
    <3>1. Select(Append(produced, e), Telling) = Select(produced, Telling)
      BY <1>1, <2>1, SelectOfAppended
    <3> QED BY <2>1, <3>1, TellingTypes
  <2>2. CASE e \in Telling
    <3>1. Select(Append(produced, e), Telling) = Append(Select(produced, Telling), e)
      BY <1>1, <2>2, SelectOfAppended
    <3>2. Agent!Texts(Append(Select(produced, Telling), e)) = Append(Agent!Texts(Select(produced, Telling)), e.text)
      BY <1>1, TellingTypes, TextsAreNumbers, TextsOfAppended
    <3> QED BY <2>2, <3>1, <3>2, TellingTypes
  <2> QED BY <2>1, <2>2
<1>3. ASSUME NEW e \in Agent!Frame
      PROVE  Agent!Texts(Select(Append(wire, e), InTransit)) =
               IF e \in InTransit THEN Append(OnTheWire, e.text) ELSE OnTheWire
  <2>1. CASE e \notin InTransit
    <3>1. Select(Append(wire, e), InTransit) = Select(wire, InTransit)
      BY <1>1, <2>1, SelectOfAppended
    <3> QED BY <2>1, <3>1 DEF OnTheWire
  <2>2. CASE e \in InTransit
    <3>1. Select(Append(wire, e), InTransit) = Append(Select(wire, InTransit), e)
      BY <1>1, <2>2, SelectOfAppended
    <3>2. Agent!Texts(Append(Select(wire, InTransit), e)) = Append(Agent!Texts(Select(wire, InTransit)), e.text)
      BY <1>1, TellingTypes, TextsAreNumbers, TextsOfAppended
    <3> QED BY <2>2, <3>1, <3>2 DEF OnTheWire
  <2> QED BY <2>1, <2>2
<1>4. ASSUME NEW e \in Agent!LocalEvents
      PROVE  Agent!Texts(Select(Append(shown, e), Items)) =
               IF e \in Items THEN Append(Agent!Tale, e.text) ELSE Agent!Tale
  <2>1. CASE e \notin Items
    <3>1. Select(Append(shown, e), Items) = Select(shown, Items)
      BY <1>1, <2>1, SelectOfAppended
    <3> QED BY <2>1, <3>1, TellingTypes
  <2>2. CASE e \in Items
    <3>1. Select(Append(shown, e), Items) = Append(Select(shown, Items), e)
      BY <1>1, <2>2, SelectOfAppended
    <3>2. Agent!Texts(Append(Select(shown, Items), e)) = Append(Agent!Texts(Select(shown, Items)), e.text)
      BY <1>1, TellingTypes, TextsAreNumbers, TextsOfAppended
    <3> QED BY <2>2, <3>1, <3>2, TellingTypes
  <2> QED BY <2>1, <2>2
<1> QED BY <1>2, <1>3, <1>4

\* Reading a frame takes from the wire what it says, if it says anything.
LEMMA ReadsOne ==
  ASSUME Agent!A2AClientAssumption, Agent!TypeOK, wire # << >>
  PROVE  /\ wire[1] \in InTransit => /\ OnTheWire # << >> /\ OnTheWire[1] = wire[1].text
                                     /\ Agent!Texts(Select(Tail(wire), InTransit)) = Tail(OnTheWire)
         /\ wire[1] \notin InTransit => Agent!Texts(Select(Tail(wire), InTransit)) = OnTheWire
<1>1. ClientEvents \in Nat /\ wire \in Seq(Agent!Frame)
  BY DEF Agent!A2AClientAssumption, Agent!TypeOK
<1>2. CASE wire[1] \notin InTransit
  BY <1>1, <1>2, SelectOfTail DEF OnTheWire
<1>3. CASE wire[1] \in InTransit
  <2> DEFINE w == Select(wire, InTransit)
  <2>1. w # << >> /\ w[1] = wire[1] /\ Select(Tail(wire), InTransit) = Tail(w)
    BY <1>1, <1>3, SelectOfTail
  <2>2. w \in Seq(Agent!Frame) /\ Agent!Texts(w) = OnTheWire
    BY TellingTypes DEF OnTheWire
  <2> HIDE DEF w
  <2>3. /\ Agent!Texts(w) \in Seq(0..ClientEvents) /\ Len(Agent!Texts(w)) = Len(w)
        /\ \A k \in 1..Len(w) : Agent!Texts(w)[k] = w[k].text
    BY <1>1, <2>2, TextsAreNumbers, TextsOf
  <2>5. Agent!Texts(Tail(w)) = Tail(Agent!Texts(w))
    BY <1>1, <2>1, <2>2, TextsAreNumbers, TextsOfTail
  <2>4. Len(w) \in Nat /\ 1 \in 1..Len(w)
    BY <2>1, <2>2
  <2>6. OnTheWire # << >> /\ OnTheWire[1] = wire[1].text
    BY <2>1, <2>2, <2>3, <2>4
  <2> QED BY <1>3, <2>1, <2>2, <2>5, <2>6
<1> QED BY <1>2, <1>3

\* Two sequences after each other, of which one grows or the border moves.
LEMMA SplitsOn ==
  ASSUME NEW T, NEW a \in Seq(T), NEW b \in Seq(T), NEW c \in Seq(T), a = b \o c
  PROVE  /\ \A x \in T : Append(a, x) = b \o Append(c, x)
         /\ c # << >> => a = Append(b, c[1]) \o Tail(c)
<1>1. \A x \in T : Append(a, x) = b \o Append(c, x)
  OBVIOUS
<1>2. ASSUME c # << >> PROVE a = Append(b, c[1]) \o Tail(c)
  <2> DEFINE d == Append(b, c[1])
             e == Tail(c)
  <2>1. /\ d \in Seq(T) /\ Len(d) = Len(b) + 1 /\ d[Len(b) + 1] = c[1]
        /\ \A k \in 1..Len(b) : d[k] = b[k]
        /\ e \in Seq(T) /\ Len(e) = Len(c) - 1 /\ \A k \in 1..Len(e) : e[k] = c[k + 1]
        /\ Len(b) \in Nat /\ Len(c) \in Nat /\ Len(c) >= 1
    BY <1>2
  <2>5. Len(a) = Len(b) + Len(c)
    OBVIOUS
  <2> HIDE DEF d, e
  <2>6. d \o e \in Seq(T) /\ Len(d \o e) = Len(d) + Len(e)
    <3>1. d \in Seq(T) /\ e \in Seq(T)
      BY <2>1
    <3> QED BY <3>1
  <2>2. Len(d \o e) = Len(a) /\ d \o e \in Seq(T)
    BY <2>1, <2>5, <2>6
  <2>3. ASSUME NEW k \in 1..Len(a) PROVE (d \o e)[k] = a[k]
    <3>1. CASE k \in 1..Len(b)
      BY <3>1, <2>1
    <3>2. CASE k = Len(b) + 1
      BY <3>2, <2>1
    <3>3. CASE k > Len(b) + 1
      <4>1. k - Len(d) \in 1..Len(e) /\ k - Len(b) = (k - Len(d)) + 1 /\ k - Len(b) \in 1..Len(c)
        BY <3>3, <2>1
      <4>2. (d \o e)[k] = e[k - Len(d)]
        BY <3>3, <4>1, <2>1
      <4>3. a[k] = c[k - Len(b)]
        BY <3>3, <4>1, <2>1
      <4> QED BY <4>1, <4>2, <4>3, <2>1
    <3> QED BY <3>1, <3>2, <3>3, <2>1
  <2>4. d \o e = a
    BY <2>2, <2>3, SameSequence
  <2> QED BY <2>4 DEF d, e
<1> QED BY <1>1, <1>2

LEMMA AgentInit ==
  ASSUME Agent!A2AClientAssumption, Agent!Init
  PROVE  AgentInv
<1>1. Agent!TypeOK /\ RemoteIsOver /\ CallsAreUnread
  BY DEF Agent!Init, Agent!TypeOK, RemoteIsOver, CallsAreUnread
<1>2. Agent!Told = << >> /\ Agent!Tale = << >> /\ OnTheWire = << >>
  BY SelectOfNone, TextsOfNone, SameOperators DEF Agent!Init, Agent!Told, Agent!Tale, OnTheWire
<1>3. NothingIsLost
  BY <1>2 DEF NothingIsLost, Agent!Init
<1> QED BY <1>1, <1>3 DEF AgentInv

LEMMA FinalTextIsText ==
  ASSUME Agent!A2AClientAssumption, Agent!TypeOK
  PROVE  Agent!FinalText \in 0..ClientEvents
<1> DEFINE answers == Select(produced, {e \in Agent!RemoteEvents : e.kind = "answer"})
<1>1. 0 \in 0..ClientEvents
  BY DEF Agent!A2AClientAssumption
<1>2. answers \in Seq(Agent!RemoteEvents)
  BY SelectType DEF Agent!TypeOK
<1> HIDE DEF answers
<1>3. answers # << >> => Agent!Last(answers).text \in 0..ClientEvents
  BY <1>2, TextsAreNumbers DEF Agent!Last
<1> QED BY <1>1, <1>3, SameOperators DEF Agent!FinalText, answers

LEMMA AgentTypes ==
  ASSUME Agent!A2AClientAssumption, AgentInv, Agent!Next
  PROVE  Agent!TypeOK' /\ RemoteIsOver'
<1>1. Agent!TypeOK /\ RemoteIsOver /\ ClientEvents \in Nat
  BY DEF AgentInv, Agent!A2AClientAssumption
<1>2. \A k \in {"working", "toolStatus", "artifact", "completed"}, x \in 0..ClientEvents : Agent!Item(k, x) \in Agent!Frame
  BY DEF Agent!Item, Agent!Frame
<1>3. \A k \in {"start", "message", "end"}, x \in 0..ClientEvents : Agent!Item(k, x) \in Agent!LocalEvents /\ Agent!Item(k, x).kind = k
  BY DEF Agent!Item, Agent!LocalEvents
<1>4. 0 \in 0..ClientEvents
  BY <1>1
<1>5. shown \in Seq(Agent!LocalEvents) /\ wire \in Seq(Agent!Frame) /\ produced \in Seq(Agent!RemoteEvents)
  BY <1>1 DEF Agent!TypeOK
<1>6. CASE Agent!Begin
  BY <1>6, <1>1, <1>3, <1>4, <1>5 DEF Agent!Begin, Agent!Show, Agent!TypeOK, RemoteIsOver, Agent!Accepted
<1>7. CASE Agent!Post
  BY <1>7, <1>1, <1>2, <1>4, <1>5 DEF Agent!Post, Agent!TypeOK, RemoteIsOver, Agent!Accepted
<1>8. CASE Agent!ReadFrame
  <2>1. wire[1] \in Agent!Frame /\ wire' \in Seq(Agent!Frame) /\ wire # << >> /\ Head(wire) = wire[1]
    BY <1>8, <1>5 DEF Agent!ReadFrame
  <2>2. Agent!Converted(Head(wire)) \in Seq(Agent!LocalEvents)
    BY <2>1, <1>3 DEF Agent!Converted, Agent!Frame
  <2>3. shown' \in Seq(Agent!LocalEvents)
    BY <1>8, <1>5, <2>2 DEF Agent!ReadFrame
  <2> QED BY <1>8, <1>1, <2>1, <2>3 DEF Agent!ReadFrame, Agent!TypeOK, RemoteIsOver, Agent!Accepted
<1>9. CASE Agent!StreamOver
  <2>1. shown' = Append(shown, Agent!Item("end", 0)) /\ shown' \in Seq(Agent!LocalEvents)
        /\ shown' # << >> /\ shown'[Len(shown')].kind = "end"
    BY <1>9, <1>3, <1>4, <1>5 DEF Agent!StreamOver, Agent!Show
  <2> QED BY <1>9, <1>1, <2>1 DEF Agent!StreamOver, Agent!TypeOK, RemoteIsOver, Agent!Accepted
<1>10. CASE Agent!Reply
  <2>1. Agent!FinalText \in 0..ClientEvents
    BY <1>1, FinalTextIsText
  <2>2. shown' \in Seq(Agent!LocalEvents)
    <3>1. Agent!Item("message", Agent!FinalText) \in Agent!LocalEvents
      BY <2>1, <1>3
    <3>2. shown' = shown \/ shown' = Append(shown, Agent!Item("message", Agent!FinalText))
      BY <1>10 DEF Agent!Reply, Agent!Show
    <3>3. Append(shown, Agent!Item("message", Agent!FinalText)) \in Seq(Agent!LocalEvents)
      BY <3>1, <1>5, SMTT(30)
    <3>4. shown \in Seq(Agent!LocalEvents)
      BY <1>5
    <3> QED BY <3>2, <3>3, <3>4, ZenonT(60)
  <2> QED BY <1>10, <1>1, <2>2 DEF Agent!Reply, Agent!TypeOK, RemoteIsOver, Agent!Accepted
<1>11. CASE Agent!Finish
  <2>2. shown' = Append(shown, Agent!Item("end", 0))
    BY <1>11 DEF Agent!Finish, Agent!Show
  <2>3. Agent!Item("end", 0) \in Agent!LocalEvents /\ Agent!Item("end", 0).kind = "end"
    BY <1>3, <1>4
  <2>1. shown' \in Seq(Agent!LocalEvents) /\ shown' # << >> /\ shown'[Len(shown')].kind = "end"
    BY <1>5, <2>2, <2>3
  <2> QED BY <1>11, <1>1, <2>1 DEF Agent!Finish, Agent!TypeOK, RemoteIsOver, Agent!Accepted
<1>17. CASE Agent!ReadToolCall
  <2>1. wire # << >> /\ wire' \in Seq(Agent!Frame)
    BY <1>17, <1>5 DEF Agent!ReadToolCall
  <2> QED BY <1>17, <1>1, <2>1 DEF Agent!ReadToolCall, Agent!TypeOK, RemoteIsOver, Agent!Accepted
<1>18. CASE Agent!Refused
  BY <1>18, <1>1 DEF Agent!Refused, Agent!TypeOK, RemoteIsOver, Agent!Accepted
<1>12. CASE Agent!Lose
  BY <1>12, <1>1 DEF Agent!Lose, Agent!TypeOK, RemoteIsOver, Agent!Accepted
<1>13. CASE Agent!Close
  BY <1>13, <1>1 DEF Agent!Close, Agent!TypeOK, RemoteIsOver, Agent!Accepted
<1>14. CASE Agent!RemoteEnds
  BY <1>14, <1>1, <1>2, <1>4, <1>5 DEF Agent!RemoteEnds, Agent!TypeOK, RemoteIsOver, Agent!Accepted
<1>15. CASE Agent!RemoteRaises
  BY <1>15, <1>1 DEF Agent!RemoteRaises, Agent!TypeOK, RemoteIsOver, Agent!Accepted
<1>16. ASSUME NEW kind \in {"answer", "calls", "response", "other"}, NEW empty \in BOOLEAN,
              Agent!RemoteEvent(Agent!Item(kind, IF empty THEN 0 ELSE Len(produced) + 1))
       PROVE  Agent!TypeOK' /\ RemoteIsOver'
  <2> DEFINE e == Agent!Item(kind, IF empty THEN 0 ELSE Len(produced) + 1)
  <2>1. e \in Agent!RemoteEvents
    BY <1>16, <1>1, <1>4, <1>5 DEF Agent!RemoteEvent, Agent!Item, Agent!RemoteEvents
  <2> HIDE DEF e
  <2>2. Agent!RemoteEvent(e)
    BY <1>16 DEF e
  <2>3. Agent!Frames(e) \in Seq(Agent!Frame)
    BY <2>1, <1>2 DEF Agent!Frames, Agent!RemoteEvents
  <2>4. wire' \in Seq(Agent!Frame) /\ produced' \in Seq(Agent!RemoteEvents)
    BY <2>1, <2>2, <2>3, <1>5 DEF Agent!RemoteEvent
  <2> QED BY <2>2, <2>4, <1>1 DEF Agent!RemoteEvent, Agent!TypeOK, RemoteIsOver, Agent!Accepted
<1> QED BY <1>6, <1>7, <1>8, <1>9, <1>10, <1>11, <1>12, <1>13, <1>14, <1>15, <1>16, <1>17, <1>18 DEF Agent!Next

LEMMA AgentReads ==
  ASSUME Agent!A2AClientAssumption, AgentInv, Agent!Next
  PROVE  CallsAreUnread'
<1> SUFFICES ASSUME setup'.streaming, caller' \in {"waiting", "done"}, Agent!CalledTool'
             PROVE  \E k \in 1..Len(wire') : wire'[k].kind = "toolStatus"
  BY DEF CallsAreUnread
<1>1. Agent!TypeOK /\ RemoteIsOver /\ CallsAreUnread
  BY DEF AgentInv
<1>2. wire \in Seq(Agent!Frame) /\ produced \in Seq(Agent!RemoteEvents)
  BY <1>1 DEF Agent!TypeOK
<1>3. CASE Agent!ReadFrame
  <2>1. PICK k \in 1..Len(wire) : wire[k].kind = "toolStatus"
    BY <1>1, <1>3 DEF Agent!ReadFrame, CallsAreUnread, Agent!CalledTool
  <2>2. wire' = Tail(wire) /\ wire # << >> /\ Head(wire).kind # "toolStatus"
    BY <1>3 DEF Agent!ReadFrame
  <2>3. k # 1
    BY <1>2, <2>1, <2>2
  <2>4. k - 1 \in 1..Len(wire') /\ wire'[k - 1] = wire[k]
    BY <1>2, <2>1, <2>2, <2>3
  <2> QED BY <2>1, <2>4
<1>4. CASE Agent!StreamOver
  BY <1>1, <1>4 DEF Agent!StreamOver, CallsAreUnread, Agent!CalledTool
<1>5. CASE Agent!RemoteEnds
  <2>1. PICK k \in 1..Len(wire) : wire[k].kind = "toolStatus"
    BY <1>1, <1>5 DEF Agent!RemoteEnds, CallsAreUnread, Agent!CalledTool
  <2>2. wire' = Append(wire, Agent!Item("completed", 0))
    BY <1>5 DEF Agent!RemoteEnds
  <2>3. k \in 1..Len(wire') /\ wire'[k] = wire[k]
    BY <1>2, <2>1, <2>2
  <2> QED BY <2>1, <2>3
<1>6. CASE Agent!RemoteRaises
  BY <1>1, <1>6 DEF Agent!RemoteRaises, CallsAreUnread, Agent!CalledTool
<1>7. ASSUME NEW e, Agent!RemoteEvent(e)
      PROVE  \E k \in 1..Len(wire') : wire'[k].kind = "toolStatus"
  <2>1. setup.streaming /\ caller = caller' /\ produced' = Append(produced, e) /\ wire' = wire \o Agent!Frames(e)
    BY <1>7 DEF Agent!RemoteEvent
  <2>2. CASE e.kind = "calls"
    <3>1. wire' = Append(wire, Agent!Item("toolStatus", e.text))
      BY <1>2, <2>1, <2>2 DEF Agent!Frames
    <3>2. Len(wire') = Len(wire) + 1 /\ wire'[Len(wire) + 1] = Agent!Item("toolStatus", e.text) /\ Len(wire) \in Nat
      BY <1>2, <3>1
    <3> QED BY <3>2 DEF Agent!Item
  <2>3. CASE e.kind # "calls"
    <3>1. Agent!CalledTool
      BY <1>2, <2>1, <2>3 DEF Agent!CalledTool
    <3>2. PICK k \in 1..Len(wire) : wire[k].kind = "toolStatus"
      BY <1>1, <2>1, <3>1 DEF CallsAreUnread
    <3>3. wire' = wire \/ \E f : wire' = Append(wire, f)
      BY <1>2, <2>1, <2>3 DEF Agent!Frames
    <3>4. k \in 1..Len(wire') /\ wire'[k] = wire[k]
      BY <1>2, <3>2, <3>3
    <3> QED BY <3>2, <3>4
  <2> QED BY <2>2, <2>3
<1>8. CASE Agent!Begin \/ Agent!Post
  BY <1>1, <1>8 DEF Agent!Begin, Agent!Post, RemoteIsOver, Agent!CalledTool
<1>9. CASE Agent!Reply \/ Agent!Finish
  BY <1>1, <1>9 DEF Agent!Reply, Agent!Finish, RemoteIsOver
<1>10. CASE Agent!ReadToolCall \/ Agent!Refused \/ Agent!Lose \/ Agent!Close
  BY <1>10 DEF Agent!ReadToolCall, Agent!Refused, Agent!Lose, Agent!Close
<1> QED BY <1>3, <1>4, <1>5, <1>6, <1>7, <1>8, <1>9, <1>10 DEF Agent!Next

LEMMA AgentTells ==
  ASSUME Agent!A2AClientAssumption, AgentInv, Agent!Next
  PROVE  NothingIsLost'
<1>1. Agent!TypeOK /\ RemoteIsOver /\ NothingIsLost /\ ClientEvents \in Nat
  BY DEF AgentInv, Agent!A2AClientAssumption
<1>2. Agent!Item("start", 0) \in Agent!LocalEvents \ Items /\ Agent!Item("end", 0) \in Agent!LocalEvents \ Items
      /\ Agent!Item("working", 0) \in Agent!Frame \ InTransit /\ Agent!Item("completed", 0) \in Agent!Frame \ InTransit
      /\ \A x \in 0..ClientEvents : /\ Agent!Item("message", x) \in Items /\ Agent!Item("message", x) \in Agent!LocalEvents
                                    /\ Agent!Item("message", x).text = x
  BY <1>1 DEF Agent!Item, Agent!LocalEvents, Items, Agent!Frame, InTransit
<1>3. shown \in Seq(Agent!LocalEvents) /\ wire \in Seq(Agent!Frame) /\ produced \in Seq(Agent!RemoteEvents)
      /\ Agent!Told \in Seq(0..ClientEvents) /\ Agent!Tale \in Seq(0..ClientEvents) /\ OnTheWire \in Seq(0..ClientEvents)
  BY <1>1, TellingTypes DEF Agent!TypeOK
<1>4. produced' = produced => Agent!Told' = Agent!Told /\ Agent!FinalText' = Agent!FinalText
  BY DEF Agent!Told, Agent!FinalText
<1>5. shown' = shown => Agent!Tale' = Agent!Tale
  BY DEF Agent!Tale
<1>6. wire' = wire => OnTheWire' = OnTheWire
  BY DEF OnTheWire
<1>7. \A s \in Agent!LocalEvents \ Items : shown' = Append(shown, s) => Agent!Tale' = Agent!Tale
  BY <1>1, TellsOneMore, SameOperators DEF Agent!Tale, Items
<1>8. \A f \in Agent!Frame \ InTransit : wire' = Append(wire, f) => OnTheWire' = OnTheWire
  BY <1>1, TellsOneMore DEF OnTheWire
<1>9. CASE Agent!Begin
  <2>1. Agent!Tale' = Agent!Tale /\ Agent!Told' = Agent!Told /\ OnTheWire' = OnTheWire
    BY <1>9, <1>2, <1>4, <1>6, <1>7 DEF Agent!Begin, Agent!Show
  <2> QED BY <1>9, <1>1, <2>1 DEF Agent!Begin, NothingIsLost
<1>10. CASE Agent!Post
  <2>1. Agent!Tale' = Agent!Tale /\ Agent!Told' = Agent!Told
    BY <1>10, <1>4, <1>5 DEF Agent!Post
  <2>2. wire = << >> /\ OnTheWire = << >>
    BY <1>1, <1>10, SelectOfNone, TextsOfNone DEF Agent!Post, RemoteIsOver, OnTheWire
  <2>3. wire' = << >> \/ wire' = Append(wire, Agent!Item("working", 0))
    BY <1>10, <2>2 DEF Agent!Post
  <2>4. OnTheWire' = OnTheWire
    <3>1. CASE wire' = << >>
      BY <3>1, <2>2, <1>6
    <3>2. CASE wire' = Append(wire, Agent!Item("working", 0))
      BY <3>2, <1>2, <1>8
    <3> QED BY <2>3, <3>1, <3>2
  <2> QED BY <1>10, <1>1, <2>1, <2>4 DEF Agent!Post, NothingIsLost
<1>11. CASE Agent!ReadFrame
  <2> DEFINE f == wire[1]
  <2>1. f \in Agent!Frame /\ wire # << >> /\ Head(wire) = f /\ f.text \in 0..ClientEvents
    BY <1>11, <1>3, TextsAreNumbers DEF Agent!ReadFrame
  <2>2. wire' = Tail(wire) /\ shown' = shown \o Agent!Converted(f) /\ Agent!Told' = Agent!Told
        /\ setup' = setup /\ caller' = caller /\ caller = "waiting"
    BY <1>11, <2>1, <1>4 DEF Agent!ReadFrame
  <2>3. CASE f \notin InTransit
    <3>1. OnTheWire' = OnTheWire
      BY <1>1, <2>1, <2>2, <2>3, ReadsOne DEF OnTheWire
    <3>2. Agent!Converted(f) = << >>
      BY <2>1, <2>3 DEF Agent!Converted, InTransit
    <3>3. shown' = shown
      BY <2>2, <3>2, <1>3
    <3> QED BY <1>1, <2>2, <3>1, <3>3, <1>5 DEF NothingIsLost
  <2>4. CASE f \in InTransit
    <3>1. /\ OnTheWire # << >> /\ OnTheWire[1] = f.text /\ OnTheWire' = Tail(OnTheWire)
      BY <1>1, <2>1, <2>2, <2>4, ReadsOne DEF OnTheWire
    <3>2. PICK s \in Agent!LocalEvents : s \in Items /\ s.text = f.text /\ Agent!Converted(f) = <<s>>
      BY <2>1, <2>4, <1>2 DEF Agent!Converted, InTransit
    <3>3. shown' = Append(shown, s)
      BY <2>2, <3>2, <1>3
    <3>4. Agent!Tale' = Append(Agent!Tale, f.text)
      BY <1>1, <3>2, <3>3, TellsOneMore, SameOperators DEF Agent!Tale, Items
    <3>5. CASE setup.streaming
      <4>1. Agent!Told = Agent!Tale \o OnTheWire
        BY <1>1, <3>5 DEF NothingIsLost
      <4>2. Agent!Told = Append(Agent!Tale, OnTheWire[1]) \o Tail(OnTheWire)
        BY <4>1, <3>1, <1>3, SplitsOn
      <4>3. Agent!Told' = Agent!Tale' \o OnTheWire'
        BY <4>2, <3>1, <3>4, <2>2
      <4> QED BY <4>3, <2>2, <3>5 DEF NothingIsLost
    <3>6. CASE ~setup.streaming
      BY <1>1, <2>1, <3>6 DEF RemoteIsOver
    <3> QED BY <3>5, <3>6
  <2> QED BY <2>3, <2>4
<1>12. CASE Agent!StreamOver
  <2>1. Agent!Tale' = Agent!Tale /\ Agent!Told' = Agent!Told /\ OnTheWire' = OnTheWire
    BY <1>12, <1>2, <1>4, <1>6, <1>7 DEF Agent!StreamOver, Agent!Show
  <2> QED BY <1>12, <1>1, <2>1 DEF Agent!StreamOver, NothingIsLost
<1>17. Agent!FinalText \in 0..ClientEvents
  BY <1>1, FinalTextIsText
<1>13. CASE Agent!Reply
  <2>1. CASE caller' = "raised" /\ shown' = shown
    <3>1. Agent!Tale' = Agent!Tale
      BY <2>1, <1>5
    <3> QED BY <1>13, <1>1, <2>1, <3>1 DEF Agent!Reply, NothingIsLost
  <2>2. CASE caller' = "answered" /\ shown' = Append(shown, Agent!Item("message", Agent!FinalText))
    <3>1. Agent!Tale = << >>
      BY <1>13, <1>1 DEF Agent!Reply, NothingIsLost
    <3>4. Agent!Item("message", Agent!FinalText) \in Agent!LocalEvents /\ Agent!Item("message", Agent!FinalText) \in Items
          /\ Agent!Item("message", Agent!FinalText).text = Agent!FinalText
      BY <1>2, <1>17
    <3>5. Agent!Texts(Select(shown', Items)) = Append(Agent!Tale, Agent!FinalText)
      BY <1>1, <2>2, <3>4, TellsOneMore
    <3>2. Agent!Tale' = Append(Agent!Tale, Agent!FinalText)
      BY <3>5, SameOperators DEF Agent!Tale, Items
    <3>3. Agent!FinalText' = Agent!FinalText
      BY <1>13, <1>4 DEF Agent!Reply
    <3> QED BY <1>13, <2>2, <3>1, <3>2, <3>3 DEF Agent!Reply, NothingIsLost
  <2> QED BY <1>13, <2>1, <2>2 DEF Agent!Reply, Agent!Show
<1>14. CASE Agent!Finish
  <2>1. Agent!Tale' = Agent!Tale /\ Agent!Told' = Agent!Told /\ OnTheWire' = OnTheWire
    BY <1>14, <1>2, <1>4, <1>6, <1>7 DEF Agent!Finish, Agent!Show
  <2>2. Agent!FinalText' = Agent!FinalText
    BY <1>14, <1>4 DEF Agent!Finish
  <2> QED BY <1>14, <1>1, <2>1, <2>2 DEF Agent!Finish, NothingIsLost
<1>15. CASE Agent!Refused \/ Agent!Lose \/ Agent!Close
  <2>1. Agent!Tale' = Agent!Tale /\ Agent!Told' = Agent!Told /\ OnTheWire' = OnTheWire
    BY <1>15, <1>4, <1>5, <1>6 DEF Agent!Refused, Agent!Lose, Agent!Close
  <2> QED BY <1>15, <1>1, <2>1 DEF Agent!Refused, Agent!Lose, Agent!Close, NothingIsLost
<1>20. CASE Agent!ReadToolCall
  <2>1. wire # << >> /\ Head(wire) = wire[1] /\ wire[1] \notin InTransit /\ wire' = Tail(wire)
    BY <1>20, <1>3 DEF Agent!ReadToolCall, InTransit
  <2>2. Agent!Tale' = Agent!Tale /\ Agent!Told' = Agent!Told
    BY <1>20, <1>4, <1>5 DEF Agent!ReadToolCall
  <2>3. OnTheWire' = OnTheWire
    BY <1>1, <2>1, ReadsOne DEF OnTheWire
  <2> QED BY <1>20, <1>1, <2>2, <2>3 DEF Agent!ReadToolCall, NothingIsLost
<1>16. CASE Agent!RemoteEnds
  <2>1. Agent!Tale' = Agent!Tale /\ Agent!Told' = Agent!Told
    BY <1>16, <1>4, <1>5 DEF Agent!RemoteEnds
  <2>2. OnTheWire' = OnTheWire
    BY <1>16, <1>2, <1>6, <1>8 DEF Agent!RemoteEnds
  <2>3. caller \notin {"answered", "done"}
    BY <1>16, <1>1 DEF Agent!RemoteEnds, RemoteIsOver
  <2> QED BY <1>16, <1>1, <2>1, <2>2, <2>3 DEF Agent!RemoteEnds, NothingIsLost
<1>18. CASE Agent!RemoteRaises
  <2>1. Agent!Tale' = Agent!Tale /\ Agent!Told' = Agent!Told /\ OnTheWire' = OnTheWire
    BY <1>18, <1>4, <1>5, <1>6 DEF Agent!RemoteRaises
  <2>3. caller \notin {"answered", "done"}
    BY <1>18, <1>1 DEF Agent!RemoteRaises, RemoteIsOver
  <2> QED BY <1>18, <1>1, <2>1, <2>3 DEF Agent!RemoteRaises, NothingIsLost
<1>19. ASSUME NEW kind \in {"answer", "calls", "response", "other"}, NEW empty \in BOOLEAN,
              Agent!RemoteEvent(Agent!Item(kind, IF empty THEN 0 ELSE Len(produced) + 1))
       PROVE  NothingIsLost'
  <2> DEFINE e == Agent!Item(kind, IF empty THEN 0 ELSE Len(produced) + 1)
  <2>1. e \in Agent!RemoteEvents
    BY <1>19, <1>1, <1>3 DEF Agent!RemoteEvent, Agent!Item, Agent!RemoteEvents
  <2> HIDE DEF e
  <2>2. Agent!RemoteEvent(e)
    BY <1>19 DEF e
  <2>3. Agent!Tale' = Agent!Tale /\ caller' = caller /\ setup' = setup
    BY <2>2, <1>5 DEF Agent!RemoteEvent
  <2>4. Agent!Told' = IF e \in Telling THEN Append(Agent!Told, e.text) ELSE Agent!Told
    BY <1>1, <2>1, <2>2, TellsOneMore, SameOperators DEF Agent!RemoteEvent, Agent!Told, Telling
  <2>5. caller \notin {"answered", "done"}
    BY <2>2, <1>1 DEF Agent!RemoteEvent, RemoteIsOver
  <2>6. CASE ~setup.streaming
    BY <1>1, <2>3, <2>5, <2>6 DEF NothingIsLost
  <2>7. CASE setup.streaming
    <3>1. Agent!Told = Agent!Tale \o OnTheWire
      BY <1>1, <2>7 DEF NothingIsLost
    <3>2. wire' = wire \o Agent!Frames(e)
      BY <2>2, <2>7 DEF Agent!RemoteEvent
    <3>3. CASE e.kind = "other"
      <4>1. Agent!Frames(e) = << >> /\ e \notin Telling
        BY <3>3 DEF Agent!Frames, Telling
      <4>2. wire' = wire
        BY <3>2, <4>1, <1>3
      <4> QED BY <2>3, <2>4, <2>7, <3>1, <4>1, <4>2, <1>6 DEF NothingIsLost
    <3>4. CASE e.kind # "other"
      <4>1. PICK f \in Agent!Frame : Agent!Frames(e) = <<f>> /\ f.text = e.text /\ (f \in InTransit <=> e \in Telling)
        <5>1. e.text \in 0..ClientEvents
          BY <2>1, TextsAreNumbers
        <5>2. CASE e.kind = "calls"
          <6>1. Agent!Frames(e) = <<Agent!Item("toolStatus", e.text)>> /\ e \notin Telling
            BY <2>1, <5>2 DEF Agent!Frames, Telling
          <6>2. /\ Agent!Item("toolStatus", e.text) \in Agent!Frame /\ Agent!Item("toolStatus", e.text).text = e.text
                /\ Agent!Item("toolStatus", e.text) \notin InTransit
            BY <5>1 DEF Agent!Item, InTransit, Agent!Frame
          <6> QED BY <6>1, <6>2
        <5>3. CASE e.kind \in {"answer", "response"}
          <6>1. Agent!Frames(e) = <<Agent!Item("artifact", e.text)>> /\ (e \in Telling <=> e.text # 0)
            BY <2>1, <5>3 DEF Agent!Frames, Telling
          <6>2. /\ Agent!Item("artifact", e.text) \in Agent!Frame /\ Agent!Item("artifact", e.text).text = e.text
                /\ Agent!Item("artifact", e.text) \in InTransit <=> e.text # 0
            BY <5>1 DEF Agent!Item, InTransit, Agent!Frame
          <6> QED BY <6>1, <6>2
        <5> QED BY <2>1, <3>4, <5>2, <5>3 DEF Agent!RemoteEvents
      <4>2. wire' = Append(wire, f)
        BY <3>2, <4>1, <1>3
      <4>3. OnTheWire' = IF f \in InTransit THEN Append(OnTheWire, f.text) ELSE OnTheWire
        BY <1>1, <4>2, TellsOneMore DEF OnTheWire
      <4>4. f.text \in 0..ClientEvents
        BY TextsAreNumbers
      <4>5. \A x \in 0..ClientEvents : Append(Agent!Told, x) = Agent!Tale \o Append(OnTheWire, x)
        <5>1. \A x \in 0..ClientEvents : Append(Agent!Tale \o OnTheWire, x) = Agent!Tale \o Append(OnTheWire, x)
          BY <1>3
        <5> QED BY <3>1, <5>1
      <4>6. Agent!Told' = Agent!Tale \o OnTheWire'
        BY <2>4, <3>1, <4>1, <4>3, <4>4, <4>5
      <4> QED BY <2>3, <2>7, <4>6 DEF NothingIsLost
    <3> QED BY <3>3, <3>4
  <2> QED BY <2>6, <2>7
<1> QED BY <1>9, <1>10, <1>11, <1>12, <1>13, <1>14, <1>15, <1>16, <1>18, <1>19, <1>20 DEF Agent!Next

LEMMA AgentStep ==
  ASSUME Agent!A2AClientAssumption, AgentInv, [Agent!Next]_Agent!vars
  PROVE  AgentInv'
<1>1. CASE Agent!Next
  BY <1>1, AgentTypes, AgentTells, AgentReads DEF AgentInv
<1>2. CASE UNCHANGED Agent!vars
  BY <1>2 DEF Agent!vars, AgentInv, Agent!TypeOK, RemoteIsOver, NothingIsLost, Agent!Told, Agent!Tale, OnTheWire, Agent!Accepted, Agent!FinalText, CallsAreUnread, Agent!CalledTool
<1> QED BY <1>1, <1>2

LEMMA ToldIsTold ==
  ASSUME Agent!A2AClientAssumption, AgentInv
  PROVE  Agent!TellsTheRemoteRun
<1>1. /\ Agent!Told \in Seq(0..ClientEvents) /\ Agent!Tale \in Seq(0..ClientEvents) /\ OnTheWire \in Seq(0..ClientEvents)
  BY TellingTypes DEF AgentInv
<1>2. ASSUME setup.streaming PROVE Agent!IsPrefix(Agent!Tale, Agent!Told)
  <2>1. Agent!Told = Agent!Tale \o OnTheWire
    BY <1>2 DEF AgentInv, NothingIsLost
  <2>2. Len(Agent!Tale) <= Len(Agent!Told) /\ SubSeq(Agent!Tale, 1, Len(Agent!Tale)) = SubSeq(Agent!Told, 1, Len(Agent!Tale))
    BY <1>1, <2>1
  <2> QED BY <2>2 DEF Agent!IsPrefix
<1>3. ASSUME caller = "done"
      PROVE  /\ Agent!Last(shown).kind = "end" /\ Agent!Accepted /\ remote = "completed"
             /\ IF setup.streaming THEN Agent!Tale = Agent!Told /\ ~Agent!CalledTool ELSE Agent!Tale = <<Agent!FinalText>>
  <2>1. Agent!Last(shown).kind = "end" /\ Agent!Accepted /\ remote = "completed"
    BY <1>3 DEF AgentInv, RemoteIsOver, Agent!Last
  <2>2. CASE setup.streaming
    <3>1. Agent!Told = Agent!Tale \o OnTheWire /\ wire = << >>
      BY <1>3, <2>2 DEF AgentInv, NothingIsLost, RemoteIsOver
    <3>2. OnTheWire = << >>
      BY <3>1, SelectOfNone, TextsOfNone DEF OnTheWire
    <3>3. Agent!Told = Agent!Tale
      BY <1>1, <3>1, <3>2
    <3>4. ~Agent!CalledTool
      BY <1>3, <2>2, <3>1 DEF AgentInv, CallsAreUnread
    <3> QED BY <2>1, <2>2, <3>3, <3>4
  <2>3. CASE ~setup.streaming
    BY <1>3, <2>1, <2>3 DEF AgentInv, NothingIsLost
  <2> QED BY <2>2, <2>3
<1> QED BY <1>2, <1>3 DEF Agent!TellsTheRemoteRun

LEMMA AgentLift == MCSpec => Agent!Spec
<1>1. MCInit => Agent!Init
  BY DEF MCInit
<1>2. [MCNext]_allVars => [Agent!Next]_Agent!vars
  BY DEF MCNext, ServerNext, TasksNext, PushNext, ClientNext, allVars, clientVars, Agent!vars
<1> QED BY <1>1, <1>2, PTL DEF MCSpec, Agent!Spec

LEMMA AgentAlways == Agent!Spec => []AgentInv
<1>0. Agent!A2AClientAssumption
  BY A2AAssumption
<1>1. Agent!Init => AgentInv
  BY <1>0, AgentInit
<1>2. AgentInv /\ [Agent!Next]_Agent!vars => AgentInv'
  BY <1>0, AgentStep
<1> QED BY <1>1, <1>2, PTL DEF Agent!Spec

\* A2AAgent.astream, over a connection that may break at any moment: what the
\* local stream has told is a beginning of what the remote run told, in order;
\* and when it ends by itself the message was accepted, the remote run was
\* completed and is told whole, and no call of a remote tool was streamed.
THEOREM TheRemoteRunIsTold == MCSpec => []TellsTheRemoteRun
<1>0. Agent!A2AClientAssumption
  BY A2AAssumption
<1>1. AgentInv => TellsTheRemoteRun
  BY <1>0, ToldIsTold DEF TellsTheRemoteRun
<1> QED BY <1>1, AgentAlways, AgentLift, PTL

-----------------------------------------------------------------------------
\* The types of all four: the states of tasks, replays, webhooks and the client
\* that the code can be in, and no more than max_retries retries.
THEOREM A2ATypes == MCSpec => []MCTypeOK
<1>1. ServerInv /\ StoreTypes => TypeOK
  BY DEF ServerInv, Types, StoreTypes, TypeOK, Replay, Frame
<1>2. PagerInv => Tasks!TypeOK
  BY DEF PagerInv
<1>3. PushInv => Push!TypeOK
  BY DEF PushInv
<1>4. AgentInv => Agent!TypeOK
  BY DEF AgentInv
<1>5. MCSpec => [](TypeOK /\ Tasks!TypeOK /\ Push!TypeOK /\ Agent!TypeOK)
  BY <1>1, <1>2, <1>3, <1>4, ServerAlways, ServerLift, TasksAlways, TasksLift,
     PushAlways, PushLift, AgentAlways, AgentLift, PTL
<1>6. TypeOK /\ Tasks!TypeOK /\ Push!TypeOK /\ Agent!TypeOK => MCTypeOK
  BY DEF MCTypeOK
<1> QED BY <1>5, <1>6, PTL

=============================================================================
