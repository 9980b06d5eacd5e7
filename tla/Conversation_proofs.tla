------------------------- MODULE Conversation_proofs -------------------------
(***************************************************************************)
(* A conversation: the terminal with its queue of messages and its         *)
(* prompts, and the chain of signed events, for any number of messages,    *)
(* lines, branches, signers and tool calls. Each has inductive invariants  *)
(* of its own; a step of the composition is a step of one part, or leaves  *)
(* its variables alone.                                                    *)
(***************************************************************************)
EXTENDS MCConversation, Runner_proofs, Selections_proofs

\* The instances select and count as this module does.
LEMMA SameOperators ==
  ASSUME NEW S
  PROVE  /\ Repl!Cardinality(S) = Cardinality(S)
         /\ \A s : Trust!Select(s, S) = Select(s, S)
         /\ History!Cardinality(S) = Cardinality(S)
         /\ \A i : History!Nth(S, i) = Nth(S, i)
         /\ History!InOrder(S) = InOrder(S)
         /\ LiveText!Cardinality(S) = Cardinality(S)
         /\ \A s : LiveText!Select(s, S) = Select(s, S)
         /\ \A s : Commands!Select(s, S) = Select(s, S)
<1>1. Repl!Cardinality(S) = Cardinality(S)
  BY Zenon DEF Repl!Cardinality, Cardinality
<1>2. ASSUME NEW T PROVE Trust!Cardinality(T) = Cardinality(T)
  BY Zenon DEF Trust!Cardinality, Cardinality
<1>3. ASSUME NEW T, NEW k PROVE Trust!Rank(T, k) = Rank(T, k)
  BY <1>2 DEF Trust!Rank, Rank
<1>4. ASSUME NEW T, NEW i PROVE Trust!Nth(T, i) = Nth(T, i)
  BY <1>3 DEF Trust!Nth, Nth
<1>5. ASSUME NEW s PROVE Trust!Select(s, S) = Select(s, S)
  BY <1>2, <1>4 DEF Trust!Select, Select, Trust!Places, Places
<1>6. ASSUME NEW T PROVE History!Cardinality(T) = Cardinality(T)
  BY Zenon DEF History!Cardinality, Cardinality
<1>7. ASSUME NEW T, NEW k PROVE History!Rank(T, k) = Rank(T, k)
  BY <1>6 DEF History!Rank, Rank
<1>8. ASSUME NEW T, NEW i PROVE History!Nth(T, i) = Nth(T, i)
  BY <1>7 DEF History!Nth, Nth
<1>9. History!InOrder(S) = InOrder(S)
  BY <1>6, <1>8 DEF History!InOrder, InOrder
<1>10. ASSUME NEW T PROVE LiveText!Cardinality(T) = Cardinality(T)
  BY Zenon DEF LiveText!Cardinality, Cardinality
<1>11. ASSUME NEW T, NEW k PROVE LiveText!Rank(T, k) = Rank(T, k)
  BY <1>10 DEF LiveText!Rank, Rank
<1>12. ASSUME NEW T, NEW i PROVE LiveText!Nth(T, i) = Nth(T, i)
  BY <1>11 DEF LiveText!Nth, Nth
<1>13. ASSUME NEW s PROVE LiveText!Select(s, S) = Select(s, S)
  BY <1>10, <1>12 DEF LiveText!Select, Select, LiveText!Places, Places
<1>14. ASSUME NEW T PROVE Commands!Cardinality(T) = Cardinality(T)
  BY Zenon DEF Commands!Cardinality, Cardinality
<1>15. ASSUME NEW T, NEW k PROVE Commands!Rank(T, k) = Rank(T, k)
  BY <1>14 DEF Commands!Rank, Rank
<1>16. ASSUME NEW T, NEW i PROVE Commands!Nth(T, i) = Nth(T, i)
  BY <1>15 DEF Commands!Nth, Nth
<1>17. ASSUME NEW s PROVE Commands!Select(s, S) = Select(s, S)
  BY <1>14, <1>16 DEF Commands!Select, Select, Commands!Places, Places
<1> QED BY <1>1, <1>5, <1>6, <1>8, <1>9, <1>10, <1>13, <1>17

(***************************************************************************)
(* The terminal. The prompts read the workers and never change who is      *)
(* alive, so the argument about the queue is one about Enter, Ctrl-C and   *)
(* the workers' own steps under the lock.                                  *)
(***************************************************************************)
QueueTypes ==
  /\ typed \in 0..MaxTyped /\ running \in BOOLEAN /\ interrupted \in BOOLEAN
  /\ pending \in Seq(Repl!Messages)
  /\ worker \in [Repl!Messages -> Repl!Worker]
  /\ \A w \in Repl!Messages : worker[w].pc = "pushing" => worker[w].hand # <<>>

\* A message's own worker does not exist before the message is typed.
Unborn == \A w \in Repl!Messages : w > typed => worker[w].pc = "none"

\* Without Ctrl-C the lock lets one worker live at a time.
Alone ==
  ~interrupted => IF running THEN \E w \in Repl!Messages : Repl!Live = {w} ELSE Repl!Live = {}

Queue == /\ pending # <<>> => running
         /\ running => Repl!Live # {}

QueueInv == QueueTypes /\ Unborn /\ Alone /\ Queue

-----------------------------------------------------------------------------
LEMMA InitIsAlone == ASSUME Repl!ReplAssumption, Repl!Init PROVE QueueInv
<1>1. QueueTypes
  <2>1. 0 \in 0..MaxTyped /\ <<>> \in Seq(Repl!Messages)
    BY DEF Repl!ReplAssumption
  <2>2. [pc |-> "none", msg |-> 0, hand |-> <<>>, ran |-> FALSE] \in Repl!Worker
    BY <2>1 DEF Repl!Worker
  <2>3. worker \in [Repl!Messages -> Repl!Worker]
    BY <2>2 DEF Repl!Init
  <2>4. \A w \in Repl!Messages : worker[w].pc # "pushing"
    BY DEF Repl!Init
  <2> QED BY <2>1, <2>3, <2>4 DEF Repl!Init, QueueTypes
<1>2. Repl!Live = {}
  BY DEF Repl!Init, Repl!Live
<1> QED BY <1>1, <1>2 DEF Repl!Init, QueueInv, Unborn, Alone, Queue

LEMMA AloneIsCounted == ASSUME QueueInv PROVE Repl!QueueHasAWorker
<1>1. CASE interrupted
  BY <1>1 DEF QueueInv, Queue, Repl!QueueHasAWorker
<1>2. CASE ~interrupted /\ running
  <2>1. PICK w \in Repl!Messages : Repl!Live = {w}
    BY <1>2 DEF QueueInv, Alone
  <2>2. Repl!Cardinality(Repl!Live) = 1
    BY <2>1, FS_Singleton, SameOperators
  <2> QED BY <1>2, <2>2 DEF QueueInv, Queue, Repl!QueueHasAWorker
<1>3. CASE ~interrupted /\ ~running
  <2>1. Repl!Cardinality(Repl!Live) = 0
    BY <1>3, FS_EmptySet, SameOperators DEF QueueInv, Alone
  <2> QED BY <1>3, <2>1 DEF QueueInv, Queue, Repl!QueueHasAWorker
<1> QED BY <1>1, <1>2, <1>3 DEF QueueInv, QueueTypes

\* A step that lets live workers go on living and touches nothing else of the
\* queue, or only gives up entries of it.
LEMMA SameLivesAreAlone ==
  ASSUME QueueInv, UNCHANGED <<typed, running, interrupted>>,
         pending' \in {pending, <<>>},
         NEW w \in Repl!Messages, w \in Repl!Live, w \in Repl!Live',
         NEW r \in Repl!Worker, r.pc = "pushing" => r.hand # <<>>,
         worker' = [worker EXCEPT ![w] = r]
  PROVE  QueueInv'
<1>1. Repl!Live' = Repl!Live
  BY DEF Repl!Live, QueueInv, QueueTypes
<1>2. QueueTypes' /\ Alone' /\ Queue'
  <2>1. QueueTypes'
    <3>1. pending' \in Seq(Repl!Messages)
      <4>1. <<>> \in Seq(Repl!Messages)
        OBVIOUS
      <4>2. pending \in Seq(Repl!Messages)
        BY DEF QueueInv, QueueTypes
      <4> QED BY <4>1, <4>2
    <3>2. worker' \in [Repl!Messages -> Repl!Worker]
      BY DEF QueueInv, QueueTypes
    <3>3. ASSUME NEW v \in Repl!Messages, worker'[v].pc = "pushing" PROVE worker'[v].hand # <<>>
      <4>1. worker'[v] = IF v = w THEN r ELSE worker[v]
        BY DEF QueueInv, QueueTypes
      <4> QED BY <3>3, <4>1 DEF QueueInv, QueueTypes
    <3>4. typed' \in 0..MaxTyped /\ running' \in BOOLEAN /\ interrupted' \in BOOLEAN
      <4>1. typed' = typed /\ running' = running /\ interrupted' = interrupted
        OBVIOUS
      <4> QED BY <4>1 DEF QueueInv, QueueTypes
    <3> QED BY <3>1, <3>2, <3>3, <3>4 DEF QueueTypes
  <2>2. Alone' /\ Queue'
    BY <1>1 DEF QueueInv, Alone, Queue
  <2> QED BY <2>1, <2>2
<1>3. w <= typed
  BY DEF QueueInv, Unborn, QueueTypes, Repl!Live, Repl!Messages
<1>4. Unborn'
  BY <1>3 DEF QueueInv, QueueTypes, Unborn, Repl!Messages
<1> QED BY <1>2, <1>4 DEF QueueInv

\* A worker that ends resets `running`, and leaves no message behind.
LEMMA LastLeavesNothing ==
  ASSUME QueueInv, NEW w \in Repl!Messages, w \in Repl!Live,
         worker' = [worker EXCEPT ![w].pc = "over"],
         running' = FALSE, pending' = <<>>, UNCHANGED <<typed, interrupted>>
  PROVE  QueueInv'
<1> DEFINE r == [worker[w] EXCEPT !.pc = "over"]
<1>0. r \in Repl!Worker /\ r.pc = "over" /\ worker' = [worker EXCEPT ![w] = r]
  BY DEF QueueInv, QueueTypes, Repl!Worker
<1> HIDE DEF r
<1>1. QueueTypes'
  <2>1. /\ worker' \in [Repl!Messages -> Repl!Worker]
        /\ \A v \in Repl!Messages : worker'[v] = IF v = w THEN r ELSE worker[v]
    BY <1>0 DEF QueueInv, QueueTypes
  <2>2. \A v \in Repl!Messages : worker'[v].pc = "pushing" => worker'[v].hand # <<>>
    BY <1>0, <2>1 DEF QueueInv, QueueTypes
  <2>3. /\ pending' \in Seq(Repl!Messages) /\ typed' \in 0..MaxTyped
        /\ running' \in BOOLEAN /\ interrupted' \in BOOLEAN
    <3>1. typed' = typed /\ interrupted' = interrupted
      OBVIOUS
    <3>2. pending' \in Seq(Repl!Messages)
      OBVIOUS
    <3> QED BY <3>1, <3>2 DEF QueueInv, QueueTypes
  <2> QED BY <2>1, <2>2, <2>3 DEF QueueTypes
<1>2. Repl!Live' = Repl!Live \ {w}
  BY <1>0 DEF QueueInv, QueueTypes, Repl!Live
<1>3. Alone'
  BY <1>2 DEF QueueInv, Alone, QueueTypes
<1>4. w <= typed
  BY DEF QueueInv, Unborn, QueueTypes, Repl!Live, Repl!Messages
<1>5. Unborn'
  BY <1>0, <1>4 DEF QueueInv, QueueTypes, Unborn, Repl!Messages
<1> QED BY <1>1, <1>3, <1>5 DEF QueueInv, Queue

-----------------------------------------------------------------------------
LEMMA EnterIsAlone == ASSUME Repl!ReplAssumption, QueueInv, Repl!Enter PROVE QueueInv'
<1>1. typed' \in Repl!Messages /\ typed' = typed + 1 /\ typed' \in 0..MaxTyped
  BY DEF Repl!ReplAssumption, QueueInv, QueueTypes, Repl!Enter, Repl!Messages
<1>2. CASE running
  <2>1. UNCHANGED <<running, worker, interrupted>> /\ pending' = Append(pending, typed')
    BY <1>2 DEF Repl!Enter
  <2>2. pending' \in Seq(Repl!Messages)
    BY <1>1, <2>1 DEF QueueInv, QueueTypes
  <2>3. QueueTypes'
    BY <1>1, <2>1, <2>2 DEF QueueInv, QueueTypes
  <2>4. Unborn'
    BY <1>1, <2>1 DEF QueueInv, QueueTypes, Unborn, Repl!Messages
  <2>5. Repl!Live' = Repl!Live
    BY <2>1 DEF Repl!Live
  <2>6. Alone' /\ Queue'
    BY <1>2, <2>1, <2>5 DEF QueueInv, Alone, Queue
  <2> QED BY <2>3, <2>4, <2>6 DEF QueueInv
<1>3. CASE ~running
  <2> DEFINE r == [worker[typed'] EXCEPT !.pc = "turn", !.msg = typed']
  <2>1. /\ worker' = [worker EXCEPT ![typed'].pc = "turn", ![typed'].msg = typed']
        /\ running' = TRUE /\ UNCHANGED <<pending, interrupted>>
    BY <1>3 DEF Repl!Enter
  <2>2. worker[typed'] \in Repl!Worker /\ worker[typed'].pc = "none"
    BY <1>1 DEF QueueInv, QueueTypes, Unborn, Repl!Messages
  <2>3. worker' = [worker EXCEPT ![typed'] = r]
    BY <1>1, <2>1 DEF QueueInv, QueueTypes
  <2>4. r \in Repl!Worker /\ r.pc = "turn"
    BY <1>1, <2>2 DEF Repl!Worker
  <2> HIDE DEF r
  <2>5. /\ worker' \in [Repl!Messages -> Repl!Worker]
        /\ \A v \in Repl!Messages : worker'[v] = IF v = typed' THEN r ELSE worker[v]
    BY <1>1, <2>3, <2>4 DEF QueueInv, QueueTypes
  <2>6. QueueTypes'
    <3>1. \A v \in Repl!Messages : worker'[v].pc = "pushing" => worker'[v].hand # <<>>
      BY <2>4, <2>5 DEF QueueInv, QueueTypes
    <3> QED BY <1>1, <2>1, <2>5, <3>1 DEF QueueInv, QueueTypes
  <2>7. Repl!Live' = Repl!Live \cup {typed'}
    BY <1>1, <2>4, <2>5 DEF Repl!Live
  <2>8. Unborn'
    BY <1>1, <2>5 DEF QueueInv, QueueTypes, Unborn, Repl!Messages
  <2>9. Alone' /\ Queue'
    BY <1>1, <1>3, <2>1, <2>7 DEF QueueInv, Alone, Queue
  <2> QED BY <2>6, <2>8, <2>9 DEF QueueInv
<1> QED BY <1>2, <1>3 DEF QueueInv, QueueTypes

\* No worker ends by Ctrl-C, and none has a message left to take.
LEMMA CtrlCIsAlone == ASSUME QueueInv, Repl!CtrlC PROVE QueueInv'
<1>1. QueueTypes'
  <2>1. pending' \in Seq(Repl!Messages)
    BY DEF Repl!CtrlC
  <2> QED BY <2>1 DEF Repl!CtrlC, QueueInv, QueueTypes
<1>2. Unborn' /\ Alone' /\ Queue'
  BY DEF QueueInv, Repl!CtrlC, Unborn, Alone, Queue
<1> QED BY <1>1, <1>2 DEF QueueInv

LEMMA DrainIsAlone == ASSUME QueueInv, NEW w \in Repl!Messages, Repl!Drain(w) PROVE QueueInv'
<1>1. w \in Repl!Live /\ worker[w] \in Repl!Worker
  BY DEF Repl!Drain, Repl!Live, QueueInv, QueueTypes
<1>2. CASE pending = <<>>
  BY <1>1, <1>2, LastLeavesNothing DEF Repl!Drain
<1>3. CASE pending # <<>>
  <2> DEFINE r == [worker[w] EXCEPT !.pc = "pushing", !.hand = pending]
  <2>1. worker' = [worker EXCEPT ![w] = r]
    BY <1>3 DEF Repl!Drain
  <2>2. r \in Repl!Worker /\ r.pc = "pushing" /\ r.hand # <<>>
    BY <1>1, <1>3 DEF QueueInv, QueueTypes, Repl!Worker
  <2>3. w \in Repl!Live'
    BY <2>1, <2>2 DEF Repl!Live, QueueInv, QueueTypes
  <2> HIDE DEF r
  <2> QED BY <1>1, <1>3, <2>1, <2>2, <2>3, SameLivesAreAlone DEF Repl!Drain
<1> QED BY <1>2, <1>3

LEMMA DropQueueIsAlone == ASSUME QueueInv, NEW w \in Repl!Messages, Repl!DropQueue(w) PROVE QueueInv'
<1>1. w \in Repl!Live
  BY DEF Repl!DropQueue, Repl!Live
<1> QED BY <1>1, LastLeavesNothing DEF Repl!DropQueue

LEMMA PushIsAlone == ASSUME Repl!ReplAssumption, QueueInv, NEW w \in Repl!Messages, Repl!Push(w) PROVE QueueInv'
<1> DEFINE h == worker[w].hand
           r == [worker[w] EXCEPT !.hand = Tail(h), !.msg = Head(h),
                                  !.pc = IF Tail(h) = <<>> THEN "turn" ELSE "pushing"]
<1>1. /\ w \in Repl!Live /\ worker[w] \in Repl!Worker /\ h \in Seq(Repl!Messages) /\ h # <<>>
  BY DEF Repl!Push, Repl!Live, QueueInv, QueueTypes, Repl!Worker
<1>2. Head(h) \in 0..MaxTyped /\ Tail(h) \in Seq(Repl!Messages)
  <2>1. Head(h) \in Repl!Messages /\ Tail(h) \in Seq(Repl!Messages)
    BY <1>1
  <2> QED BY <2>1 DEF Repl!ReplAssumption, Repl!Messages
<1>3. worker' = [worker EXCEPT ![w] = r]
  BY DEF Repl!Push
<1>4. r \in Repl!Worker /\ r.pc \in {"turn", "pushing"} /\ (r.pc = "pushing" => r.hand # <<>>)
  BY <1>1, <1>2 DEF Repl!Worker
<1>5. w \in Repl!Live'
  BY <1>3, <1>4 DEF Repl!Live, QueueInv, QueueTypes
<1> HIDE DEF r
<1> QED BY <1>1, <1>3, <1>4, <1>5, SameLivesAreAlone DEF Repl!Push

\* A turn: lines, an approval or a question, the tool, the end.
LEMMA TurnIsAlone ==
  ASSUME QueueInv, NEW w \in Repl!Messages, worker[w].pc \in {"turn", "tool"},
         NEW pc \in {"turn", "tool", "deciding", "failing"}, NEW ran \in BOOLEAN,
         worker' = [worker EXCEPT ![w].pc = pc, ![w].ran = ran],
         UNCHANGED <<typed, running, pending, interrupted>>
  PROVE  QueueInv'
<1> DEFINE r == [worker[w] EXCEPT !.pc = pc, !.ran = ran]
<1>1. w \in Repl!Live /\ worker[w] \in Repl!Worker
  BY DEF Repl!Live, QueueInv, QueueTypes
<1>2. worker' = [worker EXCEPT ![w] = r]
  OBVIOUS
<1>3. r \in Repl!Worker /\ r.pc = pc
  BY <1>1 DEF Repl!Worker
<1>4. w \in Repl!Live'
  BY <1>2, <1>3 DEF Repl!Live, QueueInv, QueueTypes
<1> HIDE DEF r
<1> QED BY <1>1, <1>2, <1>3, <1>4, SameLivesAreAlone

LEMMA WorkerIsAlone ==
  ASSUME QueueInv, NEW w \in Repl!Messages,
         \/ Repl!TurnEnds(w) \/ Repl!TurnFails(w) \/ Repl!ToolRuns(w)
         \/ \E kind \in {"approval", "question"} : Repl!Asks(w, kind)
  PROVE  QueueInv'
<1>1. worker[w] \in Repl!Worker /\ worker[w].ran \in BOOLEAN
  BY DEF QueueInv, QueueTypes, Repl!Worker
<1>2. \A pc \in {"turn", "tool", "deciding", "failing"} :
        [worker EXCEPT ![w].pc = pc] =
          [worker EXCEPT ![w].pc = pc, ![w].ran = worker[w].ran]
  BY <1>1 DEF QueueInv, QueueTypes, Repl!Worker
<1>3. CASE Repl!TurnEnds(w)
  BY <1>1, <1>2, <1>3, TurnIsAlone DEF Repl!TurnEnds
<1>4. CASE Repl!TurnFails(w)
  BY <1>1, <1>2, <1>4, TurnIsAlone DEF Repl!TurnFails
<1>5. CASE Repl!ToolRuns(w)
  BY <1>5, TurnIsAlone DEF Repl!ToolRuns
<1>6. ASSUME NEW kind \in {"approval", "question"}, Repl!Asks(w, kind) PROVE QueueInv'
  <2>1. PICK pc \in {"turn", "tool"} : worker' = [worker EXCEPT ![w].pc = pc]
    BY <1>6 DEF Repl!Asks
  <2> QED BY <1>1, <1>2, <1>6, <2>1, TurnIsAlone, ZenonT(60) DEF Repl!Asks
<1> QED BY <1>3, <1>4, <1>5, <1>6

LEMMA OthersLeaveTheQueue ==
  ASSUME QueueInv, UNCHANGED <<typed, running, pending, worker, interrupted>> PROVE QueueInv'
BY DEF QueueInv, QueueTypes, Unborn, Alone, Queue, Repl!Live

LEMMA StepIsAlone == ASSUME Repl!ReplAssumption, QueueInv, [Repl!Next]_Repl!vars PROVE QueueInv'
<1>1. CASE UNCHANGED Repl!vars
  BY <1>1, OthersLeaveTheQueue DEF Repl!vars
<1>2. CASE Repl!CommandAsks \/ Repl!TypeSomething \/ Repl!EnterText \/ Repl!EscapeText \/ Repl!ClosePrompt
  BY <1>2, OthersLeaveTheQueue
  DEF Repl!CommandAsks, Repl!TypeSomething, Repl!EnterText, Repl!EscapeText, Repl!ClosePrompt, Repl!queueVars
<1>3. ASSUME NEW a \in Repl!Askers, Repl!NewEvent(a) \/ Repl!ShowPrompt(a) \/ Repl!Answered(a) PROVE QueueInv'
  BY <1>3, OthersLeaveTheQueue DEF Repl!NewEvent, Repl!ShowPrompt, Repl!Answered, Repl!queueVars
<1>4. ASSUME NEW r \in {"y", "n", "text", ""}, Repl!Choose(r) PROVE QueueInv'
  BY <1>4, OthersLeaveTheQueue DEF Repl!Choose, Repl!queueVars
<1>5. ASSUME NEW w \in Repl!Messages, Repl!Shows(w) PROVE QueueInv'
  BY <1>5, OthersLeaveTheQueue DEF Repl!Shows
<1> QED
  BY <1>1, <1>2, <1>3, <1>4, <1>5, EnterIsAlone, CtrlCIsAlone, DrainIsAlone,
     DropQueueIsAlone, PushIsAlone, WorkerIsAlone DEF Repl!Next

-----------------------------------------------------------------------------
LineFollows(h) ==
  \A j, k \in 1..Len(h) :
    j < k => IF h[k].kind = "user" THEN h[j].msg < h[k].msg ELSE h[j].msg <= h[k].msg

Increasing(s, from, to) ==
  /\ \A i \in 1..Len(s) : from < s[i] /\ s[i] <= to
  /\ \A i, j \in 1..Len(s) : i < j => s[i] < s[j]

Below(h, m) == \A k \in 1..Len(h) : h[k].msg <= m

\* Without Ctrl-C the lines end with the message being run, the messages taken
\* from the queue come after it, and those in the queue after these.
Place(h, p, n, msg, hand) ==
  /\ Below(h, msg) /\ msg <= n
  /\ Increasing(hand, msg, n) /\ Increasing(p, msg, n)
  /\ \A i \in 1..Len(hand), j \in 1..Len(p) : hand[i] < p[j]

LineTypes ==
  /\ history \in Seq([kind : {"user", "answer", "error"}, msg : Repl!Messages])
  /\ \A w \in Repl!Messages : worker[w].pc # "pushing" => worker[w].hand = <<>>
  /\ \A w \in Repl!Live : worker[w].pc # "none" => worker[w].msg \in Repl!Messages

Lines ==
  ~interrupted =>
    /\ LineFollows(history) /\ Below(history, typed)
    /\ \A w \in Repl!Live : Place(history, pending, typed, worker[w].msg, worker[w].hand)

LinesInv == LineTypes /\ Lines

LEMMA LineGoesLast ==
  ASSUME NEW L, NEW h \in Seq(L), NEW x \in L, NEW n \in Nat, x.msg \in Nat, x.msg <= n,
         \A y \in L : y.msg \in Nat,
         LineFollows(h), Below(h, x.msg), x.kind = "user" => \A k \in 1..Len(h) : h[k].msg < x.msg
  PROVE  LineFollows(Append(h, x)) /\ Below(Append(h, x), x.msg) /\ Below(Append(h, x), n)
<1> DEFINE z == Append(h, x)
<1>1. /\ Len(h) \in Nat /\ Len(z) = Len(h) + 1 /\ z[Len(h) + 1] = x
      /\ \A k \in 1..Len(h) : z[k] = h[k] /\ h[k] \in L
  OBVIOUS
<1> HIDE DEF z
<1>2. \A k \in 1..Len(z) : z[k].msg <= x.msg /\ z[k].msg \in Nat
  BY <1>1 DEF Below
<1>3. LineFollows(z)
  <2> SUFFICES ASSUME NEW j \in 1..Len(z), NEW k \in 1..Len(z), j < k
               PROVE  IF z[k].kind = "user" THEN z[j].msg < z[k].msg ELSE z[j].msg <= z[k].msg
    BY DEF LineFollows
  <2>1. j \in 1..Len(h) /\ z[j] = h[j]
    BY <1>1
  <2>2. CASE k \in 1..Len(h)
    BY <1>1, <2>1, <2>2 DEF LineFollows
  <2>3. CASE k = Len(h) + 1
    BY <1>1, <1>2, <2>1, <2>3
  <2> QED BY <1>1, <2>2, <2>3, SMTT(30)
<1>4. Below(z, x.msg) /\ Below(z, n)
  BY <1>2 DEF Below
<1> QED BY <1>3, <1>4 DEF z

LEMMA LinesInit == ASSUME Repl!ReplAssumption, Repl!Init PROVE LinesInv
<1>1. history = <<>> /\ pending = <<>> /\ Repl!Live = {}
  BY DEF Repl!Init, Repl!Live
<1>2. \A w \in Repl!Messages : worker[w].hand = <<>>
  BY DEF Repl!Init
<1> QED BY <1>1, <1>2 DEF LinesInv, LineTypes, Lines, LineFollows, Below

\* Steps of the lines' types, for a worker that goes on.
LEMMA OneGoesOn ==
  ASSUME QueueInv, LinesInv, NEW w \in Repl!Messages, w \in Repl!Live, UNCHANGED <<typed, interrupted>>,
         NEW r \in Repl!Worker, worker' = [worker EXCEPT ![w] = r],
         r.pc # "pushing" => r.hand = <<>>, r.msg \in Repl!Messages, r.pc # "none",
         history' \in Seq([kind : {"user", "answer", "error"}, msg : Repl!Messages]),
         ~interrupted => /\ LineFollows(history') /\ Below(history', typed)
                         /\ Place(history', pending', typed, r.msg, r.hand)
  PROVE  LinesInv'
<1>1. \A v \in Repl!Messages : worker'[v] = IF v = w THEN r ELSE worker[v]
  BY DEF QueueInv, QueueTypes
<1>2. LineTypes'
  <2>1. \A v \in Repl!Messages : worker'[v].pc # "pushing" => worker'[v].hand = <<>>
    BY <1>1 DEF LinesInv, LineTypes
  <2>2. \A v \in Repl!Live' : worker'[v].msg \in Repl!Messages
    BY <1>1 DEF Repl!Live, LinesInv, LineTypes
  <2> QED BY <2>1, <2>2 DEF LineTypes
<1>3. ASSUME ~interrupted PROVE \A v \in Repl!Live' : v = w
  <2>1. Repl!Live = {w}
    BY <1>3 DEF QueueInv, Alone
  <2>2. \A v \in Repl!Live' : v \in Repl!Live \cup {w}
    BY <1>1 DEF Repl!Live
  <2> QED BY <2>1, <2>2
<1>4. Lines'
  BY <1>1, <1>3 DEF Lines
<1> QED BY <1>2, <1>4 DEF LinesInv

LEMMA PlaceOf ==
  ASSUME QueueInv, LinesInv, NEW w \in Repl!Messages, w \in Repl!Live
  PROVE  /\ worker[w] \in Repl!Worker /\ worker[w].msg \in Repl!Messages /\ typed \in Nat
         /\ \A m \in Repl!Messages : m \in Nat
         /\ pending \in Seq(Repl!Messages)
         /\ history \in Seq([kind : {"user", "answer", "error"}, msg : Repl!Messages])
         /\ worker[w].pc # "pushing" => worker[w].hand = <<>>
         /\ ~interrupted => /\ LineFollows(history) /\ Below(history, typed)
                            /\ Place(history, pending, typed, worker[w].msg, worker[w].hand)
BY DEF QueueInv, QueueTypes, LinesInv, LineTypes, Lines, Repl!Live, Repl!Messages

\* A line of the message being run.
LEMMA LineOfTheTurn ==
  ASSUME QueueInv, LinesInv, NEW w \in Repl!Messages, w \in Repl!Live, NEW kind \in {"answer", "error"},
         Repl!Line(kind, worker[w].msg)
  PROVE  /\ history' \in Seq([kind : {"user", "answer", "error"}, msg : Repl!Messages])
         /\ ~interrupted => /\ LineFollows(history') /\ Below(history', typed)
                            /\ Place(history', pending, typed, worker[w].msg, worker[w].hand)
<1> DEFINE L == [kind : {"user", "answer", "error"}, msg : Repl!Messages]
           x == [kind |-> kind, msg |-> worker[w].msg]
<1>1. /\ worker[w].msg \in Repl!Messages /\ typed \in Nat /\ \A m \in Repl!Messages : m \in Nat
      /\ history \in Seq(L) /\ history' = Append(history, x)
      /\ ~interrupted => /\ LineFollows(history) /\ Below(history, typed)
                         /\ Place(history, pending, typed, worker[w].msg, worker[w].hand)
  BY PlaceOf DEF Repl!Line
<1>2. x \in L /\ x.msg = worker[w].msg /\ x.kind # "user" /\ \A y \in L : y.msg \in Nat
  BY <1>1
<1> HIDE DEF L, x
<1>3. history' \in Seq(L)
  BY <1>1, <1>2
<1>4. ASSUME ~interrupted
      PROVE  /\ LineFollows(history') /\ Below(history', typed)
             /\ Place(history', pending, typed, worker[w].msg, worker[w].hand)
  <2>1. Below(history, x.msg) /\ x.msg <= typed /\ LineFollows(history) /\ x.msg \in Nat
    BY <1>1, <1>2, <1>4 DEF Place
  <2>2. LineFollows(history') /\ Below(history', x.msg) /\ Below(history', typed)
    BY <1>1, <1>2, <2>1, LineGoesLast
  <2> QED BY <1>1, <1>2, <1>4, <2>2 DEF Place
<1> QED BY <1>3, <1>4 DEF L

LEMMA EnterIsInOrder == ASSUME Repl!ReplAssumption, QueueInv, LinesInv, Repl!Enter PROVE LinesInv'
<1> DEFINE L == [kind : {"user", "answer", "error"}, msg : Repl!Messages]
           m == typed'
<1>1. /\ m \in Repl!Messages /\ m = typed + 1 /\ typed \in Nat /\ UNCHANGED interrupted
      /\ \A k \in Repl!Messages : k \in Nat
      /\ history \in Seq(L) /\ pending \in Seq(Repl!Messages) /\ worker \in [Repl!Messages -> Repl!Worker]
  BY DEF Repl!ReplAssumption, QueueInv, QueueTypes, Repl!Enter, Repl!Messages, LinesInv, LineTypes
<1>2. CASE running
  <2>1. UNCHANGED <<worker, history>> /\ pending' = Append(pending, m) /\ Repl!Live' = Repl!Live
    BY <1>2 DEF Repl!Enter, Repl!Live
  <2>2. LineTypes'
    BY <2>1 DEF LinesInv, LineTypes
  <2>3. /\ Len(pending) \in Nat /\ Len(pending') = Len(pending) + 1 /\ pending'[Len(pending) + 1] = m
        /\ \A k \in 1..Len(pending) : pending'[k] = pending[k] /\ pending[k] \in Nat
    <3>1. Len(pending) \in Nat /\ \A k \in 1..Len(pending) : pending[k] \in Nat
      BY <1>1, ElementsOf
    <3>2. m \in Repl!Messages /\ pending \in Seq(Repl!Messages) /\ pending' = Append(pending, m)
      BY <1>1, <2>1
    <3> HIDE DEF m
    <3> QED BY <3>1, <3>2
  <2>4. ASSUME ~interrupted, NEW w \in Repl!Live
        PROVE  Place(history, pending', m, worker[w].msg, worker[w].hand)
    <3> DEFINE msg == worker[w].msg
               hand == worker[w].hand
    <3>1. /\ Place(history, pending, typed, msg, hand)
          /\ msg \in Nat /\ hand \in Seq(Repl!Messages)
      BY <1>1, <2>4 DEF LinesInv, Lines, LineTypes, Repl!Live, Repl!Worker
    <3> HIDE DEF msg, hand
    <3>2. Len(hand) \in Nat /\ \A i \in 1..Len(hand) : hand[i] \in Nat
      BY <1>1, <3>1, ElementsOf
    <3>3. Below(history, msg) /\ msg <= m /\ Increasing(hand, msg, m)
      BY <1>1, <3>1, <3>2 DEF Place, Increasing
    <3>4. Increasing(pending', msg, m)
      <4>1. \A k \in 1..Len(pending) : msg < pending[k] /\ pending[k] < m
        BY <1>1, <2>3, <3>1 DEF Place, Increasing
      <4>2. \A k \in 1..Len(pending') : msg < pending'[k] /\ pending'[k] <= m
        BY <1>1, <2>3, <3>1, <4>1 DEF Place
      <4>3. \A i, j \in 1..Len(pending') : i < j => pending'[i] < pending'[j]
        <5> SUFFICES ASSUME NEW i \in 1..Len(pending'), NEW j \in 1..Len(pending'), i < j
                     PROVE  pending'[i] < pending'[j]
          OBVIOUS
        <5>1. i \in 1..Len(pending) /\ pending'[i] = pending[i]
          BY <2>3
        <5>2. CASE j \in 1..Len(pending)
          BY <2>3, <3>1, <5>1, <5>2 DEF Place, Increasing
        <5>3. CASE j = Len(pending) + 1
          BY <2>3, <4>1, <5>1, <5>3
        <5> QED BY <2>3, <5>2, <5>3
      <4> QED BY <4>2, <4>3 DEF Increasing
    <3>5. \A i \in 1..Len(hand), j \in 1..Len(pending') : hand[i] < pending'[j]
      <4>1. \A i \in 1..Len(hand) : hand[i] < m
        BY <1>1, <3>1, <3>2 DEF Place, Increasing
      <4> QED BY <2>3, <3>1, <4>1 DEF Place
    <3> QED BY <3>3, <3>4, <3>5 DEF Place, msg, hand
  <2>5. ASSUME ~interrupted PROVE Below(history, m)
    <3>1. \A k \in 1..Len(history) : history[k].msg \in Nat
      <4>1. \A y \in L : y.msg \in Nat
        BY <1>1
      <4> HIDE DEF L
      <4> QED BY <1>1, <4>1, ElementsOf
    <3> QED BY <1>1, <2>5, <3>1 DEF LinesInv, Lines, Below
  <2>6. Lines'
    BY <1>1, <2>1, <2>4, <2>5 DEF LinesInv, Lines
  <2> QED BY <2>2, <2>6 DEF LinesInv
<1>3. CASE ~running
  <2> DEFINE r == [worker[m] EXCEPT !.pc = "turn", !.msg = m]
             x == [kind |-> "user", msg |-> m]
  <2>1. worker[m] \in Repl!Worker /\ worker[m].pc = "none" /\ worker[m].hand = <<>>
    BY <1>1 DEF QueueInv, Unborn, LinesInv, LineTypes
  <2>2. /\ worker' = [worker EXCEPT ![m].pc = "turn", ![m].msg = m]
        /\ history' = Append(history, x) /\ pending' = pending /\ pending = <<>>
    BY <1>3 DEF Repl!Enter, Repl!Line, QueueInv, Queue
  <2>3. r.hand = <<>> /\ r.msg = m /\ r.pc = "turn"
    BY <1>1, <2>1 DEF Repl!Worker
  <2>4. \A v \in Repl!Messages : worker'[v] = IF v = m THEN r ELSE worker[v]
    BY <1>1, <2>2
  <2> HIDE DEF r
  <2>5. x \in L /\ x.msg = m /\ \A y \in L : y.msg \in Nat
    BY <1>1
  <2> HIDE DEF x, L
  <2>6. LineTypes'
    <3>1. history' \in Seq(L)
      BY <1>1, <2>2, <2>5
    <3>2. \A v \in Repl!Messages : worker'[v].pc # "pushing" => worker'[v].hand = <<>>
      BY <2>3, <2>4 DEF LinesInv, LineTypes
    <3>3. \A v \in Repl!Live' : worker'[v].msg \in Repl!Messages
      BY <1>1, <2>3, <2>4 DEF Repl!Live, LinesInv, LineTypes
    <3> QED BY <3>1, <3>2, <3>3 DEF LineTypes, L
  <2>7. ASSUME ~interrupted
        PROVE  /\ LineFollows(history') /\ Below(history', m)
               /\ \A w \in Repl!Live' : Place(history', pending', m, worker'[w].msg, worker'[w].hand)
    <3>1. Repl!Live = {}
      BY <1>3, <2>7 DEF QueueInv, Alone
    <3>2. \A w \in Repl!Live' : w = m
      BY <2>4, <3>1 DEF Repl!Live
    <3>3. LineFollows(history) /\ \A k \in 1..Len(history) : history[k].msg < m /\ history[k].msg <= m
      <4>1. \A k \in 1..Len(history) : history[k].msg \in Nat
        BY <1>1, <2>5
      <4> QED BY <1>1, <2>7, <4>1 DEF LinesInv, Lines, Below
    <3>4. Below(history, x.msg)
      BY <2>5, <3>3 DEF Below
    <3>5. LineFollows(history') /\ Below(history', m)
      <4>1. m \in Nat /\ x.msg \in Nat /\ x.msg <= m /\ history \in Seq(L)
        BY <1>1, <2>5
      <4> QED BY <2>2, <2>5, <3>3, <3>4, <4>1, LineGoesLast
    <3>6. Place(history', pending', m, r.msg, r.hand)
      BY <1>1, <2>2, <2>3, <3>5 DEF Place, Increasing
    <3> QED BY <2>4, <3>2, <3>5, <3>6, <1>1
  <2>8. Lines'
    BY <1>1, <2>7 DEF Lines
  <2> QED BY <2>6, <2>8 DEF LinesInv
<1> QED BY <1>2, <1>3 DEF QueueInv, QueueTypes

LEMMA TurnIsInOrder ==
  ASSUME QueueInv, LinesInv, NEW w \in Repl!Messages,
         \/ Repl!Shows(w) \/ Repl!TurnEnds(w) \/ Repl!TurnFails(w) \/ Repl!ToolRuns(w)
         \/ \E kind \in {"approval", "question"} : Repl!Asks(w, kind)
  PROVE  LinesInv'
<1> DEFINE L == [kind : {"user", "answer", "error"}, msg : Repl!Messages]
<1>1. w \in Repl!Live /\ UNCHANGED <<typed, interrupted, pending>> /\ worker[w].pc # "pushing"
  BY DEF Repl!Live, Repl!Shows, Repl!TurnEnds, Repl!TurnFails, Repl!ToolRuns, Repl!Asks
<1>2. /\ worker[w] \in Repl!Worker /\ worker[w].msg \in Repl!Messages /\ worker[w].hand = <<>>
      /\ history \in Seq(L)
      /\ ~interrupted => /\ LineFollows(history) /\ Below(history, typed)
                         /\ Place(history, pending, typed, worker[w].msg, worker[w].hand)
  BY <1>1, PlaceOf
<1>3. /\ history' \in Seq(L)
      /\ ~interrupted => /\ LineFollows(history') /\ Below(history', typed)
                         /\ Place(history', pending', typed, worker[w].msg, worker[w].hand)
  <2>1. CASE history' = history
    BY <1>1, <1>2, <2>1
  <2>2. CASE \E kind \in {"answer", "error"} : Repl!Line(kind, worker[w].msg)
    BY <1>1, <2>2, LineOfTheTurn
  <2> QED BY <2>1, <2>2 DEF Repl!Shows, Repl!TurnEnds, Repl!TurnFails, Repl!ToolRuns, Repl!Asks
<1>4. PICK r \in Repl!Worker : /\ worker' = [worker EXCEPT ![w] = r]
                               /\ r.msg = worker[w].msg /\ r.hand = worker[w].hand
                               /\ r.pc # "pushing" /\ r.pc # "none"
  <2>1. PICK pc \in {"turn", "tool", "deciding", "failing"}, ran \in BOOLEAN :
          worker' = [worker EXCEPT ![w] = [worker[w] EXCEPT !.pc = pc, !.ran = ran]]
    <3>0. worker[w].ran \in BOOLEAN /\ worker[w].ran = worker[w].ran /\ worker \in [Repl!Messages -> Repl!Worker]
      BY <1>2 DEF Repl!Worker, QueueInv, QueueTypes
    <3>1. \A pc : [worker EXCEPT ![w].pc = pc]
                   = [worker EXCEPT ![w] = [worker[w] EXCEPT !.pc = pc, !.ran = worker[w].ran]]
      BY <1>2, <3>0 DEF Repl!Worker
    <3>2. CASE Repl!Shows(w)
      <4>1. worker' = worker /\ worker[w].pc = "turn"
        BY <3>2 DEF Repl!Shows
      <4>2. worker = [worker EXCEPT ![w] = [worker[w] EXCEPT !.pc = "turn", !.ran = worker[w].ran]]
        BY <1>2, <3>0, <4>1 DEF Repl!Worker
      <4> QED BY <3>0, <4>1, <4>2
    <3>3. CASE Repl!TurnEnds(w) \/ Repl!TurnFails(w)
      BY <3>0, <3>1, <3>3 DEF Repl!TurnEnds, Repl!TurnFails
    <3>4. CASE Repl!ToolRuns(w)
      BY <3>4 DEF Repl!ToolRuns
    <3>5. ASSUME NEW kind \in {"approval", "question"}, Repl!Asks(w, kind)
          PROVE  \E pc \in {"turn", "tool"} :
                   worker' = [worker EXCEPT ![w] = [worker[w] EXCEPT !.pc = pc, !.ran = worker[w].ran]]
      BY <3>1, <3>5 DEF Repl!Asks
    <3> QED BY <3>0, <3>2, <3>3, <3>4, <3>5
  <2> DEFINE r == [worker[w] EXCEPT !.pc = pc, !.ran = ran]
  <2>2. /\ r \in Repl!Worker /\ r.msg = worker[w].msg /\ r.hand = worker[w].hand /\ r.pc = pc
    BY <1>2 DEF Repl!Worker
  <2> QED BY <2>1, <2>2
<1> QED BY <1>1, <1>2, <1>3, <1>4, OneGoesOn

LEMMA LockIsInOrder ==
  ASSUME QueueInv, LinesInv, NEW w \in Repl!Messages, Repl!Drain(w) \/ Repl!DropQueue(w)
  PROVE  LinesInv'
<1>1. /\ w \in Repl!Live /\ UNCHANGED <<typed, interrupted, history>> /\ worker[w].pc # "pushing"
  BY DEF Repl!Live, Repl!Drain, Repl!DropQueue
<1>2. /\ worker[w] \in Repl!Worker /\ worker[w].msg \in Repl!Messages /\ worker[w].hand = <<>>
      /\ pending \in Seq(Repl!Messages)
      /\ history \in Seq([kind : {"user", "answer", "error"}, msg : Repl!Messages])
      /\ ~interrupted => /\ LineFollows(history) /\ Below(history, typed)
                         /\ Place(history, pending, typed, worker[w].msg, worker[w].hand)
  BY <1>1, PlaceOf
<1>3. CASE worker' = [worker EXCEPT ![w].pc = "over"] /\ pending' \in {pending, <<>>}
  <2> DEFINE r == [worker[w] EXCEPT !.pc = "over"]
  <2>1. r \in Repl!Worker /\ r.pc = "over" /\ r.msg = worker[w].msg /\ r.hand = <<>>
    BY <1>2 DEF Repl!Worker
  <2>2. worker' = [worker EXCEPT ![w] = r]
    BY <1>3
  <2> HIDE DEF r
  <2>3. ~interrupted => Place(history, pending', typed, r.msg, r.hand)
    BY <1>2, <1>3, <2>1 DEF Place, Increasing
  <2> QED BY <1>1, <1>2, <2>1, <2>2, <2>3, OneGoesOn
<1>4. CASE worker' = [worker EXCEPT ![w].pc = "pushing", ![w].hand = pending] /\ pending' = <<>>
  <2> DEFINE r == [worker[w] EXCEPT !.pc = "pushing", !.hand = pending]
  <2>1. r \in Repl!Worker /\ r.pc = "pushing" /\ r.msg = worker[w].msg /\ r.hand = pending
    BY <1>2 DEF Repl!Worker
  <2>2. worker' = [worker EXCEPT ![w] = r]
    BY <1>4
  <2> HIDE DEF r
  <2>3. ~interrupted => Place(history, pending', typed, r.msg, r.hand)
    BY <1>2, <1>4, <2>1 DEF Place, Increasing
  <2> QED BY <1>1, <1>2, <2>1, <2>2, <2>3, OneGoesOn
<1> QED BY <1>3, <1>4 DEF Repl!Drain, Repl!DropQueue

LEMMA PushIsInOrder ==
  ASSUME Repl!ReplAssumption, QueueInv, LinesInv, NEW w \in Repl!Messages, Repl!Push(w)
  PROVE  LinesInv'
<1> DEFINE L == [kind : {"user", "answer", "error"}, msg : Repl!Messages]
           h == worker[w].hand
           m == Head(h)
           t == Tail(h)
           x == [kind |-> "user", msg |-> m]
           r == [worker[w] EXCEPT !.hand = t, !.msg = m, !.pc = IF t = <<>> THEN "turn" ELSE "pushing"]
<1>1. w \in Repl!Live /\ UNCHANGED <<typed, interrupted, pending>> /\ worker[w].pc = "pushing"
  BY DEF Repl!Live, Repl!Push
<1>2. /\ worker[w] \in Repl!Worker /\ worker[w].msg \in Repl!Messages /\ h \in Seq(Repl!Messages) /\ h # <<>>
      /\ pending \in Seq(Repl!Messages) /\ history \in Seq(L)
      /\ typed \in Nat /\ \A k \in Repl!Messages : k \in Nat
      /\ ~interrupted => /\ LineFollows(history) /\ Below(history, typed)
                         /\ Place(history, pending, typed, worker[w].msg, h)
  BY <1>1, PlaceOf DEF Repl!Worker, QueueInv, QueueTypes
<1>3. /\ Len(h) \in Nat \ {0} /\ m = h[1] /\ m \in Repl!Messages /\ t \in Seq(Repl!Messages)
      /\ Len(t) = Len(h) - 1 /\ \A i \in 1..Len(t) : t[i] = h[i + 1]
      /\ \A i \in 1..Len(h) : h[i] \in Nat
  BY <1>2
<1>4. m \in 0..MaxTyped
  BY <1>3 DEF Repl!ReplAssumption, Repl!Messages
<1>5. history' = Append(history, x) /\ worker' = [worker EXCEPT ![w] = r]
  BY DEF Repl!Push, Repl!Line
<1>6. /\ r \in Repl!Worker /\ r.msg = m /\ r.hand = t /\ r.pc # "none"
      /\ r.pc # "pushing" => r.hand = <<>>
  BY <1>2, <1>3, <1>4 DEF Repl!Worker
<1>7. x \in L /\ x.msg = m /\ \A y \in L : y.msg \in Nat
  BY <1>2, <1>3
<1> HIDE DEF r, x, L, t, m, h
<1>8. history' \in Seq(L)
  BY <1>2, <1>5, <1>7
<1>9. ASSUME ~interrupted
      PROVE  LineFollows(history') /\ Below(history', typed) /\ Place(history', pending, typed, m, t)
  <2>1. LineFollows(history) /\ Place(history, pending, typed, worker[w].msg, h)
    BY <1>2, <1>9
  <2>2. 1 \in 1..Len(h) /\ worker[w].msg < m /\ m <= typed
    BY <1>3, <2>1 DEF Place, Increasing
  <2>3. \A k \in 1..Len(history) : history[k].msg < m /\ history[k].msg <= m
    <3>1. \A k \in 1..Len(history) : history[k].msg \in Nat
      BY <1>2, <1>7
    <3> QED BY <1>2, <1>3, <2>1, <2>2, <3>1 DEF Place, Below
  <2>4. Below(history, x.msg) /\ x.msg <= typed /\ x.msg \in Nat
    BY <1>2, <1>3, <1>7, <2>2, <2>3 DEF Below
  <2>5. LineFollows(history') /\ Below(history', m) /\ Below(history', typed)
    BY <1>2, <1>5, <1>7, <2>1, <2>3, <2>4, LineGoesLast
  <2>6. \A i \in 1..Len(t) : i + 1 \in 1..Len(h) /\ 1 < i + 1
    BY <1>3
  <2>7. Increasing(t, m, typed)
    <3>1. \A i \in 1..Len(t) : m < t[i] /\ t[i] <= typed
      BY <1>3, <2>1, <2>2, <2>6 DEF Place, Increasing
    <3>2. \A i, j \in 1..Len(t) : i < j => i + 1 < j + 1
      BY <1>3
    <3>3. \A i, j \in 1..Len(t) : i < j => t[i] < t[j]
      BY <1>3, <2>1, <2>6, <3>2 DEF Place, Increasing
    <3> QED BY <3>1, <3>3 DEF Increasing
  <2>8. Increasing(pending, m, typed)
    BY <1>3, <2>1, <2>2 DEF Place, Increasing
  <2>9. \A i \in 1..Len(t), j \in 1..Len(pending) : t[i] < pending[j]
    BY <1>3, <2>1, <2>6 DEF Place
  <2> QED BY <2>2, <2>5, <2>7, <2>8, <2>9 DEF Place
<1> QED BY <1>1, <1>3, <1>5, <1>6, <1>8, <1>9, OneGoesOn DEF L

LEMMA LinesStep == ASSUME Repl!ReplAssumption, QueueInv, LinesInv, [Repl!Next]_Repl!vars PROVE LinesInv'
<1>1. ASSUME UNCHANGED <<typed, running, pending, worker, history, interrupted>> PROVE LinesInv'
  BY <1>1 DEF LinesInv, LineTypes, Lines, Repl!Live
<1>2. CASE UNCHANGED Repl!vars
  BY <1>1, <1>2 DEF Repl!vars
<1>3. CASE Repl!CommandAsks \/ Repl!TypeSomething \/ Repl!EnterText \/ Repl!EscapeText \/ Repl!ClosePrompt
  BY <1>1, <1>3 DEF Repl!CommandAsks, Repl!TypeSomething, Repl!EnterText, Repl!EscapeText, Repl!ClosePrompt, Repl!queueVars
<1>4. ASSUME NEW a \in Repl!Askers, Repl!NewEvent(a) \/ Repl!ShowPrompt(a) \/ Repl!Answered(a) PROVE LinesInv'
  BY <1>1, <1>4 DEF Repl!NewEvent, Repl!ShowPrompt, Repl!Answered, Repl!queueVars
<1>5. ASSUME NEW r \in {"y", "n", "text", ""}, Repl!Choose(r) PROVE LinesInv'
  BY <1>1, <1>5 DEF Repl!Choose, Repl!queueVars
<1>6. CASE Repl!CtrlC
  BY <1>6 DEF Repl!CtrlC, LinesInv, LineTypes, Lines, Repl!Live
<1> QED
  BY <1>2, <1>3, <1>4, <1>5, <1>6, EnterIsInOrder, TurnIsInOrder, LockIsInOrder, PushIsInOrder DEF Repl!Next

LEMMA LinesSafe == ASSUME LinesInv PROVE Repl!LinesFollowTheirMessage
<1>1. DOMAIN history = 1..Len(history)
  BY DEF LinesInv, LineTypes
<1> QED BY <1>1 DEF LinesInv, Lines, LineFollows, Repl!LinesFollowTheirMessage

-----------------------------------------------------------------------------
PromptRecord == [pc : {"idle", "asking", "waiting", "woken", "answered"},
           kind : {"approval", "question"}, answer : {"", "y", "n", "text"}]
Keyboard == [event : Repl!Askers \cup {Repl!NoOne}, result : {"", "y", "n", "text"},
             active : BOOLEAN, freetext : BOOLEAN, prompt : Repl!Askers \cup {Repl!NoOne}]

PromptTypes ==
  /\ ask \in [Repl!Askers -> PromptRecord] /\ selector \in Keyboard /\ key \in {"idle", "setting"}
  /\ misled \subseteq Repl!Askers /\ given \in [Repl!Askers -> {"", "y", "n", "text"}]

HasKeyboard == selector.active \/ selector.freetext \/ key = "setting"

\* The keyboard belongs to a prompt somebody asked for, and nobody is shown or
\* told of before it asked.
PromptShown ==
  /\ HasKeyboard => selector.prompt \in Repl!Askers
  /\ \A a \in Repl!Askers : a = selector.prompt => ask[a].pc \notin {"idle", "asking"}

\* As long as a prompt is not disturbed it is the only one that is open, and has
\* the keyboard, as a list or a text, from when it is shown until it is closed.
OnlyOne ==
  \A a \in Repl!Askers \ misled :
    /\ ask[a].pc = "answered" => ask[a].answer = given[a] /\ (selector.prompt = a => ~HasKeyboard)
    /\ ask[a].pc \in {"waiting", "woken"} => \A b \in Repl!Open : b = a
    /\ ask[a].pc = "waiting" =>
         /\ selector.event = a /\ ~(selector.active /\ selector.freetext)
         /\ selector.prompt = a <=> HasKeyboard
         /\ key = "setting" => selector.result = given[a]
    /\ ask[a].pc = "woken" => selector.result = given[a] /\ ~HasKeyboard

PromptInv == PromptTypes /\ PromptShown /\ OnlyOne

LEMMA PromptInit == ASSUME Repl!ReplAssumption, Repl!Init PROVE PromptInv
<1>1. Repl!NoOne \notin Repl!Askers
  BY DEF Repl!ReplAssumption, Repl!NoOne, Repl!Askers, Repl!Messages
<1>2. PromptTypes
  <2>1. [pc |-> "idle", kind |-> "approval", answer |-> ""] \in PromptRecord
    BY DEF PromptRecord
  <2>2. selector \in Keyboard
    BY DEF Repl!Init, Keyboard
  <2> QED BY <2>1, <2>2 DEF Repl!Init, PromptTypes
<1>3. PromptShown
  BY <1>1 DEF Repl!Init, PromptShown, HasKeyboard
<1>4. OnlyOne
  BY DEF Repl!Init, OnlyOne, Repl!Open
<1> QED BY <1>2, <1>3, <1>4 DEF PromptInv

LEMMA SameHoldsPrompts ==
  ASSUME PromptInv, UNCHANGED <<ask, selector, key, misled, given>> PROVE PromptInv'
BY DEF PromptInv, PromptTypes, PromptShown, HasKeyboard, OnlyOne, Repl!Open

\* An asker goes on that has no open prompt before or after.
LEMMA AskingIsQuiet ==
  ASSUME PromptInv, NEW a \in Repl!Askers, ask[a].pc = "idle",
         NEW r \in PromptRecord, r.pc = "asking", ask' = [ask EXCEPT ![a] = r],
         UNCHANGED <<selector, key, misled, given>>
  PROVE  PromptInv'
<1>1. \A b \in Repl!Askers : ask'[b] = IF b = a THEN r ELSE ask[b]
  BY DEF PromptInv, PromptTypes
<1>2. PromptTypes'
  BY DEF PromptInv, PromptTypes
<1>3. Repl!Open' = Repl!Open
  BY <1>1 DEF Repl!Open
<1>4. PromptShown'
  BY <1>1 DEF PromptInv, PromptShown, HasKeyboard
<1>5. OnlyOne'
  BY <1>1, <1>3 DEF PromptInv, OnlyOne, HasKeyboard
<1> QED BY <1>2, <1>4, <1>5 DEF PromptInv

LEMMA NewEventIsAlone == ASSUME PromptInv, NEW a \in Repl!Askers, Repl!NewEvent(a) PROVE PromptInv'
<1> DEFINE r == [ask[a] EXCEPT !.pc = "waiting"]
<1>1. /\ ask[a].pc = "asking" /\ ask' = [ask EXCEPT ![a] = r] /\ UNCHANGED <<key, given>>
      /\ selector' = [selector EXCEPT !.event = a, !.result = ""]
      /\ misled' = misled \cup (IF Repl!Open = {} /\ ~HasKeyboard THEN {} ELSE Repl!Open \cup {a})
  BY DEF Repl!NewEvent, Repl!AtPrompt, HasKeyboard, PromptInv, PromptTypes
<1>2. r \in PromptRecord /\ r.pc = "waiting"
  BY DEF PromptInv, PromptTypes, PromptRecord
<1>3. \A b \in Repl!Askers : ask'[b] = IF b = a THEN r ELSE ask[b]
  BY <1>1 DEF PromptInv, PromptTypes
<1> HIDE DEF r
<1>4. /\ selector' \in Keyboard /\ selector'.event = a /\ selector'.prompt = selector.prompt
      /\ selector'.active = selector.active /\ selector'.freetext = selector.freetext
  BY <1>1 DEF PromptInv, PromptTypes, Keyboard
<1>5. Repl!Open' = Repl!Open \cup {a} /\ Repl!Open \subseteq Repl!Askers
  BY <1>2, <1>3 DEF Repl!Open
<1>6. PromptTypes'
  BY <1>1, <1>2, <1>4, <1>5 DEF PromptInv, PromptTypes
<1>7. PromptShown'
  <2>1. HasKeyboard' = HasKeyboard
    BY <1>1, <1>4 DEF HasKeyboard
  <2> QED BY <1>1, <1>2, <1>3, <1>4, <2>1 DEF PromptInv, PromptShown
<1>8. OnlyOne'
  <2>4. HasKeyboard' = HasKeyboard
    BY <1>1, <1>4 DEF HasKeyboard
  <2>5. ASSUME NEW b \in Repl!Askers, b # a, b \notin misled, b \notin Repl!Open
        PROVE  /\ ask'[b].pc \notin {"waiting", "woken"}
               /\ ask'[b].pc = "answered" => ask'[b].answer = given'[b] /\ (selector'.prompt = b => ~HasKeyboard')
    <3>1. ask'[b] = ask[b] /\ ask[b].pc \notin {"waiting", "woken"} /\ given' = given
      BY <1>1, <1>3, <2>5 DEF Repl!Open
    <3>2. ask[b].pc = "answered" => ask[b].answer = given[b] /\ (selector.prompt = b => ~HasKeyboard)
      BY <2>5 DEF PromptInv, OnlyOne
    <3> QED BY <1>4, <2>4, <3>1, <3>2
  <2>1. CASE Repl!Open = {} /\ ~HasKeyboard
    <3>1. selector'.prompt # a /\ ~HasKeyboard'
      BY <1>1, <1>4, <2>1, <2>4 DEF PromptInv, PromptShown
    <3>2. ask'[a].pc = "waiting" /\ Repl!Open' = {a} /\ misled' = misled
      BY <1>1, <1>2, <1>3, <1>5, <2>1
    <3>4. ~(selector'.active /\ selector'.freetext) /\ key' # "setting"
      BY <3>1 DEF HasKeyboard
    <3> QED BY <1>4, <2>1, <2>5, <3>1, <3>2, <3>4 DEF OnlyOne
  <2>2. CASE ~(Repl!Open = {} /\ ~HasKeyboard)
    <3>1. misled' = misled \cup Repl!Open \cup {a}
      BY <1>1, <2>2
    <3>2. \A b \in Repl!Askers \ misled' : b \notin Repl!Open /\ b # a /\ b \notin misled
      BY <3>1
    <3> QED BY <2>5, <3>2 DEF OnlyOne
  <2> QED BY <2>1, <2>2
<1> QED BY <1>6, <1>7, <1>8 DEF PromptInv

LEMMA ShowPromptIsAlone == ASSUME PromptInv, NEW a \in Repl!Askers, Repl!ShowPrompt(a) PROVE PromptInv'
<1>1. /\ ask[a].pc = "waiting" /\ selector.event = a
      /\ selector' = [selector EXCEPT !.prompt = a, !.active = TRUE] /\ selector.prompt # a
      /\ UNCHANGED <<ask, key, misled, given>>
  BY DEF Repl!ShowPrompt
<1>2. /\ selector' \in Keyboard /\ selector'.event = selector.event /\ selector'.prompt = a
      /\ selector'.active = TRUE /\ selector'.result = selector.result /\ selector'.freetext = selector.freetext
  BY <1>1 DEF PromptInv, PromptTypes, Keyboard
<1>3. HasKeyboard' /\ Repl!Open' = Repl!Open
  BY <1>1, <1>2 DEF HasKeyboard, Repl!Open
<1>4. PromptTypes' /\ PromptShown'
  BY <1>1, <1>2 DEF PromptInv, PromptTypes, PromptShown
<1>5. OnlyOne'
  <2> SUFFICES ASSUME NEW b \in Repl!Askers, b \notin misled
               PROVE  /\ ask[b].pc = "answered" => ask[b].answer = given[b] /\ a # b
                      /\ ask[b].pc \in {"waiting", "woken"} => \A c \in Repl!Open : c = b
                      /\ ask[b].pc = "waiting" =>
                           /\ a = b /\ ~selector.freetext
                           /\ key = "setting" => selector.result = given[b]
                      /\ ask[b].pc = "woken" => FALSE
    BY <1>1, <1>2, <1>3 DEF OnlyOne
  <2>1. a \in Repl!Open
    BY <1>1 DEF Repl!Open
  <2>2. ask[b].pc = "answered" => ask[b].answer = given[b] /\ a # b
    BY <1>1 DEF PromptInv, OnlyOne
  <2>3. ask[b].pc \in {"waiting", "woken"} => (\A c \in Repl!Open : c = b) /\ a = b
    BY <2>1 DEF PromptInv, OnlyOne
  <2>4. ask[b].pc = "waiting" => ~HasKeyboard
    BY <1>1, <2>3 DEF PromptInv, OnlyOne
  <2> QED BY <1>1, <2>2, <2>3, <2>4 DEF HasKeyboard
<1> QED BY <1>4, <1>5 DEF PromptInv

LEMMA AnsweredIsTheOne == ASSUME PromptInv, NEW a \in Repl!Askers, Repl!Answered(a) PROVE PromptInv'
<1> DEFINE r == [ask[a] EXCEPT !.pc = "answered", !.answer = selector.result]
<1>1. /\ ask[a].pc = "woken" /\ ask' = [ask EXCEPT ![a] = r]
      /\ UNCHANGED <<selector, key, misled, given>>
  BY DEF Repl!Answered, PromptInv, PromptTypes
<1>2. r \in PromptRecord /\ r.pc = "answered" /\ r.answer = selector.result
  BY DEF PromptInv, PromptTypes, PromptRecord, Keyboard
<1>3. \A b \in Repl!Askers : ask'[b] = IF b = a THEN r ELSE ask[b]
  BY <1>1 DEF PromptInv, PromptTypes
<1> HIDE DEF r
<1>4. Repl!Open' \subseteq Repl!Open /\ HasKeyboard' = HasKeyboard
  BY <1>1, <1>2, <1>3 DEF Repl!Open, HasKeyboard
<1>5. PromptTypes' /\ PromptShown'
  BY <1>1, <1>2, <1>3, <1>4 DEF PromptInv, PromptTypes, PromptShown
<1>6. OnlyOne'
  <2> SUFFICES ASSUME NEW b \in Repl!Askers, b \notin misled
               PROVE  /\ ask'[b].pc = "answered" => ask'[b].answer = given[b] /\ (selector.prompt = b => ~HasKeyboard)
                      /\ ask'[b].pc \in {"waiting", "woken"} => \A c \in Repl!Open : c = b
                      /\ ask'[b].pc = "waiting" =>
                           /\ selector.event = b /\ ~(selector.active /\ selector.freetext)
                           /\ selector.prompt = b <=> HasKeyboard
                           /\ key = "setting" => selector.result = given[b]
                      /\ ask'[b].pc = "woken" => selector.result = given[b] /\ ~HasKeyboard
    BY <1>1, <1>4 DEF OnlyOne
  <2>1. CASE b = a
    <3>1. selector.result = given[a] /\ ~HasKeyboard
      BY <1>1, <2>1 DEF PromptInv, OnlyOne
    <3> QED BY <1>2, <1>3, <2>1, <3>1
  <2>2. CASE b # a
    BY <1>3, <2>2 DEF PromptInv, OnlyOne
  <2> QED BY <2>1, <2>2
<1> QED BY <1>5, <1>6 DEF PromptInv

\* The user answers the prompt that has the keyboard.
LEMMA GivenIsTheOne ==
  ASSUME PromptInv, NEW r \in {"y", "n", "text", ""}, key = "idle",
         selector.active \/ selector.freetext, Repl!Gives(r),
         selector' = [selector EXCEPT !.result = r], UNCHANGED <<ask, misled>>
  PROVE  PromptInv'
<1> DEFINE p == selector.prompt
<1>1. p \in Repl!Askers /\ HasKeyboard /\ key' = "setting" /\ given' = [given EXCEPT ![p] = r]
  BY DEF PromptInv, PromptShown, HasKeyboard, Repl!Gives
<1>2. /\ selector' \in Keyboard /\ selector'.event = selector.event /\ selector'.prompt = p
      /\ selector'.active = selector.active /\ selector'.freetext = selector.freetext
      /\ selector'.result = r
  BY DEF PromptInv, PromptTypes, Keyboard
<1>3. \A a \in Repl!Askers : given'[a] = IF a = p THEN r ELSE given[a]
  BY <1>1 DEF PromptInv, PromptTypes
<1>4. HasKeyboard' /\ Repl!Open' = Repl!Open
  BY <1>1 DEF HasKeyboard, Repl!Open
<1>5. PromptTypes' /\ PromptShown'
  BY <1>1, <1>2 DEF PromptInv, PromptTypes, PromptShown
<1>6. OnlyOne'
  <2> SUFFICES ASSUME NEW a \in Repl!Askers, a \notin misled
               PROVE  /\ ask[a].pc = "answered" => ask[a].answer = given'[a] /\ a # p
                      /\ ask[a].pc = "waiting" =>
                           /\ a = p /\ \A b \in Repl!Open : b = a
                           /\ selector.event = a /\ ~(selector.active /\ selector.freetext)
                      /\ ask[a].pc # "woken"
    <3>1. \A a \in Repl!Askers : a = p => given'[a] = r
      BY <1>3
    <3> QED BY <1>1, <1>2, <1>4, <3>1 DEF OnlyOne
  <2>1. ask[a].pc = "answered" => ask[a].answer = given[a] /\ a # p
    BY <1>1 DEF PromptInv, OnlyOne
  <2>2. ask[a].pc = "waiting" => /\ a = p /\ \A b \in Repl!Open : b = a
                                 /\ selector.event = a /\ ~(selector.active /\ selector.freetext)
    BY <1>1 DEF PromptInv, OnlyOne
  <2>3. ask[a].pc # "woken"
    BY <1>1 DEF PromptInv, OnlyOne
  <2> QED BY <1>3, <2>1, <2>2, <2>3
<1> QED BY <1>5, <1>6 DEF PromptInv

LEMMA FreeTextIsTheOnes == ASSUME PromptInv, Repl!TypeSomething \/ Repl!EscapeText PROVE PromptInv'
<1>1. UNCHANGED <<ask, key, given>> /\ key = "idle" /\ Repl!Open' = Repl!Open
  BY DEF Repl!TypeSomething, Repl!EscapeText, Repl!Open
<1>2. CASE Repl!TypeSomething
  <2>1. /\ selector' = [selector EXCEPT !.active = FALSE, !.freetext = TRUE]
        /\ selector.active /\ misled' = misled
    BY <1>2 DEF Repl!TypeSomething
  <2>2. /\ selector' \in Keyboard /\ selector'.event = selector.event
        /\ selector'.prompt = selector.prompt /\ selector'.freetext = TRUE
        /\ selector'.result = selector.result /\ selector'.active = FALSE
    BY <2>1 DEF PromptInv, PromptTypes, Keyboard
  <2>3. HasKeyboard /\ HasKeyboard'
    BY <2>1, <2>2 DEF HasKeyboard
  <2> QED BY <1>1, <2>1, <2>2, <2>3 DEF PromptInv, PromptTypes, PromptShown, OnlyOne
<1>3. CASE Repl!EscapeText
  <2>1. /\ selector' = [selector EXCEPT !.freetext = FALSE]
        /\ selector.freetext /\ misled' = misled \cup {selector.prompt}
    BY <1>3 DEF Repl!EscapeText
  <2>2. /\ selector' \in Keyboard /\ selector'.event = selector.event
        /\ selector'.prompt = selector.prompt /\ selector'.freetext = FALSE
        /\ selector'.result = selector.result /\ selector'.active = selector.active
    BY <2>1 DEF PromptInv, PromptTypes, Keyboard
  <2>3. HasKeyboard /\ selector.prompt \in Repl!Askers
    BY <2>1 DEF HasKeyboard, PromptInv, PromptShown
  <2>4. PromptTypes' /\ PromptShown'
    BY <1>1, <2>1, <2>2, <2>3 DEF PromptInv, PromptTypes, PromptShown, HasKeyboard
  <2>5. OnlyOne'
    BY <1>1, <2>1, <2>2, <2>3 DEF PromptInv, OnlyOne
  <2> QED BY <2>4, <2>5 DEF PromptInv
<1> QED BY <1>2, <1>3

LEMMA ClosePromptIsTheOnes == ASSUME PromptInv, Repl!ClosePrompt PROVE PromptInv'
<1> DEFINE e == selector.event
           closed == IF selector.freetext THEN [selector EXCEPT !.freetext = FALSE]
                                          ELSE [selector EXCEPT !.active = FALSE]
<1>1. /\ key = "setting" /\ key' = "idle" /\ UNCHANGED <<misled, given>> /\ selector' = closed
      /\ ask' = [ask EXCEPT ![e].pc = IF @ = "waiting" THEN "woken" ELSE @]
  BY DEF Repl!ClosePrompt
<1>2. /\ closed \in Keyboard /\ closed.event = e /\ closed.result = selector.result
      /\ closed.prompt = selector.prompt
      /\ ~(selector.active /\ selector.freetext) => closed.active = FALSE /\ closed.freetext = FALSE
  BY DEF PromptInv, PromptTypes, Keyboard
<1> HIDE DEF closed
<1>3. HasKeyboard /\ selector.prompt \in Repl!Askers
  BY <1>1 DEF HasKeyboard, PromptInv, PromptShown
<1>8. ~(selector.active /\ selector.freetext) => ~HasKeyboard'
  BY <1>1, <1>2 DEF HasKeyboard
<1>4. /\ ask' \in [Repl!Askers -> PromptRecord]
      /\ \A a \in Repl!Askers : ask'[a].answer = ask[a].answer /\
           ask'[a].pc = IF a = e /\ ask[a].pc = "waiting" THEN "woken" ELSE ask[a].pc
  BY <1>1, ZenonT(60) DEF PromptInv, PromptTypes, PromptRecord
<1>5. Repl!Open' = Repl!Open
  BY <1>4 DEF Repl!Open
<1>6. PromptTypes' /\ PromptShown'
  <2>1. PromptTypes'
    BY <1>1, <1>2, <1>4 DEF PromptInv, PromptTypes
  <2>2. \A a \in Repl!Askers : a = selector'.prompt => ask'[a].pc \notin {"idle", "asking"}
    BY <1>1, <1>2, <1>4 DEF PromptInv, PromptShown
  <2> QED BY <1>1, <1>2, <1>3, <2>1, <2>2 DEF PromptShown
<1>7. OnlyOne'
  <2> SUFFICES ASSUME NEW a \in Repl!Askers, a \notin misled
               PROVE  /\ ask'[a].pc = "answered" => ask'[a].answer = given[a] /\ selector.prompt # a
                      /\ ask'[a].pc \in {"waiting", "woken"} => \A b \in Repl!Open : b = a
                      /\ ask'[a].pc = "waiting" => FALSE
                      /\ ask'[a].pc = "woken" => selector.result = given[a] /\ ~HasKeyboard'
    BY <1>1, <1>2, <1>5 DEF OnlyOne
  <2>1. ask[a].pc = "waiting" => a = e /\ selector.result = given[a] /\ ~(selector.active /\ selector.freetext)
                                  /\ \A b \in Repl!Open : b = a
    BY <1>1 DEF PromptInv, OnlyOne
  <2>2. ask[a].pc = "answered" => ask[a].answer = given[a] /\ selector.prompt # a
    BY <1>3 DEF PromptInv, OnlyOne
  <2>3. ask[a].pc # "woken"
    BY <1>3 DEF PromptInv, OnlyOne
  <2> QED BY <1>4, <1>8, <2>1, <2>2, <2>3
<1> QED BY <1>6, <1>7 DEF PromptInv

LEMMA PromptStep == ASSUME PromptInv, [Repl!Next]_Repl!vars PROVE PromptInv'
<1>1. CASE UNCHANGED Repl!vars \/ Repl!Enter \/ Repl!CtrlC
  BY <1>1, SameHoldsPrompts DEF Repl!vars, Repl!Enter, Repl!CtrlC, Repl!promptVars
<1>2. ASSUME NEW w \in Repl!Messages,
             Repl!Shows(w) \/ Repl!TurnEnds(w) \/ Repl!Drain(w) \/ Repl!Push(w) \/ Repl!TurnFails(w) \/ Repl!DropQueue(w) \/ Repl!ToolRuns(w)
      PROVE  PromptInv'
  <2>1. UNCHANGED Repl!promptVars
    BY <1>2 DEF Repl!Shows, Repl!TurnEnds, Repl!Drain, Repl!Push, Repl!TurnFails, Repl!DropQueue, Repl!ToolRuns
  <2> QED BY <2>1, SameHoldsPrompts DEF Repl!promptVars
<1>3. ASSUME NEW w \in Repl!Messages, NEW kind \in {"approval", "question"}, Repl!Asks(w, kind)
      PROVE  PromptInv'
  <2> DEFINE r == [ask[w] EXCEPT !.pc = "asking", !.kind = kind]
  <2>1. w \in Repl!Askers /\ ask' = [ask EXCEPT ![w] = r] /\ ask[w].pc = "idle"
    BY <1>3 DEF Repl!Asks, Repl!Askers, PromptInv, PromptTypes
  <2>2. r \in PromptRecord /\ r.pc = "asking"
    BY <2>1 DEF PromptInv, PromptTypes, PromptRecord
  <2> QED BY <1>3, <2>1, <2>2, AskingIsQuiet DEF Repl!Asks
<1>4. CASE Repl!CommandAsks
  <2> DEFINE r == [ask[Slash] EXCEPT !.pc = "asking"]
  <2>1. Slash \in Repl!Askers /\ ask' = [ask EXCEPT ![Slash] = r] /\ ask[Slash].pc = "idle"
    BY <1>4 DEF Repl!CommandAsks, Repl!Askers
  <2>2. r \in PromptRecord /\ r.pc = "asking"
    BY <2>1 DEF PromptInv, PromptTypes, PromptRecord
  <2> QED BY <1>4, <2>1, <2>2, AskingIsQuiet DEF Repl!CommandAsks
<1>5. ASSUME NEW a \in Repl!Askers, Repl!NewEvent(a) \/ Repl!ShowPrompt(a) \/ Repl!Answered(a) PROVE PromptInv'
  BY <1>5, NewEventIsAlone, ShowPromptIsAlone, AnsweredIsTheOne
<1>6. ASSUME NEW r \in {"y", "n", "text", ""}, Repl!Choose(r) PROVE PromptInv'
  BY <1>6, GivenIsTheOne DEF Repl!Choose
<1>7. CASE Repl!EnterText
  BY <1>7, GivenIsTheOne DEF Repl!EnterText
<1> QED
  BY <1>1, <1>2, <1>3, <1>4, <1>5, <1>6, <1>7, FreeTextIsTheOnes, ClosePromptIsTheOnes DEF Repl!Next

LEMMA PromptSafe == ASSUME PromptInv PROVE Repl!PromptsGetTheirAnswer
BY DEF PromptInv, OnlyOne, Repl!PromptsGetTheirAnswer, HasKeyboard

LEMMA ReplTypes == ASSUME QueueInv, LinesInv, PromptInv PROVE Repl!TypeOK
<1>1. PromptTypes /\ LineTypes /\ QueueTypes
  BY DEF QueueInv, LinesInv, PromptInv
<1> QED BY <1>1 DEF Repl!TypeOK, PromptTypes, PromptRecord, Keyboard, LineTypes, QueueTypes

LEMMA ReplLift == MCSpec => Repl!Spec
<1>1. MCInit => Repl!Init
  BY DEF MCInit
<1>2. [MCNext]_allVars => [Repl!Next]_Repl!vars
  BY DEF MCNext, RunnerNext, HistoryNext, TrustNext, ReplNext, LiveTextNext,
         CommandsNext, allVars, terminalVars, replVars, Repl!vars
<1> QED BY <1>1, <1>2, PTL DEF MCSpec, Repl!Spec

LEMMA ReplAlways == Repl!Spec => [](QueueInv /\ LinesInv /\ PromptInv)
<1>0. Repl!ReplAssumption
  BY ConversationAssumption
<1>1. Repl!Init => QueueInv /\ LinesInv /\ PromptInv
  BY <1>0, InitIsAlone, LinesInit, PromptInit
<1>2. QueueInv /\ LinesInv /\ PromptInv /\ [Repl!Next]_Repl!vars => (QueueInv /\ LinesInv /\ PromptInv)'
  BY <1>0, StepIsAlone, LinesStep, PromptStep
<1> QED BY <1>1, <1>2, PTL DEF Repl!Spec

\* ink_app.py: a queued message has a worker that will take it, also after
\* Ctrl-C; without Ctrl-C one worker at most is alive, and exactly while
\* `running` says so.
THEOREM QueueIsServed == MCSpec => []QueueHasAWorker
<1>1. QueueInv => QueueHasAWorker
  BY AloneIsCounted DEF QueueHasAWorker
<1> QED BY <1>1, ReplAlways, ReplLift, PTL

\* ink_app.py:400-407: without Ctrl-C, messages stand in the scrollback in the
\* order they were typed, and what a turn shows stands between the message it
\* answers and the next one.
THEOREM LinesStandInOrder == MCSpec => []LinesFollowTheirMessage
<1>1. LinesInv => LinesFollowTheirMessage
  BY LinesSafe DEF LinesFollowTheirMessage
<1> QED BY <1>1, ReplAlways, ReplLift, PTL

\* request_input and on_key: who asks is answered with what the user chose at
\* that very prompt, and can be answered as long as it waits, unless another
\* prompt was requested meanwhile or the user left the free text by Esc.
THEOREM AskersGetTheirAnswer == MCSpec => []PromptsGetTheirAnswer
<1>1. PromptInv => PromptsGetTheirAnswer
  BY PromptSafe DEF PromptsGetTheirAnswer
<1> QED BY <1>1, ReplAlways, ReplLift, PTL

(***************************************************************************)
(* The live text: the worker, a renderer for every text and Ctrl-C. Tales  *)
(* is the argument: what a region still has to show and what of its text   *)
(* is in the scrollback make up the text.                                  *)
(***************************************************************************)
LiveTypes ==
  LiveText!TypeOK /\ \A t \in LiveText!Texts : region[t].pc = "spilling" => region[t].got > TailLines

\* The worker with the region of the text it streams, and the regions to come.
Begun ==
  /\ streamer \in {"joining", "flushing", "clearing"} => buffer # 0
  /\ \A t \in LiveText!Texts : t > text => region[t].pc = "none"
  /\ \A t \in LiveText!Texts : region[t].pc = "none" => region[t] = LiveText!NoRegion
  /\ streamer # "over" => (buffer = 0 <=> region[text].pc = "none")

\* Ctrl-C is for one text.
CancelsOne ==
  /\ canceler.pc # "idle" => canceler.text <= text /\ region[canceler.text].pc # "none"
  /\ cancelled = IF canceler.pc = "idle" THEN {} ELSE {canceler.text}
  /\ streamer = "streaming" /\ region[text].closed =>
       canceler.text = text /\ canceler.pc \in {"joining", "clearing", "done"}

\* A renderer that was joined in time has ended when the worker, or Ctrl-C,
\* goes on.
Joined ==
  /\ \A t \in LiveText!Texts \ late : region[t].pc \notin {"none", "over"} =>
       \/ t = text /\ streamer \in {"streaming", "joining"}
       \/ t = canceler.text /\ canceler.pc \in {"stopping", "joining"}
  /\ canceler.pc \in {"clearing", "done"} /\ canceler.text \notin late =>
       region[canceler.text].pc = "over"
  /\ streamer \in {"flushing", "clearing"} /\ text \notin late => region[text].pc = "over"

\* The lines so far are of the texts so far.
Scrolled ==
  \A k \in 1..Len(scrollback) :
    /\ scrollback[k].text <= text
    /\ LiveText!IsAfter(scrollback[k]) => scrollback[k].text < text \/ streamer = "over"

\* What stands in the dynamic area will be cleared by who is about to.
Drawn ==
  late = {} /\ live # 0 =>
    /\ region[live].pc # "none" /\ ~(canceler.pc = "done" /\ canceler.text = live)
    /\ \/ live = text /\ streamer \in {"streaming", "joining", "flushing", "clearing"}
       \/ live = canceler.text /\ canceler.pc \in {"stopping", "joining", "clearing"}

\* A region that was begun and not cancelled, of a text with n lines while the
\* worker is at w.
Started(r, n, w) ==
  /\ r.spilled <= r.got /\ r.got <= n /\ r.slot <= n
  /\ r.slot # 0 => r.got <= r.slot
  /\ r.pc # "taken" => r.last = r.got
  /\ r.stopping <=> w # "streaming"
  /\ r.closed <=> w # "streaming"
  /\ r.stopping => IF r.slot # 0 THEN r.slot = n ELSE r.got = n /\ r.ending
  /\ r.ending => r.stopping /\ r.slot = 0
  /\ r.pc = "over" => r.stopping /\ r.slot = 0

\* The lines of the region that are in the scrollback.
Given(r) == IF r.pc = "spilling" THEN r.got - TailLines ELSE r.spilled

Untold(t) == region[t].pc = "none" => LiveText!Pieces(t) = <<>>

Telling(t) ==
  t = text =>
    /\ streamer \in {"streaming", "joining", "flushing"} /\ buffer # 0 =>
         /\ Started(region[t], buffer, streamer)
         /\ LiveText!Tiles(LiveText!Pieces(t), Given(region[t])) /\ (region[t].bullet <=> LiveText!Pieces(t) # <<>>)
    /\ streamer \in {"clearing", "printing"} => LiveText!Tiles(LiveText!Pieces(t), buffer)

Told(t) ==
  \A k \in 1..Len(scrollback) : LiveText!IsAfter(scrollback[k]) /\ scrollback[k].text = t =>
    /\ LiveText!Tiles(LiveText!Pieces(t), scrollback[k].from)
    /\ \A j \in (k + 1)..Len(scrollback) : scrollback[j].text # t

Tales == \A t \in LiveText!Texts \ (late \cup cancelled) : Untold(t) /\ Telling(t) /\ Told(t)

LiveInv ==
  LiveTypes /\ Begun /\ CancelsOne /\ Joined /\ Scrolled /\ Drawn /\ Tales

-----------------------------------------------------------------------------
PiecesOf(h, t) == Select(h, {p \in LiveText!PieceRecord : p.text = t /\ ~LiveText!IsAfter(p)})

LEMMA PiecesAre ==
  ASSUME NEW t
  PROVE  LiveText!Pieces(t) = PiecesOf(scrollback, t) /\ LiveText!Pieces(t)' = PiecesOf(scrollback', t)
<1> DEFINE S == {p \in LiveText!PieceRecord : p.text = t /\ ~LiveText!IsAfter(p)}
<1>1. LiveText!Pieces(t) = LiveText!Select(scrollback, S) /\ LiveText!Pieces(t)' = LiveText!Select(scrollback', S)
  BY DEF LiveText!Pieces
<1> HIDE DEF S
<1>2. \A h : LiveText!Select(h, S) = Select(h, S)
  BY SameOperators
<1> QED BY <1>1, <1>2 DEF PiecesOf, S

LEMMA PiecesOfAppended ==
  ASSUME NEW h \in Seq(LiveText!PieceRecord), NEW x \in LiveText!PieceRecord, NEW t
  PROVE  /\ PiecesOf(h, t) \in Seq(LiveText!PieceRecord)
         /\ x.text = t /\ x.to # 0 => PiecesOf(Append(h, x), t) = Append(PiecesOf(h, t), x)
         /\ ~(x.text = t /\ x.to # 0) => PiecesOf(Append(h, x), t) = PiecesOf(h, t)
<1> DEFINE S == {p \in LiveText!PieceRecord : p.text = t /\ ~LiveText!IsAfter(p)}
<1>1. x \in S <=> x.text = t /\ x.to # 0
  BY DEF LiveText!IsAfter
<1> HIDE DEF S
<1>2. Select(h, S) \in Seq(LiveText!PieceRecord)
  BY SelectType
<1>3. /\ x \in S => Select(Append(h, x), S) = Append(Select(h, S), x)
      /\ x \notin S => Select(Append(h, x), S) = Select(h, S)
  BY SelectOfAppended
<1> QED BY <1>1, <1>2, <1>3 DEF PiecesOf, S

\* The next piece.
LEMMA TilesOneMore ==
  ASSUME NEW p \in Seq(LiveText!PieceRecord), NEW x \in LiveText!PieceRecord, NEW n \in Nat, LiveText!Tiles(p, n),
         x.from = n + 1, x.bullet <=> p = <<>>
  PROVE  LiveText!Tiles(Append(p, x), x.to) /\ Append(p, x) # <<>>
<1> DEFINE q == Append(p, x)
           l == Len(p)
<1>1. /\ l \in Nat /\ Len(q) = l + 1 /\ q[l + 1] = x /\ \A k \in 1..l : q[k] = p[k]
      /\ DOMAIN q = 1..(l + 1) /\ DOMAIN p = 1..l /\ (p = <<>> <=> l = 0)
  OBVIOUS
<1> HIDE DEF q, l
<1>2. ASSUME NEW k \in 1..(l + 1)
      PROVE  /\ q[k].from = (IF k = 1 THEN 1 ELSE q[k - 1].to + 1)
             /\ q[k].bullet <=> k = 1
  <2>1. CASE k \in 1..l
    <3>1. /\ p[k].from = (IF k = 1 THEN 1 ELSE p[k - 1].to + 1)
          /\ p[k].bullet <=> k = 1
      BY <1>1, <2>1 DEF LiveText!Tiles
    <3>2. k # 1 => q[k - 1] = p[k - 1]
      BY <1>1, <2>1
    <3> QED BY <1>1, <2>1, <3>1, <3>2
  <2>2. CASE k = l + 1 /\ l = 0
    BY <1>1, <2>2 DEF LiveText!Tiles
  <2>3. CASE k = l + 1 /\ l # 0
    <3>1. n = p[l].to
      BY <1>1, <2>3 DEF LiveText!Tiles, l
    <3>2. q[k - 1] = p[l] /\ k # 1
      BY <1>1, <2>3
    <3> QED BY <1>1, <2>3, <3>1, <3>2
  <2> QED BY <1>1, <2>1, <2>2, <2>3
<1>3. q # <<>> /\ q[Len(q)] = x
  BY <1>1
<1>4. LiveText!Tiles(q, x.to)
  BY <1>1, <1>2, <1>3 DEF LiveText!Tiles
<1> QED BY <1>3, <1>4 DEF q

\* What is told of a text when nothing, or a line of another, is appended.
LEMMA OthersStayTold ==
  ASSUME LiveTypes, NEW t \in LiveText!Texts,
         \/ scrollback' = scrollback
         \/ \E x \in LiveText!PieceRecord : x.text # t /\ scrollback' = Append(scrollback, x)
  PROVE  LiveText!Pieces(t)' = LiveText!Pieces(t) /\ (Told(t) => Told(t)')
<1>1. CASE scrollback' = scrollback
  BY <1>1, PiecesAre DEF Told
<1>2. ASSUME NEW x \in LiveText!PieceRecord, x.text # t, scrollback' = Append(scrollback, x)
      PROVE  LiveText!Pieces(t)' = LiveText!Pieces(t) /\ (Told(t) => Told(t)')
  <2>1. scrollback \in Seq(LiveText!PieceRecord)
    BY DEF LiveTypes, LiveText!TypeOK
  <2>2. LiveText!Pieces(t)' = LiveText!Pieces(t)
    BY <1>2, <2>1, PiecesAre, PiecesOfAppended
  <2> DEFINE n == Len(scrollback)
  <2>3. n \in Nat /\ Len(scrollback') = n + 1 /\ scrollback'[n + 1] = x /\ \A k \in 1..n : scrollback'[k] = scrollback[k]
    BY <1>2, <2>1
  <2>4. ASSUME Told(t), NEW k \in 1..Len(scrollback'), LiveText!IsAfter(scrollback'[k]), scrollback'[k].text = t
        PROVE  /\ LiveText!Tiles(LiveText!Pieces(t)', scrollback'[k].from)
               /\ \A j \in (k + 1)..Len(scrollback') : scrollback'[j].text # t
    <3> HIDE DEF n
    <3>1. k \in 1..n /\ scrollback'[k] = scrollback[k]
      BY <1>2, <2>3, <2>4
    <3>2. /\ LiveText!Tiles(LiveText!Pieces(t), scrollback[k].from)
          /\ \A j \in (k + 1)..n : scrollback[j].text # t
      BY <2>4, <3>1 DEF Told, n
    <3>3. ASSUME NEW j \in (k + 1)..Len(scrollback') PROVE scrollback'[j].text # t
      <4>1. j \in (k + 1)..n \/ j = n + 1
        BY <2>3, <3>1
      <4>2. j \in (k + 1)..n => scrollback'[j] = scrollback[j]
        BY <2>3, <3>1
      <4> QED BY <1>2, <2>3, <3>2, <4>1, <4>2
    <3> QED BY <2>2, <3>1, <3>2, <3>3
  <2> QED BY <2>2, <2>4 DEF Told
<1> QED BY <1>1, <1>2

-----------------------------------------------------------------------------
LEMMA LiveInit == ASSUME LiveText!LiveTextAssumption, LiveText!Init PROVE LiveInv
<1>1. 1 \in LiveText!Texts /\ 0 \in 0..MaxLines /\ 0 \in 0..MaxTexts
  BY DEF LiveText!LiveTextAssumption, LiveText!Texts
<1>2. LiveText!NoRegion \in LiveText!Region /\ LiveText!NoRegion.pc = "none" /\ LiveText!NoRegion.closed = FALSE
  BY <1>1 DEF LiveText!NoRegion, LiveText!Region
<1>3. \A t \in LiveText!Texts : region[t] = LiveText!NoRegion
  BY DEF LiveText!Init
<1>4. LiveTypes
  BY <1>1, <1>2, <1>3 DEF LiveText!Init, LiveTypes, LiveText!TypeOK
<1>5. Begun /\ CancelsOne /\ Joined /\ Drawn
  BY <1>1, <1>2, <1>3 DEF LiveText!Init, Begun, CancelsOne, Joined, Drawn
<1>6. Scrolled /\ \A t \in LiveText!Texts : Told(t)
  BY DEF LiveText!Init, Scrolled, Told
<1>7. \A t \in LiveText!Texts : LiveText!Pieces(t) = <<>>
  BY SelectOfNone, PiecesAre DEF PiecesOf, LiveText!Init
<1>8. \A t \in LiveText!Texts : Untold(t) /\ Telling(t)
  BY <1>3, <1>7 DEF Untold, Telling, LiveText!Init
<1> QED BY <1>4, <1>5, <1>6, <1>8 DEF LiveInv, Tales

\* What a step starts from.
LEMMA Numbers ==
  ASSUME LiveText!LiveTextAssumption, LiveInv
  PROVE  /\ text \in LiveText!Texts /\ text \in Nat /\ canceler.text \in LiveText!Texts /\ canceler.text \in Nat
         /\ buffer \in 0..MaxLines /\ buffer \in Nat /\ MaxLines \in Nat /\ 0 \in 0..MaxLines
         /\ LiveText!Texts \subseteq Nat /\ 0 \in 0..MaxTexts
         /\ scrollback \in Seq(LiveText!PieceRecord) /\ region[text] \in LiveText!Region
BY DEF LiveText!LiveTextAssumption, LiveInv, LiveTypes, LiveText!TypeOK, LiveText!Texts

\* The region a step sets.
LEMMA SetSets ==
  ASSUME LiveTypes, NEW t \in LiveText!Texts, NEW r, LiveText!Set(t, r)
  PROVE  region'[t] = r /\ \A u \in LiveText!Texts \ {t} : region'[u] = region[u]
BY DEF LiveTypes, LiveText!TypeOK, LiveText!Set

LEMMA SetIsTyped ==
  ASSUME LiveTypes, NEW t \in LiveText!Texts, NEW r \in LiveText!Region, LiveText!Set(t, r), r.pc = "spilling" => r.got > TailLines
  PROVE  /\ region' \in [LiveText!Texts -> LiveText!Region]
         /\ \A u \in LiveText!Texts : region'[u].pc = "spilling" => region'[u].got > TailLines
BY DEF LiveTypes, LiveText!TypeOK, LiveText!Set

-----------------------------------------------------------------------------
\* A step of the renderer of t leaves it running or ends it; what remains to be
\* shown is what it tells of t.
LEMMA RendererSteps ==
  ASSUME LiveInv, NEW t \in LiveText!Texts, NEW r \in LiveText!Region, LiveText!Set(t, r),
         region[t].pc \notin {"none", "over"}, r.pc # "none", r.closed = region[t].closed,
         r.pc = "spilling" => r.got > TailLines,
         UNCHANGED <<streamer, text, buffer, canceler, late, cancelled>>,
         live' \in {live, t},
         \/ scrollback' = scrollback
         \/ \E x \in LiveText!PieceRecord : x.text = t /\ x.to # 0 /\ scrollback' = Append(scrollback, x),
         t \notin late \cup cancelled => Telling(t)'
  PROVE  LiveInv'
<1>1. region'[t] = r /\ \A u \in LiveText!Texts \ {t} : region'[u] = region[u]
  BY SetSets DEF LiveInv
<1>2. LiveTypes'
  <2>1. /\ region' \in [LiveText!Texts -> LiveText!Region]
        /\ \A u \in LiveText!Texts : region'[u].pc = "spilling" => region'[u].got > TailLines
    BY SetIsTyped DEF LiveInv
  <2>2. scrollback' \in Seq(LiveText!PieceRecord)
    BY DEF LiveInv, LiveTypes, LiveText!TypeOK
  <2>3. live' \in 0..MaxTexts
    <3>1. live \in 0..MaxTexts /\ t \in 0..MaxTexts
      BY DEF LiveInv, LiveTypes, LiveText!TypeOK, LiveText!Texts
    <3> QED BY <3>1
  <2> QED BY <2>1, <2>2, <2>3 DEF LiveInv, LiveTypes, LiveText!TypeOK
<1>3. /\ streamer' = streamer /\ text' = text /\ buffer' = buffer /\ canceler' = canceler
      /\ late' = late /\ cancelled' = cancelled /\ text \in LiveText!Texts /\ canceler.text \in LiveText!Texts
      /\ text \in Nat /\ \A u \in LiveText!Texts : u \in Nat
  BY DEF LiveInv, LiveTypes, LiveText!TypeOK, LiveText!Texts
<1>4. t <= text
  <2>1. t > text => region[t].pc = "none"
    BY DEF LiveInv, Begun
  <2>2. ~(t > text) /\ t \in Nat /\ text \in Nat
    BY <1>3, <2>1
  <2> QED BY <2>2
<1>5. Begun'
  BY <1>1, <1>3, <1>4 DEF LiveInv, Begun
<1>6. CancelsOne'
  BY <1>1, <1>3 DEF LiveInv, CancelsOne
<1>7. \/ t \in late
      \/ t = text /\ streamer \in {"streaming", "joining"}
      \/ t = canceler.text /\ canceler.pc \in {"stopping", "joining"}
  BY DEF LiveInv, Joined
<1>8. Joined'
  BY <1>1, <1>3, <1>7 DEF LiveInv, Joined
<1>9. Scrolled'
  <2>1. CASE scrollback' = scrollback
    BY <1>3, <2>1 DEF LiveInv, Scrolled
  <2>2. ASSUME NEW x \in LiveText!PieceRecord, x.text = t, x.to # 0, scrollback' = Append(scrollback, x)
        PROVE  Scrolled'
    <3>1. /\ Len(scrollback) \in Nat /\ Len(scrollback') = Len(scrollback) + 1 /\ scrollback'[Len(scrollback) + 1] = x
          /\ \A k \in 1..Len(scrollback) : scrollback'[k] = scrollback[k]
      BY <2>2 DEF LiveInv, LiveTypes, LiveText!TypeOK
    <3>2. ~LiveText!IsAfter(x)
      BY <2>2 DEF LiveText!IsAfter
    <3>3. \A k \in 1..Len(scrollback') : k \in 1..Len(scrollback) \/ k = Len(scrollback) + 1
      BY <3>1
    <3> QED BY <1>3, <1>4, <2>2, <3>1, <3>2, <3>3 DEF LiveInv, Scrolled
  <2> QED BY <2>1, <2>2
<1>10. Drawn'
  <2>1. CASE live' = live
    BY <1>1, <1>3, <2>1 DEF LiveInv, Drawn, LiveTypes, LiveText!TypeOK, LiveText!Texts
  <2>2. CASE live' = t
    BY <1>1, <1>3, <1>7, <2>2 DEF LiveInv, Drawn, Joined
  <2> QED BY <2>1, <2>2
<1>11. ASSUME NEW u \in LiveText!Texts, u \notin late', u \notin cancelled'
       PROVE  Untold(u)' /\ Telling(u)' /\ Told(u)'
  <2>1. CASE u # t
    <3>1. LiveText!Pieces(u)' = LiveText!Pieces(u) /\ (Told(u) => Told(u)')
      BY <2>1, OthersStayTold DEF LiveInv
    <3>2. Untold(u) /\ Telling(u) /\ Told(u)
      BY <1>3, <1>11 DEF LiveInv, Tales
    <3>3. Untold(u)'
      BY <1>1, <2>1, <3>1, <3>2 DEF Untold
    <3>4. Telling(u)'
      BY <1>1, <1>3, <2>1, <3>1, <3>2 DEF Telling
    <3> QED BY <3>1, <3>2, <3>3, <3>4
  <2>2. CASE u = t
    <3>1. canceler.text # t \/ canceler.pc = "idle"
      BY <1>3, <1>11, <2>2 DEF LiveInv, CancelsOne
    <3>2. t = text /\ streamer \in {"streaming", "joining"}
      BY <1>3, <1>7, <1>11, <2>2, <3>1
    <3>3. Told(t)'
      BY <1>3, <1>9, <3>2 DEF Told, Scrolled, LiveInv, LiveTypes, LiveText!TypeOK
    <3>4. Untold(t)'
      BY <1>1 DEF Untold
    <3> QED BY <1>3, <1>11, <2>2, <3>3, <3>4
  <2> QED BY <2>1, <2>2
<1>12. Tales'
  BY <1>11 DEF Tales
<1> QED BY <1>2, <1>5, <1>6, <1>8, <1>9, <1>10, <1>12 DEF LiveInv

\* The region of the text that is told.
LEMMA TellingOf ==
  ASSUME LiveInv, NEW t \in LiveText!Texts, t \notin late \cup cancelled, region[t].pc \notin {"none", "over"}
  PROVE  /\ t = text /\ streamer \in {"streaming", "joining"} /\ buffer # 0
         /\ Started(region[t], buffer, streamer)
         /\ LiveText!Tiles(LiveText!Pieces(t), Given(region[t])) /\ (region[t].bullet <=> LiveText!Pieces(t) # <<>>)
<1>1. canceler.text # t \/ canceler.pc = "idle"
  BY DEF LiveInv, CancelsOne
<1>2. t = text /\ streamer \in {"streaming", "joining"}
  BY <1>1 DEF LiveInv, Joined
<1>3. buffer # 0
  BY <1>2 DEF LiveInv, Begun
<1>4. Telling(t)
  BY DEF LiveInv, Tales
<1> QED BY <1>2, <1>3, <1>4 DEF Telling

LEMMA TakeTells == ASSUME LiveText!LiveTextAssumption, LiveInv, NEW t \in LiveText!Texts, LiveText!Take(t) PROVE LiveInv'
<1> DEFINE q == region[t]
           r == IF q.slot = 0 THEN [q EXCEPT !.pc = "over"]
                ELSE [q EXCEPT !.pc = "taken", !.got = q.slot, !.slot = 0, !.ending = q.stopping]
<1>1. /\ q \in LiveText!Region /\ q.pc = "waiting" /\ (q.slot # 0 \/ q.stopping) /\ LiveText!Set(t, r)
      /\ UNCHANGED <<streamer, text, buffer, scrollback, live, canceler, late, cancelled>>
  BY DEF LiveText!Take, LiveInv, LiveTypes, LiveText!TypeOK
<1>2. r \in LiveText!Region /\ r.pc \in {"over", "taken"} /\ r.closed = q.closed
  <2>1. 0 \in 0..MaxLines
    BY DEF LiveText!LiveTextAssumption
  <2> QED BY <1>1, <2>1 DEF LiveText!Region
<1>3. ASSUME t \notin late \cup cancelled PROVE Telling(t)'
  <2>1. /\ t = text /\ streamer \in {"streaming", "joining"} /\ buffer # 0
        /\ Started(q, buffer, streamer)
        /\ LiveText!Tiles(LiveText!Pieces(t), Given(q)) /\ (q.bullet <=> LiveText!Pieces(t) # <<>>)
    BY <1>1, <1>3, TellingOf
  <2>2. Started(r, buffer, streamer)
    <3>1. buffer \in Nat /\ q.slot \in Nat /\ q.got \in Nat /\ q.spilled \in Nat /\ q.last \in Nat
      BY <1>1 DEF LiveText!Region, LiveInv, LiveTypes, LiveText!TypeOK
    <3>2. CASE q.slot = 0
      BY <1>1, <2>1, <3>1, <3>2 DEF Started, LiveText!Region
    <3>3. CASE q.slot # 0
      BY <1>1, <2>1, <3>1, <3>3 DEF Started, LiveText!Region
    <3> QED BY <3>2, <3>3
  <2>3. Given(r) = Given(q) /\ r.bullet = q.bullet
    BY <1>1 DEF Given, LiveText!Region
  <2>4. region'[t] = r
    BY <1>1, SetSets DEF LiveInv
  <2>5. LiveText!Pieces(t)' = LiveText!Pieces(t)
    BY <1>1, PiecesAre
  <2> HIDE DEF r
  <2> QED BY <1>1, <2>1, <2>2, <2>3, <2>4, <2>5 DEF Telling
<1> HIDE DEF r
<1> QED BY <1>1, <1>2, <1>3, RendererSteps

LEMMA SpillTells == ASSUME LiveText!LiveTextAssumption, LiveInv, NEW t \in LiveText!Texts, LiveText!Spill(t) PROVE LiveInv'
<1> DEFINE q == region[t]
           n == q.got - TailLines
           x == LiveText!Piece(t, q.spilled + 1, n, ~q.bullet)
           r == [q EXCEPT !.last = q.got, !.bullet = TRUE, !.pc = "spilling"]
           z == [q EXCEPT !.last = q.got, !.pc = "showing"]
<1>1. /\ q \in LiveText!Region /\ q.pc = "taken"
      /\ UNCHANGED <<streamer, text, buffer, live, canceler, late, cancelled>>
      /\ \/ q.got - q.spilled > SpillThreshold /\ scrollback' = Append(scrollback, x) /\ LiveText!Set(t, r)
         \/ ~(q.got - q.spilled > SpillThreshold) /\ scrollback' = scrollback /\ LiveText!Set(t, z)
  BY DEF LiveText!Spill, LiveInv, LiveTypes, LiveText!TypeOK
<1>2. /\ buffer \in Nat /\ q.slot \in Nat /\ q.got \in 0..MaxLines /\ q.spilled \in 0..MaxLines
      /\ q.last \in Nat /\ MaxLines \in Nat /\ TailLines \in Nat \ {0} /\ SpillThreshold \in Nat
      /\ TailLines <= SpillThreshold
  <2>1. q.slot \in 0..MaxLines /\ q.got \in 0..MaxLines /\ q.spilled \in 0..MaxLines /\ q.last \in 0..MaxLines
    BY <1>1 DEF LiveText!Region
  <2>2. MaxLines \in Nat /\ TailLines \in Nat \ {0} /\ SpillThreshold \in Nat /\ TailLines <= SpillThreshold
    BY DEF LiveText!LiveTextAssumption
  <2>3. buffer \in Nat
    BY Numbers
  <2> HIDE DEF q
  <2> QED BY <2>1, <2>2, <2>3
<1>3. CASE ~(q.got - q.spilled > SpillThreshold) /\ scrollback' = scrollback /\ LiveText!Set(t, z)
  <2>1. z \in LiveText!Region /\ z.pc = "showing" /\ z.closed = q.closed
    BY <1>1 DEF LiveText!Region
  <2>2. ASSUME t \notin late \cup cancelled PROVE Telling(t)'
    <3>1. /\ t = text /\ streamer \in {"streaming", "joining"} /\ buffer # 0
          /\ Started(q, buffer, streamer)
          /\ LiveText!Tiles(LiveText!Pieces(t), Given(q)) /\ (q.bullet <=> LiveText!Pieces(t) # <<>>)
      BY <1>1, <2>2, TellingOf
    <3>2. Started(z, buffer, streamer)
      BY <1>1, <1>2, <3>1 DEF Started, LiveText!Region
    <3>3. Given(z) = Given(q) /\ z.bullet = q.bullet
      BY <1>1 DEF Given, LiveText!Region
    <3>4. region'[t] = z
      BY <1>3, SetSets DEF LiveInv
    <3>5. LiveText!Pieces(t)' = LiveText!Pieces(t)
      BY <1>3, PiecesAre
    <3> HIDE DEF z
    <3> QED BY <1>1, <3>1, <3>2, <3>3, <3>4, <3>5 DEF Telling
  <2> HIDE DEF z
  <2> QED BY <1>1, <1>3, <2>1, <2>2, RendererSteps
<1>4. CASE q.got - q.spilled > SpillThreshold /\ scrollback' = Append(scrollback, x) /\ LiveText!Set(t, r)
  <2>1. r \in LiveText!Region /\ r.pc = "spilling" /\ r.closed = q.closed /\ r.got = q.got
    BY <1>1 DEF LiveText!Region
  <2>2. /\ n \in 0..MaxLines /\ n > q.spilled /\ q.spilled + 1 \in 0..MaxLines
        /\ q.got > TailLines /\ n # 0 /\ n \in Nat
    <3>1. q.got - q.spilled > SpillThreshold
      BY <1>4
    <3> DEFINE g == q.got
               s == q.spilled
    <3>2. g \in 0..MaxLines /\ s \in 0..MaxLines /\ g - s > SpillThreshold
      BY <1>2, <3>1
    <3> HIDE DEF g, s
    <3>3. g - TailLines \in 0..MaxLines /\ g - TailLines > s /\ s + 1 \in 0..MaxLines /\ g > TailLines
      BY <1>2, <3>2
    <3>4. g - TailLines # 0 /\ g - TailLines \in Nat
      BY <1>2, <3>2, <3>3
    <3> QED BY <3>3, <3>4 DEF g, s
  <2>3. /\ x \in LiveText!PieceRecord /\ x.text = t /\ x.to = n /\ x.from = q.spilled + 1 /\ x.bullet = ~q.bullet
    BY <1>1, <2>2 DEF LiveText!Piece, LiveText!PieceRecord, LiveText!Region
  <2>4. ASSUME t \notin late \cup cancelled PROVE Telling(t)'
    <3>1. /\ t = text /\ streamer \in {"streaming", "joining"} /\ buffer # 0
          /\ Started(q, buffer, streamer)
          /\ LiveText!Tiles(LiveText!Pieces(t), Given(q)) /\ (q.bullet <=> LiveText!Pieces(t) # <<>>)
      BY <1>1, <2>4, TellingOf
    <3>2. Started(r, buffer, streamer)
      BY <1>1, <1>2, <3>1 DEF Started, LiveText!Region
    <3>3. Given(r) = n /\ r.bullet = TRUE /\ Given(q) = q.spilled
      BY <1>1, <2>1 DEF Given, LiveText!Region
    <3>4. region'[t] = r
      BY <1>4, SetSets DEF LiveInv
    <3> HIDE DEF x, r, n
    <3>5. LiveText!Pieces(t) \in Seq(LiveText!PieceRecord) /\ LiveText!Pieces(t)' = Append(LiveText!Pieces(t), x)
      <4>1. scrollback \in Seq(LiveText!PieceRecord)
        BY DEF LiveInv, LiveTypes, LiveText!TypeOK
      <4> QED BY <1>4, <2>2, <2>3, <4>1, PiecesAre, PiecesOfAppended
    <3>6. LiveText!Tiles(LiveText!Pieces(t)', n) /\ LiveText!Pieces(t)' # <<>>
      <4>1. LiveText!Tiles(LiveText!Pieces(t), q.spilled) /\ q.spilled \in Nat
        BY <1>2, <3>1, <3>3
      <4>2. x.bullet <=> LiveText!Pieces(t) = <<>>
        BY <2>3, <3>1
      <4> QED BY <2>3, <3>5, <4>1, <4>2, TilesOneMore
    <3> QED BY <1>1, <3>1, <3>2, <3>3, <3>4, <3>6 DEF Telling
  <2> HIDE DEF x, r, n
  <2> QED BY <1>1, <1>4, <2>1, <2>2, <2>3, <2>4, RendererSteps
<1> QED BY <1>1, <1>3, <1>4

LEMMA CountSpilledTells == ASSUME LiveText!LiveTextAssumption, LiveInv, NEW t \in LiveText!Texts, LiveText!CountSpilled(t) PROVE LiveInv'
<1> DEFINE q == region[t]
           r == [q EXCEPT !.spilled = q.got - TailLines, !.pc = "showing"]
<1>1. /\ q \in LiveText!Region /\ q.pc = "spilling" /\ LiveText!Set(t, r)
      /\ UNCHANGED <<streamer, text, buffer, scrollback, live, canceler, late, cancelled>>
  BY DEF LiveText!CountSpilled, LiveInv, LiveTypes, LiveText!TypeOK
<1>2. /\ buffer \in Nat /\ q.slot \in Nat /\ q.got \in 0..MaxLines /\ q.spilled \in 0..MaxLines
      /\ q.last \in Nat /\ MaxLines \in Nat /\ TailLines \in Nat \ {0} /\ q.got > TailLines
  <2>1. q.slot \in 0..MaxLines /\ q.got \in 0..MaxLines /\ q.spilled \in 0..MaxLines /\ q.last \in 0..MaxLines
    BY <1>1 DEF LiveText!Region
  <2>2. MaxLines \in Nat /\ TailLines \in Nat \ {0}
    BY DEF LiveText!LiveTextAssumption
  <2>3. buffer \in Nat
    BY Numbers
  <2>4. q.got > TailLines
    BY <1>1 DEF LiveInv, LiveTypes
  <2> HIDE DEF q
  <2> QED BY <2>1, <2>2, <2>3, <2>4
<1>3. r \in LiveText!Region /\ r.pc = "showing" /\ r.closed = q.closed
  <2>1. q.got - TailLines \in 0..MaxLines
    BY <1>2
  <2> QED BY <1>1, <2>1 DEF LiveText!Region
<1>4. ASSUME t \notin late \cup cancelled PROVE Telling(t)'
  <2>1. /\ t = text /\ streamer \in {"streaming", "joining"} /\ buffer # 0
        /\ Started(q, buffer, streamer)
        /\ LiveText!Tiles(LiveText!Pieces(t), Given(q)) /\ (q.bullet <=> LiveText!Pieces(t) # <<>>)
    BY <1>1, <1>4, TellingOf
  <2>2. Started(r, buffer, streamer)
    BY <1>1, <1>2, <2>1 DEF Started, LiveText!Region
  <2>3. Given(r) = Given(q) /\ r.bullet = q.bullet
    BY <1>1, <1>3 DEF Given, LiveText!Region
  <2>4. region'[t] = r
    BY <1>1, SetSets DEF LiveInv
  <2>5. LiveText!Pieces(t)' = LiveText!Pieces(t)
    BY <1>1, PiecesAre
  <2> HIDE DEF r
  <2> QED BY <1>1, <2>1, <2>2, <2>3, <2>4, <2>5 DEF Telling
<1> HIDE DEF r
<1> QED BY <1>1, <1>3, <1>4, RendererSteps

LEMMA ShowTells == ASSUME LiveInv, NEW t \in LiveText!Texts, LiveText!Show(t) PROVE LiveInv'
<1> DEFINE q == region[t]
           r == [q EXCEPT !.pc = IF q.ending THEN "over" ELSE "waiting"]
<1>1. /\ q \in LiveText!Region /\ q.pc = "showing" /\ LiveText!Set(t, r) /\ live' \in {live, t}
      /\ UNCHANGED <<streamer, text, buffer, scrollback, canceler, late, cancelled>>
  BY DEF LiveText!Show, LiveInv, LiveTypes, LiveText!TypeOK
<1>2. r \in LiveText!Region /\ r.pc \in {"over", "waiting"} /\ r.closed = q.closed
  BY <1>1 DEF LiveText!Region
<1>3. ASSUME t \notin late \cup cancelled PROVE Telling(t)'
  <2>1. /\ t = text /\ streamer \in {"streaming", "joining"} /\ buffer # 0
        /\ Started(q, buffer, streamer)
        /\ LiveText!Tiles(LiveText!Pieces(t), Given(q)) /\ (q.bullet <=> LiveText!Pieces(t) # <<>>)
    BY <1>1, <1>3, TellingOf
  <2>2. Started(r, buffer, streamer)
    BY <1>1, <2>1 DEF Started, LiveText!Region
  <2>3. Given(r) = Given(q) /\ r.bullet = q.bullet
    BY <1>1, <1>2 DEF Given, LiveText!Region
  <2>4. region'[t] = r
    BY <1>1, SetSets DEF LiveInv
  <2>5. LiveText!Pieces(t)' = LiveText!Pieces(t)
    BY <1>1, PiecesAre
  <2> HIDE DEF r
  <2> QED BY <1>1, <2>1, <2>2, <2>3, <2>4, <2>5 DEF Telling
<1> HIDE DEF r
<1> QED BY <1>1, <1>2, <1>3, RendererSteps

-----------------------------------------------------------------------------
(* The streamer.                                                             *)

\* A step that leaves the scrollback alone leaves what it tells of a text.
LEMMA TextStaysTold ==
  ASSUME LiveInv, scrollback' = scrollback, NEW t \in LiveText!Texts, t \notin late \cup cancelled
  PROVE  /\ LiveText!Pieces(t)' = LiveText!Pieces(t) /\ Untold(t) /\ Telling(t) /\ Told(t)'
         /\ region'[t] = region[t] => Untold(t)'
<1>1. LiveText!Pieces(t)' = LiveText!Pieces(t) /\ (Told(t) => Told(t)')
  BY OthersStayTold DEF LiveInv
<1>2. Untold(t) /\ Telling(t) /\ Told(t)
  BY DEF LiveInv, Tales
<1> QED BY <1>1, <1>2 DEF Untold

LEMMA StreamedHasBuffer ==
  ASSUME LiveText!LiveTextAssumption, LiveInv, LiveText!Streamed < MaxLines
  PROVE  buffer + 1 \in 0..MaxLines
<1> DEFINE D == (DOMAIN scrollback) \X (1..MaxLines)
           S == {p \in D : LiveText!IsAfter(scrollback[p[1]]) /\ p[2] <= scrollback[p[1]].from}
<1>1. scrollback \in Seq(LiveText!PieceRecord) /\ MaxLines \in Nat /\ buffer \in Nat
  BY Numbers
<1>2. DOMAIN scrollback = 1..Len(scrollback) /\ Len(scrollback) \in Int /\ 1 \in Int /\ MaxLines \in Int
  BY <1>1
<1>3. IsFiniteSet(DOMAIN scrollback) /\ IsFiniteSet(1..MaxLines)
  BY <1>2, FS_Interval
<1>4. IsFiniteSet(D)
  BY <1>3, FS_Product
<1>5. IsFiniteSet(S)
  <2>1. S \subseteq D
    OBVIOUS
  <2> QED BY <1>4, <2>1, FS_Subset
<1>6. Cardinality(S) \in Nat
  BY <1>5, FS_CardinalityType
<1>7. LiveText!Streamed = buffer + Cardinality(S)
  <2>1. LiveText!Streamed = buffer + LiveText!Cardinality(S)
    BY DEF LiveText!Streamed
  <2> HIDE DEF S
  <2> QED BY <2>1, SameOperators
<1> HIDE DEF S
<1> QED BY <1>1, <1>6, <1>7

LEMMA PartialTells == ASSUME LiveText!LiveTextAssumption, LiveInv, LiveText!Partial PROVE LiveInv'
<1> DEFINE q == region[text]
           r == IF buffer = 0 THEN [q EXCEPT !.pc = "waiting", !.slot = 1]
                ELSE IF q.closed THEN q ELSE [q EXCEPT !.slot = buffer + 1]
<1>1. /\ streamer = "streaming" /\ buffer' = buffer + 1 /\ LiveText!Set(text, r)
      /\ \/ live' = 0
         \/ buffer # 0 /\ live' = live
      /\ UNCHANGED <<streamer, text, scrollback, canceler, late, cancelled>>
  BY DEF LiveText!Partial
<1>2. /\ text \in LiveText!Texts /\ text \in Nat /\ canceler.text \in LiveText!Texts /\ buffer \in Nat
      /\ buffer + 1 \in 0..MaxLines /\ 1 \in 0..MaxLines /\ LiveText!Texts \subseteq Nat /\ 0 \in 0..MaxTexts /\ q \in LiveText!Region
  <2>1. buffer + 1 \in 0..MaxLines
    BY StreamedHasBuffer DEF LiveText!Partial
  <2> QED BY <2>1, Numbers
<1>3. buffer = 0 <=> q.pc = "none"
  BY <1>1 DEF LiveInv, Begun
<1>4. /\ r \in LiveText!Region /\ r.pc # "none" /\ r.closed = q.closed
      /\ buffer # 0 => r.pc = q.pc /\ r.got = q.got
      /\ buffer = 0 => r.pc = "waiting"
  BY <1>2, <1>3 DEF LiveText!Region
<1>5. region'[text] = r /\ \A u \in LiveText!Texts \ {text} : region'[u] = region[u]
  BY <1>1, <1>2, SetSets DEF LiveInv
<1>6. q.pc = "spilling" => q.got > TailLines
  BY <1>2 DEF LiveInv, LiveTypes
<1>7. r.pc = "spilling" => r.got > TailLines
  BY <1>4, <1>6
<1>8. ASSUME text \notin late \cup cancelled
      PROVE  Started(r, buffer + 1, streamer) /\ LiveText!Tiles(LiveText!Pieces(text), Given(r)) /\ (r.bullet <=> LiveText!Pieces(text) # <<>>)
  <2>1. Untold(text) /\ Telling(text)
    BY <1>1, <1>2, <1>8, TextStaysTold
  <2>2. CASE buffer = 0
    <3>1. q = LiveText!NoRegion /\ LiveText!Pieces(text) = <<>>
      <4>1. q.pc = "none" => q = LiveText!NoRegion
        BY <1>2 DEF LiveInv, Begun
      <4> QED BY <1>3, <2>1, <2>2, <4>1 DEF Untold
    <3>2. r = [LiveText!NoRegion EXCEPT !.pc = "waiting", !.slot = 1]
      BY <2>2, <3>1
    <3>3. Started(r, 1, "streaming") /\ Given(r) = 0 /\ r.bullet = FALSE
      <4>1. /\ r.pc = "waiting" /\ r.slot = 1 /\ r.got = 0 /\ r.last = 0 /\ r.spilled = 0
            /\ r.ending = FALSE /\ r.bullet = FALSE /\ r.closed = FALSE /\ r.stopping = FALSE
        BY <3>2 DEF LiveText!NoRegion
      <4> HIDE DEF r
      <4> QED BY <4>1 DEF Started, Given
    <3>4. LiveText!Tiles(<<>>, 0)
      BY DEF LiveText!Tiles
    <3> QED BY <1>1, <2>2, <3>1, <3>3, <3>4
  <2>3. CASE buffer # 0
    <3>1. Started(q, buffer, streamer) /\ LiveText!Tiles(LiveText!Pieces(text), Given(q)) /\ (q.bullet <=> LiveText!Pieces(text) # <<>>)
      BY <1>1, <2>1, <2>3 DEF Telling
    <3>2. ~q.closed /\ r = [q EXCEPT !.slot = buffer + 1]
      BY <1>1, <2>3, <3>1 DEF Started
    <3>3. Started(r, buffer + 1, streamer)
      <4>1. /\ q.spilled \in Nat /\ q.got \in Nat /\ q.slot \in Nat /\ q.last \in Nat
            /\ q.stopping \in BOOLEAN /\ q.ending \in BOOLEAN /\ q.closed \in BOOLEAN
        BY <1>2 DEF LiveText!Region
      <4>2. /\ r.pc = q.pc /\ r.got = q.got /\ r.last = q.last /\ r.spilled = q.spilled
            /\ r.slot = buffer + 1 /\ r.ending = q.ending /\ r.closed = q.closed /\ r.stopping = q.stopping
        BY <1>2, <3>2 DEF LiveText!Region
      <4> HIDE DEF r, q
      <4>3. ~q.stopping /\ ~q.ending /\ q.pc # "over"
        BY <1>1, <3>1 DEF Started
      <4> QED BY <1>1, <1>2, <3>1, <4>1, <4>2, <4>3 DEF Started
    <3>4. Given(r) = Given(q) /\ r.bullet = q.bullet
      BY <1>2, <3>2 DEF Given, LiveText!Region
    <3> QED BY <3>1, <3>3, <3>4
  <2> QED BY <2>2, <2>3
<1> HIDE DEF r
<1>9. LiveTypes'
  <2>1. /\ region' \in [LiveText!Texts -> LiveText!Region]
        /\ \A u \in LiveText!Texts : region'[u].pc = "spilling" => region'[u].got > TailLines
    BY <1>1, <1>2, <1>4, <1>7, SetIsTyped DEF LiveInv
  <2> QED BY <1>1, <1>2, <2>1 DEF LiveInv, LiveTypes, LiveText!TypeOK
<1>10. Begun'
  BY <1>1, <1>2, <1>4, <1>5 DEF LiveInv, Begun
<1>11. CancelsOne'
  BY <1>1, <1>2, <1>4, <1>5 DEF LiveInv, CancelsOne
<1>12. Joined'
  <2>1. canceler.pc \in {"clearing", "done"} /\ canceler.text \notin late => region[canceler.text].pc = "over"
    BY DEF LiveInv, Joined
  <2>2. canceler.pc \in {"clearing", "done"} /\ canceler.text \notin late => region'[canceler.text].pc = "over"
    BY <1>2, <1>3, <1>4, <1>5, <2>1
  <2> QED BY <1>1, <1>2, <1>5, <2>2 DEF LiveInv, Joined
<1>13. Scrolled' /\ Drawn'
  BY <1>1, <1>2, <1>4, <1>5 DEF LiveInv, Scrolled, Drawn, LiveTypes, LiveText!TypeOK, LiveText!Texts
<1>14. ASSUME NEW u \in LiveText!Texts, u \notin late', u \notin cancelled'
       PROVE  Untold(u)' /\ Telling(u)' /\ Told(u)'
  <2>1. u \notin late \cup cancelled /\ scrollback' = scrollback
    BY <1>1, <1>14
  <2>2. LiveText!Pieces(u)' = LiveText!Pieces(u) /\ Told(u)'
    BY <2>1, TextStaysTold
  <2>3. CASE u # text
    BY <1>1, <1>5, <2>1, <2>3, TextStaysTold DEF Telling
  <2>4. CASE u = text
    <3>1. Untold(u)'
      BY <1>4, <1>5, <2>4 DEF Untold
    <3>2. Telling(u)'
      BY <1>1, <1>5, <1>8, <2>1, <2>2, <2>4 DEF Telling
    <3> QED BY <2>2, <3>1, <3>2
  <2> QED BY <2>2, <2>3, <2>4
<1> QED BY <1>9, <1>10, <1>11, <1>12, <1>13, <1>14 DEF LiveInv, Tales

LEMMA EndStreamTells == ASSUME LiveText!LiveTextAssumption, LiveInv, LiveText!EndStream PROVE LiveInv'
<1> DEFINE q == region[text]
           r == [q EXCEPT !.slot = buffer, !.closed = TRUE, !.stopping = TRUE]
<1>1. /\ streamer = "streaming"
      /\ UNCHANGED <<text, buffer, scrollback, live, canceler, late, cancelled>>
      /\ \/ (buffer = 0 \/ q.closed) /\ streamer' = "printing" /\ region' = region
         \/ buffer # 0 /\ ~q.closed /\ streamer' = "joining" /\ LiveText!Set(text, r)
  BY DEF LiveText!EndStream
<1>2. /\ text \in LiveText!Texts /\ text \in Nat /\ canceler.text \in LiveText!Texts /\ buffer \in Nat
      /\ buffer \in 0..MaxLines /\ LiveText!Texts \subseteq Nat /\ q \in LiveText!Region
  BY Numbers
<1>3. buffer = 0 <=> q.pc = "none"
  BY <1>1 DEF LiveInv, Begun
<1>4. CASE (buffer = 0 \/ q.closed) /\ streamer' = "printing" /\ region' = region
  <2>1. q.closed => canceler.text = text /\ canceler.pc \in {"joining", "clearing", "done"}
    BY <1>1 DEF LiveInv, CancelsOne
  <2>2. LiveTypes' /\ Begun' /\ CancelsOne' /\ Scrolled'
    BY <1>1, <1>4 DEF LiveInv, LiveTypes, LiveText!TypeOK, Begun, CancelsOne, Scrolled
  <2>3. Joined'
    <3>1. canceler.pc \in {"clearing", "done"} /\ canceler.text \notin late => region[canceler.text].pc = "over"
      BY DEF LiveInv, Joined
    <3>2. \A t \in LiveText!Texts \ late : region[t].pc \notin {"none", "over"} =>
             t = canceler.text /\ canceler.pc \in {"stopping", "joining"}
      BY <1>3, <1>4, <2>1, <3>1 DEF LiveInv, Joined
    <3> QED BY <1>1, <1>4, <3>1, <3>2 DEF Joined
  <2>4. Drawn'
    BY <1>1, <1>3, <1>4, <2>1 DEF LiveInv, Drawn
  <2>5. ASSUME NEW u \in LiveText!Texts, u \notin late', u \notin cancelled'
        PROVE  Untold(u)' /\ Telling(u)' /\ Told(u)'
    <3>1. u \notin late \cup cancelled /\ scrollback' = scrollback
      BY <1>1, <2>5
    <3>2. LiveText!Pieces(u)' = LiveText!Pieces(u) /\ Told(u)' /\ Untold(u)' /\ Untold(u)
      BY <1>4, <3>1, TextStaysTold
    <3>3. ASSUME u = text PROVE LiveText!Tiles(LiveText!Pieces(u), buffer)
      <4>1. ~q.closed
        BY <2>1, <3>1, <3>3 DEF LiveInv, CancelsOne
      <4>2. buffer = 0 /\ LiveText!Pieces(u) = <<>>
        BY <1>3, <1>4, <3>2, <3>3, <4>1 DEF Untold
      <4> QED BY <4>2 DEF LiveText!Tiles
    <3>4. Telling(u)'
      BY <1>1, <1>4, <3>2, <3>3 DEF Telling
    <3> QED BY <3>2, <3>4
  <2> QED BY <2>2, <2>3, <2>4, <2>5 DEF LiveInv, Tales
<1>5. CASE buffer # 0 /\ ~q.closed /\ streamer' = "joining" /\ LiveText!Set(text, r)
  <2>1. r \in LiveText!Region /\ r.pc = q.pc /\ r.got = q.got /\ r.pc # "none" /\ Given(r) = Given(q) /\ r.bullet = q.bullet
    BY <1>2, <1>3, <1>5 DEF LiveText!Region, Given
  <2>2. region'[text] = r /\ \A u \in LiveText!Texts \ {text} : region'[u] = region[u]
    BY <1>2, <1>5, SetSets DEF LiveInv
  <2>3. ASSUME text \notin late \cup cancelled
        PROVE  Started(r, buffer, "joining") /\ LiveText!Tiles(LiveText!Pieces(text), Given(r)) /\ (r.bullet <=> LiveText!Pieces(text) # <<>>)
    <3>1. Telling(text)
      BY <1>1, <1>2, <2>3, TextStaysTold
    <3>2. Started(q, buffer, streamer) /\ LiveText!Tiles(LiveText!Pieces(text), Given(q)) /\ (q.bullet <=> LiveText!Pieces(text) # <<>>)
      BY <1>1, <1>5, <3>1 DEF Telling
    <3>3. Started(r, buffer, "joining")
      BY <1>1, <1>2, <1>5, <3>2 DEF Started, LiveText!Region
    <3> QED BY <2>1, <3>2, <3>3
  <2> HIDE DEF r
  <2>4. LiveTypes'
    <3>1. q.pc = "spilling" => q.got > TailLines
      BY <1>2 DEF LiveInv, LiveTypes
    <3>2. /\ region' \in [LiveText!Texts -> LiveText!Region]
          /\ \A u \in LiveText!Texts : region'[u].pc = "spilling" => region'[u].got > TailLines
      BY <1>2, <1>5, <2>1, <3>1, SetIsTyped DEF LiveInv
    <3> QED BY <1>1, <1>2, <1>5, <3>2 DEF LiveInv, LiveTypes, LiveText!TypeOK
  <2>5. Begun' /\ CancelsOne'
    BY <1>1, <1>2, <1>5, <2>1, <2>2 DEF LiveInv, Begun, CancelsOne
  <2>6. Joined'
    BY <1>1, <1>2, <1>5, <2>1, <2>2 DEF LiveInv, Joined
  <2>7. Scrolled' /\ Drawn'
    BY <1>1, <1>2, <1>5, <2>1, <2>2 DEF LiveInv, Scrolled, Drawn, LiveTypes, LiveText!TypeOK, LiveText!Texts
  <2>8. ASSUME NEW u \in LiveText!Texts, u \notin late', u \notin cancelled'
        PROVE  Untold(u)' /\ Telling(u)' /\ Told(u)'
    <3>1. u \notin late \cup cancelled /\ scrollback' = scrollback
      BY <1>1, <2>8
    <3>2. LiveText!Pieces(u)' = LiveText!Pieces(u) /\ Told(u)'
      BY <3>1, TextStaysTold
    <3>3. CASE u # text
      BY <1>1, <2>2, <3>1, <3>3, TextStaysTold DEF Telling
    <3>4. CASE u = text
      <4>1. Untold(u)'
        BY <2>1, <2>2, <3>4 DEF Untold
      <4>2. Telling(u)'
        BY <1>1, <1>5, <2>2, <2>3, <3>1, <3>2, <3>4 DEF Telling
      <4> QED BY <3>2, <4>1, <4>2
    <3> QED BY <3>2, <3>3, <3>4
  <2> QED BY <2>4, <2>5, <2>6, <2>7, <2>8 DEF LiveInv, Tales
<1> QED BY <1>1, <1>4, <1>5

LEMMA JoinTells == ASSUME LiveText!LiveTextAssumption, LiveInv, LiveText!Join PROVE LiveInv'
<1>1. /\ streamer = "joining" /\ streamer' = "flushing"
      /\ UNCHANGED <<text, buffer, region, scrollback, live, canceler, cancelled>>
      /\ late \subseteq late' /\ (text \notin late' => region[text].pc = "over")
      /\ late' \subseteq LiveText!Texts
  BY Numbers DEF LiveText!Join, LiveInv, LiveTypes, LiveText!TypeOK
<1>2. LiveTypes' /\ Begun' /\ CancelsOne' /\ Scrolled'
  BY <1>1 DEF LiveInv, LiveTypes, LiveText!TypeOK, Begun, CancelsOne, Scrolled
<1>3. Joined'
  BY <1>1 DEF LiveInv, Joined
<1>4. Drawn'
  BY <1>1 DEF LiveInv, Drawn
<1>5. ASSUME NEW u \in LiveText!Texts, u \notin late', u \notin cancelled'
      PROVE  Untold(u)' /\ Telling(u)' /\ Told(u)'
  <2>1. u \notin late \cup cancelled /\ scrollback' = scrollback
    BY <1>1, <1>5
  <2>2. LiveText!Pieces(u)' = LiveText!Pieces(u) /\ Told(u)' /\ Untold(u)' /\ Telling(u)
    BY <1>1, <2>1, TextStaysTold
  <2>3. Telling(u)'
    BY <1>1, <2>2 DEF Telling, Started
  <2> QED BY <2>2, <2>3
<1> QED BY <1>2, <1>3, <1>4, <1>5 DEF LiveInv, Tales

\* The renderer is over: what it was given last is the whole text.
LEMMA FlushTells == ASSUME LiveText!LiveTextAssumption, LiveInv, LiveText!Flush PROVE LiveInv'
<1> DEFINE q == region[text]
           x == LiveText!Piece(text, q.spilled + 1, q.last, ~q.bullet)
<1>1. /\ streamer = "flushing" /\ streamer' = "clearing"
      /\ UNCHANGED <<text, buffer, region, live, canceler, late, cancelled>>
      /\ \/ q.last <= q.spilled /\ scrollback' = scrollback
         \/ ~(q.last <= q.spilled) /\ scrollback' = Append(scrollback, x)
  BY DEF LiveText!Flush
<1>2. /\ text \in LiveText!Texts /\ text \in Nat /\ buffer \in Nat /\ scrollback \in Seq(LiveText!PieceRecord) /\ q \in LiveText!Region
      /\ MaxLines \in Nat /\ LiveText!Texts \subseteq Nat
  BY Numbers
<1>3. q.last \in 0..MaxLines /\ q.spilled \in 0..MaxLines /\ q.got \in 0..MaxLines /\ q.bullet \in BOOLEAN
  BY <1>2 DEF LiveText!Region
<1>4. ~(q.last <= q.spilled) =>
        x \in LiveText!PieceRecord /\ x.text = text /\ x.to = q.last /\ x.to # 0 /\ x.from = q.spilled + 1 /\ x.bullet = ~q.bullet
  <2>1. ~(q.last <= q.spilled) => q.spilled + 1 \in 0..MaxLines /\ q.last # 0
    BY <1>2, <1>3
  <2> QED BY <1>2, <1>3, <2>1 DEF LiveText!Piece, LiveText!PieceRecord
<1>5. scrollback' \in Seq(LiveText!PieceRecord)
  BY <1>1, <1>2, <1>4
<1>6. LiveTypes' /\ Begun' /\ CancelsOne' /\ Joined' /\ Drawn'
  BY <1>1, <1>5 DEF LiveInv, LiveTypes, LiveText!TypeOK, Begun, CancelsOne, Joined, Drawn
<1>7. ASSUME NEW u \in LiveText!Texts, u # text PROVE LiveText!Pieces(u)' = LiveText!Pieces(u) /\ (Told(u) => Told(u)')
  <2>1. \/ scrollback' = scrollback
        \/ \E y \in LiveText!PieceRecord : y.text # u /\ scrollback' = Append(scrollback, y)
    BY <1>1, <1>4, <1>7
  <2> QED BY <2>1, OthersStayTold DEF LiveInv
<1>8. ASSUME text \notin late \cup cancelled PROVE LiveText!Tiles(LiveText!Pieces(text)', buffer)
  <2>1. Telling(text) /\ buffer # 0 /\ q.pc = "over"
    BY <1>1, <1>2, <1>8 DEF LiveInv, Tales, Begun, Joined
  <2>2. Started(q, buffer, streamer) /\ LiveText!Tiles(LiveText!Pieces(text), Given(q)) /\ (q.bullet <=> LiveText!Pieces(text) # <<>>)
    BY <1>1, <2>1 DEF Telling
  <2>3. Given(q) = q.spilled /\ q.got = buffer /\ q.last = buffer /\ q.spilled <= q.got
    BY <2>1, <2>2 DEF Given, Started
  <2>4. CASE q.last <= q.spilled
    <3>1. q.spilled = buffer
      BY <1>2, <1>3, <2>3, <2>4
    <3> QED BY <1>1, <2>2, <2>3, <2>4, <3>1, PiecesAre
  <2>5. CASE ~(q.last <= q.spilled)
    <3> HIDE DEF x
    <3>0. scrollback' = Append(scrollback, x) /\ x \in LiveText!PieceRecord /\ x.text = text /\ x.to # 0
      BY <1>1, <1>4, <2>5
    <3>1. LiveText!Pieces(text) \in Seq(LiveText!PieceRecord) /\ LiveText!Pieces(text)' = Append(LiveText!Pieces(text), x)
      <4>1. /\ PiecesOf(scrollback, text) \in Seq(LiveText!PieceRecord)
            /\ PiecesOf(Append(scrollback, x), text) = Append(PiecesOf(scrollback, text), x)
        BY <1>2, <3>0, PiecesOfAppended
      <4>2. LiveText!Pieces(text) = PiecesOf(scrollback, text)
        BY PiecesAre
      <4>3. LiveText!Pieces(text)' = PiecesOf(scrollback', text)
        <5> DEFINE S == {p \in LiveText!PieceRecord : p.text = text /\ ~LiveText!IsAfter(p)}
        <5>1. LiveText!Pieces(text)' = LiveText!Select(scrollback', S)
          BY <1>1 DEF LiveText!Pieces
        <5> HIDE DEF S
        <5>2. LiveText!Select(scrollback', S) = Select(scrollback', S)
          BY SameOperators
        <5> QED BY <5>1, <5>2 DEF PiecesOf, S
      <4> QED BY <3>0, <4>1, <4>2, <4>3
    <3>2. (x.bullet <=> LiveText!Pieces(text) = <<>>) /\ q.spilled \in Nat /\ LiveText!Tiles(LiveText!Pieces(text), q.spilled)
      <4>1. x.bullet = ~q.bullet /\ q.spilled \in Nat
        BY <1>3, <1>4, <2>5
      <4>2. x.bullet <=> LiveText!Pieces(text) = <<>>
        BY <1>3, <2>2, <4>1
      <4> QED BY <2>2, <2>3, <4>1, <4>2
    <3> QED BY <1>4, <2>3, <2>5, <3>1, <3>2, TilesOneMore
  <2> QED BY <2>4, <2>5
<1>9. Scrolled'
  <2>1. CASE scrollback' = scrollback
    BY <1>1, <2>1 DEF LiveInv, Scrolled
  <2>2. CASE ~(q.last <= q.spilled) /\ scrollback' = Append(scrollback, x)
    <3> HIDE DEF x
    <3>1. /\ Len(scrollback) \in Nat /\ Len(scrollback') = Len(scrollback) + 1 /\ scrollback'[Len(scrollback) + 1] = x
          /\ \A k \in 1..Len(scrollback) : scrollback'[k] = scrollback[k]
      BY <1>2, <1>4, <2>2
    <3>2. ~LiveText!IsAfter(x) /\ x.text <= text
      BY <1>2, <1>4, <2>2 DEF LiveText!IsAfter
    <3>3. \A k \in 1..Len(scrollback') : k \in 1..Len(scrollback) \/ k = Len(scrollback) + 1
      BY <3>1
    <3> QED BY <1>1, <3>1, <3>2, <3>3 DEF LiveInv, Scrolled
  <2> QED BY <1>1, <2>1, <2>2
<1>10. ASSUME NEW u \in LiveText!Texts, u \notin late', u \notin cancelled'
       PROVE  Untold(u)' /\ Telling(u)' /\ Told(u)'
  <2>1. Untold(u) /\ Telling(u) /\ Told(u) /\ u \notin late \cup cancelled
    BY <1>1, <1>10 DEF LiveInv, Tales
  <2>2. CASE u # text
    <3>1. LiveText!Pieces(u)' = LiveText!Pieces(u) /\ Told(u)'
      BY <1>7, <2>1, <2>2
    <3> QED BY <1>1, <2>1, <2>2, <3>1 DEF Untold, Telling
  <2>3. CASE u = text
    <3>1. Told(u)'
      BY <1>1, <1>2, <1>9, <2>3 DEF Told, Scrolled
    <3>2. Untold(u)'
      <4>1. region'[u].pc # "none"
        BY <1>1, <2>1, <2>3 DEF LiveInv, Joined
      <4> QED BY <4>1 DEF Untold
    <3>3. Telling(u)'
      BY <1>1, <1>8, <2>1, <2>3 DEF Telling
    <3> QED BY <3>1, <3>2, <3>3
  <2> QED BY <2>2, <2>3
<1> QED BY <1>6, <1>9, <1>10 DEF LiveInv, Tales

LEMMA ClearTells == ASSUME LiveText!LiveTextAssumption, LiveInv, LiveText!Clear PROVE LiveInv'
<1>1. /\ streamer = "clearing" /\ streamer' = "printing" /\ live' = 0
      /\ UNCHANGED <<text, buffer, region, scrollback, canceler, late, cancelled>>
  BY DEF LiveText!Clear
<1>2. LiveTypes' /\ Begun' /\ CancelsOne' /\ Scrolled' /\ Joined' /\ Drawn'
  BY <1>1, Numbers DEF LiveInv, LiveTypes, LiveText!TypeOK, Begun, CancelsOne, Scrolled, Joined, Drawn
<1>3. ASSUME NEW u \in LiveText!Texts, u \notin late', u \notin cancelled'
      PROVE  Untold(u)' /\ Telling(u)' /\ Told(u)'
  <2>1. u \notin late \cup cancelled /\ scrollback' = scrollback
    BY <1>1, <1>3
  <2>2. LiveText!Pieces(u)' = LiveText!Pieces(u) /\ Told(u)' /\ Untold(u)' /\ Telling(u)
    BY <1>1, <2>1, TextStaysTold
  <2> QED BY <1>1, <2>2 DEF Telling
<1> QED BY <1>2, <1>3 DEF LiveInv, Tales

LEMMA PrintAfterTells == ASSUME LiveText!LiveTextAssumption, LiveInv, LiveText!PrintAfter PROVE LiveInv'
<1> DEFINE x == LiveText!After(text, buffer)
           n == Len(scrollback)
<1>1. /\ streamer = "printing" /\ scrollback' = Append(scrollback, x) /\ buffer' = 0
      /\ UNCHANGED <<region, live, canceler, late, cancelled>>
      /\ \/ text < MaxTexts /\ text' = text + 1 /\ streamer' = "streaming"
         \/ streamer' = "over" /\ text' = text
  BY DEF LiveText!PrintAfter
<1>2. /\ text \in LiveText!Texts /\ text \in Nat /\ canceler.text \in LiveText!Texts /\ buffer \in 0..MaxLines /\ 0 \in 0..MaxLines
      /\ LiveText!Texts \subseteq Nat /\ scrollback \in Seq(LiveText!PieceRecord) /\ canceler.text \in Nat
  BY Numbers
<1>3. text' \in LiveText!Texts /\ text' \in Nat /\ text <= text'
  BY <1>1, <1>2 DEF LiveText!Texts, LiveText!LiveTextAssumption
<1>4. x \in LiveText!PieceRecord /\ x.text = text /\ x.to = 0 /\ LiveText!IsAfter(x) /\ x.from = buffer
  BY <1>2 DEF LiveText!After, LiveText!Piece, LiveText!PieceRecord, LiveText!IsAfter
<1> HIDE DEF x
<1>5. /\ n \in Nat /\ Len(scrollback') = n + 1 /\ scrollback'[n + 1] = x
      /\ \A k \in 1..n : scrollback'[k] = scrollback[k]
      /\ \A k \in 1..Len(scrollback') : k \in 1..n \/ k = n + 1
  <2>1. n \in Nat /\ Len(scrollback') = n + 1 /\ scrollback'[n + 1] = x /\ \A k \in 1..n : scrollback'[k] = scrollback[k]
    BY <1>1, <1>2, <1>4
  <2> HIDE DEF n
  <2> QED BY <2>1
<1> HIDE DEF n
<1>6. LiveTypes'
  <2>1. scrollback' \in Seq(LiveText!PieceRecord) /\ streamer' \in {"streaming", "over"}
    BY <1>1, <1>2, <1>4
  <2> QED BY <1>1, <1>2, <1>3, <2>1 DEF LiveInv, LiveTypes, LiveText!TypeOK
<1>7. \A t \in LiveText!Texts : t > text => region[t].pc = "none" /\ region[t] = LiveText!NoRegion
  BY DEF LiveInv, Begun
<1>8. streamer' = "streaming" => text' > text /\ region[text'].pc = "none" /\ ~region[text'].closed
  <2>1. streamer' = "streaming" => text' > text
    BY <1>1, <1>2
  <2> QED BY <1>3, <1>7, <2>1 DEF LiveText!NoRegion
<1>9. Begun'
  <2>1. \A t \in LiveText!Texts : t > text' => t > text
    BY <1>2, <1>3
  <2> QED BY <1>1, <1>7, <1>8, <2>1 DEF LiveInv, Begun
<1>10. CancelsOne'
  <2>1. canceler.text <= text => canceler.text <= text'
    BY <1>2, <1>3
  <2> QED BY <1>1, <1>8, <2>1 DEF LiveInv, CancelsOne
<1>11. Joined'
  BY <1>1 DEF LiveInv, Joined
<1>12. \A k \in 1..n : scrollback[k].text <= text /\ (LiveText!IsAfter(scrollback[k]) => scrollback[k].text < text)
  BY <1>1 DEF LiveInv, Scrolled, n
<1>13. Scrolled'
  <2>1. ASSUME NEW k \in 1..Len(scrollback')
        PROVE  scrollback'[k].text <= text' /\ (LiveText!IsAfter(scrollback'[k]) => scrollback'[k].text < text' \/ streamer' = "over")
    <3>1. CASE k \in 1..n
      <4>1. scrollback'[k] = scrollback[k] /\ scrollback[k].text \in Nat
        <5>1. scrollback[k] \in LiveText!PieceRecord
          BY <1>2, <3>1, ElementsOf DEF n
        <5> QED BY <1>2, <1>5, <3>1, <5>1 DEF LiveText!PieceRecord
      <4> QED BY <1>2, <1>3, <1>12, <3>1, <4>1
    <3>2. CASE k = n + 1
      BY <1>1, <1>2, <1>3, <1>4, <1>5, <1>8, <3>2
    <3> QED BY <1>5, <3>1, <3>2
  <2> QED BY <2>1 DEF Scrolled
<1>14. Drawn'
  BY <1>1 DEF LiveInv, Drawn
<1>15. \A u \in LiveText!Texts : LiveText!Pieces(u)' = LiveText!Pieces(u)
  BY <1>1, <1>2, <1>4, PiecesAre, PiecesOfAppended
<1>16. ASSUME NEW u \in LiveText!Texts, u \notin late', u \notin cancelled'
       PROVE  Untold(u)' /\ Telling(u)' /\ Told(u)'
  <2>1. Untold(u) /\ Telling(u) /\ Told(u)
    BY <1>1, <1>16 DEF LiveInv, Tales
  <2>2. Untold(u)' /\ Telling(u)'
    BY <1>1, <1>15, <2>1 DEF Untold, Telling
  <2>3. CASE u # text
    BY <1>1, <1>4, <2>1, <2>3, OthersStayTold, <2>2 DEF LiveInv
  <2>4. CASE u = text
    <3>1. LiveText!Tiles(LiveText!Pieces(u)', buffer)
      BY <1>1, <1>15, <2>1, <2>4 DEF Telling
    <3>2. ASSUME NEW k \in 1..Len(scrollback'), LiveText!IsAfter(scrollback'[k]), scrollback'[k].text = u
          PROVE  /\ LiveText!Tiles(LiveText!Pieces(u)', scrollback'[k].from)
                 /\ \A j \in (k + 1)..Len(scrollback') : scrollback'[j].text # u
      <4>1. k \notin 1..n
        <5>1. k \in 1..n => scrollback'[k] = scrollback[k] /\ scrollback[k].text < text
          BY <1>5, <1>12, <3>2
        <5> QED BY <1>2, <2>4, <3>2, <5>1
      <4>2. k = n + 1 /\ (k + 1)..Len(scrollback') = {}
        BY <1>5, <4>1
      <4> QED BY <1>4, <1>5, <3>1, <4>2
    <3> QED BY <2>2, <3>2 DEF Told
  <2> QED BY <2>3, <2>4
<1> QED BY <1>6, <1>9, <1>10, <1>11, <1>13, <1>14, <1>16 DEF LiveInv, Tales

-----------------------------------------------------------------------------
(* Ctrl-C.                                                                 *)

LEMMA CancelTells == ASSUME LiveText!LiveTextAssumption, LiveInv, LiveText!Cancel PROVE LiveInv'
<1>1. /\ canceler.pc = "idle" /\ region[text].pc # "none" /\ ~region[text].closed
      /\ canceler'.pc = "stopping" /\ canceler'.text = text /\ cancelled' = cancelled \cup {text}
      /\ canceler' \in [pc : {"idle", "stopping", "joining", "clearing", "done"}, text : LiveText!Texts]
      /\ UNCHANGED <<streamer, text, buffer, region, scrollback, live, late>>
  BY Numbers DEF LiveText!Cancel
<1>2. cancelled = {} /\ cancelled' = {text}
  BY <1>1 DEF LiveInv, CancelsOne
<1>3. LiveTypes' /\ Begun' /\ Scrolled'
  BY <1>1, <1>2, Numbers DEF LiveInv, LiveTypes, LiveText!TypeOK, Begun, Scrolled
<1>4. CancelsOne' /\ Joined' /\ Drawn'
  BY <1>1, <1>2, Numbers DEF LiveInv, CancelsOne, Joined, Drawn
<1>5. ASSUME NEW u \in LiveText!Texts, u \notin late', u \notin cancelled'
      PROVE  Untold(u)' /\ Telling(u)' /\ Told(u)'
  <2>1. u \notin late \cup cancelled /\ scrollback' = scrollback
    BY <1>1, <1>5
  <2>2. LiveText!Pieces(u)' = LiveText!Pieces(u) /\ Told(u)' /\ Untold(u)' /\ Telling(u)
    BY <1>1, <2>1, TextStaysTold
  <2> QED BY <1>1, <2>2 DEF Telling
<1> QED BY <1>3, <1>4, <1>5 DEF LiveInv, Tales

LEMMA CancelStopsTells == ASSUME LiveText!LiveTextAssumption, LiveInv, LiveText!CancelStops PROVE LiveInv'
<1> DEFINE c == canceler.text
           q == region[c]
           r == [q EXCEPT !.closed = TRUE, !.stopping = TRUE]
<1>1. /\ canceler.pc = "stopping" /\ LiveText!Set(c, r) /\ c \in LiveText!Texts /\ c \in Nat /\ text \in Nat
      /\ canceler'.pc = "joining" /\ canceler'.text = c
      /\ canceler' \in [pc : {"idle", "stopping", "joining", "clearing", "done"}, text : LiveText!Texts]
      /\ UNCHANGED <<streamer, text, buffer, scrollback, live, late, cancelled>>
  BY Numbers DEF LiveText!CancelStops, LiveInv, LiveTypes, LiveText!TypeOK
<1>2. q \in LiveText!Region /\ (q.pc = "spilling" => q.got > TailLines) /\ q.pc # "none" /\ c <= text /\ cancelled = {c}
  BY <1>1 DEF LiveInv, LiveTypes, LiveText!TypeOK, CancelsOne
<1>3. r \in LiveText!Region /\ r.pc = q.pc /\ r.got = q.got
  BY <1>2 DEF LiveText!Region
<1>4. region'[c] = r /\ \A u \in LiveText!Texts \ {c} : region'[u] = region[u]
  BY <1>1, SetSets DEF LiveInv
<1> HIDE DEF r, q, c
<1>5. LiveTypes'
  <2>1. /\ region' \in [LiveText!Texts -> LiveText!Region]
        /\ \A u \in LiveText!Texts : region'[u].pc = "spilling" => region'[u].got > TailLines
    BY <1>1, <1>2, <1>3, SetIsTyped DEF LiveInv
  <2> QED BY <1>1, <2>1 DEF LiveInv, LiveTypes, LiveText!TypeOK
<1>6. \A u \in LiveText!Texts : region'[u].pc = region[u].pc
  BY <1>3, <1>4 DEF q
<1>7. text \in LiveText!Texts /\ live \in 0..MaxTexts /\ canceler.text = c
  BY Numbers DEF LiveInv, LiveTypes, LiveText!TypeOK, c
<1>8. Begun'
  <2>1. \A t \in LiveText!Texts : region[t].pc = "none" => t # c
    BY <1>2 DEF q
  <2> QED BY <1>1, <1>4, <1>6, <1>7, <2>1 DEF LiveInv, Begun
<1>9. CancelsOne'
  BY <1>1, <1>2, <1>4, <1>6, <1>7 DEF LiveInv, CancelsOne
<1>10. Joined'
  BY <1>1, <1>6, <1>7 DEF LiveInv, Joined
<1>11. Scrolled' /\ Drawn'
  BY <1>1, <1>6, <1>7 DEF LiveInv, Scrolled, Drawn, LiveText!Texts
<1>12. ASSUME NEW u \in LiveText!Texts, u \notin late', u \notin cancelled'
       PROVE  Untold(u)' /\ Telling(u)' /\ Told(u)'
  <2>1. u \notin late \cup cancelled /\ scrollback' = scrollback /\ u # c
    BY <1>1, <1>2, <1>12
  <2>2. LiveText!Pieces(u)' = LiveText!Pieces(u) /\ Told(u)' /\ Untold(u)' /\ Telling(u) /\ region'[u] = region[u]
    BY <1>4, <2>1, TextStaysTold
  <2> QED BY <1>1, <2>2 DEF Telling
<1> QED BY <1>5, <1>8, <1>9, <1>10, <1>11, <1>12 DEF LiveInv, Tales

LEMMA CancelJoinsTells == ASSUME LiveText!LiveTextAssumption, LiveInv, LiveText!CancelJoins PROVE LiveInv'
<1>1. /\ canceler.pc = "joining" /\ canceler'.pc = "clearing" /\ canceler'.text = canceler.text
      /\ canceler' \in [pc : {"idle", "stopping", "joining", "clearing", "done"}, text : LiveText!Texts]
      /\ late \subseteq late' /\ (canceler.text \notin late' => region[canceler.text].pc = "over")
      /\ late' \subseteq LiveText!Texts
      /\ UNCHANGED <<streamer, text, buffer, region, scrollback, live, cancelled>>
  BY DEF LiveText!CancelJoins, LiveInv, LiveTypes, LiveText!TypeOK
<1>2. LiveTypes' /\ Begun' /\ CancelsOne' /\ Scrolled'
  BY <1>1 DEF LiveInv, LiveTypes, LiveText!TypeOK, Begun, CancelsOne, Scrolled
<1>3. Joined' /\ Drawn'
  BY <1>1 DEF LiveInv, Joined, Drawn
<1>4. ASSUME NEW u \in LiveText!Texts, u \notin late', u \notin cancelled'
      PROVE  Untold(u)' /\ Telling(u)' /\ Told(u)'
  <2>1. u \notin late \cup cancelled /\ scrollback' = scrollback
    BY <1>1, <1>4
  <2>2. LiveText!Pieces(u)' = LiveText!Pieces(u) /\ Told(u)' /\ Untold(u)' /\ Telling(u)
    BY <1>1, <2>1, TextStaysTold
  <2> QED BY <1>1, <2>2 DEF Telling
<1> QED BY <1>2, <1>3, <1>4 DEF LiveInv, Tales

LEMMA CancelClearsTells == ASSUME LiveText!LiveTextAssumption, LiveInv, LiveText!CancelClears PROVE LiveInv'
<1>1. /\ canceler.pc = "clearing" /\ canceler'.pc = "done" /\ canceler'.text = canceler.text
      /\ canceler' \in [pc : {"idle", "stopping", "joining", "clearing", "done"}, text : LiveText!Texts]
      /\ live' = 0
      /\ UNCHANGED <<streamer, text, buffer, region, scrollback, late, cancelled>>
  BY DEF LiveText!CancelClears, LiveInv, LiveTypes, LiveText!TypeOK
<1>2. LiveTypes' /\ Begun' /\ CancelsOne' /\ Scrolled'
  BY <1>1, Numbers DEF LiveInv, LiveTypes, LiveText!TypeOK, Begun, CancelsOne, Scrolled
<1>3. Joined' /\ Drawn'
  BY <1>1 DEF LiveInv, Joined, Drawn
<1>4. ASSUME NEW u \in LiveText!Texts, u \notin late', u \notin cancelled'
      PROVE  Untold(u)' /\ Telling(u)' /\ Told(u)'
  <2>1. u \notin late \cup cancelled /\ scrollback' = scrollback
    BY <1>1, <1>4
  <2>2. LiveText!Pieces(u)' = LiveText!Pieces(u) /\ Told(u)' /\ Untold(u)' /\ Telling(u)
    BY <1>1, <2>1, TextStaysTold
  <2> QED BY <1>1, <2>2 DEF Telling
<1> QED BY <1>2, <1>3, <1>4 DEF LiveInv, Tales

-----------------------------------------------------------------------------
LEMMA LiveStep == ASSUME LiveText!LiveTextAssumption, LiveInv, [LiveText!Next]_LiveText!vars PROVE LiveInv'
<1>1. CASE \E t \in LiveText!Texts : LiveText!Take(t) \/ LiveText!Spill(t) \/ LiveText!CountSpilled(t) \/ LiveText!Show(t)
  BY <1>1, TakeTells, SpillTells, CountSpilledTells, ShowTells
<1>2. CASE LiveText!Partial \/ LiveText!EndStream \/ LiveText!Join \/ LiveText!Flush \/ LiveText!Clear \/ LiveText!PrintAfter
  BY <1>2, PartialTells, EndStreamTells, JoinTells, FlushTells, ClearTells, PrintAfterTells
<1>3. CASE LiveText!Cancel \/ LiveText!CancelStops \/ LiveText!CancelJoins \/ LiveText!CancelClears
  BY <1>3, CancelTells, CancelStopsTells, CancelJoinsTells, CancelClearsTells
<1>4. CASE UNCHANGED LiveText!vars
  <2>1. UNCHANGED <<streamer, text, buffer, region, scrollback, live, canceler, late, cancelled>>
    BY <1>4 DEF LiveText!vars
  <2>2. LiveTypes' /\ Begun' /\ CancelsOne' /\ Scrolled' /\ Joined' /\ Drawn'
    BY <2>1 DEF LiveInv, LiveTypes, LiveText!TypeOK, Begun, CancelsOne, Scrolled, Joined, Drawn
  <2>3. ASSUME NEW u \in LiveText!Texts, u \notin late', u \notin cancelled'
        PROVE  Untold(u)' /\ Telling(u)' /\ Told(u)'
    <3>1. LiveText!Pieces(u)' = LiveText!Pieces(u) /\ Told(u)' /\ Untold(u)' /\ Telling(u)
      BY <2>1, <2>3, TextStaysTold
    <3> QED BY <2>1, <3>1 DEF Telling
  <2> QED BY <2>2, <2>3 DEF LiveInv, Tales
<1> QED BY <1>1, <1>2, <1>3, <1>4 DEF LiveText!Next

LEMMA LiveSafe == ASSUME LiveInv PROVE LiveText!TextIsShownOnce
<1>1. scrollback \in Seq(LiveText!PieceRecord)
  BY DEF LiveInv, LiveTypes, LiveText!TypeOK
<1>2. ASSUME NEW k \in DOMAIN scrollback, LiveText!IsAfter(scrollback[k]), scrollback[k].text \notin late \cup cancelled
      PROVE  /\ LiveText!Tiles(LiveText!Pieces(scrollback[k].text), scrollback[k].from)
             /\ \A j \in (k + 1)..Len(scrollback) : scrollback[j].text # scrollback[k].text
  <2>1. k \in 1..Len(scrollback)
    BY <1>1
  <2>2. scrollback[k].text \in LiveText!Texts
    <3>1. scrollback[k] \in LiveText!PieceRecord
      BY <1>1, <2>1, ElementsOf
    <3> QED BY <3>1 DEF LiveText!PieceRecord
  <2>3. Told(scrollback[k].text)
    BY <1>2, <2>2 DEF LiveInv, Tales
  <2> QED BY <1>2, <2>1, <2>3 DEF Told
<1>3. late = {} /\ streamer = "over" /\ canceler.pc \in {"idle", "done"} => live = 0
  BY DEF LiveInv, Drawn
<1> QED BY <1>2, <1>3 DEF LiveText!TextIsShownOnce

LEMMA LiveLift == MCSpec => LiveText!Spec
<1>1. MCInit => LiveText!Init
  BY DEF MCInit
<1>2. [MCNext]_allVars => [LiveText!Next]_LiveText!vars
  BY DEF MCNext, RunnerNext, HistoryNext, TrustNext, ReplNext, LiveTextNext,
         CommandsNext, allVars, terminalVars, liveTextVars, LiveText!vars
<1> QED BY <1>1, <1>2, PTL DEF MCSpec, LiveText!Spec

LEMMA LiveAlways == LiveText!Spec => [](LiveInv)
<1>0. LiveText!LiveTextAssumption
  BY ConversationAssumption
<1>1. LiveText!Init => LiveInv
  BY <1>0, LiveInit
<1>2. LiveInv /\ [LiveText!Next]_LiveText!vars => (LiveInv)'
  BY <1>0, LiveStep
<1> QED BY <1>1, <1>2, PTL DEF LiveText!Spec

\* _StreamRenderer: a text that nobody cancelled and whose renderer was joined
\* in time stands in the scrollback whole, each line once, in order, with one
\* bullet, before the output after it, for any number of texts and lines and
\* any threshold.
THEOREM TextsAreShownOnce == MCSpec => []TextIsShownOnce
<1>1. LiveInv => TextIsShownOnce
  BY LiveSafe DEF TextIsShownOnce
<1> QED BY <1>1, LiveAlways, LiveLift, PTL

(***************************************************************************)
(* The session's compaction and the history it leaves the model.           *)
(***************************************************************************)
\* The answers in s to the calls of event k.
Answers(s, k) == {r \in 1..Len(s) : s[r].kind = "response" /\ s[r].to = k}

\* What m summarises is what it hides.
Exact(s, m) ==
  m.covers = {k \in 1..Len(s) : s[k].kind # "summary" /\ m.first <= k /\ k <= m.last}

\* The calls that m covers are answered, by answers that m covers.
Closed(s, m) ==
  \A k \in m.covers : s[k].kind = "call" =>
    ~(Cardinality(Answers(s, k)) < s[k].calls) /\ Answers(s, k) \subseteq m.covers

\* A call that waits for answers is one of the session's.
Owing ==
  \A i \in Compactors : compacting[i].owed > 0 =>
    /\ compacting[i].call \in 1..Len(events)
    /\ events[compacting[i].call].kind = "call"
    /\ Cardinality(Answers(events, compacting[i].call)) + compacting[i].owed = events[compacting[i].call].calls

OwedOnce ==
  \A i, j \in Compactors :
    compacting[i].owed > 0 /\ compacting[j].owed > 0 /\ compacting[i].call = compacting[j].call => i = j

AnswersFollow ==
  \A r \in 1..Len(events) : events[r].kind = "response" =>
    events[r].to \in 1..(r - 1) /\ events[events[r].to].kind = "call"

Summed ==
  \A m \in History!SummariesOf(events) :
    events[m].last < m /\ Exact(events, events[m]) /\ Closed(events, events[m])

Decided ==
  \A i \in Compactors : compacting[i].pc = "summarising" =>
    /\ compacting[i].last \in 1..Len(events) /\ compacting[i].owed = 0
    /\ Exact(events, compacting[i]) /\ Closed(events, compacting[i])

HistoryInv == History!TypeOK /\ Owing /\ OwedOnce /\ AnswersFollow /\ Summed /\ Decided

-----------------------------------------------------------------------------
\* The candidates of s, when its summaries end before they stand.
LEMMA CandidatesAre ==
  ASSUME NEW s \in Seq(History!EventRecord), \A m \in History!SummariesOf(s) : s[m].last < m
  PROVE  /\ Len(s) \in Nat /\ History!Boundary(s) \in Nat
         /\ History!Candidates(s) = InOrder({k \in 1..Len(s) : k > History!Boundary(s) /\ s[k].kind # "summary"})
<1> DEFINE ends == {s[m].last : m \in History!SummariesOf(s)}
<1>1. Len(s) \in Nat /\ \A k \in 1..Len(s) : s[k] \in History!EventRecord
  BY ElementsOf
<1>2. ends \in SUBSET (0..Len(s))
  <2> SUFFICES ASSUME NEW m \in History!SummariesOf(s) PROVE s[m].last \in 0..Len(s)
    OBVIOUS
  <2>1. m \in 1..Len(s)
    BY DEF History!SummariesOf
  <2>2. s[m].last \in Nat
    BY <1>1, <2>1 DEF History!EventRecord
  <2> QED BY <1>1, <2>1, <2>2
<1>3. History!Boundary(s) \in Nat
  <2>1. CASE ends = {}
    BY <2>1 DEF History!Boundary
  <2>2. CASE ends # {}
    <3> HIDE DEF ends
    <3>1. \E m \in ends : \A n \in ends : n <= m
      BY <1>1, <1>2, <2>2, GreatestIsThere
    <3>2. (CHOOSE m \in ends : \A n \in ends : n <= m) \in ends
      BY <3>1
    <3>3. History!Boundary(s) = CHOOSE m \in ends : \A n \in ends : n <= m
      BY <2>2 DEF History!Boundary, ends
    <3>4. ends \subseteq Nat
      BY <1>1, <1>2
    <3> QED BY <3>2, <3>3, <3>4
  <2> QED BY <2>1, <2>2
<1> DEFINE K == {k \in 1..Len(s) : k > History!Boundary(s) /\ s[k].kind # "summary"}
<1>4. History!Candidates(s) = InOrder(K)
  <2>1. History!Candidates(s) = History!InOrder(K)
    BY DEF History!Candidates, History!Timestamp
  <2> HIDE DEF K
  <2> QED BY <2>1, SameOperators
<1> QED BY <1>1, <1>3, <1>4

\* How many candidates are old.
LEMMA SplitIs ==
  ASSUME NEW s, NEW c, Len(c) \in Nat
  PROVE  History!Split(s, c) \in 0..Len(c) /\ ~History!Orphans(s, c, History!Split(s, c))
<1> DEFINE enough == {j \in 1..Len(c) : History!Chars(s, SubSeq(c, j, Len(c))) >= Retention}
           reached == IF enough = {} THEN 0 ELSE CHOOSE j \in enough : \A k \in enough : k <= j
           together == {n \in 0..reached : ~History!Orphans(s, c, n)}
<1>1. reached \in 0..Len(c)
  <2>1. enough \in SUBSET (0..Len(c))
    OBVIOUS
  <2> HIDE DEF enough
  <2>2. enough # {} => \E j \in enough : \A k \in enough : k <= j
    BY <2>1, GreatestIsThere
  <2>3. CASE enough = {}
    BY <2>3
  <2>4. CASE enough # {}
    <3>1. (CHOOSE j \in enough : \A k \in enough : k <= j) \in enough
      BY <2>2, <2>4
    <3> QED BY <2>1, <2>4, <3>1
  <2> QED BY <2>3, <2>4
<1>2. History!Split(s, c) = CHOOSE n \in together : \A m \in together : m <= n
  BY DEF History!Split
<1> HIDE DEF reached
<1>3. together \in SUBSET (0..reached) /\ 0 \in together
  BY <1>1 DEF History!Orphans
<1>4. \E n \in together : \A m \in together : m <= n
  <2>1. reached \in Nat /\ together # {}
    BY <1>1, <1>3
  <2> HIDE DEF together
  <2> QED BY <1>3, <2>1, GreatestIsThere
<1>5. History!Split(s, c) \in together
  BY <1>2, <1>4
<1> QED BY <1>1, <1>5

\* What is chosen is what stands in the session from its first to its last.
LEMMA ChosenIsExact ==
  ASSUME NEW s \in Seq(History!EventRecord), \A m \in History!SummariesOf(s) : s[m].last < m,
         \A r \in 1..Len(s) : s[r].kind = "response" => s[r].to \in 1..(r - 1),
         History!ToCompact(s) # <<>>
  PROVE  LET old == History!ToCompact(s)
             m == [first |-> old[1], last |-> old[Len(old)], covers |-> History!ToSet(old)]
         IN /\ m.first \in 1..Len(s) /\ m.last \in 1..Len(s) /\ m.covers \in SUBSET (1..Len(s))
            /\ Exact(s, m) /\ Closed(s, m)
<1> DEFINE K == {k \in 1..Len(s) : k > History!Boundary(s) /\ s[k].kind # "summary"}
           c == History!Candidates(s)
           n == History!Split(s, c)
           old == History!ToCompact(s)
<1>1. Len(s) \in Nat /\ History!Boundary(s) \in Nat /\ c = InOrder(K)
  BY CandidatesAre
<1>2. K \in SUBSET (1..Len(s)) /\ \A k \in K : k \in Nat
  BY <1>1
<1>3. /\ Cardinality(K) \in Nat /\ c \in Seq(K) /\ Len(c) = Cardinality(K)
      /\ \A i \in 1..Len(c) : c[i] = Nth(K, i) /\ c[i] \in K
      /\ \A i, j \in 1..Len(c) : i < j => c[i] < c[j]
      /\ \A k \in K : \E i \in 1..Len(c) : c[i] = k
  <2> HIDE DEF K, c
  <2>1. /\ Cardinality(K) \in Nat /\ c \in Seq(K) /\ Len(c) = Cardinality(K)
        /\ \A i \in 1..Cardinality(K) : c[i] = Nth(K, i) /\ Nth(K, i) \in K
        /\ \A i, j \in 1..Cardinality(K) : i < j => Nth(K, i) < Nth(K, j)
        /\ \A k \in K : Rank(K, k) \in 1..Cardinality(K) /\ Nth(K, Rank(K, k)) = k
    BY <1>1, <1>2, InOrderIs
  <2>2. \A k \in K : c[Rank(K, k)] = k
    BY <2>1
  <2> QED BY <2>1, <2>2
<1>4. n \in 0..Len(c) /\ ~History!Orphans(s, c, n)
  <2> HIDE DEF c
  <2> QED BY <1>3, SplitIs
<1>5. /\ old = SubSeq(c, 1, n)
      /\ ~ \E k \in History!ToSet(old) : History!Pending(s, k)
  BY DEF History!ToCompact
<1> HIDE DEF c, n, old
<1>6. n \in 1..Len(c) /\ Len(old) = n /\ \A i \in 1..n : old[i] = c[i]
  BY <1>3, <1>4, <1>5 DEF old
<1>7. History!ToSet(old) = {c[i] : i \in 1..n}
  <2>1. DOMAIN old = 1..n
    BY <1>3, <1>5, <1>6
  <2> QED BY <1>6, <2>1 DEF History!ToSet
<1> DEFINE first == old[1]
           last == old[Len(old)]
<1>8. first = c[1] /\ last = c[n] /\ first \in K /\ last \in K
  BY <1>3, <1>6
<1>9. History!ToSet(old) = {k \in 1..Len(s) : s[k].kind # "summary" /\ first <= k /\ k <= last}
  <2>1. ASSUME NEW i \in 1..n
        PROVE  c[i] \in 1..Len(s) /\ s[c[i]].kind # "summary" /\ first <= c[i] /\ c[i] <= last
    <3>1. c[i] \in K /\ c[1] \in K /\ c[n] \in K /\ i \in 1..Len(c) /\ 1 \in 1..Len(c) /\ n \in 1..Len(c)
      BY <1>3, <1>6
    <3>0. c[1] \in Nat /\ c[i] \in Nat /\ c[n] \in Nat
      BY <1>2, <3>1
    <3>2. c[1] <= c[i]
      <4>1. i = 1 \/ 1 < i
        OBVIOUS
      <4>2. \A j, k \in 1..Len(c) : j < k => c[j] < c[k]
        BY <1>3
      <4> HIDE DEF K
      <4> QED BY <3>0, <3>1, <4>1, <4>2
    <3>3. c[i] <= c[n]
      <4>1. i = n \/ i < n
        BY <1>6
      <4>2. \A j, k \in 1..Len(c) : j < k => c[j] < c[k]
        BY <1>3
      <4> HIDE DEF K
      <4> QED BY <3>0, <3>1, <4>1, <4>2
    <3> QED BY <1>8, <3>1, <3>2, <3>3
  <2>2. ASSUME NEW k \in 1..Len(s), s[k].kind # "summary", first <= k, k <= last
        PROVE  \E i \in 1..n : c[i] = k
    <3>1. k \in K
      BY <1>1, <1>2, <1>8, <2>2
    <3>2. PICK i \in 1..Len(c) : c[i] = k
      BY <1>3, <3>1
    <3>3. ~(n < i)
      BY <1>2, <1>3, <1>6, <1>8, <2>2, <3>1, <3>2, SMTT(30)
    <3> QED BY <1>6, <3>2, <3>3
  <2> HIDE DEF first, last
  <2> QED BY <1>7, <2>1, <2>2
<1>10. ASSUME NEW k \in History!ToSet(old), s[k].kind = "call"
       PROVE  ~(Cardinality(Answers(s, k)) < s[k].calls) /\ Answers(s, k) \subseteq History!ToSet(old)
  <2>1. ~History!Pending(s, k)
    BY <1>5
  <2>2. ~(Cardinality(Answers(s, k)) < s[k].calls)
    BY <1>10, <2>1, SameOperators DEF History!Pending, Answers
  <2>3. PICK i \in 1..n : c[i] = k
    BY <1>7
  <2>4. ASSUME NEW r \in Answers(s, k) PROVE r \in History!ToSet(old)
    <3>1. r \in 1..Len(s) /\ s[r].kind = "response" /\ s[r].to = k /\ k \in 1..(r - 1)
      BY <2>4 DEF Answers
    <3>2. k \in K
      BY <1>3, <1>6, <2>3
    <3>3. r \in K
      BY <1>1, <3>1, <3>2
    <3>4. PICK j \in 1..Len(c) : c[j] = r
      BY <1>3, <3>3
    <3>5. j \notin (n + 1)..Len(c)
      BY <1>4, <1>10, <2>3, <3>1, <3>4 DEF History!Orphans
    <3> QED BY <1>6, <1>7, <3>4, <3>5
  <2> QED BY <2>2, <2>4
<1>11. first \in 1..Len(s) /\ last \in 1..Len(s) /\ History!ToSet(old) \in SUBSET (1..Len(s))
  BY <1>2, <1>8, <1>9
<1> QED BY <1>9, <1>10, <1>11 DEF Exact, Closed, old

-----------------------------------------------------------------------------
\* An event more: an answer is one to its call, and no other answers change.
LEMMA AnswersOfAppended ==
  ASSUME NEW s \in Seq(History!EventRecord), NEW x \in History!EventRecord, NEW k
  PROVE  /\ Len(s) \in Nat /\ Len(Append(s, x)) = Len(s) + 1
         /\ Append(s, x)[Len(s) + 1] = x /\ \A j \in 1..Len(s) : Append(s, x)[j] = s[j]
         /\ IsFiniteSet(Answers(s, k)) /\ Cardinality(Answers(s, k)) \in Nat
         /\ Answers(s, k) \subseteq 1..Len(s)
         /\ x.kind = "response" /\ x.to = k => Answers(Append(s, x), k) = Answers(s, k) \cup {Len(s) + 1}
         /\ ~(x.kind = "response" /\ x.to = k) => Answers(Append(s, x), k) = Answers(s, k)
<1> DEFINE z == Append(s, x)
<1>1. /\ Len(s) \in Nat /\ Len(z) = Len(s) + 1
      /\ z[Len(s) + 1] = x /\ \A j \in 1..Len(s) : z[j] = s[j]
  OBVIOUS
<1>2. Answers(s, k) \in SUBSET (1..Len(s))
  BY DEF Answers
<1>3. IsFiniteSet(Answers(s, k)) /\ Cardinality(Answers(s, k)) \in Nat
  <2>0. 1 \in Int /\ Len(s) \in Int
    BY <1>1
  <2>1. IsFiniteSet(1..Len(s))
    BY <2>0, FS_Interval
  <2> QED BY <1>2, <2>1, FS_Subset, FS_CardinalityType
<1> HIDE DEF z
<1>4. \A j : j \in 1..Len(z) <=> j \in 1..Len(s) \/ j = Len(s) + 1
  BY <1>1
<1>5. ~(Len(s) + 1 \in 1..Len(s))
  BY <1>1
<1>6. ASSUME x.kind = "response", x.to = k PROVE Answers(z, k) = Answers(s, k) \cup {Len(s) + 1}
  BY <1>1, <1>4, <1>5, <1>6 DEF Answers
<1>7. ASSUME ~(x.kind = "response" /\ x.to = k) PROVE Answers(z, k) = Answers(s, k)
  BY <1>1, <1>4, <1>5, <1>7 DEF Answers
<1> QED BY <1>1, <1>2, <1>3, <1>6, <1>7 DEF z

\* What was summarised stays exact and closed when an event comes that answers
\* none of its calls.
LEMMA AppendKeeps ==
  ASSUME NEW s \in Seq(History!EventRecord), NEW x \in History!EventRecord, NEW m,
         m.last \in Nat, m.last <= Len(s), m.first \in Nat, Exact(s, m), Closed(s, m),
         \A k \in m.covers : ~(x.kind = "response" /\ x.to = k)
  PROVE  Exact(Append(s, x), m) /\ Closed(Append(s, x), m)
<1> DEFINE z == Append(s, x)
<1>1. /\ Len(s) \in Nat /\ Len(z) = Len(s) + 1
      /\ \A j \in 1..Len(s) : z[j] = s[j]
      /\ \A k : ~(x.kind = "response" /\ x.to = k) => Answers(z, k) = Answers(s, k)
  BY AnswersOfAppended
<1> HIDE DEF z
<1>2. Exact(z, m)
  <2>1. ASSUME NEW k
        PROVE  (k \in 1..Len(z) /\ z[k].kind # "summary" /\ m.first <= k /\ k <= m.last)
                 <=> (k \in 1..Len(s) /\ s[k].kind # "summary" /\ m.first <= k /\ k <= m.last)
    <3>1. k \in 1..Len(z) /\ k <= m.last => k \in 1..Len(s)
      BY <1>1
    <3>2. k \in 1..Len(s) => k \in 1..Len(z)
      BY <1>1
    <3> QED BY <1>1, <3>1, <3>2
  <2> QED BY <2>1 DEF Exact
<1>3. m.covers \subseteq 1..Len(s)
  BY DEF Exact
<1>4. Closed(z, m)
  BY <1>1, <1>3 DEF Closed
<1> QED BY <1>2, <1>4 DEF z

\* An event that is no summary, and the invocations that await one.
LEMMA EventKeepsSummaries ==
  ASSUME HistoryInv, NEW x \in History!EventRecord, x.kind # "summary", events' = Append(events, x),
         x.kind = "response" =>
           /\ x.to \in 1..Len(events) /\ events[x.to].kind = "call"
           /\ Cardinality(Answers(events, x.to)) < events[x.to].calls,
         \A i \in Compactors : compacting'[i].pc = "summarising" => compacting'[i] = compacting[i]
  PROVE  AnswersFollow' /\ Summed' /\ Decided'
<1> DEFINE n == Len(events)
<1>1. /\ n \in Nat /\ Len(events') = n + 1 /\ events'[n + 1] = x
      /\ \A j \in 1..n : events'[j] = events[j] /\ events[j] \in History!EventRecord
  BY ElementsOf DEF HistoryInv, History!TypeOK
<1> HIDE DEF n
<1>2. AnswersFollow'
  <2>1. ASSUME NEW r \in 1..Len(events'), events'[r].kind = "response"
        PROVE  events'[r].to \in 1..(r - 1) /\ events'[events'[r].to].kind = "call"
    <3>1. CASE r = n + 1
      BY <1>1, <2>1, <3>1 DEF n
    <3>2. CASE r \in 1..n
      <4>1. events[r].to \in 1..(r - 1) /\ events[events[r].to].kind = "call"
        BY <1>1, <2>1, <3>2 DEF HistoryInv, AnswersFollow, n
      <4>2. events[r].to \in 1..n
        BY <1>1, <3>2, <4>1
      <4> QED BY <1>1, <3>2, <4>1, <4>2
    <3> QED BY <1>1, <3>1, <3>2
  <2> QED BY <2>1 DEF AnswersFollow
<1>3. ASSUME NEW m, m.last \in Nat, m.last <= n, m.first \in Nat, Exact(events, m), Closed(events, m)
      PROVE  Exact(events', m) /\ Closed(events', m)
  <2>1. ASSUME NEW k \in m.covers, x.kind = "response", x.to = k PROVE FALSE
    BY <1>3, <2>1 DEF Closed
  <2> QED BY <1>3, <2>1, AppendKeeps DEF HistoryInv, History!TypeOK, n
<1>4. Summed'
  <2>1. ASSUME NEW m \in History!SummariesOf(events')
        PROVE  events'[m].last < m /\ Exact(events', events'[m]) /\ Closed(events', events'[m])
    <3>1. m \in 1..n /\ m \in History!SummariesOf(events) /\ events'[m] = events[m]
      BY <1>1 DEF History!SummariesOf, n
    <3>2. /\ events[m].last < m /\ Exact(events, events[m]) /\ Closed(events, events[m])
          /\ events[m].last \in Nat /\ events[m].first \in Nat
      BY <1>1, <3>1 DEF HistoryInv, Summed, History!EventRecord
    <3>3. events[m].last <= n
      BY <1>1, <3>1, <3>2
    <3> QED BY <1>3, <3>1, <3>2, <3>3
  <2> QED BY <2>1 DEF Summed
<1>5. Decided'
  <2>1. ASSUME NEW i \in Compactors, compacting'[i].pc = "summarising"
        PROVE  /\ compacting'[i].last \in 1..Len(events') /\ compacting'[i].owed = 0
               /\ Exact(events', compacting'[i]) /\ Closed(events', compacting'[i])
    <3>1. compacting'[i] = compacting[i] /\ compacting[i].pc = "summarising"
      BY <2>1
    <3>2. /\ compacting[i].last \in 1..n /\ compacting[i].owed = 0 /\ Exact(events, compacting[i]) /\ Closed(events, compacting[i])
          /\ compacting[i].first \in Nat
      BY <3>1 DEF HistoryInv, Decided, History!TypeOK, n
    <3>3. compacting[i].last \in Nat /\ compacting[i].last <= n /\ compacting[i].last \in 1..(n + 1)
      BY <1>1, <3>2
    <3> QED BY <1>1, <1>3, <3>1, <3>2, <3>3
  <2> QED BY <2>1 DEF Decided
<1> QED BY <1>2, <1>4, <1>5

-----------------------------------------------------------------------------
LEMMA HistoryInit == ASSUME History!CompactionAssumption, History!Init PROVE HistoryInv
<1>1. History!TypeOK
  BY DEF History!Init, History!TypeOK, History!Fresh
<1>2. events = <<>> /\ \A i \in Compactors : compacting[i].owed = 0 /\ compacting[i].pc = "running"
  BY DEF History!Init, History!Fresh
<1> QED BY <1>1, <1>2 DEF HistoryInv, Owing, OwedOnce, AnswersFollow, Summed, Decided, History!SummariesOf

\* A call of a model, when it is made and when it is answered.
LEMMA SayKeeps == ASSUME History!CompactionAssumption, HistoryInv, NEW i \in Compactors, History!Say(i) PROVE HistoryInv'
<1>1. PICK x \in History!EventRecord : x.kind \in {"text", "silent"} /\ events' = Append(events, x)
  <2>1. \A n \in 1..MaxChars : History!Raw("text", n, 0, 0) \in History!EventRecord
    BY DEF History!CompactionAssumption, History!Raw, History!EventRecord
  <2>2. History!Raw("silent", 0, 0, 0) \in History!EventRecord
    BY DEF History!Raw, History!EventRecord
  <2> QED BY <2>1, <2>2 DEF History!Say, History!Add, History!Raw
<1>2. compacting' = compacting
  BY DEF History!Say
<1>3. History!TypeOK'
  BY <1>1, <1>2 DEF HistoryInv, History!TypeOK
<1>4. AnswersFollow' /\ Summed' /\ Decided'
  BY <1>1, <1>2, EventKeepsSummaries
<1>5. Owing' /\ OwedOnce'
  <2>1. /\ \A k : Answers(events', k) = Answers(events, k)
        /\ Len(events) \in Nat /\ Len(events') = Len(events) + 1
        /\ \A j \in 1..Len(events) : events'[j] = events[j]
    BY <1>1, AnswersOfAppended DEF HistoryInv, History!TypeOK
  <2> QED BY <1>2, <2>1 DEF HistoryInv, Owing, OwedOnce
<1> QED BY <1>3, <1>4, <1>5 DEF HistoryInv

LEMMA CallKeeps == ASSUME HistoryInv, NEW i \in Compactors, History!Call(i) PROVE HistoryInv'
<1> DEFINE n == Len(events)
<1>1. PICK c \in 1..2 : /\ events' = Append(events, History!Raw("call", 1, c, 0))
                        /\ compacting' = [compacting EXCEPT ![i].call = n + 1, ![i].owed = c]
  BY DEF History!Call, History!Add
<1> DEFINE x == History!Raw("call", 1, c, 0)
<1>2. x \in History!EventRecord /\ x.kind = "call" /\ x.calls = c
  BY DEF History!Raw, History!EventRecord
<1>3. n \in Nat /\ compacting[i].pc = "running" /\ compacting[i].owed = 0
  BY DEF HistoryInv, History!TypeOK, History!Call
<1>4. /\ \A k : Answers(events', k) = Answers(events, k)
      /\ Len(events') = n + 1 /\ events'[n + 1] = x
      /\ \A j \in 1..n : events'[j] = events[j]
  BY <1>1, <1>2, AnswersOfAppended DEF HistoryInv, History!TypeOK
<1> HIDE DEF x, n
<1>5. /\ compacting'[i].call = n + 1 /\ compacting'[i].owed = c /\ compacting'[i].pc = "running"
      /\ \A j \in Compactors \ {i} : compacting'[j] = compacting[j]
  BY <1>1, <1>3 DEF HistoryInv, History!TypeOK
<1>6. History!TypeOK'
  <2>1. events' \in Seq(History!EventRecord)
    BY <1>1, <1>2 DEF HistoryInv, History!TypeOK, x
  <2>2. n + 1 \in Nat /\ c \in 0..2
    BY <1>3
  <2> QED BY <1>1, <2>1, <2>2, ZenonT(60) DEF HistoryInv, History!TypeOK
<1>7. AnswersFollow' /\ Summed' /\ Decided'
  <2>1. \A j \in Compactors : compacting'[j].pc = "summarising" => compacting'[j] = compacting[j]
    BY <1>3, <1>5
  <2>2. events' = Append(events, x)
    BY <1>1 DEF x
  <2> QED BY <1>2, <2>1, <2>2, EventKeepsSummaries
<1>8. Answers(events, n + 1) = {}
  <2>1. ASSUME NEW r \in Answers(events, n + 1) PROVE FALSE
    <3>1. r \in 1..n /\ events[r].to \in 1..(r - 1) /\ events[r].to = n + 1
      BY DEF Answers, HistoryInv, AnswersFollow, n
    <3> QED BY <1>3, <3>1
  <2> QED BY <2>1
<1>9. Owing'
  <2> SUFFICES ASSUME NEW j \in Compactors, compacting'[j].owed > 0
               PROVE  /\ compacting'[j].call \in 1..Len(events') /\ events'[compacting'[j].call].kind = "call"
                      /\ Cardinality(Answers(events', compacting'[j].call)) + compacting'[j].owed
                           = events'[compacting'[j].call].calls
    BY DEF Owing
  <2>1. CASE j = i
    <3>1. Cardinality(Answers(events', n + 1)) = 0
      BY <1>4, <1>8, FS_EmptySet
    <3> QED BY <1>2, <1>3, <1>4, <1>5, <2>1, <3>1
  <2>2. CASE j # i
    <3>1. /\ compacting[j].call \in 1..n /\ events[compacting[j].call].kind = "call"
          /\ Cardinality(Answers(events, compacting[j].call)) + compacting[j].owed = events[compacting[j].call].calls
      BY <1>5, <2>2 DEF HistoryInv, Owing, n
    <3>2. compacting[j].call \in 1..(n + 1)
      BY <1>3, <3>1
    <3> QED BY <1>4, <1>5, <2>2, <3>1, <3>2
  <2> QED BY <2>1, <2>2
<1>10. OwedOnce'
  <2>1. ASSUME NEW j \in Compactors, j # i, compacting'[j].owed > 0 PROVE compacting'[j].call # n + 1
    <3>1. compacting[j].call \in 1..n
      BY <1>5, <2>1 DEF HistoryInv, Owing, n
    <3> QED BY <1>3, <1>5, <2>1, <3>1
  <2> QED BY <1>5, <2>1 DEF HistoryInv, OwedOnce
<1> QED BY <1>6, <1>7, <1>9, <1>10 DEF HistoryInv

LEMMA RespondKeeps ==
  ASSUME History!CompactionAssumption, HistoryInv, NEW i \in Compactors, History!Respond(i) PROVE HistoryInv'
<1> DEFINE n == Len(events)
           t == compacting[i].call
<1>1. PICK a \in 0..MaxChars : events' = Append(events, History!Raw("response", a, 0, t))
  BY DEF History!Respond, History!Add
<1> DEFINE x == History!Raw("response", a, 0, t)
<1>2. /\ compacting[i].pc = "running" /\ compacting[i].owed > 0 /\ compacting[i].owed \in 0..2
      /\ compacting' = [compacting EXCEPT ![i].owed = compacting[i].owed - 1]
  BY DEF History!Respond, HistoryInv, History!TypeOK
<1>3. /\ t \in 1..n /\ events[t].kind = "call" /\ n \in Nat
      /\ Cardinality(Answers(events, t)) + compacting[i].owed = events[t].calls
  BY <1>2 DEF HistoryInv, History!TypeOK, Owing
<1>4. x \in History!EventRecord /\ x.kind = "response" /\ x.to = t
  <2>1. a \in Nat /\ t \in Nat
    BY DEF History!CompactionAssumption, HistoryInv, History!TypeOK
  <2> QED BY <2>1 DEF History!Raw, History!EventRecord
<1> HIDE DEF x, n, t
<1>5. /\ Answers(events', t) = Answers(events, t) \cup {n + 1}
      /\ \A k : k # t => Answers(events', k) = Answers(events, k)
      /\ Len(events') = n + 1 /\ events'[n + 1] = x
      /\ \A j \in 1..n : events'[j] = events[j]
      /\ Answers(events, t) \subseteq 1..n /\ Cardinality(Answers(events, t)) \in Nat
      /\ IsFiniteSet(Answers(events, t))
  <2>1. events' = Append(events, x) /\ events \in Seq(History!EventRecord)
    BY <1>1 DEF HistoryInv, History!TypeOK, x
  <2>2. ASSUME NEW k, k # t PROVE Answers(events', k) = Answers(events, k)
    <3>1. ~(x.kind = "response" /\ x.to = k)
      BY <1>4, <2>2
    <3>2. x \in History!EventRecord /\ events \in Seq(History!EventRecord)
      BY <1>4, <2>1
    <3>3. Answers(Append(events, x), k) = Answers(events, k)
      BY <3>1, <3>2, AnswersOfAppended
    <3> QED BY <2>1, <3>3
  <2>3. /\ Len(Append(events, x)) = Len(events) + 1 /\ Append(events, x)[Len(events) + 1] = x
        /\ \A j \in 1..Len(events) : Append(events, x)[j] = events[j]
        /\ IsFiniteSet(Answers(events, t)) /\ Cardinality(Answers(events, t)) \in Nat
        /\ Answers(events, t) \subseteq 1..Len(events)
    BY <1>4, <2>1, AnswersOfAppended, ZenonT(60)
  <2>4. Answers(Append(events, x), t) = Answers(events, t) \cup {Len(events) + 1}
    BY <1>4, <2>1, AnswersOfAppended, ZenonT(60)
  <2> QED BY <2>1, <2>2, <2>3, <2>4 DEF n
<1>6. /\ compacting'[i].call = t /\ compacting'[i].owed = compacting[i].owed - 1 /\ compacting'[i].pc = "running"
      /\ \A j \in Compactors \ {i} : compacting'[j] = compacting[j]
  BY <1>2 DEF HistoryInv, History!TypeOK, t
<1>7. History!TypeOK'
  <2>1. events' \in Seq(History!EventRecord)
    BY <1>1, <1>4 DEF HistoryInv, History!TypeOK, x
  <2>2. compacting[i].owed - 1 \in 0..2
    BY <1>2
  <2> QED BY <1>2, <2>1, <2>2 DEF HistoryInv, History!TypeOK
<1>8. AnswersFollow' /\ Summed' /\ Decided'
  <2>1. \A j \in Compactors : compacting'[j].pc = "summarising" => compacting'[j] = compacting[j]
    BY <1>2, <1>6
  <2>2. Cardinality(Answers(events, t)) < events[t].calls
    BY <1>2, <1>3, <1>5
  <2>3. events' = Append(events, x)
    BY <1>1 DEF x
  <2> QED BY <1>3, <1>4, <2>1, <2>2, <2>3, EventKeepsSummaries DEF n
<1>9. Cardinality(Answers(events', t)) = Cardinality(Answers(events, t)) + 1
  <2>1. n + 1 \notin Answers(events, t)
    BY <1>3, <1>5
  <2> QED BY <1>5, <2>1, FS_AddElement
<1>10. Owing'
  <2> SUFFICES ASSUME NEW j \in Compactors, compacting'[j].owed > 0
               PROVE  /\ compacting'[j].call \in 1..Len(events') /\ events'[compacting'[j].call].kind = "call"
                      /\ Cardinality(Answers(events', compacting'[j].call)) + compacting'[j].owed
                           = events'[compacting'[j].call].calls
    BY DEF Owing
  <2>0. 1..n \subseteq 1..(n + 1)
    BY <1>3
  <2>1. CASE j = i
    <3>1. Cardinality(Answers(events, t)) + 1 + (compacting[i].owed - 1) = events[t].calls
      BY <1>2, <1>3, <1>5
    <3> QED BY <1>3, <1>5, <1>6, <1>9, <2>0, <2>1, <3>1
  <2>2. CASE j # i
    <3>1. /\ compacting[j].call \in 1..n /\ events[compacting[j].call].kind = "call"
          /\ Cardinality(Answers(events, compacting[j].call)) + compacting[j].owed = events[compacting[j].call].calls
      BY <1>6, <2>2 DEF HistoryInv, Owing, n
    <3>2. compacting[j].call # t
      BY <1>2, <1>6, <2>2 DEF HistoryInv, OwedOnce, t
    <3> QED BY <1>5, <1>6, <2>0, <2>2, <3>1, <3>2
  <2> QED BY <2>1, <2>2
<1>11. OwedOnce'
  <2>1. \A j \in Compactors : compacting'[j].call = compacting[j].call /\ (compacting'[j].owed > 0 => compacting[j].owed > 0)
    BY <1>2, <1>6 DEF t
  <2> QED BY <2>1 DEF HistoryInv, OwedOnce
<1> QED BY <1>7, <1>8, <1>10, <1>11 DEF HistoryInv

-----------------------------------------------------------------------------
\* A decision to summarise.
LEMMA CompactKeeps == ASSUME HistoryInv, NEW i \in Compactors, History!Compact(i) PROVE HistoryInv'
<1> DEFINE old == History!ToCompact(events)
           m == [pc |-> "summarising", call |-> 0, owed |-> 0,
                 first |-> old[1], last |-> old[Len(old)],
                 covers |-> History!ToSet(old), since |-> Len(events)]
<1>1. old # <<>> /\ events' = events /\ compacting' = [compacting EXCEPT ![i] = m]
  BY DEF History!Compact, History!Timestamp
<1>2. /\ m.first \in 1..Len(events) /\ m.last \in 1..Len(events)
      /\ m.covers \in SUBSET (1..Len(events)) /\ Exact(events, m) /\ Closed(events, m)
  <2>1. /\ \A k \in History!SummariesOf(events) : events[k].last < k
        /\ \A r \in 1..Len(events) : events[r].kind = "response" => events[r].to \in 1..(r - 1)
    BY DEF HistoryInv, Summed, AnswersFollow
  <2>2. LET mm == [first |-> old[1], last |-> old[Len(old)], covers |-> History!ToSet(old)]
        IN /\ mm.first \in 1..Len(events) /\ mm.last \in 1..Len(events)
           /\ mm.covers \in SUBSET (1..Len(events)) /\ Exact(events, mm) /\ Closed(events, mm)
    BY <1>1, <2>1, ChosenIsExact DEF HistoryInv, History!TypeOK
  <2> HIDE DEF old
  <2> QED BY <2>2 DEF Exact, Closed
<1>3. m.pc = "summarising" /\ m.owed = 0 /\ m.call = 0 /\ m.since = Len(events)
  OBVIOUS
<1>4. m \in [pc : {"running", "summarising"}, call : Nat, owed : 0..2,
             first : Nat, last : Nat, covers : SUBSET Nat, since : Nat]
  <2>1. Len(events) \in Nat
    BY DEF HistoryInv, History!TypeOK
  <2>2. old[1] \in Nat /\ old[Len(old)] \in Nat /\ History!ToSet(old) \in SUBSET Nat
    BY <1>2, <2>1
  <2> HIDE DEF old
  <2> QED BY <2>1, <2>2
<1> HIDE DEF m, old
<1>5. compacting'[i] = m /\ \A j \in Compactors \ {i} : compacting'[j] = compacting[j]
  BY <1>1 DEF HistoryInv, History!TypeOK
<1>6. History!TypeOK'
  BY <1>1, <1>4 DEF HistoryInv, History!TypeOK
<1>7. Owing' /\ OwedOnce'
  <2>1. \A j \in Compactors : compacting'[j].owed > 0 => j # i /\ compacting'[j] = compacting[j]
    BY <1>3, <1>5
  <2> QED BY <1>1, <1>5, <2>1 DEF HistoryInv, Owing, OwedOnce
<1>8. Decided'
  BY <1>1, <1>2, <1>3, <1>5 DEF HistoryInv, Decided
<1> QED BY <1>1, <1>6, <1>7, <1>8 DEF HistoryInv, AnswersFollow, Summed

\* The invocation forgets its decision.
LEMMA FreshKeeps ==
  ASSUME HistoryInv, NEW i \in Compactors, events' = events, compacting' = [compacting EXCEPT ![i] = History!Fresh]
  PROVE  HistoryInv'
<1>1. compacting'[i] = History!Fresh /\ \A j \in Compactors \ {i} : compacting'[j] = compacting[j]
  BY DEF HistoryInv, History!TypeOK
<1>2. History!TypeOK'
  BY DEF HistoryInv, History!TypeOK, History!Fresh
<1>3. Owing' /\ OwedOnce'
  <2>1. \A j \in Compactors : compacting'[j].owed > 0 => j # i /\ compacting'[j] = compacting[j]
    BY <1>1 DEF History!Fresh
  <2> QED BY <1>1, <2>1 DEF HistoryInv, Owing, OwedOnce
<1>4. Decided'
  <2>1. \A j \in Compactors : compacting'[j].pc = "summarising" => j # i /\ compacting'[j] = compacting[j]
    BY <1>1 DEF History!Fresh
  <2> QED BY <1>1, <2>1 DEF HistoryInv, Decided
<1> QED BY <1>2, <1>3, <1>4 DEF HistoryInv, AnswersFollow, Summed

LEMMA SummariseKeeps == ASSUME HistoryInv, NEW i \in Compactors, History!Summarise(i) PROVE HistoryInv'
<1> DEFINE n == Len(events)
           x == History!Summary(compacting[i].first, compacting[i].last, compacting[i].covers)
<1>1. events' = Append(events, x) /\ compacting' = [compacting EXCEPT ![i] = History!Fresh] /\ compacting[i].pc = "summarising"
  BY DEF History!Summarise
<1>2. x \in History!EventRecord /\ x.kind = "summary"
  BY DEF HistoryInv, History!TypeOK, History!Summary, History!EventRecord
<1>3. /\ x.last \in 1..n /\ x.first \in Nat /\ x.last \in Nat /\ Exact(events, x) /\ Closed(events, x)
  BY <1>1 DEF HistoryInv, History!TypeOK, Decided, History!Summary, Exact, Closed
<1>4. /\ \A k : Answers(events', k) = Answers(events, k)
      /\ n \in Nat /\ Len(events') = n + 1 /\ events'[n + 1] = x
      /\ \A j \in 1..n : events'[j] = events[j] /\ events[j] \in History!EventRecord
  BY <1>1, <1>2, AnswersOfAppended, ElementsOf DEF HistoryInv, History!TypeOK
<1> HIDE DEF x, n
<1>5. compacting'[i] = History!Fresh /\ \A j \in Compactors \ {i} : compacting'[j] = compacting[j]
  BY <1>1 DEF HistoryInv, History!TypeOK
<1>6. History!TypeOK'
  BY <1>1, <1>2 DEF HistoryInv, History!TypeOK, History!Fresh
<1>7. ASSUME NEW m, m.last \in Nat, m.last <= n, m.first \in Nat, Exact(events, m), Closed(events, m)
      PROVE  Exact(events', m) /\ Closed(events', m)
  BY <1>1, <1>2, <1>7, AppendKeeps DEF HistoryInv, History!TypeOK, n
<1>8. AnswersFollow'
  <2>1. ASSUME NEW r \in 1..Len(events'), events'[r].kind = "response"
        PROVE  events'[r].to \in 1..(r - 1) /\ events'[events'[r].to].kind = "call"
    <3>1. r \in 1..n
      BY <1>2, <1>4, <2>1
    <3>2. events[r].to \in 1..(r - 1) /\ events[events[r].to].kind = "call"
      BY <1>4, <2>1, <3>1 DEF HistoryInv, AnswersFollow, n
    <3>3. events[r].to \in 1..n
      BY <1>4, <3>1, <3>2
    <3> QED BY <1>4, <3>1, <3>2, <3>3
  <2> QED BY <2>1 DEF AnswersFollow
<1>9. Summed'
  <2>1. ASSUME NEW m \in History!SummariesOf(events')
        PROVE  events'[m].last < m /\ Exact(events', events'[m]) /\ Closed(events', events'[m])
    <3>1. CASE m = n + 1
      <4>1. x.last < n + 1 /\ x.last <= n
        BY <1>3, <1>4
      <4> QED BY <1>3, <1>4, <1>7, <3>1, <4>1
    <3>2. CASE m \in 1..n
      <4>1. m \in History!SummariesOf(events)
        BY <1>4, <3>2 DEF History!SummariesOf, n
      <4>2. /\ events[m].last < m /\ Exact(events, events[m]) /\ Closed(events, events[m])
            /\ events[m].last \in Nat /\ events[m].first \in Nat
        BY <1>4, <3>2, <4>1 DEF HistoryInv, Summed, History!EventRecord
      <4>3. events[m].last <= n
        BY <1>4, <3>2, <4>2
      <4> QED BY <1>4, <1>7, <3>2, <4>2, <4>3
    <3> QED BY <1>4, <3>1, <3>2 DEF History!SummariesOf
  <2> QED BY <2>1 DEF Summed
<1>10. Decided'
  <2>1. ASSUME NEW j \in Compactors, compacting'[j].pc = "summarising"
        PROVE  /\ compacting'[j].last \in 1..Len(events') /\ compacting'[j].owed = 0
               /\ Exact(events', compacting'[j]) /\ Closed(events', compacting'[j])
    <3>1. compacting'[j] = compacting[j]
      BY <1>5, <2>1 DEF History!Fresh
    <3>2. /\ compacting[j].last \in 1..n /\ compacting[j].owed = 0 /\ Exact(events, compacting[j]) /\ Closed(events, compacting[j])
          /\ compacting[j].first \in Nat
      BY <2>1, <3>1 DEF HistoryInv, Decided, History!TypeOK, n
    <3>3. compacting[j].last \in Nat /\ compacting[j].last <= n /\ compacting[j].last \in 1..(n + 1)
      BY <1>4, <3>2
    <3> QED BY <1>4, <1>7, <3>1, <3>2, <3>3
  <2> QED BY <2>1 DEF Decided
<1>11. Owing' /\ OwedOnce'
  <2>1. \A j \in Compactors : compacting'[j].owed > 0 => j # i /\ compacting'[j] = compacting[j]
    BY <1>5 DEF History!Fresh
  <2>2. 1..n \subseteq 1..(n + 1)
    BY <1>4
  <2>3. OwedOnce'
    BY <1>5, <2>1 DEF HistoryInv, OwedOnce
  <2>4. Owing'
    BY <1>4, <2>1, <2>2 DEF HistoryInv, Owing, n
  <2> QED BY <2>3, <2>4
<1> QED BY <1>6, <1>8, <1>9, <1>10, <1>11 DEF HistoryInv

LEMMA HistoryStep == ASSUME History!CompactionAssumption, HistoryInv, [History!Next]_History!vars PROVE HistoryInv'
<1>1. ASSUME NEW i \in Compactors, History!Say(i) PROVE HistoryInv'
  BY <1>1, SayKeeps
<1>2. ASSUME NEW i \in Compactors, History!Call(i) PROVE HistoryInv'
  BY <1>2, CallKeeps
<1>3. ASSUME NEW i \in Compactors, History!Respond(i) PROVE HistoryInv'
  BY <1>3, RespondKeeps
<1>4. ASSUME NEW i \in Compactors, History!Compact(i) PROVE HistoryInv'
  BY <1>4, CompactKeeps
<1>5. ASSUME NEW i \in Compactors, History!SkipCompaction(i) \/ History!SummaryFails(i) PROVE HistoryInv'
  BY <1>5, FreshKeeps DEF History!SkipCompaction, History!SummaryFails
<1>6. ASSUME NEW i \in Compactors, History!Summarise(i) PROVE HistoryInv'
  BY <1>6, SummariseKeeps
<1>7. CASE UNCHANGED History!vars
  BY <1>7 DEF History!vars, HistoryInv, History!TypeOK, Owing, OwedOnce, AnswersFollow, Summed, Decided
<1> QED BY <1>1, <1>2, <1>3, <1>4, <1>5, <1>6, <1>7 DEF History!Next

LEMMA SummariesAreExact == ASSUME HistoryInv PROVE History!SummariesReplaceExactly
<1>1. \A m \in History!SummariesOf(events) :
        events[m].covers = {k \in 1..Len(events) : events[k].kind # "summary"
                              /\ events[m].first <= k /\ k <= events[m].last}
  BY DEF HistoryInv, Summed, Exact
<1>2. History!Hidden(events) \subseteq UNION {events[m].covers : m \in History!SummariesOf(events)}
  BY <1>1 DEF History!Hidden, History!Timestamp
<1>3. UNION {events[m].covers : m \in History!SummariesOf(events)} \subseteq History!Hidden(events)
  BY <1>1 DEF History!Hidden, History!Timestamp
<1> QED BY <1>2, <1>3 DEF History!SummariesReplaceExactly

-----------------------------------------------------------------------------
\* The place of an included event among the messages.
LEMMA HistoryIs ==
  ASSUME NEW s \in Seq(History!EventRecord)
  PROVE  LET K == History!Included(s)
             c == Cardinality(K)
         IN /\ c \in Nat /\ Len(History!History(s)) = c /\ K \in SUBSET (1..Len(s))
            /\ \A i \in 1..c : Nth(K, i) \in K /\ History!History(s)[i] = History!MessageOf(s, Nth(K, i))
            /\ \A i, j \in 1..c : i < j <=> Nth(K, i) < Nth(K, j)
            /\ \A k \in K : Rank(K, k) \in 1..c /\ Nth(K, Rank(K, k)) = k
<1> DEFINE K == History!Included(s)
           c == Cardinality(K)
<1>1. Len(s) \in Nat /\ K \in SUBSET (1..Len(s))
  BY DEF History!Included
<1>2. History!History(s) = [i \in 1..c |-> History!MessageOf(s, Nth(K, i))]
  BY SameOperators DEF History!History
<1>3. \A k \in K : k \in Nat
  BY <1>1
<1> HIDE DEF K
<1>4. /\ c \in Nat /\ \A i \in 1..c : Nth(K, i) \in K
      /\ \A i, j \in 1..c : i < j => Nth(K, i) < Nth(K, j)
      /\ \A k \in K : Rank(K, k) \in 1..c /\ Nth(K, Rank(K, k)) = k
  BY <1>1, InOrderIs
<1>5. ASSUME NEW i \in 1..c, NEW j \in 1..c, Nth(K, i) < Nth(K, j) PROVE i < j
  <2>1. i < j \/ i = j \/ j < i
    OBVIOUS
  <2>2. Nth(K, i) \in Nat /\ Nth(K, j) \in Nat
    BY <1>3, <1>4
  <2>3. j < i => Nth(K, j) < Nth(K, i)
    BY <1>4
  <2> QED BY <1>5, <2>1, <2>2, <2>3
<1>6. Len(History!History(s)) = c /\ \A i \in 1..c : History!History(s)[i] = History!MessageOf(s, Nth(K, i))
  BY <1>2, <1>4
<1> QED BY <1>1, <1>4, <1>5, <1>6 DEF K

\* A call that is hidden hides its answers with it.
LEMMA CallOfAnAnswer ==
  ASSUME HistoryInv, NEW r \in History!Included(events), events[r].kind = "response"
  PROVE  LET t == events[r].to
         IN t \in History!Included(events) /\ events[t].kind = "call" /\ t < r /\ r \in History!Responded(events, t)
<1> DEFINE t == events[r].to
           n == Len(events)
<1>1. r \in 1..n /\ r \notin History!Hidden(events) /\ n \in Nat
  BY DEF History!Included, HistoryInv, History!TypeOK
<1>2. t \in 1..(r - 1) /\ events[t].kind = "call"
  BY <1>1 DEF HistoryInv, AnswersFollow
<1>3. t \in 1..n /\ t < r
  BY <1>1, <1>2
<1>4. t \notin History!Hidden(events)
  <2> SUFFICES ASSUME t \in History!Hidden(events) PROVE FALSE
    OBVIOUS
  <2>1. PICK m \in History!SummariesOf(events) : events[m].first <= t /\ t <= events[m].last
    BY DEF History!Hidden, History!Timestamp
  <2>2. Exact(events, events[m]) /\ Closed(events, events[m])
    BY DEF HistoryInv, Summed
  <2>3. t \in events[m].covers
    BY <1>2, <1>3, <2>1, <2>2 DEF Exact
  <2>4. r \in Answers(events, t)
    BY <1>1 DEF Answers
  <2>5. r \in events[m].covers
    BY <1>2, <2>2, <2>3, <2>4 DEF Closed
  <2>6. r \in History!Hidden(events)
    BY <1>1, <2>2, <2>5 DEF Exact, History!Hidden, History!Timestamp
  <2> QED BY <1>1, <2>6
<1>5. r \in History!Responded(events, t)
  BY <1>1 DEF History!Responded
<1> HIDE DEF t
<1>6. t \in History!Included(events)
  BY <1>2, <1>3, <1>4, <1>5 DEF History!Included
<1> QED BY <1>2, <1>3, <1>5, <1>6 DEF t

\* The messages after that of a call that answer it are the answers to it.
LEMMA AnswersAreLater ==
  ASSUME HistoryInv, NEW k \in 1..Len(History!History(events)), History!History(events)[k].kind = "ai"
  PROVE  LET h == History!History(events)
         IN Cardinality({m \in (k + 1)..Len(h) : h[m].kind = "tool" /\ events[h[m].at].to = h[k].at})
              = h[k].calls
<1> DEFINE h == History!History(events)
           K == History!Included(events)
           c == Cardinality(K)
           e == Nth(K, k)
           M == {m \in (k + 1)..Len(h) : h[m].kind = "tool" /\ events[h[m].at].to = h[k].at}
           R == History!Responded(events, e)
           f == [m \in M |-> Nth(K, m)]
<1>1. /\ c \in Nat /\ Len(h) = c /\ K \in SUBSET (1..Len(events))
      /\ \A i \in 1..c : Nth(K, i) \in K /\ h[i] = History!MessageOf(events, Nth(K, i))
      /\ \A i, j \in 1..c : i < j <=> Nth(K, i) < Nth(K, j)
      /\ \A j \in K : Rank(K, j) \in 1..c /\ Nth(K, Rank(K, j)) = j
  BY HistoryIs DEF HistoryInv, History!TypeOK
<1> HIDE DEF h, K, c
<1>2. e \in K /\ h[k] = History!MessageOf(events, e)
  BY <1>1 DEF h
<1>3. h[k].at = e /\ events[e].kind = "call" /\ h[k].calls = Cardinality(R)
  <2>1. h[k].kind = "ai"
    BY DEF h
  <2> HIDE DEF e, R
  <2>2. events[e].kind # "response" /\ events[e].kind = "call"
    BY <1>2, <2>1 DEF History!MessageOf, History!Message
  <2>3. h[k] = History!Message("ai", e, Cardinality(History!Responded(events, e)))
    BY <1>2, <2>2, SameOperators DEF History!MessageOf
  <2> QED BY <2>2, <2>3 DEF History!Message, R
<1>4. \A j \in K : j \in Nat
  BY <1>1
<1> HIDE DEF e
<1>5. ASSUME NEW m \in M PROVE m \in 1..c /\ k < m /\ Nth(K, m) \in R
  <2>1. m \in 1..c /\ k < m /\ k \in 1..c
    BY <1>1 DEF h
  <2> DEFINE r == Nth(K, m)
  <2>2. r \in K /\ h[m] = History!MessageOf(events, r)
    BY <1>1, <2>1
  <2> HIDE DEF r
  <2>3. h[m].kind = "tool"
    OBVIOUS
  <2>4. events[r].kind = "response"
    BY <2>2, <2>3 DEF History!MessageOf, History!Message
  <2>5. h[m].at = r
    BY <2>2, <2>4 DEF History!MessageOf, History!Message
  <2>6. events[r].to = e
    BY <1>3, <2>5
  <2>7. r \in R
    BY <2>2, <2>4, <2>6 DEF History!Responded, K, History!Included
  <2> QED BY <2>1, <2>7 DEF r
<1>6. ASSUME NEW r \in R PROVE \E m \in M : Nth(K, m) = r
  <2>1. r \in 1..Len(events) /\ r \notin History!Hidden(events) /\ events[r].kind = "response" /\ events[r].to = e
    BY DEF History!Responded
  <2>2. r \in K
    BY <2>1 DEF K, History!Included
  <2>3. e < r
    BY <2>1, <2>2, CallOfAnAnswer DEF K
  <2> DEFINE m == Rank(K, r)
  <2>4. m \in 1..c /\ Nth(K, m) = r
    BY <1>1, <2>2
  <2> HIDE DEF m
  <2>5. k < m
    BY <1>1, <2>3, <2>4 DEF e, h
  <2>6. h[m] = History!Message("tool", r, 0)
    BY <1>1, <2>1, <2>4 DEF History!MessageOf
  <2>7. h[m].kind = "tool" /\ h[m].at = r
    BY <2>6 DEF History!Message
  <2>8. m \in (k + 1)..Len(h)
    BY <1>1, <2>4, <2>5 DEF h
  <2> QED BY <1>3, <2>1, <2>4, <2>7, <2>8
<1> HIDE DEF M, R
<1>7. f \in Bijection(M, R)
  <2>1. f \in [M -> R]
    BY <1>5
  <2>2. ASSUME NEW m \in M, NEW l \in M, f[m] = f[l] PROVE m = l
    <3>1. m \in 1..c /\ l \in 1..c /\ Nth(K, m) = Nth(K, l) /\ Nth(K, m) \in Nat
      BY <1>1, <1>4, <1>5, <2>2
    <3>2. ~(m < l) /\ ~(l < m)
      BY <1>1, <3>1
    <3> QED BY <3>1, <3>2
  <2>3. \A r \in R : \E m \in M : f[m] = r
    BY <1>6
  <2> HIDE DEF f
  <2> QED BY <2>1, <2>2, <2>3 DEF Bijection, Injection, IsInjective, Surjection
<1>8. IsFiniteSet(M)
  <2>1. M \in SUBSET ((k + 1)..Len(h)) /\ k + 1 \in Int /\ Len(h) \in Int
    BY <1>1 DEF M, h
  <2> QED BY <2>1, FS_Interval, FS_Subset
<1>9. Cardinality(R) = Cardinality(M)
  BY <1>7, <1>8, FS_Bijection DEF ExistsBijection
<1> QED BY <1>3, <1>9 DEF M, h

LEMMA WellFormed == ASSUME HistoryInv PROVE History!HistoryIsWellFormed
<1> DEFINE h == History!History(events)
           K == History!Included(events)
           c == Cardinality(K)
<1>1. /\ c \in Nat /\ Len(h) = c /\ K \in SUBSET (1..Len(events))
      /\ \A i \in 1..c : Nth(K, i) \in K /\ h[i] = History!MessageOf(events, Nth(K, i))
      /\ \A i, j \in 1..c : i < j <=> Nth(K, i) < Nth(K, j)
      /\ \A j \in K : Rank(K, j) \in 1..c /\ Nth(K, Rank(K, j)) = j
  BY HistoryIs DEF HistoryInv, History!TypeOK
<1> HIDE DEF h, K, c
<1>2. ASSUME NEW k \in 1..Len(h), h[k].kind = "tool"
      PROVE  \E m \in 1..(k - 1) : h[m].kind = "ai" /\ h[m].at = events[h[k].at].to
  <2> DEFINE r == Nth(K, k)
             t == events[r].to
             m == Rank(K, t)
  <2>1. r \in K /\ h[k] = History!MessageOf(events, r) /\ k \in 1..c
    BY <1>1
  <2> HIDE DEF r
  <2>2. events[r].kind = "response" /\ h[k].at = r
    BY <1>2, <2>1 DEF History!MessageOf, History!Message
  <2>3. t \in K /\ events[t].kind = "call" /\ t < r
    BY <2>1, <2>2, CallOfAnAnswer DEF K
  <2> HIDE DEF t
  <2>4. m \in 1..c /\ Nth(K, m) = t
    BY <1>1, <2>3
  <2> HIDE DEF m
  <2>5. m < k
    BY <1>1, <2>1, <2>3, <2>4 DEF r
  <2>6. h[m] = History!Message("ai", t, Cardinality(History!Responded(events, t)))
    BY <1>1, <2>3, <2>4, SameOperators DEF History!MessageOf
  <2>7. h[m].kind = "ai" /\ h[m].at = t
    BY <2>6 DEF History!Message
  <2>8. m \in 1..(k - 1)
    BY <1>1, <2>1, <2>4, <2>5
  <2> QED BY <2>2, <2>7, <2>8 DEF t
<1>3. ASSUME NEW k \in 1..Len(h), h[k].kind = "ai"
      PROVE  Cardinality({m \in (k + 1)..Len(h) :
                            h[m].kind = "tool" /\ events[h[m].at].to = h[k].at}) = h[k].calls
  BY <1>3, AnswersAreLater DEF h
<1> QED BY <1>2, <1>3, SameOperators DEF History!HistoryIsWellFormed, h

LEMMA HistoryLift == MCSpec => History!Spec
<1>1. MCInit => History!Init
  BY DEF MCInit
<1>2. [MCNext]_allVars => [History!Next]_History!vars
  BY DEF MCNext, RunnerNext, HistoryNext, TrustNext, ReplNext, LiveTextNext,
         CommandsNext, allVars, terminalVars, historyVars, History!vars
<1> QED BY <1>1, <1>2, PTL DEF MCSpec, History!Spec

LEMMA HistoryAlways == History!Spec => [](HistoryInv)
<1>0. History!CompactionAssumption
  BY ConversationAssumption
<1>1. History!Init => HistoryInv
  BY <1>0, HistoryInit
<1>2. HistoryInv /\ [History!Next]_History!vars => (HistoryInv)'
  BY <1>0, HistoryStep
<1> QED BY <1>1, <1>2, PTL DEF History!Spec

\* compact_session: what summaries hide from the model is what they cover,
\* whatever other invocations append and summarise while one awaits its summary.
THEOREM SummariesHideWhatTheyCover == MCSpec => []SummariesReplaceExactly
<1>1. HistoryInv => SummariesReplaceExactly
  BY SummariesAreExact DEF SummariesReplaceExactly
<1> QED BY <1>1, HistoryAlways, HistoryLift, PTL

\* events_to_messages: in the history a turn begins with, every tool message
\* follows the message with its call, and every call is answered later, as often
\* as it says, also after compactions that overlapped, with calls that are still
\* running and calls nobody will answer.
THEOREM HistoryIsAccepted == MCSpec => []HistoryIsWellFormed
<1>1. HistoryInv => HistoryIsWellFormed
  BY WellFormed DEF HistoryIsWellFormed
<1> QED BY <1>1, HistoryAlways, HistoryLift, PTL

(***************************************************************************)
(* The chain of signed events.                                             *)
(***************************************************************************)
Whole(e) == e.signer # Trust!NoSigner /\ ~e.partial
Earlier(s, i) == IF i = 1 THEN 0 ELSE s[i - 1]

\* What was signed on a branch is numbered upwards, and the last of it is the
\* head of the agents' side.
SignedInOrder ==
  \A b \in Branches :
    /\ \A i \in 1..Len(signed[b]) : signed[b][i] <= made
    /\ \A i, j \in 1..Len(signed[b]) : i < j => signed[b][i] < signed[b][j]
    /\ heads[b] = Earlier(signed[b], Len(signed[b]) + 1)

\* A signed whole event is linked to the one signed before it: g is what was
\* signed.
Placed(g, e) ==
  Whole(e) => \E i \in 1..Len(g[e.branch]) :
                g[e.branch][i] = e.n /\ e.prev = Earlier(g[e.branch], i)

UnderWay ==
  /\ \A k \in 1..Len(arriving) : Placed(signed, arriving[k])
  /\ \A b \in Branches : \A c \in 1..Len(tools[b].answers) :
       tools[b].answers[c] \in Trust!Event =>
         tools[b].answers[c].branch = b /\ Placed(signed, tools[b].answers[c])

\* The middleware's head is the last event that passed, and these are a
\* beginning of what was signed.
PassedInOrder ==
  policy.chain => \A b \in Branches :
    /\ Len(Trust!Passed(b)) <= Len(signed[b])
    /\ \A k \in 1..Len(Trust!Passed(b)) : Trust!Passed(b)[k].event.n = signed[b][k]
    /\ trustHeads[b] = Earlier(signed[b], Len(Trust!Passed(b)) + 1)

\* h is the head that the middleware, now at t, will have for branch b when all
\* of the first k - 1 events of s pass.
HeadBefore(s, t, b, k, h) ==
  \/ \E j \in 1..(k - 1) :
       /\ s[j].branch = b /\ Whole(s[j]) /\ h = s[j].n
       /\ \A i \in (j + 1)..(k - 1) : ~(s[i].branch = b /\ Whole(s[i]))
  \/ h = t /\ \A i \in 1..(k - 1) : ~(s[i].branch = b /\ Whole(s[i]))

Undisturbed ==
  \A b \in Branches \ disturbed :
    /\ Len(tools[b].answers) <= 1
    /\ HeadBefore(arriving, trustHeads[b], b, Len(arriving) + 1, heads[b])
    /\ \A k \in 1..Len(arriving) : arriving[k].branch = b =>
         /\ arriving[k].signer \notin policy.denied
         /\ arriving[k].signer # Trust!NoSigner => HeadBefore(arriving, trustHeads[b], b, k, arriving[k].prev)

TrustInv ==
  /\ Trust!TypeOK /\ SignedInOrder /\ UnderWay /\ PassedInOrder
  /\ Undisturbed /\ Trust!HonestIsVerified

-----------------------------------------------------------------------------
Passes(b) ==
  {r \in Trust!Entry : r.event.branch = b /\ r.event.signer # Trust!NoSigner
                        /\ ~r.event.partial /\ r.verified}

LEMMA PassedIsSelected ==
  ASSUME NEW b
  PROVE  /\ Trust!Passed(b) = Select(received, Passes(b))
         /\ Trust!Passed(b)' = Select(received', Passes(b))
<1>1. Trust!Passed(b) = Trust!Select(received, Passes(b))
  BY DEF Trust!Passed, Passes
<1>2. Trust!Passed(b)' = Trust!Select(received', Passes(b))
  BY DEF Trust!Passed, Passes
<1>3. \A s : Trust!Select(s, Passes(b)) = Select(s, Passes(b))
  BY SameOperators
<1> QED BY <1>1, <1>2, <1>3

LEMMA PassedType ==
  ASSUME NEW b, received \in Seq(Trust!Entry)
  PROVE  Trust!Passed(b) \in Seq(Trust!Entry)
<1>1. \A S : Select(received, S) \in Seq(Trust!Entry)
  BY SelectType
<1> QED BY <1>1, PassedIsSelected

LEMMA TrustInit == ASSUME Trust!TrustAssumption, Trust!Init PROVE TrustInv
<1>1. 0 \in 0..MaxSigned
  BY DEF Trust!TrustAssumption
<1>2. \A b \in Branches : /\ tools[b] = Trust!NoTools /\ signed[b] = <<>>
                          /\ heads[b] = 0 /\ trustHeads[b] = 0
  BY DEF Trust!Init
<1>3. Trust!TypeOK
  <2>1. Trust!NoTools \in [signer : Signers \cup {Trust!NoSigner}, answers : Seq(Trust!Event \cup {Trust!None})]
    BY DEF Trust!NoTools
  <2>2. /\ heads \in [Branches -> 0..MaxSigned] /\ trustHeads \in [Branches -> 0..MaxSigned]
        /\ signed \in [Branches -> Seq(1..MaxSigned)]
    BY <1>1 DEF Trust!Init
  <2>3. tools \in [Branches -> [signer : Signers \cup {Trust!NoSigner}, answers : Seq(Trust!Event \cup {Trust!None})]]
    BY <2>1 DEF Trust!Init
  <2> QED BY <1>1, <2>2, <2>3 DEF Trust!Init, Trust!TypeOK
<1>4. \A b \in Branches : Trust!Passed(b) = <<>>
  BY SelectOfNone, PassedIsSelected DEF Trust!Init
<1>5. SignedInOrder /\ PassedInOrder
  BY <1>2, <1>4 DEF SignedInOrder, PassedInOrder, Earlier
<1>6. arriving = <<>> /\ received = <<>> /\ \A b \in Branches : Len(tools[b].answers) = 0
  BY <1>2 DEF Trust!Init, Trust!NoTools
<1>7. UnderWay
  BY <1>6 DEF UnderWay
<1>8. Undisturbed
  BY <1>2, <1>6 DEF Undisturbed, HeadBefore
<1>9. Trust!HonestIsVerified
  BY <1>6 DEF Trust!HonestIsVerified
<1> QED BY <1>3, <1>5, <1>7, <1>8, <1>9 DEF TrustInv

\* What was placed stays so when more is signed.
LEMMA PlacedStays ==
  ASSUME Trust!TypeOK, NEW e \in Trust!Event, Placed(signed, e),
         \A b \in Branches : /\ signed'[b] \in Seq(1..MaxSigned)
                             /\ Len(signed[b]) <= Len(signed'[b])
                             /\ \A i \in 1..Len(signed[b]) : signed'[b][i] = signed[b][i]
  PROVE  Placed(signed', e)
<1> SUFFICES ASSUME Whole(e)
             PROVE  \E i \in 1..Len(signed'[e.branch]) :
                      signed'[e.branch][i] = e.n /\ e.prev = Earlier(signed'[e.branch], i)
  BY DEF Placed, Whole
<1>0. e.branch \in Branches
  BY DEF Trust!Event
<1> DEFINE s == signed[e.branch]
           z == signed'[e.branch]
<1>1. /\ s \in Seq(1..MaxSigned) /\ z \in Seq(1..MaxSigned) /\ Len(s) <= Len(z)
      /\ \A i \in 1..Len(s) : z[i] = s[i]
  BY <1>0 DEF Trust!TypeOK
<1>2. PICK i \in 1..Len(s) : s[i] = e.n /\ e.prev = Earlier(s, i)
  BY DEF Placed
<1> HIDE DEF s, z
<1>3. i \in 1..Len(z) /\ z[i] = e.n
  BY <1>1, <1>2
<1>4. Earlier(z, i) = Earlier(s, i)
  BY <1>1, <1>2 DEF Earlier
<1> QED BY <1>2, <1>3, <1>4 DEF z

\* What _emit_event does to the agents' side.
LEMMA EmitSigns ==
  ASSUME Trust!TrustAssumption, Trust!TypeOK, SignedInOrder, NEW e \in Trust!Event, Trust!Emit(e)
  PROVE  /\ heads' \in [Branches -> 0..MaxSigned] /\ signed' \in [Branches -> Seq(1..MaxSigned)]
         /\ SignedInOrder' /\ Placed(signed', e)
         /\ \A b \in Branches : /\ Len(signed[b]) <= Len(signed'[b])
                                /\ \A i \in 1..Len(signed[b]) : signed'[b][i] = signed[b][i]
         /\ \A b \in Branches : heads'[b] = IF b = e.branch /\ Whole(e) THEN e.n ELSE heads[b]
<1> DEFINE b == e.branch
           s == signed[b]
           z == Append(s, e.n)
<1>0. /\ b \in Branches /\ e.n \in 1..MaxSigned /\ e.n = made + 1 /\ made' = e.n
      /\ made \in 0..MaxSigned /\ e.partial \in BOOLEAN
  BY DEF Trust!Event, Trust!Emit, Trust!TypeOK
<1>1. /\ s \in Seq(1..MaxSigned) /\ heads[b] \in 0..MaxSigned /\ heads[b] = Earlier(s, Len(s) + 1)
      /\ \A i \in 1..Len(s) : s[i] <= made
      /\ \A i, j \in 1..Len(s) : i < j => s[i] < s[j]
  BY <1>0 DEF Trust!TypeOK, SignedInOrder
<1>2. CASE ~Whole(e)
  <2>1. UNCHANGED <<heads, signed>>
    BY <1>2 DEF Trust!Emit, Whole
  <2>2. heads' \in [Branches -> 0..MaxSigned] /\ signed' \in [Branches -> Seq(1..MaxSigned)]
    BY <2>1 DEF Trust!TypeOK
  <2>3. SignedInOrder'
    <3> SUFFICES ASSUME NEW a \in Branches
                 PROVE  /\ \A i \in 1..Len(signed[a]) : signed[a][i] <= made'
                        /\ \A i, j \in 1..Len(signed[a]) : i < j => signed[a][i] < signed[a][j]
                        /\ heads[a] = Earlier(signed[a], Len(signed[a]) + 1)
      BY <2>1 DEF SignedInOrder
    <3>0. signed[a] \in Seq(1..MaxSigned)
      BY DEF Trust!TypeOK
    <3>1. \A i \in 1..Len(signed[a]) : signed[a][i] <= made /\ signed[a][i] \in 1..MaxSigned
      BY <3>0, ElementsOf DEF SignedInOrder
    <3>2. \A i \in 1..Len(signed[a]) : signed[a][i] <= made'
      BY <1>0, <3>1 DEF Trust!TrustAssumption
    <3> QED BY <3>2 DEF SignedInOrder
  <2>4. Placed(signed', e)
    BY <1>2 DEF Placed, Whole
  <2>5. \A a \in Branches : Len(signed[a]) <= Len(signed'[a])
    BY <2>1 DEF Trust!TypeOK
  <2> QED BY <1>2, <2>1, <2>2, <2>3, <2>4, <2>5
<1>3. CASE Whole(e)
  <2>1. heads' = [heads EXCEPT ![b] = e.n] /\ signed' = [signed EXCEPT ![b] = z]
    BY <1>3 DEF Trust!Emit, Whole
  <2>2. /\ z \in Seq(1..MaxSigned) /\ Len(z) = Len(s) + 1 /\ z[Len(z)] = e.n
        /\ \A i \in 1..Len(s) : z[i] = s[i]
    BY <1>0, <1>1
  <2> HIDE DEF z
  <2>3. /\ heads' \in [Branches -> 0..MaxSigned] /\ signed' \in [Branches -> Seq(1..MaxSigned)]
        /\ signed'[b] = z /\ heads'[b] = e.n
        /\ \A a \in Branches : a # b => signed'[a] = signed[a] /\ heads'[a] = heads[a]
    <3>1. e.n \in 0..MaxSigned
      BY <1>0 DEF Trust!TrustAssumption
    <3> QED BY <1>0, <2>1, <2>2, <3>1 DEF Trust!TypeOK
  <2>4. SignedInOrder'
    <3> SUFFICES ASSUME NEW a \in Branches
                 PROVE  /\ \A i \in 1..Len(signed'[a]) : signed'[a][i] <= made'
                        /\ \A i, j \in 1..Len(signed'[a]) : i < j => signed'[a][i] < signed'[a][j]
                        /\ heads'[a] = Earlier(signed'[a], Len(signed'[a]) + 1)
      BY DEF SignedInOrder
    <3>1. CASE a = b
      <4>1. \A i \in 1..Len(s) : s[i] \in 1..MaxSigned
        BY <1>1, ElementsOf
      <4>2. \A i \in 1..Len(z) : z[i] <= made' /\ z[i] \in 1..MaxSigned
        <5> SUFFICES ASSUME NEW i \in 1..Len(z) PROVE z[i] <= made' /\ z[i] \in 1..MaxSigned
          OBVIOUS
        <5>1. CASE i \in 1..Len(s)
          <6>1. z[i] = s[i] /\ s[i] \in 1..MaxSigned /\ s[i] <= made
            BY <1>1, <2>2, <4>1, <5>1
          <6> QED BY <1>0, <6>1 DEF Trust!TrustAssumption
        <5>2. CASE i = Len(z)
          BY <1>0, <2>2, <5>2 DEF Trust!TrustAssumption
        <5> QED BY <1>1, <2>2, <5>1, <5>2
      <4>3. \A i, j \in 1..Len(z) : i < j => z[i] < z[j]
        <5> SUFFICES ASSUME NEW i \in 1..Len(z), NEW j \in 1..Len(z), i < j PROVE z[i] < z[j]
          OBVIOUS
        <5>1. i \in 1..Len(s) /\ z[i] = s[i]
          BY <2>2
        <5>2. CASE j \in 1..Len(s)
          BY <1>1, <2>2, <5>1, <5>2
        <5>3. CASE j = Len(z)
          BY <1>0, <1>1, <2>2, <4>1, <5>1, <5>3
        <5> QED BY <2>2, <5>2, <5>3
      <4>4. e.n = Earlier(z, Len(z) + 1)
        BY <2>2 DEF Earlier
      <4> QED BY <2>3, <3>1, <4>2, <4>3, <4>4
    <3>2. CASE a # b
      <4>0. signed[a] \in Seq(1..MaxSigned)
        BY DEF Trust!TypeOK
      <4>1. \A i \in 1..Len(signed[a]) : signed[a][i] <= made /\ signed[a][i] \in 1..MaxSigned
        BY <4>0, ElementsOf DEF SignedInOrder
      <4>2. \A i \in 1..Len(signed[a]) : signed[a][i] <= made'
        BY <1>0, <4>1
      <4>3. signed'[a] = signed[a] /\ heads'[a] = heads[a]
        BY <2>3, <3>2
      <4> QED BY <4>2, <4>3 DEF SignedInOrder
    <3> QED BY <3>1, <3>2
  <2>5. Placed(signed', e)
    <3>1. e.prev = heads[b]
      BY <1>3 DEF Trust!Emit, Whole
    <3>2. Earlier(z, Len(z)) = Earlier(s, Len(s) + 1)
      BY <1>1, <2>2 DEF Earlier
    <3>3. Len(z) \in 1..Len(z) /\ z[Len(z)] = e.n /\ e.prev = Earlier(z, Len(z))
      BY <1>1, <2>2, <3>1, <3>2
    <3> QED BY <2>3, <3>3 DEF Placed
  <2>6. \A a \in Branches : /\ Len(signed[a]) <= Len(signed'[a])
                            /\ \A i \in 1..Len(signed[a]) : signed'[a][i] = signed[a][i]
    <3> SUFFICES ASSUME NEW a \in Branches
                 PROVE  /\ Len(signed[a]) <= Len(signed'[a])
                        /\ \A i \in 1..Len(signed[a]) : signed'[a][i] = signed[a][i]
      OBVIOUS
    <3>1. CASE a = b
      <4>1. signed[a] = s /\ signed'[a] = z
        BY <2>3, <3>1
      <4> HIDE DEF s
      <4>2. Len(s) <= Len(z) /\ \A i \in 1..Len(s) : z[i] = s[i]
        BY <1>1, <2>2
      <4> QED BY <4>1, <4>2
    <3>2. CASE a # b
      <4>1. signed'[a] = signed[a] /\ signed[a] \in Seq(1..MaxSigned)
        BY <2>3, <3>2 DEF Trust!TypeOK
      <4> QED BY <4>1
    <3> QED BY <3>1, <3>2
  <2> QED BY <1>3, <2>3, <2>4, <2>5, <2>6
<1> QED BY <1>2, <1>3
-----------------------------------------------------------------------------
LEMMA SameBefore ==
  ASSUME NEW s, NEW z, NEW t, NEW b, NEW h, NEW n \in Nat, NEW k \in 1..(n + 1),
         \A i \in 1..n : z[i] = s[i], HeadBefore(s, t, b, k, h)
  PROVE  HeadBefore(z, t, b, k, h)
<1>1. \A i \in 1..(k - 1) : z[i] = s[i]
  OBVIOUS
<1>2. CASE h = t /\ \A i \in 1..(k - 1) : ~(s[i].branch = b /\ Whole(s[i]))
  BY <1>1, <1>2 DEF HeadBefore
<1>3. ASSUME NEW j \in 1..(k - 1), s[j].branch = b /\ Whole(s[j]) /\ h = s[j].n,
             \A i \in (j + 1)..(k - 1) : ~(s[i].branch = b /\ Whole(s[i]))
      PROVE  HeadBefore(z, t, b, k, h)
  <2>1. \A i \in (j + 1)..(k - 1) : ~(z[i].branch = b /\ Whole(z[i]))
    BY <1>1, <1>3
  <2> QED BY <1>1, <1>3, <2>1 DEF HeadBefore
<1> QED BY <1>2, <1>3 DEF HeadBefore

\* Events of other branches, and those that are no links, move no head.
LEMMA OthersBefore ==
  ASSUME NEW s, NEW t, NEW b, NEW h, NEW n \in Nat, NEW k \in Nat, k > n,
         HeadBefore(s, t, b, n + 1, h),
         \A i \in (n + 1)..(k - 1) : ~(s[i].branch = b /\ Whole(s[i]))
  PROVE  HeadBefore(s, t, b, k, h)
<1>1. CASE h = t /\ \A i \in 1..n : ~(s[i].branch = b /\ Whole(s[i]))
  <2>1. \A i \in 1..(k - 1) : i \in 1..n \/ i \in (n + 1)..(k - 1)
    OBVIOUS
  <2> QED BY <1>1, <2>1 DEF HeadBefore
<1>2. ASSUME NEW j \in 1..n, s[j].branch = b /\ Whole(s[j]) /\ h = s[j].n,
             \A i \in (j + 1)..n : ~(s[i].branch = b /\ Whole(s[i]))
      PROVE  HeadBefore(s, t, b, k, h)
  <2>1. \A i \in (j + 1)..(k - 1) : i \in (j + 1)..n \/ i \in (n + 1)..(k - 1)
    OBVIOUS
  <2>2. j \in 1..(k - 1) /\ \A i \in (j + 1)..(k - 1) : ~(s[i].branch = b /\ Whole(s[i]))
    BY <1>2, <2>1
  <2> QED BY <1>2, <2>2 DEF HeadBefore
<1> QED BY <1>1, <1>2 DEF HeadBefore

\* An event is made, and none, it or the answers that waited for it arrive.
LEMMA EmitArrives ==
  ASSUME Trust!TrustAssumption, TrustInv, NEW e \in Trust!Event, Trust!Emit(e),
         NEW z \in Seq(Trust!Event), arriving' = arriving \o z,
         \A k \in 1..Len(z) : z[k].branch = e.branch /\ Placed(signed', z[k]),
         \A b \in Branches : b \notin disturbed' =>
           b \notin disturbed /\ Len(tools'[b].answers) <= 1,
         e.branch \notin disturbed' => z = <<e>> /\ e.signer \notin policy.denied
  PROVE  /\ arriving' \in Seq(Trust!Event)
         /\ \A k \in 1..Len(arriving') : Placed(signed', arriving'[k])
         /\ PassedInOrder' /\ Undisturbed' /\ Trust!HonestIsVerified'
<1> DEFINE n == Len(arriving)
           s == arriving'
<1>0. UNCHANGED <<policy, trustHeads, received>>
  BY DEF Trust!Emit
<1>1. Trust!TypeOK /\ SignedInOrder /\ UnderWay /\ PassedInOrder /\ Undisturbed /\ Trust!HonestIsVerified
  BY DEF TrustInv
<1>2. /\ n \in Nat /\ Len(z) \in Nat /\ s \in Seq(Trust!Event) /\ Len(s) = n + Len(z)
      /\ \A k \in 1..n : s[k] = arriving[k] /\ s[k] \in Trust!Event
      /\ \A k \in (n + 1)..Len(s) : k - n \in 1..Len(z) /\ s[k] = z[k - n]
  <2>1. arriving \in Seq(Trust!Event)
    BY <1>1 DEF Trust!TypeOK
  <2>2. n \in Nat /\ \A k \in 1..n : arriving[k] \in Trust!Event
    BY <2>1, ElementsOf
  <2> QED BY <2>1, <2>2
<1> HIDE DEF n, s
<1>3. /\ SignedInOrder' /\ Placed(signed', e) /\ signed' \in [Branches -> Seq(1..MaxSigned)]
      /\ \A b \in Branches : /\ Len(signed[b]) <= Len(signed'[b])
                             /\ \A i \in 1..Len(signed[b]) : signed'[b][i] = signed[b][i]
      /\ \A b \in Branches : heads'[b] = IF b = e.branch /\ Whole(e) THEN e.n ELSE heads[b]
  BY <1>1, EmitSigns
<1>4. \A k \in 1..Len(s) : Placed(signed', s[k])
  <2>1. \A k \in 1..n : Placed(signed, arriving[k])
    BY <1>1 DEF UnderWay, n
  <2>2. ASSUME NEW k \in 1..n PROVE Placed(signed', s[k])
    <3>1. Placed(signed', arriving[k])
      BY <1>1, <1>2, <1>3, <2>1, PlacedStays
    <3> QED BY <1>2, <3>1
  <2>3. \A k \in (n + 1)..Len(s) : Placed(signed', s[k])
    BY <1>2
  <2>4. \A k \in 1..Len(s) : k \in 1..n \/ k \in (n + 1)..Len(s)
    BY <1>2
  <2> QED BY <2>2, <2>3, <2>4
<1>5. PassedInOrder'
  <2> SUFFICES ASSUME policy.chain, NEW b \in Branches
               PROVE  /\ Len(Trust!Passed(b)') <= Len(signed'[b])
                      /\ \A k \in 1..Len(Trust!Passed(b)') : Trust!Passed(b)'[k].event.n = signed'[b][k]
                      /\ trustHeads'[b] = Earlier(signed'[b], Len(Trust!Passed(b)') + 1)
    BY <1>0 DEF PassedInOrder
  <2> DEFINE p == Trust!Passed(b)
  <2>1. Trust!Passed(b)' = p /\ trustHeads'[b] = trustHeads[b]
    BY <1>0 DEF Trust!Passed
  <2>2. /\ Len(p) <= Len(signed[b]) /\ trustHeads[b] = Earlier(signed[b], Len(p) + 1)
        /\ \A k \in 1..Len(p) : p[k].event.n = signed[b][k]
    BY <1>1 DEF PassedInOrder
  <2>3. /\ Len(p) \in Nat /\ Len(signed[b]) \in Nat /\ Len(signed'[b]) \in Nat
        /\ Len(signed[b]) <= Len(signed'[b])
        /\ \A i \in 1..Len(signed[b]) : signed'[b][i] = signed[b][i]
    <3>1. received \in Seq(Trust!Entry) /\ signed[b] \in Seq(1..MaxSigned) /\ signed'[b] \in Seq(1..MaxSigned)
      BY <1>1, <1>3 DEF Trust!TypeOK
    <3>2. p \in Seq(Trust!Entry)
      BY <3>1, PassedType
    <3> HIDE DEF p
    <3>3. Len(p) \in Nat
      BY <3>2
    <3>4. Len(signed[b]) \in Nat /\ Len(signed'[b]) \in Nat
      BY <3>1
    <3>5. Len(signed[b]) <= Len(signed'[b])
      BY <1>3
    <3>6. \A i \in 1..Len(signed[b]) : signed'[b][i] = signed[b][i]
      BY <1>3
    <3> QED BY <3>3, <3>4, <3>5, <3>6
  <2> HIDE DEF p
  <2>4. Earlier(signed'[b], Len(p) + 1) = Earlier(signed[b], Len(p) + 1)
    BY <2>2, <2>3 DEF Earlier
  <2>5. Len(p) <= Len(signed'[b]) /\ \A k \in 1..Len(p) : p[k].event.n = signed'[b][k]
    <3> DEFINE l == Len(p)
               m == Len(signed[b])
               q == Len(signed'[b])
    <3>1. l \in Nat /\ m \in Nat /\ q \in Nat /\ l <= m /\ m <= q
      BY <2>2, <2>3
    <3> HIDE DEF l, m, q
    <3>2. l <= q /\ 1..l \subseteq 1..m
      BY <3>1
    <3>3. \A k \in 1..l : p[k].event.n = signed'[b][k]
      BY <2>2, <2>3, <3>2 DEF l, m
    <3> QED BY <3>2, <3>3 DEF l, q
  <2> QED BY <2>1, <2>2, <2>4, <2>5
<1>6. Undisturbed'
  <2> SUFFICES ASSUME NEW b \in Branches, b \notin disturbed'
               PROVE  /\ HeadBefore(s, trustHeads[b], b, Len(s) + 1, heads'[b])
                      /\ \A k \in 1..Len(s) : s[k].branch = b =>
                           /\ s[k].signer \notin policy.denied
                           /\ s[k].signer # Trust!NoSigner =>
                                HeadBefore(s, trustHeads[b], b, k, s[k].prev)
    BY <1>0 DEF Undisturbed, s
  <2> DEFINE t == trustHeads[b]
  <2>1. /\ HeadBefore(arriving, t, b, n + 1, heads[b])
        /\ \A k \in 1..n : arriving[k].branch = b =>
             /\ arriving[k].signer \notin policy.denied
             /\ arriving[k].signer # Trust!NoSigner => HeadBefore(arriving, t, b, k, arriving[k].prev)
    BY <1>1 DEF Undisturbed, n
  <2>0. \A h : \A k \in 1..(n + 1) : HeadBefore(arriving, t, b, k, h) => HeadBefore(s, t, b, k, h)
    <3> HIDE DEF t
    <3>1. n \in Nat /\ \A i \in 1..n : s[i] = arriving[i]
      BY <1>2
    <3> QED BY <3>1, SameBefore
  <2>2. HeadBefore(s, t, b, n + 1, heads[b])
    <3>1. n + 1 \in 1..(n + 1)
      BY <1>2
    <3> QED BY <2>0, <2>1, <3>1
  <2>3. ASSUME NEW k \in 1..n, s[k].branch = b
        PROVE  /\ s[k].signer \notin policy.denied
               /\ s[k].signer # Trust!NoSigner => HeadBefore(s, t, b, k, s[k].prev)
    <3>1. s[k] = arriving[k] /\ k \in 1..(n + 1)
      BY <1>2
    <3>2. \A h : HeadBefore(arriving, t, b, k, h) => HeadBefore(s, t, b, k, h)
      BY <2>0, <3>1
    <3> QED BY <2>1, <2>3, <3>1, <3>2
  <2>4. CASE b # e.branch
    <3>1. \A k \in (n + 1)..Len(s) : s[k].branch # b
      BY <1>2, <2>4
    <3>2. heads'[b] = heads[b]
      BY <1>3, <2>4
    <3>3. HeadBefore(s, t, b, Len(s) + 1, heads[b])
      <4>1. Len(s) + 1 \in Nat /\ Len(s) + 1 > n /\ (Len(s) + 1) - 1 = Len(s)
        BY <1>2
      <4> QED BY <1>2, <2>2, <3>1, <4>1, OthersBefore
    <3>4. \A k \in 1..Len(s) : s[k].branch = b => k \in 1..n
      BY <1>2, <3>1
    <3> QED BY <2>3, <3>2, <3>3, <3>4
  <2>5. CASE b = e.branch
    <3>1. Len(s) = n + 1 /\ s[n + 1] = e /\ e.signer \notin policy.denied
      <4>1. z = <<e>> /\ e.signer \notin policy.denied
        BY <2>5
      <4>2. Len(z) = 1 /\ z[1] = e
        BY <4>1
      <4> QED BY <1>2, <4>1, <4>2
    <3>2. e.signer # Trust!NoSigner => e.prev = heads[b]
      BY <2>5 DEF Trust!Emit
    <3>3. HeadBefore(s, t, b, n + 2, heads'[b])
      <4>1. CASE Whole(e)
        <5>1. heads'[b] = e.n
          BY <1>3, <2>5, <4>1
        <5>2. /\ n + 1 \in 1..((n + 2) - 1) /\ s[n + 1].branch = b /\ Whole(s[n + 1])
              /\ \A i \in ((n + 1) + 1)..((n + 2) - 1) : FALSE
          BY <1>2, <2>5, <3>1, <4>1
        <5> QED BY <3>1, <5>1, <5>2 DEF HeadBefore
      <4>2. CASE ~Whole(e)
        <5>1. heads'[b] = heads[b]
          BY <1>3, <4>2
        <5>2. n + 2 \in Nat /\ n + 2 > n /\ \A i \in (n + 1)..((n + 2) - 1) : i = n + 1
          BY <1>2
        <5>3. \A i \in (n + 1)..((n + 2) - 1) : ~(s[i].branch = b /\ Whole(s[i]))
          BY <3>1, <4>2, <5>2
        <5> QED BY <1>2, <2>2, <5>1, <5>2, <5>3, OthersBefore
      <4> QED BY <4>1, <4>2
    <3>4. \A k \in 1..Len(s) : k \in 1..n \/ k = n + 1
      BY <1>2, <3>1
    <3>5. Len(s) + 1 = n + 2
      BY <1>2, <3>1
    <3> QED BY <2>2, <2>3, <3>1, <3>2, <3>3, <3>4, <3>5
  <2> QED BY <2>4, <2>5
<1>7. Trust!HonestIsVerified'
  BY <1>0, <1>1 DEF Trust!HonestIsVerified
<1> QED BY <1>2, <1>4, <1>5, <1>6, <1>7 DEF s

LEMMA MessageIsLinked ==
  ASSUME Trust!TrustAssumption, TrustInv, NEW e \in Trust!Event, Trust!Message(e)
  PROVE  TrustInv'
<1>1. Trust!TypeOK /\ SignedInOrder /\ UnderWay /\ Undisturbed
  BY DEF TrustInv
<1>2. /\ Trust!Emit(e) /\ arriving' = Append(arriving, e) /\ tools' = tools
      /\ disturbed' = IF e.signer \in policy.denied THEN disturbed \cup {e.branch} ELSE disturbed
  BY DEF Trust!Message
<1>3. arriving' = arriving \o <<e>> /\ <<e>> \in Seq(Trust!Event)
  <2>1. arriving \in Seq(Trust!Event)
    BY <1>1 DEF Trust!TypeOK
  <2> QED BY <1>2, <2>1
<1>4. /\ SignedInOrder' /\ Placed(signed', e)
      /\ heads' \in [Branches -> 0..MaxSigned] /\ signed' \in [Branches -> Seq(1..MaxSigned)]
      /\ \A b \in Branches : /\ Len(signed[b]) <= Len(signed'[b])
                             /\ \A i \in 1..Len(signed[b]) : signed'[b][i] = signed[b][i]
  BY <1>1, <1>2, EmitSigns
<1>5. \A k \in 1..Len(<<e>>) : <<e>>[k].branch = e.branch /\ Placed(signed', <<e>>[k])
  BY <1>4
<1>6. \A b \in Branches : b \notin disturbed' => b \notin disturbed /\ Len(tools'[b].answers) <= 1
  BY <1>1, <1>2 DEF Undisturbed
<1>7. e.branch \notin disturbed' => e.signer \notin policy.denied
  BY <1>2
<1>8. /\ arriving' \in Seq(Trust!Event) /\ \A k \in 1..Len(arriving') : Placed(signed', arriving'[k])
      /\ PassedInOrder' /\ Undisturbed' /\ Trust!HonestIsVerified'
  BY <1>2, <1>3, <1>5, <1>6, <1>7, EmitArrives
<1>9. UnderWay'
  BY <1>1, <1>2, <1>4, <1>8, PlacedStays DEF UnderWay
<1>10. Trust!TypeOK'
  <2>1. made' \in 0..MaxSigned /\ UNCHANGED <<policy, trustHeads, received>> /\ e.branch \in Branches
    BY <1>1, <1>2 DEF Trust!Emit, Trust!TypeOK, Trust!TrustAssumption, Trust!Event
  <2> QED BY <1>1, <1>2, <1>4, <1>8, <2>1 DEF Trust!TypeOK
<1> QED BY <1>4, <1>8, <1>9, <1>10 DEF TrustInv

LEMMA StartToolsIsLinked ==
  ASSUME Trust!TrustAssumption, TrustInv, NEW a \in Branches, NEW signer \in Signers \cup {Trust!NoSigner},
         NEW calls \in 1..MaxCalls, Trust!StartTools(a, signer, calls)
  PROVE  TrustInv'
<1> DEFINE new == [signer |-> signer, answers |-> [c \in 1..calls |-> Trust!None]]
<1>0. /\ Trust!TypeOK /\ SignedInOrder /\ UnderWay /\ PassedInOrder /\ Undisturbed /\ Trust!HonestIsVerified
      /\ tools' = [tools EXCEPT ![a] = new]
      /\ disturbed' = IF calls > 1 THEN disturbed \cup {a} ELSE disturbed
      /\ UNCHANGED <<policy, made, heads, trustHeads, arriving, received, signed>>
  BY DEF TrustInv, Trust!StartTools
<1>1. /\ new \in [signer : Signers \cup {Trust!NoSigner}, answers : Seq(Trust!Event \cup {Trust!None})]
      /\ Len(new.answers) = calls /\ \A c \in 1..calls : new.answers[c] = Trust!None
  <2>1. calls \in Nat
    BY DEF Trust!TrustAssumption
  <2>2. [c \in 1..calls |-> Trust!None] \in Seq(Trust!Event \cup {Trust!None}) /\ Len([c \in 1..calls |-> Trust!None]) = calls
    BY <2>1
  <2> QED BY <2>2
<1> HIDE DEF new
<1>2. \A b \in Branches : tools'[b] = IF b = a THEN new ELSE tools[b]
  BY <1>0 DEF Trust!TypeOK
<1>3. Trust!None \notin Trust!Event
  BY DEF Trust!None, Trust!Event
<1>4. Trust!TypeOK'
  BY <1>0, <1>1 DEF Trust!TypeOK
<1>5. UnderWay'
  <2> SUFFICES ASSUME NEW b \in Branches, NEW c \in 1..Len(tools'[b].answers),
                      tools'[b].answers[c] \in Trust!Event
               PROVE  tools'[b].answers[c].branch = b /\ Placed(signed, tools'[b].answers[c])
    BY <1>0 DEF UnderWay
  <2>1. b # a
    BY <1>1, <1>2, <1>3
  <2> QED BY <1>0, <1>2, <2>1 DEF UnderWay
<1>6. SignedInOrder' /\ PassedInOrder' /\ Trust!HonestIsVerified'
  BY <1>0 DEF SignedInOrder, PassedInOrder, Trust!Passed, Trust!HonestIsVerified
<1>7. Undisturbed'
  <2>1. \A b \in Branches : b \notin disturbed' => b \notin disturbed /\ Len(tools'[b].answers) <= 1
    BY <1>0, <1>1, <1>2 DEF Undisturbed, Trust!TrustAssumption
  <2> QED BY <1>0, <2>1 DEF Undisturbed
<1> QED BY <1>4, <1>5, <1>6, <1>7 DEF TrustInv

LEMMA ToolEndsIsLinked ==
  ASSUME Trust!TrustAssumption, TrustInv, NEW e \in Trust!Event, NEW c \in 1..MaxCalls, Trust!ToolEnds(e, c)
  PROVE  TrustInv'
<1> DEFINE a == e.branch
           old == tools[a].answers
           answers == [old EXCEPT ![c] = e]
<1>1. Trust!TypeOK /\ SignedInOrder /\ UnderWay /\ Undisturbed
  BY DEF TrustInv
<1>2. /\ Trust!Emit(e) /\ c \in DOMAIN old
      /\ IF Trust!None \in Trust!ToSet(answers)
           THEN tools' = [tools EXCEPT ![a].answers = answers] /\ arriving' = arriving
           ELSE tools' = [tools EXCEPT ![a] = Trust!NoTools] /\ arriving' = arriving \o answers
      /\ disturbed' = IF e.signer \in policy.denied THEN disturbed \cup {a} ELSE disturbed
  BY DEF Trust!ToolEnds
<1>3. /\ a \in Branches /\ old \in Seq(Trust!Event \cup {Trust!None}) /\ tools[a].signer \in Signers \cup {Trust!NoSigner}
      /\ tools[a] \in [signer : Signers \cup {Trust!NoSigner}, answers : Seq(Trust!Event \cup {Trust!None})]
  BY <1>1 DEF Trust!TypeOK, Trust!Event
<1>4. /\ answers \in Seq(Trust!Event \cup {Trust!None}) /\ Len(answers) = Len(old) /\ Len(old) \in Nat
      /\ c \in 1..Len(old) /\ \A k \in 1..Len(old) : answers[k] = IF k = c THEN e ELSE old[k]
  BY <1>2, <1>3
<1>5. \A k \in 1..Len(old) : old[k] \in Trust!Event => old[k].branch = a /\ Placed(signed, old[k])
  BY <1>1, <1>3 DEF UnderWay
<1> HIDE DEF answers, old
<1>6. /\ SignedInOrder' /\ Placed(signed', e)
      /\ heads' \in [Branches -> 0..MaxSigned] /\ signed' \in [Branches -> Seq(1..MaxSigned)]
      /\ \A b \in Branches : /\ Len(signed[b]) <= Len(signed'[b])
                             /\ \A i \in 1..Len(signed[b]) : signed'[b][i] = signed[b][i]
  BY <1>1, <1>2, EmitSigns
<1>7. \A k \in 1..Len(answers) : answers[k] \in Trust!Event =>
        answers[k].branch = a /\ Placed(signed', answers[k])
  BY <1>1, <1>4, <1>5, <1>6, PlacedStays
<1>8. /\ tools' \in [Branches -> [signer : Signers \cup {Trust!NoSigner}, answers : Seq(Trust!Event \cup {Trust!None})]]
      /\ \A b \in Branches : b # a => tools'[b] = tools[b]
      /\ tools'[a].answers = IF Trust!None \in Trust!ToSet(answers) THEN answers ELSE <<>>
  <2>1. CASE Trust!None \in Trust!ToSet(answers)
    <3>1. tools' = [tools EXCEPT ![a].answers = answers]
      BY <1>2, <2>1
    <3> QED BY <1>1, <1>3, <1>4, <2>1, <3>1 DEF Trust!TypeOK
  <2>2. CASE Trust!None \notin Trust!ToSet(answers)
    <3>1. tools' = [tools EXCEPT ![a] = Trust!NoTools]
      BY <1>2, <2>2
    <3>2. /\ Trust!NoTools \in [signer : Signers \cup {Trust!NoSigner}, answers : Seq(Trust!Event \cup {Trust!None})]
          /\ Trust!NoTools.answers = <<>>
      BY DEF Trust!NoTools
    <3> QED BY <1>1, <1>3, <2>2, <3>1, <3>2 DEF Trust!TypeOK
  <2> QED BY <2>1, <2>2
<1>9. PICK z \in Seq(Trust!Event) :
        /\ arriving' = arriving \o z /\ z = IF Trust!None \in Trust!ToSet(answers) THEN <<>> ELSE answers
  <2>1. CASE Trust!None \in Trust!ToSet(answers)
    <3>1. arriving' = arriving \o <<>> /\ <<>> \in Seq(Trust!Event)
      BY <1>1, <1>2, <2>1 DEF Trust!TypeOK
    <3> QED BY <2>1, <3>1
  <2>2. CASE Trust!None \notin Trust!ToSet(answers)
    <3>1. \A k \in 1..Len(answers) : answers[k] \in Trust!Event
      <4>1. \A k \in 1..Len(answers) : answers[k] \in Trust!Event \cup {Trust!None} /\ answers[k] # Trust!None
        BY <1>4, <2>2 DEF Trust!ToSet
      <4> QED BY <4>1
    <3>2. answers \in Seq(Trust!Event)
      BY <1>4, <3>1
    <3> QED BY <1>2, <2>2, <3>2
  <2> QED BY <2>1, <2>2
<1>10. \A k \in 1..Len(z) : z[k].branch = e.branch /\ Placed(signed', z[k])
  <2>1. CASE z = <<>>
    BY <2>1
  <2>2. CASE z = answers
    <3>1. \A k \in 1..Len(z) : z[k] \in Trust!Event
      BY <1>9
    <3> QED BY <1>7, <2>2, <3>1
  <2> QED BY <1>9, <2>1, <2>2
<1>11. \A b \in Branches : b \notin disturbed' => b \notin disturbed /\ Len(tools'[b].answers) <= 1
  <2> SUFFICES ASSUME NEW b \in Branches, b \notin disturbed'
               PROVE  b \notin disturbed /\ Len(tools'[b].answers) <= 1
    OBVIOUS
  <2>1. b \notin disturbed /\ Len(tools[b].answers) <= 1
    BY <1>1, <1>2 DEF Undisturbed
  <2>2. CASE b = a
    <3>1. Len(old) <= 1
      BY <2>1, <2>2 DEF old
    <3>2. Len(answers) <= 1 /\ Len(<<>>) <= 1
      BY <1>4, <3>1
    <3> QED BY <1>8, <2>1, <2>2, <3>2
  <2> QED BY <1>8, <2>1, <2>2
<1>12. e.branch \notin disturbed' => z = <<e>> /\ e.signer \notin policy.denied
  <2> SUFFICES ASSUME a \notin disturbed' PROVE z = <<e>> /\ e.signer \notin policy.denied
    OBVIOUS
  <2>1. a \notin disturbed /\ e.signer \notin policy.denied
    BY <1>2
  <2>2. Len(old) <= 1
    BY <1>1, <1>3, <2>1 DEF Undisturbed, old
  <2>3. Len(answers) = 1 /\ c = 1 /\ answers[1] = e
    BY <1>4, <2>2
  <2>4. Trust!None \notin Trust!ToSet(answers)
    <3>1. e # Trust!None
      BY DEF Trust!Event, Trust!None
    <3> QED BY <1>4, <2>3, <3>1 DEF Trust!ToSet
  <2>5. answers = <<e>>
    BY <1>4, <2>3
  <2> QED BY <1>9, <2>1, <2>4, <2>5
<1>13. /\ arriving' \in Seq(Trust!Event) /\ \A k \in 1..Len(arriving') : Placed(signed', arriving'[k])
       /\ PassedInOrder' /\ Undisturbed' /\ Trust!HonestIsVerified'
  <2>1. Trust!Emit(e) /\ arriving' = arriving \o z
    BY <1>2, <1>9
  <2> QED BY <1>10, <1>11, <1>12, <2>1, EmitArrives
<1>14. UnderWay'
  <2> SUFFICES ASSUME NEW b \in Branches, NEW k \in 1..Len(tools'[b].answers),
                      tools'[b].answers[k] \in Trust!Event
               PROVE  tools'[b].answers[k].branch = b /\ Placed(signed', tools'[b].answers[k])
    BY <1>13 DEF UnderWay
  <2>1. CASE b = a
    <3>1. tools'[b].answers = answers
      BY <1>8, <2>1
    <3> QED BY <1>7, <2>1, <3>1
  <2>2. CASE b # a
    <3>1. tools'[b] = tools[b]
      BY <1>8, <2>2
    <3> QED BY <1>1, <1>6, <3>1, PlacedStays DEF UnderWay
  <2> QED BY <2>1, <2>2
<1>15. Trust!TypeOK'
  <2>1. made' \in 0..MaxSigned /\ UNCHANGED <<policy, trustHeads, received>> /\ disturbed' \subseteq Branches
    BY <1>1, <1>2, <1>3 DEF Trust!Emit, Trust!TypeOK, Trust!TrustAssumption, Trust!Event
  <2> QED BY <1>1, <1>6, <1>8, <1>13, <2>1 DEF Trust!TypeOK
<1> QED BY <1>6, <1>13, <1>14, <1>15 DEF TrustInv

LEMMA TailBefore ==
  ASSUME NEW s, NEW z, NEW t, NEW b, NEW h, NEW k \in Nat \ {0},
         \A i \in 1..(k - 1) : z[i] = s[i + 1], HeadBefore(s, t, b, k + 1, h)
  PROVE  HeadBefore(z, IF s[1].branch = b /\ Whole(s[1]) THEN s[1].n ELSE t, b, k, h)
<1> DEFINE new == IF s[1].branch = b /\ Whole(s[1]) THEN s[1].n ELSE t
<1>1. CASE h = t /\ \A i \in 1..k : ~(s[i].branch = b /\ Whole(s[i]))
  <2>1. \A i \in 1..(k - 1) : i + 1 \in 1..k
    OBVIOUS
  <2>2. 1 \in 1..k
    OBVIOUS
  <2>3. h = new
    BY <1>1, <2>2
  <2>4. \A i \in 1..(k - 1) : ~(z[i].branch = b /\ Whole(z[i]))
    BY <1>1, <2>1
  <2> QED BY <2>3, <2>4 DEF HeadBefore
<1>2. ASSUME NEW j \in 1..k, s[j].branch = b /\ Whole(s[j]) /\ h = s[j].n,
             \A i \in (j + 1)..k : ~(s[i].branch = b /\ Whole(s[i]))
      PROVE  HeadBefore(z, new, b, k, h)
  <2>1. \A i \in j..(k - 1) : i + 1 \in (j + 1)..k /\ i \in 1..(k - 1)
    OBVIOUS
  <2>2. \A i \in j..(k - 1) : ~(z[i].branch = b /\ Whole(z[i]))
    BY <1>2, <2>1
  <2>3. CASE j = 1
    BY <1>2, <2>2, <2>3 DEF HeadBefore
  <2>4. CASE j # 1
    <3>1. j - 1 \in 1..(k - 1) /\ (j - 1) + 1 = j
      BY <2>4
    <3>2. z[j - 1] = s[j]
      BY <3>1
    <3> QED BY <1>2, <2>2, <3>1, <3>2 DEF HeadBefore
  <2> QED BY <2>3, <2>4
<1>3. (k + 1) - 1 = k
  OBVIOUS
<1> QED BY <1>1, <1>2, <1>3 DEF HeadBefore

LEMMA OnEventIsLinked ==
  ASSUME Trust!TrustAssumption, TrustInv, NEW resolved \in BOOLEAN, Trust!OnEvent(resolved)
  PROVE  TrustInv'
<1> DEFINE e == Head(arriving)
           a == e.branch
           z == Tail(arriving)
           verified == Trust!Verified(e, resolved)
           r == [event |-> e, verified |-> verified, shown |-> Trust!Shown(e, verified)]
<1>0. /\ Trust!TypeOK /\ SignedInOrder /\ UnderWay /\ PassedInOrder /\ Undisturbed /\ Trust!HonestIsVerified
      /\ UNCHANGED <<policy, made, heads, tools, signed>>
  BY DEF TrustInv, Trust!OnEvent
<1>1. /\ arriving \in Seq(Trust!Event) /\ arriving # <<>> /\ received \in Seq(Trust!Entry)
      /\ trustHeads \in [Branches -> 0..MaxSigned]
  BY <1>0 DEF Trust!TypeOK, Trust!OnEvent
<1>2. /\ Len(arriving) \in Nat \ {0} /\ e = arriving[1] /\ e \in Trust!Event /\ z \in Seq(Trust!Event)
      /\ Len(z) = Len(arriving) - 1 /\ \A k \in 1..Len(z) : z[k] = arriving[k + 1]
  BY <1>1, TailIs
<1>3. /\ a \in Branches /\ e.n \in 1..MaxSigned /\ e.partial \in BOOLEAN
  BY <1>2 DEF Trust!Event
<1>4. verified \in BOOLEAN /\ r.shown \in BOOLEAN
  BY DEF Trust!Verified, Trust!Shown
<1>5. r \in Trust!Entry /\ r.event = e /\ r.verified = verified /\ (verified => r.shown)
  BY <1>2, <1>4 DEF Trust!Entry, Trust!Shown
<1>6. /\ arriving' = z /\ received' = Append(received, r)
      /\ trustHeads' = IF verified /\ ~e.partial THEN [trustHeads EXCEPT ![a] = e.n] ELSE trustHeads
      /\ disturbed' = IF resolved \/ e.signer = Trust!NoSigner THEN disturbed ELSE disturbed \cup {a}
  BY DEF Trust!OnEvent
<1>7. /\ verified => e.signer # Trust!NoSigner
      /\ verified /\ policy.chain /\ ~e.partial => e.prev = trustHeads[a]
      /\ resolved /\ e.signer # Trust!NoSigner /\ e.signer \notin policy.denied
           /\ (e.prev = trustHeads[a]) => verified
  BY DEF Trust!Verified
<1> HIDE DEF verified, r, z, e
<1>8. \A b \in Branches : trustHeads'[b] = IF b = a /\ verified /\ ~e.partial THEN e.n
                                            ELSE trustHeads[b]
  BY <1>1, <1>6
<1>9. Trust!TypeOK'
  <2>1. e.n \in 0..MaxSigned
    BY <1>3 DEF Trust!TrustAssumption
  <2>2. trustHeads' \in [Branches -> 0..MaxSigned]
    BY <1>1, <1>6, <2>1
  <2>3. received' \in Seq(Trust!Entry) /\ disturbed' \subseteq Branches
    <3>1. disturbed \subseteq Branches
      BY <1>0 DEF Trust!TypeOK
    <3> QED BY <1>1, <1>3, <1>5, <1>6, <3>1
  <2> QED BY <1>0, <1>2, <1>6, <2>2, <2>3 DEF Trust!TypeOK
<1>10. SignedInOrder'
  BY <1>0 DEF SignedInOrder
<1>11. UnderWay'
  <2>1. \A k \in 1..Len(z) : k + 1 \in 1..Len(arriving)
    BY <1>2
  <2> QED BY <1>0, <1>2, <1>6, <2>1 DEF UnderWay
<1>12. PassedInOrder'
  <2> SUFFICES ASSUME policy.chain, NEW b \in Branches
               PROVE  /\ Len(Trust!Passed(b)') <= Len(signed[b])
                      /\ \A k \in 1..Len(Trust!Passed(b)') : Trust!Passed(b)'[k].event.n = signed[b][k]
                      /\ trustHeads'[b] = Earlier(signed[b], Len(Trust!Passed(b)') + 1)
    BY <1>0 DEF PassedInOrder
  <2> DEFINE S == Passes(b)
             p == Trust!Passed(b)
             g == signed[b]
  <2>1. /\ Len(p) <= Len(g) /\ trustHeads[b] = Earlier(g, Len(p) + 1)
        /\ \A k \in 1..Len(p) : p[k].event.n = g[k]
    BY <1>0 DEF PassedInOrder
  <2>2. /\ Len(g) \in Nat /\ \A i \in 1..Len(g) : g[i] \in 1..MaxSigned
        /\ \A i, j \in 1..Len(g) : i < j => g[i] < g[j]
    <3>1. g \in Seq(1..MaxSigned)
      BY <1>0 DEF Trust!TypeOK
    <3>2. Len(g) \in Nat /\ \A i \in 1..Len(g) : g[i] \in 1..MaxSigned
      <4> HIDE DEF g
      <4> QED BY <3>1, ElementsOf
    <3> QED BY <1>0, <3>2 DEF SignedInOrder
  <2>3. p = Select(received, S) /\ Trust!Passed(b)' = Select(received', S) /\ p \in Seq(Trust!Entry)
    BY <1>1, PassedType, PassedIsSelected
  <2> HIDE DEF p, S
  <2>4. /\ r \in S => Trust!Passed(b)' = Append(p, r)
        /\ r \notin S => Trust!Passed(b)' = p
    BY <1>1, <1>5, <1>6, <2>3, SelectOfAppended
  <2>5. r \in S <=> b = a /\ verified /\ ~e.partial
    BY <1>5, <1>7 DEF S, Passes
  <2>6. CASE r \notin S
    BY <1>8, <2>1, <2>4, <2>5, <2>6
  <2>7. CASE r \in S
    <3>1. /\ Trust!Passed(b)' = Append(p, r) /\ trustHeads'[b] = e.n /\ e.prev = trustHeads[b]
          /\ b = a /\ Whole(e)
      BY <1>7, <1>8, <2>4, <2>5, <2>7 DEF Whole
    <3>2. PICK i \in 1..Len(g) : g[i] = e.n /\ e.prev = Earlier(g, i)
      <4>1. Placed(signed, e)
        <5>1. 1 \in 1..Len(arriving)
          BY <1>2
        <5> QED BY <1>0, <1>2, <5>1 DEF UnderWay
      <4> QED BY <3>1, <4>1 DEF Placed
    <3>3. Len(p) \in Nat
      BY <2>3
    <3> HIDE DEF g
    <3>4. Earlier(g, i) = Earlier(g, Len(p) + 1)
      BY <2>1, <3>1, <3>2
    <3>5. i = Len(p) + 1
      <4>1. CASE i = 1 /\ Len(p) # 0
        <5>1. Earlier(g, i) = 0 /\ Earlier(g, Len(p) + 1) = g[Len(p)] /\ Len(p) \in 1..Len(g)
          BY <2>1, <3>3, <4>1 DEF Earlier
        <5> QED BY <2>2, <3>4, <5>1
      <4>2. CASE i # 1 /\ Len(p) = 0
        <5>1. Earlier(g, i) = g[i - 1] /\ Earlier(g, Len(p) + 1) = 0 /\ i - 1 \in 1..Len(g)
          BY <2>2, <4>2 DEF Earlier
        <5> QED BY <2>2, <3>4, <5>1
      <4>3. CASE i # 1 /\ Len(p) # 0
        <5>1. /\ Earlier(g, i) = g[i - 1] /\ Earlier(g, Len(p) + 1) = g[Len(p)]
              /\ i - 1 \in 1..Len(g) /\ Len(p) \in 1..Len(g)
          BY <2>1, <2>2, <3>3, <4>3 DEF Earlier
        <5>2. ~(i - 1 < Len(p)) /\ ~(Len(p) < i - 1)
          BY <2>2, <3>4, <5>1
        <5> QED BY <3>3, <5>1, <5>2
      <4> QED BY <3>3, <4>1, <4>2, <4>3
    <3>6. /\ Len(Append(p, r)) = Len(p) + 1 /\ Append(p, r)[Len(p) + 1] = r
          /\ \A k \in 1..Len(p) : Append(p, r)[k] = p[k]
      BY <1>5, <2>3
    <3>7. Len(p) + 1 <= Len(g) /\ r.event.n = g[Len(p) + 1]
      BY <1>5, <3>2, <3>5
    <3>8. e.n = Earlier(g, (Len(p) + 1) + 1)
      BY <3>2, <3>3, <3>5 DEF Earlier
    <3>9. \A k \in 1..(Len(p) + 1) : Append(p, r)[k].event.n = g[k]
      BY <2>1, <3>3, <3>6, <3>7
    <3> QED BY <3>1, <3>6, <3>7, <3>8, <3>9 DEF g
  <2> QED BY <2>6, <2>7
<1>13. \A b \in Branches : b \notin disturbed' =>
         /\ b \notin disturbed
         /\ trustHeads'[b] = IF e.branch = b /\ Whole(e) THEN e.n ELSE trustHeads[b]
         /\ b = a /\ e.signer # Trust!NoSigner => verified
  <2> SUFFICES ASSUME NEW b \in Branches, b \notin disturbed'
               PROVE  /\ b \notin disturbed
                      /\ trustHeads'[b] = IF e.branch = b /\ Whole(e) THEN e.n ELSE trustHeads[b]
                      /\ b = a /\ e.signer # Trust!NoSigner => verified
    OBVIOUS
  <2>1. b \notin disturbed
    BY <1>6
  <2>2. ASSUME b = a, e.signer # Trust!NoSigner PROVE verified
    <3>1. resolved
      BY <1>6, <2>2
    <3>2. 1 \in 1..Len(arriving) /\ arriving[1] = e
      BY <1>2
    <3>3. e.signer \notin policy.denied /\ HeadBefore(arriving, trustHeads[b], b, 1, e.prev)
      BY <1>0, <2>1, <2>2, <3>2 DEF Undisturbed
    <3>4. e.prev = trustHeads[b]
      BY <3>3 DEF HeadBefore
    <3> QED BY <1>7, <2>2, <3>1, <3>3, <3>4
  <2> QED BY <1>7, <1>8, <2>1, <2>2 DEF Whole
<1>14. Undisturbed'
  <2> SUFFICES ASSUME NEW b \in Branches, b \notin disturbed'
               PROVE  /\ Len(tools[b].answers) <= 1
                      /\ HeadBefore(z, trustHeads'[b], b, Len(z) + 1, heads[b])
                      /\ \A k \in 1..Len(z) : z[k].branch = b =>
                           /\ z[k].signer \notin policy.denied
                           /\ z[k].signer # Trust!NoSigner =>
                                HeadBefore(z, trustHeads'[b], b, k, z[k].prev)
    BY <1>0, <1>6 DEF Undisturbed
  <2>1. /\ Len(tools[b].answers) <= 1
        /\ HeadBefore(arriving, trustHeads[b], b, Len(arriving) + 1, heads[b])
        /\ \A k \in 1..Len(arriving) : arriving[k].branch = b =>
             /\ arriving[k].signer \notin policy.denied
             /\ arriving[k].signer # Trust!NoSigner =>
                  HeadBefore(arriving, trustHeads[b], b, k, arriving[k].prev)
    BY <1>0, <1>13 DEF Undisturbed
  <2>2. \A h : \A k \in 1..(Len(z) + 1) : HeadBefore(arriving, trustHeads[b], b, k + 1, h) =>
          HeadBefore(z, trustHeads'[b], b, k, h)
    <3> SUFFICES ASSUME NEW k \in 1..(Len(z) + 1), NEW h,
                        HeadBefore(arriving, trustHeads[b], b, k + 1, h)
                 PROVE  HeadBefore(z, trustHeads'[b], b, k, h)
      OBVIOUS
    <3>1. k \in Nat \ {0} /\ \A i \in 1..(k - 1) : z[i] = arriving[i + 1]
      BY <1>2
    <3>2. HeadBefore(z, IF arriving[1].branch = b /\ Whole(arriving[1]) THEN arriving[1].n
                        ELSE trustHeads[b], b, k, h)
      BY <3>1, TailBefore
    <3> QED BY <1>2, <1>13, <3>2
  <2>3. HeadBefore(z, trustHeads'[b], b, Len(z) + 1, heads[b])
    <3>1. Len(z) + 1 \in 1..(Len(z) + 1) /\ (Len(z) + 1) + 1 = Len(arriving) + 1
      BY <1>2
    <3> QED BY <2>1, <2>2, <3>1
  <2>4. ASSUME NEW k \in 1..Len(z), z[k].branch = b
        PROVE  /\ z[k].signer \notin policy.denied
               /\ z[k].signer # Trust!NoSigner => HeadBefore(z, trustHeads'[b], b, k, z[k].prev)
    <3>1. k + 1 \in 1..Len(arriving) /\ z[k] = arriving[k + 1] /\ k \in 1..(Len(z) + 1)
      BY <1>2
    <3> QED BY <2>1, <2>2, <2>4, <3>1
  <2> QED BY <2>1, <2>3, <2>4
<1>15. Trust!HonestIsVerified'
  <2> SUFFICES ASSUME NEW b \in Branches, b \notin disturbed', NEW k \in 1..Len(received'),
                      received'[k].event.branch = b, received'[k].event.signer # Trust!NoSigner
               PROVE  received'[k].verified /\ received'[k].shown
    <3>1. DOMAIN received' = 1..Len(received')
      BY <1>1, <1>5, <1>6
    <3> QED BY <3>1 DEF Trust!HonestIsVerified
  <2>1. /\ Len(received) \in Nat /\ Len(received') = Len(received) + 1 /\ received'[Len(received) + 1] = r
        /\ \A i \in 1..Len(received) : received'[i] = received[i]
    BY <1>1, <1>5, <1>6
  <2>2. CASE k \in 1..Len(received)
    <3>1. DOMAIN received = 1..Len(received)
      BY <1>1
    <3> QED BY <1>0, <1>13, <2>1, <2>2, <3>1 DEF Trust!HonestIsVerified
  <2>3. CASE k = Len(received) + 1
    <3>1. received'[k] = r
      BY <2>1, <2>3
    <3> QED BY <1>5, <1>13, <3>1
  <2> QED BY <2>1, <2>2, <2>3
<1> QED BY <1>9, <1>10, <1>11, <1>12, <1>14, <1>15 DEF TrustInv

LEMMA TrustStep == ASSUME Trust!TrustAssumption, TrustInv, [Trust!Next]_Trust!vars PROVE TrustInv'
<1>1. CASE UNCHANGED Trust!vars
  <2>1. UNCHANGED <<policy, made, heads, trustHeads, tools, arriving, received, signed, disturbed>>
    BY <1>1 DEF Trust!vars
  <2>2. Trust!TypeOK' /\ SignedInOrder' /\ UnderWay' /\ PassedInOrder'
    BY <2>1 DEF TrustInv, Trust!TypeOK, SignedInOrder, UnderWay, PassedInOrder, Trust!Passed
  <2>3. Undisturbed' /\ Trust!HonestIsVerified'
    BY <2>1 DEF TrustInv, Undisturbed, Trust!HonestIsVerified
  <2> QED BY <2>2, <2>3 DEF TrustInv
<1>2. ASSUME NEW b \in Branches, NEW signer \in Signers \cup {Trust!NoSigner}, NEW calls \in 1..MaxCalls,
             Trust!StartTools(b, signer, calls)
      PROVE  TrustInv'
  BY <1>2, StartToolsIsLinked
<1>3. ASSUME NEW b \in Branches, NEW signer \in Signers \cup {Trust!NoSigner}, NEW type \in Trust!Types,
             NEW partial \in BOOLEAN,
             LET e == [n |-> made + 1, type |-> type, branch |-> b, partial |-> partial,
                       signer |-> signer, prev |-> IF signer = Trust!NoSigner THEN 0 ELSE heads[b]]
             IN Trust!Message(e) \/ (\E c \in 1..MaxCalls : Trust!ToolEnds(e, c))
      PROVE  TrustInv'
  <2> DEFINE e == [n |-> made + 1, type |-> type, branch |-> b, partial |-> partial,
                   signer |-> signer, prev |-> IF signer = Trust!NoSigner THEN 0 ELSE heads[b]]
  <2>1. Trust!Emit(e)
    BY <1>3 DEF Trust!Message, Trust!ToolEnds
  <2>2. made \in 0..MaxSigned /\ made < MaxSigned /\ heads[b] \in 0..MaxSigned
    BY <2>1 DEF Trust!Emit, TrustInv, Trust!TypeOK
  <2>3. made + 1 \in 1..MaxSigned /\ 0 \in 0..MaxSigned
    BY <2>2 DEF Trust!TrustAssumption
  <2>4. e \in Trust!Event
    BY <2>2, <2>3 DEF Trust!Event
  <2> HIDE DEF e
  <2> QED BY <1>3, <2>4, MessageIsLinked, ToolEndsIsLinked DEF e
<1> QED BY <1>1, <1>2, <1>3, OnEventIsLinked, ZenonT(60) DEF Trust!Next

LEMMA TrustSafe == ASSUME TrustInv PROVE Trust!VerifiedIsPrefix /\ Trust!HonestIsVerified
<1>1. ASSUME policy.chain, NEW b \in Branches
      PROVE  Trust!IsPrefix([k \in DOMAIN Trust!Passed(b) |-> Trust!Passed(b)[k].event.n], signed[b])
  <2> DEFINE p == Trust!Passed(b)
             g == signed[b]
             f == [k \in DOMAIN p |-> p[k].event.n]
  <2>1. Len(p) <= Len(g) /\ \A k \in 1..Len(p) : p[k].event.n = g[k]
    BY <1>1 DEF TrustInv, PassedInOrder
  <2>2. p \in Seq(Trust!Entry) /\ g \in Seq(1..MaxSigned)
    BY PassedType DEF TrustInv, Trust!TypeOK
  <2> HIDE DEF p, g
  <2>3. DOMAIN p = 1..Len(p) /\ Len(p) \in Nat
    BY <2>2
  <2>4. \A k \in 1..Len(p) : g[k] \in 1..MaxSigned
    <3>1. Len(g) \in Nat /\ \A k \in 1..Len(g) : g[k] \in 1..MaxSigned
      BY <2>2, ElementsOf
    <3> QED BY <2>1, <2>3, <3>1
  <2>5. f \in Seq(1..MaxSigned) /\ Len(f) = Len(p) /\ \A k \in 1..Len(p) : f[k] = g[k]
    BY <2>1, <2>3, <2>4
  <2> HIDE DEF f
  <2>6. SubSeq(f, 1, Len(f)) = SubSeq(g, 1, Len(f))
    BY <2>1, <2>2, <2>5
  <2> QED BY <2>1, <2>5, <2>6 DEF Trust!IsPrefix, f, p, g
<1> QED BY <1>1 DEF TrustInv, Trust!VerifiedIsPrefix

LEMMA TrustLift == MCSpec => Trust!Spec
<1>1. MCInit => Trust!Init
  BY DEF MCInit
<1>2. [MCNext]_allVars => [Trust!Next]_Trust!vars
  BY DEF MCNext, RunnerNext, HistoryNext, TrustNext, ReplNext, LiveTextNext,
         CommandsNext, allVars, terminalVars, trustVars, Trust!vars
<1> QED BY <1>1, <1>2, PTL DEF MCSpec, Trust!Spec

LEMMA TrustAlways == Trust!Spec => [](TrustInv)
<1>0. Trust!TrustAssumption
  BY ConversationAssumption
<1>1. Trust!Init => TrustInv
  BY <1>0, TrustInit
<1>2. TrustInv /\ [Trust!Next]_Trust!vars => (TrustInv)'
  BY <1>0, TrustStep
<1> QED BY <1>1, <1>2, PTL DEF Trust!Spec

\* TrustMiddleware with require_chain: the events of a branch that pass as
\* verified are, in order, a gapless beginning of what was signed on it, whatever
\* was rejected, answered out of order or not resolved before (policy.py).
THEOREM VerifiedAreChained == MCSpec => []VerifiedIsPrefix
<1>1. TrustInv => VerifiedIsPrefix
  BY TrustSafe DEF VerifiedIsPrefix
<1> QED BY <1>1, TrustAlways, TrustLift, PTL

\* TrustMiddleware: a branch with trusted and resolved signers whose tools run
\* one at a time has every signed event verified and shown, whatever other
\* branches do.
THEOREM HonestAreVerified == MCSpec => []HonestIsVerified
<1>1. TrustInv => HonestIsVerified
  BY TrustSafe DEF HonestIsVerified
<1> QED BY <1>1, TrustAlways, TrustLift, PTL

(***************************************************************************)
(* The slash commands. Story is what an event list looks like after any of *)
(* them, and what makes cutting it before the last user message remove     *)
(* that turn and nothing else.                                             *)
(***************************************************************************)
\* The event after a, when both are of turns.
NextOf(a, b) == IF a.n < TurnEvents THEN b = Commands!Event(a.turn, a.n + 1) ELSE b.n = 1 /\ b.turn > a.turn

\* What an event list looks like when the last event is the n-th of its turn: a
\* summary comes first, turns come in order, what stands before an event are the
\* earlier ones of its turn, as far as they were not summarised, and a summary
\* covers turns before those that follow, or the beginning of the first of them.
Kinds(s) ==
  \A k \in 1..Len(s) : IF s[k].turn = 0 THEN k = 1 /\ s[k].n = 0 ELSE s[k].n >= 1 /\ s[k].covers = {}
Chained(s, n) ==
  \A k \in 1..Len(s) : s[k].turn # 0 => IF k < Len(s) THEN NextOf(s[k], s[k + 1]) ELSE s[k].n = n
Ascending(s) ==
  \A i, j \in 1..Len(s) : i < j /\ s[i].turn # 0 =>
    s[j].turn > s[i].turn \/ (s[j].turn = s[i].turn /\ s[j].n = s[i].n + (j - i))
Behind(s) ==
  \A i, j \in 1..Len(s) : i < j /\ s[j].turn # 0 /\ j - i < s[j].n =>
    s[i] = Commands!Event(s[j].turn, s[j].n - (j - i)) \/ (i = 1 /\ s[i].turn = 0)
Before(s) ==
  \A j \in 2..Len(s) : s[1].turn = 0 => \A c \in s[1].covers :
    s[j].turn > c \/ (s[j].turn = c /\ s[j].n >= j)
Story(s, n) == Kinds(s) /\ Chained(s, n) /\ Ascending(s) /\ Behind(s) /\ Before(s)

\* What the user expects of it.
Expected(s, n, turns) == Story(s, n) /\ Commands!Shown(s) = turns

CommandTypes ==
  /\ Commands!TypeOK
  /\ lists \in [Commands!Objects -> Seq(Commands!EventRecord)]
  /\ command \in [pc : {"idle", "summarising", "building"}, object : Commands!Objects, events : Seq(Commands!EventRecord)]
  /\ command.pc = "idle" <=> command = Commands!NoCommand
  /\ current <= used + 1 /\ (command.pc = "building" => current <= used)
  /\ IF turn.running THEN turn.number >= 1 /\ count < turn.number ELSE count <= turn.number

Fresh ==
  /\ \A o \in Commands!Objects : o > current => lists[o] = <<>>
  /\ turn.object <= current /\ command.object <= current

AsExpected ==
  ~overlapped =>
    /\ Commands!ToSet(kept) \subseteq 1..turn.number
    /\ Expected(lists[current], IF turn.running THEN turn.events ELSE TurnEvents, Commands!ToSet(kept))
    /\ turn.running =>
         /\ command.pc = "idle" /\ turn.object = current
         /\ LET s == lists[current] IN Len(s) # 0 /\ s[Len(s)] = Commands!Event(turn.number, turn.events)
    /\ command.pc = "summarising" =>
         command.object = current /\ Expected(command.events, TurnEvents, Commands!ToSet(kept))
    /\ command.pc = "building" => command.object = current /\ command.events = lists[current]

CommandsInv == CommandTypes /\ Fresh /\ AsExpected

-----------------------------------------------------------------------------
LEMMA EventsOf ==
  ASSUME Commands!CommandsAssumption, NEW s \in Seq(Commands!EventRecord)
  PROVE  /\ Len(s) \in Nat /\ DOMAIN s = 1..Len(s)
         /\ \A k \in 1..Len(s) : /\ s[k] \in Commands!EventRecord /\ s[k].turn \in Nat /\ s[k].n \in Nat
                                 /\ s[k].turn \in 0..MaxTurns /\ s[k].covers \subseteq Commands!Turns
         /\ TurnEvents \in Nat /\ MaxTurns \in Nat /\ Commands!Turns \subseteq Nat
<1>1. /\ Len(s) \in Nat /\ DOMAIN s = 1..Len(s) /\ \A k \in 1..Len(s) : s[k] \in Commands!EventRecord
  BY ElementsOf
<1>2. \A e \in Commands!EventRecord : /\ e.turn \in Nat /\ e.n \in Nat
                                      /\ e.turn \in 0..MaxTurns /\ e.covers \subseteq Commands!Turns
  BY DEF Commands!EventRecord
<1>3. TurnEvents \in Nat /\ MaxTurns \in Nat /\ Commands!Turns \subseteq Nat
  BY DEF Commands!CommandsAssumption, Commands!Turns
<1> QED BY <1>1, <1>2, <1>3

LEMMA EventIs ==
  ASSUME NEW e \in Commands!EventRecord, e.covers = {}
  PROVE  e = Commands!Event(e.turn, e.n)
BY DEF Commands!EventRecord, Commands!Event

LEMMA ShownIs ==
  ASSUME NEW s \in Seq(Commands!EventRecord), NEW c
  PROVE  c \in Commands!Shown(s) <=> \E k \in 1..Len(s) : IF s[k].turn = 0 THEN c \in s[k].covers ELSE c = s[k].turn
<1>1. DOMAIN s = 1..Len(s)
  OBVIOUS
<1>2. c \in Commands!Shown(s) <=> \E k \in DOMAIN s : c \in (IF s[k].turn = 0 THEN s[k].covers ELSE {s[k].turn})
  BY DEF Commands!Shown
<1> QED BY <1>1, <1>2

\* The first event of another turn, or the next one of the last turn.
LEMMA StoryGoesOn ==
  ASSUME Commands!CommandsAssumption, NEW s \in Seq(Commands!EventRecord), NEW n \in Nat, Story(s, n),
         NEW e \in Commands!EventRecord, e.covers = {}, e.n >= 1, e.turn # 0,
         \/ n = TurnEvents /\ e.n = 1 /\ \A c \in Commands!Shown(s) : e.turn > c
         \/ n < TurnEvents /\ n >= 1 /\ e.n = n + 1 /\ Len(s) # 0 /\ s[Len(s)] = Commands!Event(e.turn, n)
  PROVE  Story(Append(s, e), e.n) /\ Commands!Shown(Append(s, e)) = Commands!Shown(s) \cup {e.turn}
<1> DEFINE z == Append(s, e)
           l == Len(s)
           First == n = TurnEvents /\ e.n = 1 /\ \A c \in Commands!Shown(s) : e.turn > c
           Later == n < TurnEvents /\ n >= 1 /\ e.n = n + 1 /\ l # 0 /\ s[l] = Commands!Event(e.turn, n)
<1>1. /\ l \in Nat /\ Len(z) = l + 1 /\ z[l + 1] = e /\ \A k \in 1..l : z[k] = s[k]
      /\ z \in Seq(Commands!EventRecord) /\ \A k \in 1..(l + 1) : k \in 1..l \/ k = l + 1
  <2>1. /\ l \in Nat /\ Len(z) = l + 1 /\ z[l + 1] = e /\ \A k \in 1..l : z[k] = s[k]
        /\ z \in Seq(Commands!EventRecord)
    OBVIOUS
  <2> HIDE DEF l, z
  <2> QED BY <2>1
<1>2. /\ \A k \in 1..l : /\ s[k] \in Commands!EventRecord /\ s[k].turn \in Nat /\ s[k].n \in Nat
                         /\ s[k].covers \subseteq Nat
      /\ TurnEvents \in Nat /\ e.turn \in Nat /\ e.n \in Nat
  <2>1. e.turn \in Nat /\ e.n \in Nat
    BY DEF Commands!EventRecord
  <2> QED BY <2>1, EventsOf
<1>3. e = Commands!Event(e.turn, e.n)
  BY EventIs
<1>4. First \/ Later
  OBVIOUS
<1>5. \A k \in 1..l : /\ s[k].turn # 0 => s[k].turn \in Commands!Shown(s)
                      /\ s[k].turn = 0 => s[k].covers \subseteq Commands!Shown(s)
  <2>1. \A c : c \in Commands!Shown(s) <=> \E k \in 1..l : IF s[k].turn = 0 THEN c \in s[k].covers ELSE c = s[k].turn
    BY ShownIs
  <2> QED BY <2>1
<1>6. Commands!Shown(z) = Commands!Shown(s) \cup {e.turn}
  <2>1. \A c : c \in Commands!Shown(s) <=> \E k \in 1..l : IF s[k].turn = 0 THEN c \in s[k].covers ELSE c = s[k].turn
    BY ShownIs
  <2>2. \A c : c \in Commands!Shown(z) <=> \E k \in 1..(l + 1) : IF z[k].turn = 0 THEN c \in z[k].covers ELSE c = z[k].turn
    <3> HIDE DEF z
    <3>1. \A c : c \in Commands!Shown(z) <=> \E k \in 1..Len(z) : IF z[k].turn = 0 THEN c \in z[k].covers ELSE c = z[k].turn
      BY <1>1, ShownIs
    <3> QED BY <1>1, <3>1
  <2>3. ASSUME NEW c PROVE c \in Commands!Shown(z) <=> c \in Commands!Shown(s) \/ c = e.turn
    <3> HIDE DEF z, l
    <3>1. c \in Commands!Shown(z) => c \in Commands!Shown(s) \/ c = e.turn
      BY <1>1, <2>1, <2>2
    <3>2. c \in Commands!Shown(s) => c \in Commands!Shown(z)
      BY <1>1, <2>1, <2>2
    <3>3. e.turn \in Commands!Shown(z)
      <4>1. l + 1 \in 1..(l + 1)
        BY <1>1
      <4> QED BY <1>1, <2>2, <4>1
    <3> QED BY <3>1, <3>2, <3>3
  <2> QED BY <2>3
<1>7. Later => l \in 1..l /\ s[l].turn = e.turn /\ s[l].n = n /\ s[l].covers = {}
  <2>1. Later => l \in 1..l
    BY <1>1
  <2>2. Later => s[l].turn = e.turn /\ s[l].n = n /\ s[l].covers = {}
    BY DEF Commands!Event
  <2> HIDE DEF Later
  <2> QED BY <2>1, <2>2
<1> HIDE DEF z, l
<1>8. Kinds(z)
  <2>1. ASSUME NEW k \in 1..Len(z)
        PROVE  IF z[k].turn = 0 THEN k = 1 /\ z[k].n = 0 ELSE z[k].n >= 1 /\ z[k].covers = {}
    <3>1. CASE k \in 1..l
      BY <1>1, <3>1 DEF Story, Kinds, l
    <3>2. CASE k = l + 1
      BY <1>1, <3>2
    <3> QED BY <1>1, <3>1, <3>2
  <2> QED BY <2>1 DEF Kinds
<1>9. Chained(z, e.n)
  <2>1. ASSUME NEW k \in 1..Len(z), z[k].turn # 0
        PROVE  IF k < Len(z) THEN NextOf(z[k], z[k + 1]) ELSE z[k].n = e.n
    <3>1. CASE k \in 1..l /\ k < l
      <4>1. k + 1 \in 1..l /\ k < Len(z)
        BY <1>1, <3>1
      <4>2. NextOf(s[k], s[k + 1])
        BY <1>1, <2>1, <3>1 DEF Story, Chained, l
      <4> QED BY <1>1, <3>1, <4>1, <4>2
    <3>2. CASE k \in 1..l /\ k = l
      <4>1. s[l].n = n /\ s[l].turn # 0 /\ l \in 1..l
        BY <1>1, <2>1, <3>2 DEF Story, Chained, l
      <4>2. k < Len(z) /\ z[k] = s[l] /\ z[k + 1] = e
        BY <1>1, <3>2
      <4>3. CASE First
        BY <1>2, <1>5, <4>1, <4>2, <4>3 DEF NextOf
      <4>4. CASE Later
        BY <1>2, <1>3, <1>7, <4>1, <4>2, <4>4 DEF NextOf
      <4> QED BY <1>4, <4>2, <4>3, <4>4
    <3>3. CASE k = l + 1
      BY <1>1, <3>3
    <3> QED BY <1>1, <3>1, <3>2, <3>3
  <2> QED BY <2>1 DEF Chained
<1>10. Ascending(z)
  <2>1. ASSUME NEW i \in 1..Len(z), NEW j \in 1..Len(z), i < j, z[i].turn # 0
        PROVE  z[j].turn > z[i].turn \/ (z[j].turn = z[i].turn /\ z[j].n = z[i].n + (j - i))
    <3>1. i \in 1..l /\ z[i] = s[i]
      BY <1>1, <2>1
    <3>2. CASE j \in 1..l
      BY <1>1, <2>1, <3>1, <3>2 DEF Story, Ascending, l
    <3>3. CASE j = l + 1 /\ First
      BY <1>1, <1>2, <1>5, <2>1, <3>1, <3>3
    <3>4. CASE j = l + 1 /\ Later /\ i = l
      BY <1>1, <1>2, <1>7, <3>1, <3>4
    <3>5. CASE j = l + 1 /\ Later /\ i # l
      <4>1. i < l /\ l \in 1..l
        BY <1>1, <3>1, <3>5
      <4>2. s[l].turn > s[i].turn \/ (s[l].turn = s[i].turn /\ s[l].n = s[i].n + (l - i))
        BY <2>1, <3>1, <4>1 DEF Story, Ascending, l
      <4>3. z[i] = s[i] /\ z[j] = e /\ e.n = s[l].n + 1 /\ s[l].turn = e.turn /\ j = l + 1
        BY <1>1, <1>7, <3>1, <3>5
      <4>4. s[l].n \in Nat /\ s[i].n \in Nat /\ i \in Nat /\ l \in Nat
        BY <1>1, <1>2, <3>1, <4>1
      <4>5. s[l].n = s[i].n + (l - i) => e.n = s[i].n + (j - i)
        BY <4>3, <4>4
      <4> QED BY <4>2, <4>3, <4>5
    <3> QED BY <1>1, <1>4, <3>2, <3>3, <3>4, <3>5
  <2> QED BY <2>1 DEF Ascending
<1>11. Behind(z)
  <2>1. ASSUME NEW i \in 1..Len(z), NEW j \in 1..Len(z), i < j, z[j].turn # 0, j - i < z[j].n
        PROVE  z[i] = Commands!Event(z[j].turn, z[j].n - (j - i)) \/ (i = 1 /\ z[i].turn = 0)
    <3>1. i \in 1..l /\ z[i] = s[i]
      BY <1>1, <2>1
    <3>2. CASE j \in 1..l
      BY <1>1, <2>1, <3>1, <3>2 DEF Story, Behind, l
    <3>3. CASE j = l + 1 /\ First
      BY <1>1, <1>2, <2>1, <3>1, <3>3
    <3>4. CASE j = l + 1 /\ Later /\ i = l
      <4>1. z[j].turn = e.turn /\ z[j].n - (j - i) = n
        BY <1>1, <1>2, <3>4
      <4> QED BY <3>1, <3>4, <4>1
    <3>5. CASE j = l + 1 /\ Later /\ i # l
      <4>1. i < l /\ l \in 1..l /\ l - i < s[l].n /\ s[l].turn # 0 /\ z[j] = e
        BY <1>1, <1>2, <1>7, <2>1, <3>1, <3>5
      <4>2. s[i] = Commands!Event(s[l].turn, s[l].n - (l - i)) \/ (i = 1 /\ s[i].turn = 0)
        BY <3>1, <4>1 DEF Story, Behind, l
      <4>3. s[l].n - (l - i) = e.n - (j - i)
        <5>1. e.n = s[l].n + 1 /\ j = l + 1
          BY <1>7, <3>5
        <5>2. s[l].n \in Nat /\ i \in Nat /\ l \in Nat
          BY <1>1, <1>2, <3>1, <4>1
        <5> DEFINE a == s[l].n
                   b == e.n
        <5>3. a \in Nat /\ b = a + 1
          BY <5>1, <5>2
        <5> HIDE DEF a, b
        <5>4. a - (l - i) = b - (j - i)
          BY <5>1, <5>2, <5>3
        <5> QED BY <5>4 DEF a, b
      <4> QED BY <1>7, <3>1, <3>5, <4>1, <4>2, <4>3
    <3> QED BY <1>1, <1>4, <3>2, <3>3, <3>4, <3>5
  <2> QED BY <2>1 DEF Behind
<1>12. Before(z)
  <2>1. ASSUME NEW j \in 2..Len(z), z[1].turn = 0, NEW c \in z[1].covers
        PROVE  z[j].turn > c \/ (z[j].turn = c /\ z[j].n >= j)
    <3>1. 1 \in 1..l /\ z[1] = s[1] /\ (j \in 2..l \/ j = l + 1)
      BY <1>1, <2>1
    <3>2. CASE j \in 2..l
      <4>1. z[j] = s[j]
        BY <1>1, <3>2
      <4> QED BY <2>1, <3>1, <3>2, <4>1 DEF Story, Before, l
    <3>3. CASE j = l + 1 /\ First
      BY <1>1, <1>5, <2>1, <3>1, <3>3
    <3>4. CASE j = l + 1 /\ Later
      <4>1. l # 1
        BY <1>7, <2>1, <3>1, <3>4
      <4>2. l \in 2..l
        BY <1>1, <3>1, <4>1
      <4>3. s[l].turn > c \/ (s[l].turn = c /\ s[l].n >= l)
        BY <2>1, <3>1, <4>2 DEF Story, Before, l
      <4>4. z[j] = e
        BY <1>1, <3>4
      <4>5. e.n = s[l].n + 1 /\ s[l].n \in Nat
        BY <1>2, <1>7, <3>4
      <4> QED BY <1>1, <1>7, <3>4, <4>3, <4>4, <4>5
    <3> QED BY <1>4, <3>1, <3>2, <3>3, <3>4
  <2> QED BY <2>1 DEF Before
<1> QED BY <1>6, <1>8, <1>9, <1>10, <1>11, <1>12 DEF Story, z

\* A beginning of the list.
LEMMA Beginning ==
  ASSUME NEW s \in Seq(Commands!EventRecord), NEW m \in 0..Len(s)
  PROVE  /\ SubSeq(s, 1, m) \in Seq(Commands!EventRecord) /\ Len(SubSeq(s, 1, m)) = m
         /\ \A k \in 1..m : SubSeq(s, 1, m)[k] = s[k]
OBVIOUS

LEMMA LastUserIs ==
  ASSUME NEW s \in Seq(Commands!EventRecord)
  PROVE  \/ Commands!LastUser(s) = 0
         \/ /\ Commands!LastUser(s) \in 1..Len(s) /\ s[Commands!LastUser(s)].n = 1
            /\ \A j \in 1..Len(s) : s[j].n = 1 => j <= Commands!LastUser(s)
<1>1. Commands!Users(s) \in SUBSET (0..Len(s)) /\ Len(s) \in Nat /\ DOMAIN s = 1..Len(s)
  BY DEF Commands!Users
<1>2. CASE Commands!Users(s) # {}
  <2>1. \E k \in Commands!Users(s) : \A j \in Commands!Users(s) : j <= k
    BY <1>1, <1>2, GreatestIsThere
  <2>2. Commands!LastUser(s) \in Commands!Users(s) /\ \A j \in Commands!Users(s) : j <= Commands!LastUser(s)
    BY <1>2, <2>1 DEF Commands!LastUser
  <2> QED BY <1>1, <2>2 DEF Commands!Users
<1>3. CASE Commands!Users(s) = {}
  BY <1>3 DEF Commands!LastUser
<1> QED BY <1>2, <1>3

\* The list is cut before the last user message.
LEMMA StoryIsCut ==
  ASSUME Commands!CommandsAssumption, NEW s \in Seq(Commands!EventRecord), Story(s, TurnEvents),
         NEW k \in 1..Len(s), s[k].n = 1, \A j \in 1..Len(s) : s[j].n = 1 => j <= k
  PROVE  /\ s[k].turn \in Commands!Turns
         /\ Story(SubSeq(s, 1, k - 1), TurnEvents)
         /\ Commands!Shown(SubSeq(s, 1, k - 1)) = Commands!Shown(s) \ {s[k].turn}
<1> DEFINE z == SubSeq(s, 1, k - 1)
           l == Len(s)
           t == s[k].turn
<1>1. /\ l \in Nat /\ k \in 1..l /\ k \in Nat
      /\ \A i \in 1..l : /\ s[i] \in Commands!EventRecord /\ s[i].turn \in Nat /\ s[i].n \in Nat
                         /\ s[i].turn \in 0..MaxTurns /\ s[i].covers \subseteq Nat
      /\ TurnEvents \in Nat /\ MaxTurns \in Nat
  BY EventsOf
<1>2. z \in Seq(Commands!EventRecord) /\ Len(z) = k - 1 /\ \A i \in 1..(k - 1) : z[i] = s[i]
  <2>1. k - 1 \in 0..Len(s)
    BY <1>1
  <2> QED BY <2>1, Beginning
<1>3. t # 0 /\ s[k].covers = {}
  BY <1>1 DEF Story, Kinds
<1>4. t \in Commands!Turns
  BY <1>1, <1>3 DEF Commands!Turns
<1> HIDE DEF z
<1>5. \A i \in 1..(k - 1) : i \in 1..l /\ i < k /\ i \in Nat
  BY <1>1
<1>6. ASSUME NEW j \in 1..l, j > k PROVE s[j].turn = t
  <2>1. j \in Nat /\ s[j].turn # 0 /\ s[j].n >= 1
    BY <1>1, <1>6, SMTT(30) DEF Story, Kinds
  <2>2. s[j].turn > t \/ (s[j].turn = t /\ s[j].n = s[k].n + (j - k))
    BY <1>1, <1>3, <1>6 DEF Story, Ascending
  <2>3. ASSUME s[j].turn > t PROVE FALSE
    <3>1. ~(j - k < s[j].n)
      <4>1. j - k < s[j].n => s[k] = Commands!Event(s[j].turn, s[j].n - (j - k)) \/ (k = 1 /\ s[k].turn = 0)
        BY <1>1, <1>6, <2>1 DEF Story, Behind
      <4>2. j - k < s[j].n => s[k].turn = s[j].turn
        BY <1>3, <4>1 DEF Commands!Event
      <4> QED BY <1>1, <2>1, <2>3, <4>2
    <3> DEFINE b == j + 1 - s[j].n
    <3>2. b \in 1..l /\ b > k /\ b <= j /\ j - b = s[j].n - 1
      <4> DEFINE n == s[j].n
      <4>1. n \in Nat /\ n >= 1 /\ ~(j - k < n) /\ j \in Nat /\ k \in Nat /\ j <= l /\ k >= 1
        BY <1>1, <1>6, <2>1, <3>1
      <4> HIDE DEF n
      <4>2. j + 1 - n \in 1..l /\ j + 1 - n > k /\ j + 1 - n <= j /\ j - (j + 1 - n) = n - 1
        BY <1>1, <4>1
      <4> QED BY <4>2 DEF n
    <3>3. CASE b = j
      <4>1. s[j].n = 1
        BY <1>1, <2>1, <3>3
      <4> QED BY <1>1, <1>6, <4>1
    <3>4. CASE b < j
      <4>1. j - b < s[j].n /\ b # 1 /\ s[j].n - (j - b) = 1
        BY <1>1, <2>1, <3>2, SMTT(30)
      <4> HIDE DEF b
      <4>2. s[b] = Commands!Event(s[j].turn, s[j].n - (j - b)) \/ (b = 1 /\ s[b].turn = 0)
        BY <1>6, <2>1, <3>2, <3>4, <4>1 DEF Story, Behind
      <4>3. s[b] = Commands!Event(s[j].turn, 1)
        BY <4>1, <4>2
      <4>4. s[b].n = 1
        BY <4>3 DEF Commands!Event
      <4> QED BY <1>1, <3>2, <4>4
    <3> HIDE DEF b
    <3> QED BY <1>1, <2>1, <3>2, <3>3, <3>4
  <2> QED BY <2>2, <2>3
<1>7. ASSUME NEW i \in 1..(k - 1)
      PROVE  /\ s[i].turn # 0 => s[i].turn # t /\ s[i].turn \in Nat
             /\ s[i].turn = 0 => i = 1 /\ t \notin s[i].covers
  <2>1. s[i].turn # 0 => s[i].turn # t
    <3>1. s[i].turn # 0 => t > s[i].turn \/ (t = s[i].turn /\ s[k].n = s[i].n + (k - i))
      BY <1>1, <1>5 DEF Story, Ascending
    <3>2. s[i].turn # 0 => s[i].n >= 1
      BY <1>5 DEF Story, Kinds
    <3>3. s[k].n # s[i].n + (k - i) \/ s[i].n = 0
      BY <1>1, <1>5, SMTT(30)
    <3> QED BY <1>1, <1>5, <3>1, <3>2, <3>3
  <2>2. s[i].turn = 0 => i = 1
    BY <1>5 DEF Story, Kinds
  <2>3. s[i].turn = 0 => t \notin s[i].covers
    <3>1. i = 1 => k \in 2..l
      BY <1>1
    <3>2. ASSUME s[i].turn = 0, t \in s[i].covers PROVE FALSE
      <4>1. t > t \/ (t = t /\ s[k].n >= k)
        BY <2>2, <3>1, <3>2 DEF Story, Before
      <4> QED BY <1>1, <2>2, <3>1, <3>2, <4>1
    <3> QED BY <3>2
  <2> QED BY <1>1, <1>5, <2>1, <2>2, <2>3
<1>8. Commands!Shown(z) = Commands!Shown(s) \ {t}
  <2>1. \A c : c \in Commands!Shown(s) <=> \E i \in 1..l : IF s[i].turn = 0 THEN c \in s[i].covers ELSE c = s[i].turn
    BY ShownIs
  <2>2. \A c : c \in Commands!Shown(z) <=> \E i \in 1..(k - 1) : IF s[i].turn = 0 THEN c \in s[i].covers ELSE c = s[i].turn
    <3>1. \A c : c \in Commands!Shown(z) <=> \E i \in 1..Len(z) : IF z[i].turn = 0 THEN c \in z[i].covers ELSE c = z[i].turn
      BY <1>2, ShownIs
    <3> QED BY <1>2, <3>1
  <2>3. ASSUME NEW c PROVE c \in Commands!Shown(z) <=> c \in Commands!Shown(s) /\ c # t
    <3>1. c \in Commands!Shown(z) => c \in Commands!Shown(s) /\ c # t
      BY <1>5, <1>7, <2>1, <2>2
    <3>2. ASSUME c \in Commands!Shown(s), c # t PROVE c \in Commands!Shown(z)
      <4>1. PICK i \in 1..l : IF s[i].turn = 0 THEN c \in s[i].covers ELSE c = s[i].turn
        BY <2>1, <3>2
      <4>2. i # k
        BY <1>3, <3>2, <4>1
      <4>3. ~(i > k)
        BY <1>3, <1>6, <3>2, <4>1
      <4>4. i \in 1..(k - 1)
        BY <1>1, <4>2, <4>3
      <4> QED BY <2>2, <4>1, <4>4
    <3> QED BY <3>1, <3>2
  <2> QED BY <2>3
<1> HIDE DEF t
<1>9. Kinds(z)
  BY <1>2, <1>5 DEF Story, Kinds
<1>10. Chained(z, TurnEvents)
  <2>1. ASSUME NEW i \in 1..(k - 1), s[i].turn # 0
        PROVE  IF i < k - 1 THEN NextOf(z[i], z[i + 1]) ELSE z[i].n = TurnEvents
    <3>1. NextOf(s[i], s[i + 1])
      <4>1. i \in 1..l /\ i < l
        BY <1>1, <1>5
      <4> QED BY <2>1, <4>1 DEF Story, Chained
    <3>2. CASE i < k - 1
      <4>1. i + 1 \in 1..(k - 1)
        BY <1>1, <3>2
      <4> QED BY <1>2, <3>1, <3>2, <4>1
    <3>3. CASE ~(i < k - 1)
      <4>1. i + 1 = k
        BY <1>1, <3>3
      <4>2. s[i].n < TurnEvents => s[k] = Commands!Event(s[i].turn, s[i].n + 1)
        BY <3>1, <4>1 DEF NextOf
      <4>3. s[i].n < TurnEvents => s[i].n = 0
        <5>1. s[i].n < TurnEvents => s[k].n = s[i].n + 1
          BY <4>2 DEF Commands!Event
        <5> QED BY <1>1, <1>5, <5>1
      <4>4. s[i].n >= 1 /\ s[i].n \in Nat
        BY <1>1, <1>5, <2>1 DEF Story, Kinds
      <4>5. s[i].n <= TurnEvents
        BY <1>1, <1>5, SMTT(30) DEF Commands!EventRecord
      <4> QED BY <1>1, <1>2, <3>3, <4>3, <4>4, <4>5
    <3> QED BY <3>2, <3>3
  <2> QED BY <1>2, <2>1 DEF Chained
<1>11. Ascending(z)
  BY <1>2, <1>5, SMTT(30) DEF Story, Ascending
<1>12. Behind(z)
  BY <1>2, <1>5 DEF Story, Behind
<1>13. Before(z)
  <2>1. \A j \in 2..(k - 1) : 1 \in 1..(k - 1) /\ j \in 1..(k - 1) /\ j \in 2..l
    BY <1>1
  <2> QED BY <1>2, <2>1 DEF Story, Before
<1> QED BY <1>4, <1>8, <1>9, <1>10, <1>11, <1>12, <1>13 DEF Story, z, t

\* The list when its first m events are summarised.
Summarised(s, m) == <<Commands!SummaryOf(SubSeq(s, 1, m))>> \o SubSeq(s, m + 1, Len(s))

LEMMA StoryIsSummarised ==
  ASSUME Commands!CommandsAssumption, NEW s \in Seq(Commands!EventRecord), NEW m \in 1..Len(s)
  PROVE  /\ Summarised(s, m) \in Seq(Commands!EventRecord)
         /\ \A n : Story(s, n) => Story(Summarised(s, m), n) /\ Commands!Shown(Summarised(s, m)) = Commands!Shown(s)
<1> DEFINE z == Summarised(s, m)
           l == Len(s)
           h == SubSeq(s, 1, m)
           x == Commands!SummaryOf(h)
<1>1. /\ l \in Nat /\ m \in Nat /\ m >= 1 /\ m <= l
      /\ \A i \in 1..l : /\ s[i] \in Commands!EventRecord /\ s[i].turn \in Nat /\ s[i].n \in Nat
                         /\ s[i].turn \in 0..MaxTurns /\ s[i].covers \subseteq Commands!Turns
      /\ TurnEvents \in Nat /\ MaxTurns \in Nat /\ Commands!Turns \subseteq Nat
  BY EventsOf
<1>2. h \in Seq(Commands!EventRecord) /\ Len(h) = m /\ \A k \in 1..m : h[k] = s[k]
  <2>1. m \in 0..Len(s)
    OBVIOUS
  <2> QED BY <2>1, Beginning
<1>3. x.turn = 0 /\ x.n = 0 /\ x.covers = Commands!Shown(h)
  BY DEF Commands!SummaryOf, Commands!Shown
<1>4. \A c : c \in Commands!Shown(h) <=> \E k \in 1..m : IF s[k].turn = 0 THEN c \in s[k].covers ELSE c = s[k].turn
  <2>1. \A c : c \in Commands!Shown(h) <=> \E k \in 1..Len(h) : IF h[k].turn = 0 THEN c \in h[k].covers ELSE c = h[k].turn
    BY <1>2, ShownIs
  <2> QED BY <1>2, <2>1
<1>5. Commands!Shown(h) \subseteq Commands!Turns
  <2>1. ASSUME NEW c, NEW k \in 1..m, IF s[k].turn = 0 THEN c \in s[k].covers ELSE c = s[k].turn PROVE c \in Commands!Turns
    <3>1. k \in 1..l
      BY <1>1
    <3>2. s[k].covers \subseteq Commands!Turns /\ s[k].turn \in 0..MaxTurns
      BY <1>1, <3>1
    <3>3. \A a \in 0..MaxTurns : a # 0 => a \in Commands!Turns
      BY <1>1 DEF Commands!Turns
    <3> QED BY <2>1, <3>2, <3>3
  <2> QED BY <1>4, <2>1
<1>6. x \in Commands!EventRecord
  BY <1>1, <1>5 DEF Commands!SummaryOf, Commands!Shown, Commands!EventRecord
<1> HIDE DEF h, x
<1>7. /\ z \in Seq(Commands!EventRecord) /\ Len(z) = l - m + 1 /\ z[1] = x
      /\ \A k \in 2..(l - m + 1) : z[k] = s[k + m - 1]
  <2> DEFINE r == SubSeq(s, m + 1, l)
  <2>1. r \in Seq(Commands!EventRecord) /\ Len(r) = l - m /\ \A k \in 1..(l - m) : r[k] = s[k + m]
    BY <1>1
  <2>2. z = <<x>> \o r
    BY DEF Summarised, x, h
  <2> HIDE DEF r, z, l
  <2>3. /\ z \in Seq(Commands!EventRecord) /\ Len(z) = 1 + Len(r) /\ z[1] = x /\ \A k \in 2..(1 + Len(r)) : z[k] = r[k - 1]
    BY <1>6, <2>1, <2>2
  <2>4. \A k \in 2..(l - m + 1) : k - 1 \in 1..(l - m) /\ (k - 1) + m = k + m - 1
    BY <1>1
  <2> QED BY <1>1, <2>1, <2>3, <2>4
<1> DEFINE d == m - 1
<1>8. d \in Nat /\ \A k \in 2..Len(z) : k + d \in 2..l /\ k + d \in 1..l /\ k + d > m /\ z[k] = s[k + d] /\ k \in Nat
  <2>1. \A k \in 2..(l - m + 1) : k + m - 1 = k + d
    BY <1>1
  <2>2. \A k \in 2..(l - m + 1) : k + d \in 2..l /\ k + d \in 1..l /\ k + d > m /\ k \in Nat
    BY <1>1
  <2> QED BY <1>1, <1>7, <2>1, <2>2
<1>9. Len(z) \in Nat /\ Len(z) + d = l /\ \A k \in 1..Len(z) : k = 1 \/ k \in 2..Len(z)
  <2> HIDE DEF z, l
  <2>1. Len(z) \in Nat /\ Len(z) + d = l
    BY <1>1, <1>7
  <2> QED BY <2>1
<1> HIDE DEF z, l, d
<1>10. ASSUME NEW n, Story(s, n) PROVE Story(z, n) /\ Commands!Shown(z) = Commands!Shown(s)
  <2>1. Kinds(z)
    <3>1. ASSUME NEW k \in 2..Len(z) PROVE z[k].turn # 0 /\ z[k].n >= 1 /\ z[k].covers = {}
      <4>1. k + d # 1
        BY <1>8
      <4>2. IF s[k + d].turn = 0 THEN k + d = 1 /\ s[k + d].n = 0 ELSE s[k + d].n >= 1 /\ s[k + d].covers = {}
        BY <1>8, <1>10 DEF Story, Kinds, l
      <4> QED BY <1>8, <4>1, <4>2
    <3> QED BY <1>3, <1>7, <1>9, <3>1 DEF Kinds
  <2>2. Chained(z, n)
    <3>1. ASSUME NEW k \in 2..Len(z)
          PROVE  IF k < Len(z) THEN NextOf(z[k], z[k + 1]) ELSE z[k].n = n
      <4>1. s[k + d].turn # 0
        BY <1>8, <1>10 DEF Story, Kinds, l
      <4>2. IF k + d < l THEN NextOf(s[k + d], s[k + d + 1]) ELSE s[k + d].n = n
        BY <1>8, <1>10, <4>1 DEF Story, Chained, l
      <4>3. k < Len(z) => k + 1 \in 2..Len(z) /\ (k + 1) + d = k + d + 1
        BY <1>8, <1>9
      <4>4. k < Len(z) <=> k + d < l
        BY <1>8, <1>9
      <4> QED BY <1>8, <4>2, <4>3, <4>4
    <3> QED BY <1>3, <1>7, <1>9, <3>1 DEF Chained
  <2>3. Ascending(z)
    <3>1. ASSUME NEW i \in 2..Len(z), NEW j \in 2..Len(z), i < j, z[i].turn # 0
          PROVE  z[j].turn > z[i].turn \/ (z[j].turn = z[i].turn /\ z[j].n = z[i].n + (j - i))
      <4>1. i + d < j + d /\ (j + d) - (i + d) = j - i
        BY <1>8, <3>1
      <4>2. \/ s[j + d].turn > s[i + d].turn
            \/ s[j + d].turn = s[i + d].turn /\ s[j + d].n = s[i + d].n + ((j + d) - (i + d))
        BY <1>8, <1>10, <3>1, <4>1 DEF Story, Ascending, l
      <4> QED BY <1>8, <4>1, <4>2
    <3>2. \A i, j \in 1..Len(z) : i < j /\ z[i].turn # 0 => i \in 2..Len(z) /\ j \in 2..Len(z)
      <4>1. \A i, j \in 1..Len(z) : i < j => j # 1
        BY <1>9
      <4> QED BY <1>3, <1>7, <1>9, <4>1
    <3> QED BY <3>1, <3>2 DEF Ascending
  <2>4. Behind(z)
    <3>1. ASSUME NEW i \in 2..Len(z), NEW j \in 2..Len(z), i < j, z[j].turn # 0, j - i < z[j].n
          PROVE  z[i] = Commands!Event(z[j].turn, z[j].n - (j - i))
      <4>1. i + d < j + d /\ (j + d) - (i + d) = j - i /\ i + d # 1
        BY <1>8, <3>1
      <4>2. \/ s[i + d] = Commands!Event(s[j + d].turn, s[j + d].n - ((j + d) - (i + d)))
            \/ i + d = 1 /\ s[i + d].turn = 0
        BY <1>8, <1>10, <3>1, <4>1 DEF Story, Behind, l
      <4> QED BY <1>8, <4>1, <4>2
    <3>2. \A i, j \in 1..Len(z) : i < j => j \in 2..Len(z) /\ (i = 1 \/ i \in 2..Len(z))
      <4>1. \A i, j \in 1..Len(z) : i < j => j # 1
        BY <1>9
      <4> QED BY <1>9, <4>1
    <3> QED BY <1>3, <1>7, <3>1, <3>2 DEF Behind
  <2>5. Before(z)
    <3>1. ASSUME NEW j \in 2..Len(z), NEW c \in Commands!Shown(h)
          PROVE  s[j + d].turn > c \/ (s[j + d].turn = c /\ s[j + d].n >= j)
      <4>1. PICK k \in 1..m : IF s[k].turn = 0 THEN c \in s[k].covers ELSE c = s[k].turn
        BY <1>4
      <4>2. k \in 1..l /\ k < j + d /\ k \in Nat /\ (j + d) - k >= j - 1 /\ j + d >= j
        BY <1>1, <1>8 DEF d
      <4>3. CASE s[k].turn # 0
        <5>1. s[j + d].turn > s[k].turn \/ (s[j + d].turn = s[k].turn /\ s[j + d].n = s[k].n + ((j + d) - k))
          BY <1>8, <1>10, <4>2, <4>3 DEF Story, Ascending, l
        <5>2. s[k].n >= 1 /\ s[k].n \in Nat
          BY <1>1, <1>10, <4>2, <4>3 DEF Story, Kinds, l
        <5>3. s[k].n + ((j + d) - k) >= j
          <6>1. \A w, u \in Int : w >= j - 1 /\ u >= 1 => u + w >= j
            BY <1>8
          <6>2. (j + d) - k \in Int
            BY <1>8, <4>2
          <6> QED BY ONLY <4>2, <5>2, <6>1, <6>2
        <5> QED BY <4>1, <4>3, <5>1, <5>3
      <4>4. CASE s[k].turn = 0
        <5>1. k = 1
          BY <1>10, <4>2, <4>4 DEF Story, Kinds, l
        <5>2. s[j + d].turn > c \/ (s[j + d].turn = c /\ s[j + d].n >= j + d)
          BY <1>8, <1>10, <4>1, <4>4, <5>1 DEF Story, Before, l
        <5>3. s[j + d].n \in Nat
          BY <1>1, <1>8
        <5> QED BY <1>8, <4>2, <5>2, <5>3
      <4> QED BY <4>3, <4>4
    <3> QED BY <1>3, <1>7, <1>8, <3>1 DEF Before
  <2>6. Commands!Shown(z) = Commands!Shown(s)
    <3>1. \A c : c \in Commands!Shown(s) <=> \E i \in 1..l : IF s[i].turn = 0 THEN c \in s[i].covers ELSE c = s[i].turn
      BY ShownIs DEF l
    <3>2. \A c : c \in Commands!Shown(z) <=> \E i \in 1..Len(z) : IF z[i].turn = 0 THEN c \in z[i].covers ELSE c = z[i].turn
      BY <1>7, ShownIs
    <3>3. ASSUME NEW c, c \in Commands!Shown(z) PROVE c \in Commands!Shown(s)
      <4>1. PICK i \in 1..Len(z) : IF z[i].turn = 0 THEN c \in z[i].covers ELSE c = z[i].turn
        BY <3>2, <3>3
      <4>2. CASE i = 1
        <5>1. c \in Commands!Shown(h)
          BY <1>3, <1>7, <4>1, <4>2
        <5>2. PICK k \in 1..m : IF s[k].turn = 0 THEN c \in s[k].covers ELSE c = s[k].turn
          BY <1>4, <5>1
        <5>3. k \in 1..l
          BY <1>1
        <5> QED BY <3>1, <5>2, <5>3
      <4>3. CASE i \in 2..Len(z)
        BY <1>8, <3>1, <4>1, <4>3
      <4> QED BY <1>9, <4>2, <4>3
    <3>4. ASSUME NEW c, c \in Commands!Shown(s) PROVE c \in Commands!Shown(z)
      <4>1. PICK k \in 1..l : IF s[k].turn = 0 THEN c \in s[k].covers ELSE c = s[k].turn
        BY <3>1, <3>4
      <4>2. CASE k \in 1..m
        <5>1. c \in Commands!Shown(h) /\ 1 \in 1..Len(z)
          BY <1>1, <1>4, <1>7, <4>1, <4>2
        <5> QED BY <1>3, <1>7, <3>2, <5>1
      <4>3. CASE k \notin 1..m
        <5>1. k - d \in 2..Len(z) /\ (k - d) + d = k
          BY <1>1, <1>9, <4>3 DEF d
        <5>2. z[k - d] = s[k] /\ k - d \in 1..Len(z)
          BY <1>8, <5>1
        <5> QED BY <3>2, <4>1, <5>2
      <4> QED BY <4>2, <4>3
    <3> QED BY <3>3, <3>4
  <2> QED BY <2>1, <2>2, <2>3, <2>4, <2>5, <2>6 DEF Story
<1> QED BY <1>7, <1>10 DEF z

-----------------------------------------------------------------------------
LEMMA NothingIsExpected == Expected(<<>>, TurnEvents, {})
<1>1. Story(<<>>, TurnEvents)
  BY DEF Story, Kinds, Chained, Ascending, Behind, Before
<1>2. Commands!Shown(<<>>) = {}
  BY DEF Commands!Shown
<1> QED BY <1>1, <1>2 DEF Expected

LEMMA CommandsInit == ASSUME Commands!CommandsAssumption, Commands!Init PROVE CommandsInv
<1>1. 1 \in Commands!Objects /\ 0 \in 0..MaxTurns /\ 0 \in 0..TurnEvents /\ 0 \in 0..MaxCommands
  BY DEF Commands!CommandsAssumption, Commands!Objects
<1>2. CommandTypes
  <2>1. /\ lists \in [Commands!Objects -> Seq(Commands!EventRecord)] /\ current = 1 /\ <<>> \in Seq(Commands!Turns)
        /\ turn = [number |-> 0, object |-> 1, events |-> 0, running |-> FALSE]
        /\ count = 0 /\ retry = 0 /\ command = Commands!NoCommand /\ used = 0 /\ kept = <<>> /\ overlapped = FALSE
    BY DEF Commands!Init
  <2>2. /\ Commands!NoCommand.pc = "idle" /\ Commands!NoCommand.object = 1 /\ Commands!NoCommand.events = <<>>
        /\ Commands!NoCommand \in [pc : {"idle", "summarising", "building"}, object : Commands!Objects, events : Seq(Commands!EventRecord)]
    BY <1>1 DEF Commands!NoCommand
  <2>3. turn \in [number : 0..MaxTurns, object : Commands!Objects, events : 0..TurnEvents, running : BOOLEAN]
    BY <1>1, <2>1
  <2>4. ~turn.running /\ turn.number = 0
    BY <2>1
  <2>5. Commands!TypeOK
    BY <1>1, <2>1, <2>2, <2>3 DEF Commands!TypeOK
  <2>6. 1 <= 0 + 1 /\ ~("idle" = "building") /\ 0 <= 0
    OBVIOUS
  <2> QED BY <2>1, <2>2, <2>4, <2>5, <2>6 DEF CommandTypes
<1>3. Commands!ToSet(kept) = {}
  BY DEF Commands!Init, Commands!ToSet
<1>4. Fresh
  BY <1>1 DEF Fresh, Commands!Init, Commands!NoCommand
<1>5. AsExpected
  <2>1. lists[current] = <<>> /\ turn.running = FALSE /\ turn.number = 0 /\ command.pc = "idle"
    BY <1>1 DEF Commands!Init, Commands!NoCommand
  <2> QED BY <1>3, <2>1, NothingIsExpected DEF AsExpected
<1> QED BY <1>2, <1>4, <1>5 DEF CommandsInv

\* What a step starts from.
LEMMA CommandsTyped ==
  ASSUME Commands!CommandsAssumption, CommandsInv
  PROVE  /\ lists \in [Commands!Objects -> Seq(Commands!EventRecord)]
         /\ current \in Commands!Objects /\ current \in Nat
         /\ turn \in [number : 0..MaxTurns, object : Commands!Objects, events : 0..TurnEvents, running : BOOLEAN]
         /\ turn.number \in 0..MaxTurns /\ turn.object \in Commands!Objects /\ turn.events \in 0..TurnEvents
         /\ turn.running \in BOOLEAN /\ turn.object \in Nat
         /\ count \in 0..MaxTurns /\ retry \in 0..MaxTurns
         /\ command \in [pc : {"idle", "summarising", "building"}, object : Commands!Objects, events : Seq(Commands!EventRecord)]
         /\ command.object \in Commands!Objects /\ command.events \in Seq(Commands!EventRecord)
         /\ (command.pc = "idle" <=> command = Commands!NoCommand)
         /\ used \in 0..MaxCommands /\ kept \in Seq(Commands!Turns) /\ overlapped \in BOOLEAN
         /\ MaxTurns \in Nat /\ TurnEvents \in Nat /\ TurnEvents >= 1 /\ MaxCommands \in Nat
         /\ Commands!Objects \subseteq Nat
BY DEF CommandsInv, CommandTypes, Commands!TypeOK, Commands!CommandsAssumption, Commands!Objects

LEMMA KeptAppended ==
  ASSUME NEW t \in Commands!Turns, NEW k \in Seq(Commands!Turns)
  PROVE  Append(k, t) \in Seq(Commands!Turns) /\ Commands!ToSet(Append(k, t)) = Commands!ToSet(k) \cup {t}
<1>1. /\ Append(k, t) \in Seq(Commands!Turns) /\ DOMAIN Append(k, t) = 1..(Len(k) + 1) /\ Len(k) \in Nat
      /\ DOMAIN k = 1..Len(k)
      /\ Append(k, t)[Len(k) + 1] = t /\ \A i \in 1..Len(k) : Append(k, t)[i] = k[i]
  OBVIOUS
<1>2. \A i \in 1..(Len(k) + 1) : i \in 1..Len(k) \/ i = Len(k) + 1
  BY <1>1
<1>3. 1..Len(k) \subseteq 1..(Len(k) + 1) /\ Len(k) + 1 \in 1..(Len(k) + 1)
  BY <1>1
<1> QED BY <1>1, <1>2, <1>3 DEF Commands!ToSet

LEMMA KeptWithout ==
  ASSUME NEW t, NEW k \in Seq(Commands!Turns)
  PROVE  /\ Select(k, Commands!Turns \ {t}) \in Seq(Commands!Turns)
         /\ Commands!ToSet(Select(k, Commands!Turns \ {t})) = Commands!ToSet(k) \ {t}
<1> DEFINE S == Commands!Turns \ {t}
           P == Places(k, S)
           r == Select(k, S)
<1>1. r \in Seq(Commands!Turns) /\ P \in SUBSET (1..Len(k)) /\ Len(k) \in Nat /\ Len(r) = Cardinality(P)
  BY SelectType
<1>2. /\ Cardinality(P) \in Nat
      /\ \A p \in P : Rank(P, p) \in 1..Cardinality(P)
      /\ \A i \in 1..Cardinality(P) : /\ Nth(P, i) \in P
                                      /\ \A p \in P : Rank(P, p) = i => p = Nth(P, i)
  BY <1>1, NthIsThere
<1>3. r = [i \in 1..Cardinality(P) |-> k[Nth(P, i)]]
  BY DEF Select
<1>4. P = {p \in 1..Len(k) : k[p] \in S} /\ DOMAIN k = 1..Len(k) /\ \A p \in 1..Len(k) : k[p] \in Commands!Turns
  BY DEF Places
<1> HIDE DEF P, r
<1>5. ASSUME NEW c \in Commands!ToSet(r) PROVE c \in Commands!ToSet(k) \ {t}
  <2>1. PICK i \in 1..Cardinality(P) : c = k[Nth(P, i)]
    BY <1>3 DEF Commands!ToSet
  <2>2. Nth(P, i) \in 1..Len(k) /\ c \in S
    BY <1>2, <1>4, <2>1
  <2> QED BY <1>4, <2>1, <2>2 DEF Commands!ToSet
<1>6. ASSUME NEW c \in Commands!ToSet(k), c # t PROVE c \in Commands!ToSet(r)
  <2>1. PICK p \in 1..Len(k) : c = k[p]
    BY <1>4 DEF Commands!ToSet
  <2>2. p \in P
    BY <1>4, <1>6, <2>1
  <2>3. Rank(P, p) \in 1..Cardinality(P) /\ Nth(P, Rank(P, p)) = p
    BY <1>2, <2>2
  <2>4. Rank(P, p) \in DOMAIN r /\ r[Rank(P, p)] = c
    BY <1>3, <2>1, <2>3
  <2> QED BY <2>4 DEF Commands!ToSet
<1> QED BY <1>1, <1>5, <1>6 DEF r

-----------------------------------------------------------------------------
(* The worker.                                                             *)

LEMMA BeginKeeps == ASSUME Commands!CommandsAssumption, CommandsInv, Commands!Begin PROVE CommandsInv'
<1> DEFINE t == turn.number + 1
           e == Commands!Event(t, 1)
           s == lists[current]
<1>1. /\ ~turn.running /\ turn.number < MaxTurns
      /\ turn' = [number |-> t, object |-> current, events |-> 1, running |-> TRUE]
      /\ lists' = [lists EXCEPT ![current] = Append(s, e)]
      /\ kept' = Append(kept, t) /\ overlapped' = (overlapped \/ command # Commands!NoCommand)
      /\ UNCHANGED <<current, count, retry, command, used>>
  BY DEF Commands!Begin
<1>2. t \in 1..MaxTurns /\ t \in Commands!Turns /\ t \in Nat /\ 1 \in 0..TurnEvents /\ turn.number \in Nat
  BY <1>1, CommandsTyped, SMTT(30) DEF Commands!Turns
<1>3. e \in Commands!EventRecord /\ e.covers = {} /\ e.n = 1 /\ e.turn = t
  BY <1>2 DEF Commands!Event, Commands!EventRecord
<1>4. s \in Seq(Commands!EventRecord) /\ Append(s, e) \in Seq(Commands!EventRecord)
  BY <1>3, CommandsTyped
<1>5. lists' \in [Commands!Objects -> Seq(Commands!EventRecord)] /\ lists'[current] = Append(s, e)
      /\ \A o \in Commands!Objects : o # current => lists'[o] = lists[o]
  BY <1>1, <1>4, CommandsTyped
<1>6. kept' \in Seq(Commands!Turns) /\ Commands!ToSet(kept') = Commands!ToSet(kept) \cup {t}
  BY <1>1, <1>2, CommandsTyped, KeptAppended
<1>7. /\ turn'.number = t /\ turn'.object = current /\ turn'.events = 1 /\ turn'.running = TRUE
      /\ turn' \in [number : 0..MaxTurns, object : Commands!Objects, events : 0..TurnEvents, running : BOOLEAN]
  BY <1>1, <1>2, CommandsTyped
<1> HIDE DEF e, s
<1>8. CommandTypes'
  <2>1. count <= turn.number
    BY <1>1 DEF CommandsInv, CommandTypes
  <2>2. count < t /\ t >= 1
    BY <1>2, <2>1, CommandsTyped, SMTT(30)
  <2> HIDE DEF t
  <2> QED BY <1>1, <1>5, <1>6, <1>7, <2>2, CommandsTyped DEF CommandsInv, CommandTypes, Commands!TypeOK
<1>9. Fresh'
  <2>1. \A o \in Commands!Objects : o > current => o # current /\ lists[o] = <<>>
    BY CommandsTyped DEF CommandsInv, Fresh
  <2>2. command.object <= current /\ current <= current
    BY CommandsTyped DEF CommandsInv, Fresh
  <2> QED BY <1>1, <1>5, <1>7, <2>1, <2>2 DEF Fresh
<1>10. ASSUME ~overlapped' PROVE ~overlapped /\ command.pc = "idle" /\ Expected(s, TurnEvents, Commands!ToSet(kept))
                                 /\ Commands!ToSet(kept) \subseteq 1..turn.number
  BY <1>1, <1>10, CommandsTyped DEF CommandsInv, AsExpected, s
<1>11. ASSUME ~overlapped' PROVE Expected(Append(s, e), 1, Commands!ToSet(kept'))
  <2>1. Story(s, TurnEvents) /\ Commands!Shown(s) = Commands!ToSet(kept)
    BY <1>10, <1>11 DEF Expected
  <2>2. \A c \in Commands!Shown(s) : t > c
    BY <1>2, <1>10, <1>11, <2>1
  <2>3. t # 0 /\ TurnEvents \in Nat
    BY <1>2, CommandsTyped
  <2> HIDE DEF t
  <2>4. e.n >= 1 /\ e.turn # 0 /\ \A c \in Commands!Shown(s) : e.turn > c
    BY <1>3, <2>2, <2>3
  <2>5. Story(Append(s, e), e.n) /\ Commands!Shown(Append(s, e)) = Commands!Shown(s) \cup {e.turn}
    BY <1>3, <1>4, <2>1, <2>3, <2>4, StoryGoesOn
  <2> QED BY <1>3, <1>6, <2>1, <2>5 DEF Expected
<1>12. ASSUME ~overlapped' PROVE Commands!ToSet(kept') \subseteq 1..t
  BY <1>2, <1>6, <1>10, <1>12
<1>13. Len(Append(s, e)) # 0 /\ Append(s, e)[Len(Append(s, e))] = e
  BY <1>3, <1>4
<1>14. AsExpected'
  <2> HIDE DEF t
  <2>1. current' = current /\ command' = command
    BY <1>1
  <2> QED BY <1>5, <1>7, <1>10, <1>11, <1>12, <1>13, <2>1 DEF AsExpected, e
<1> QED BY <1>8, <1>9, <1>14 DEF CommandsInv

LEMMA AgentEventKeeps == ASSUME Commands!CommandsAssumption, CommandsInv, Commands!AgentEvent PROVE CommandsInv'
<1> DEFINE o == turn.object
           n == turn.events
           e == Commands!Event(turn.number, n + 1)
           s == lists[o]
<1>1. /\ turn.running /\ n < TurnEvents
      /\ turn' = [turn EXCEPT !.events = n + 1]
      /\ lists' = [lists EXCEPT ![o] = Append(s, e)]
      /\ UNCHANGED <<current, count, retry, command, used, kept, overlapped>>
  <2>1. turn.running /\ n < TurnEvents /\ turn' = [turn EXCEPT !.events = n + 1]
        /\ UNCHANGED <<current, count, retry, command, used, kept, overlapped>>
        /\ lists' = [lists EXCEPT ![o] = Append(s, Commands!Event(turn.number, turn'.events))]
    BY DEF Commands!AgentEvent
  <2>2. turn'.events = n + 1
    BY <2>1, CommandsTyped
  <2> QED BY <2>1, <2>2
<1>2. n \in Nat /\ n + 1 \in 0..TurnEvents /\ o \in Commands!Objects /\ turn.number \in 0..MaxTurns /\ turn.number >= 1
  <2>1. turn.number >= 1
    BY <1>1 DEF CommandsInv, CommandTypes
  <2> QED BY <1>1, <2>1, CommandsTyped, SMTT(30)
<1>3. e \in Commands!EventRecord /\ e.covers = {} /\ e.n = n + 1 /\ e.turn = turn.number
  BY <1>2 DEF Commands!Event, Commands!EventRecord
<1>4. s \in Seq(Commands!EventRecord) /\ Append(s, e) \in Seq(Commands!EventRecord)
  BY <1>2, <1>3, CommandsTyped
<1>5. /\ lists' \in [Commands!Objects -> Seq(Commands!EventRecord)] /\ lists'[o] = Append(s, e)
      /\ \A q \in Commands!Objects : q # o => lists'[q] = lists[q]
  BY <1>1, <1>2, <1>4, CommandsTyped
<1>6. /\ turn'.number = turn.number /\ turn'.object = o /\ turn'.events = n + 1 /\ turn'.running = TRUE
      /\ turn' \in [number : 0..MaxTurns, object : Commands!Objects, events : 0..TurnEvents, running : BOOLEAN]
  BY <1>1, <1>2, CommandsTyped
<1> HIDE DEF e, s, n, o
<1>7. CommandTypes'
  BY <1>1, <1>5, <1>6, CommandsTyped DEF CommandsInv, CommandTypes, Commands!TypeOK
<1>8. Fresh'
  <2>1. o <= current /\ \A q \in Commands!Objects : q > current => q # o
    BY CommandsTyped DEF CommandsInv, Fresh, o
  <2> QED BY <1>1, <1>5, <1>6, <2>1, CommandsTyped DEF CommandsInv, Fresh
<1>9. ASSUME ~overlapped
      PROVE  /\ command.pc = "idle" /\ o = current /\ Expected(s, n, Commands!ToSet(kept))
             /\ Len(s) # 0 /\ s[Len(s)] = Commands!Event(turn.number, n)
  BY <1>1, <1>9 DEF CommandsInv, AsExpected, s, n, o
<1>10. ASSUME ~overlapped PROVE Expected(Append(s, e), n + 1, Commands!ToSet(kept))
  <2>1. Story(s, n) /\ Commands!Shown(s) = Commands!ToSet(kept) /\ Len(s) # 0 /\ s[Len(s)] = Commands!Event(turn.number, n)
    BY <1>9, <1>10 DEF Expected
  <2>2. Len(s) \in 1..Len(s)
    BY <1>4, <2>1
  <2>3. s[Len(s)].turn = turn.number /\ s[Len(s)].n = n
    BY <2>1 DEF Commands!Event
  <2>4. n >= 1 /\ turn.number \in Commands!Shown(s)
    <3>1. turn.number # 0
      BY <1>2
    <3>2. n >= 1
      BY <2>1, <2>2, <2>3, <3>1 DEF Story, Kinds
    <3>3. \E k \in 1..Len(s) : IF s[k].turn = 0 THEN turn.number \in s[k].covers ELSE turn.number = s[k].turn
      BY <2>2, <2>3, <3>1
    <3>4. turn.number \in Commands!Shown(s)
      BY <1>4, <3>3, ShownIs
    <3> QED BY <3>2, <3>4
  <2>5. e.n >= 1 /\ e.turn # 0 /\ s[Len(s)] = Commands!Event(e.turn, n)
    BY <1>2, <1>3, <2>1
  <2>6. Story(Append(s, e), e.n) /\ Commands!Shown(Append(s, e)) = Commands!Shown(s) \cup {e.turn}
    <3>1. n < TurnEvents
      BY <1>1
    <3> QED BY <1>2, <1>3, <1>4, <2>1, <2>4, <2>5, <3>1, StoryGoesOn
  <2>7. Commands!Shown(s) \cup {e.turn} = Commands!ToSet(kept)
    BY <1>3, <2>1, <2>4
  <2> QED BY <1>3, <2>6, <2>7 DEF Expected
<1>11. Len(Append(s, e)) # 0 /\ Append(s, e)[Len(Append(s, e))] = Commands!Event(turn.number, n + 1)
  BY <1>3, <1>4 DEF e
<1>12. AsExpected'
  <2>1. current' = current /\ command' = command /\ kept' = kept /\ overlapped' = overlapped
    BY <1>1
  <2>2. ~overlapped => Commands!ToSet(kept) \subseteq 1..turn.number
    BY DEF CommandsInv, AsExpected
  <2> QED BY <1>5, <1>6, <1>9, <1>10, <1>11, <2>1, <2>2 DEF AsExpected
<1> QED BY <1>7, <1>8, <1>12 DEF CommandsInv

LEMMA EndKeeps == ASSUME Commands!CommandsAssumption, CommandsInv, Commands!End PROVE CommandsInv'
<1>1. /\ turn.running /\ turn.events = TurnEvents /\ count' = count + 1
      /\ turn' = [turn EXCEPT !.running = FALSE]
      /\ UNCHANGED <<lists, current, retry, command, used, kept, overlapped>>
  BY DEF Commands!End
<1>2. /\ turn'.number = turn.number /\ turn'.object = turn.object /\ turn'.events = turn.events /\ turn'.running = FALSE
      /\ turn' \in [number : 0..MaxTurns, object : Commands!Objects, events : 0..TurnEvents, running : BOOLEAN]
  BY <1>1, CommandsTyped
<1>3. CommandTypes'
  <2>1. turn.number >= 1 /\ count < turn.number
    BY <1>1 DEF CommandsInv, CommandTypes
  <2>2. count + 1 \in 0..MaxTurns /\ count + 1 <= turn.number
    BY <2>1, CommandsTyped
  <2> QED BY <1>1, <1>2, <2>2, CommandsTyped DEF CommandsInv, CommandTypes, Commands!TypeOK
<1>4. Fresh'
  BY <1>1, <1>2 DEF CommandsInv, Fresh
<1>5. AsExpected'
  BY <1>1, <1>2 DEF CommandsInv, AsExpected
<1> QED BY <1>3, <1>4, <1>5 DEF CommandsInv

-----------------------------------------------------------------------------
(* The commands.                                                           *)

\* A command that comes while a turn or another command runs disturbs them.
LEMMA StartsAlone ==
  ASSUME Commands!CommandsAssumption, CommandsInv, Commands!Starts
  PROVE  /\ used' \in 0..MaxCommands /\ used' = used + 1 /\ current + 1 <= used' + 1
         /\ overlapped' \in BOOLEAN /\ current + 1 \in Commands!Objects
         /\ ~overlapped' => ~overlapped /\ ~turn.running /\ command.pc = "idle"
<1>1. used < MaxCommands /\ used' = used + 1 /\ overlapped' = (overlapped \/ turn.running \/ command # Commands!NoCommand)
  BY DEF Commands!Starts
<1>2. current <= used + 1
  BY DEF CommandsInv, CommandTypes
<1>3. used + 1 \in 0..MaxCommands /\ current + 1 <= used + 2 /\ current + 1 \in 1..(MaxCommands + 1)
  <2>1. used \in 0..MaxCommands /\ current \in Nat /\ MaxCommands \in Nat
    BY CommandsTyped
  <2>2. used < MaxCommands
    BY <1>1
  <2>3. used + 1 \in 0..MaxCommands
    BY <2>1, <2>2
  <2>4. current + 1 <= used + 2
    BY <1>2, <2>1
  <2>5. current + 1 \in 1..(MaxCommands + 1)
    BY <1>2, <2>1, <2>2
  <2> QED BY <2>3, <2>4, <2>5
<1>4. /\ overlapped' \in BOOLEAN
      /\ ~overlapped' => ~overlapped /\ ~turn.running /\ command.pc = "idle"
  BY <1>1, CommandsTyped
<1> QED BY <1>1, <1>3, <1>4, CommandsTyped, SMTT(30) DEF Commands!Objects

LEMMA ClearKeeps == ASSUME Commands!CommandsAssumption, CommandsInv, Commands!Clear PROVE CommandsInv'
<1>1. /\ Commands!Starts /\ current' = current + 1 /\ count' = 0 /\ kept' = <<>>
      /\ UNCHANGED <<lists, turn, retry, command>>
  BY DEF Commands!Clear
<1>2. /\ used' \in 0..MaxCommands /\ used' = used + 1 /\ current' <= used' + 1
      /\ overlapped' \in BOOLEAN /\ current' \in Commands!Objects
      /\ ~overlapped' => ~overlapped /\ ~turn.running /\ command.pc = "idle"
  BY <1>1, StartsAlone
<1>3. CommandTypes'
  <2>1. command'.pc = "building" => current' <= used'
    <3>1. command.pc = "building" => current <= used
      BY DEF CommandsInv, CommandTypes
    <3>2. command.pc = "building" => current + 1 <= used + 1
      BY <3>1, CommandsTyped
    <3> QED BY <1>1, <1>2, <3>2
  <2>2. 0 \in 0..MaxTurns /\ IF turn.running THEN turn.number >= 1 /\ 0 < turn.number ELSE 0 <= turn.number
    BY CommandsTyped, SMTT(30) DEF CommandsInv, CommandTypes
  <2> QED BY <1>1, <1>2, <2>1, <2>2, CommandsTyped DEF CommandsInv, CommandTypes, Commands!TypeOK
<1>4. current < current'
  BY <1>1, CommandsTyped, SMTT(30)
<1>5. Fresh'
  <2>1. \A o \in Commands!Objects : o > current' => o > current
    BY <1>1, CommandsTyped, SMTT(30)
  <2>2. turn.object <= current' /\ command.object <= current'
    <3>1. turn.object <= current /\ command.object <= current /\ command.object \in Nat
      BY CommandsTyped DEF CommandsInv, Fresh
    <3> QED BY <1>1, <3>1, CommandsTyped, SMTT(30)
  <2> QED BY <1>1, <2>1, <2>2 DEF CommandsInv, Fresh
<1>6. AsExpected'
  <2>1. lists'[current'] = <<>>
    BY <1>1, <1>2, <1>4 DEF CommandsInv, Fresh
  <2>2. Commands!ToSet(kept') = {}
    BY <1>1 DEF Commands!ToSet
  <2> QED BY <1>1, <1>2, <2>1, <2>2, NothingIsExpected DEF AsExpected
<1> QED BY <1>3, <1>5, <1>6 DEF CommandsInv

LEMMA UndoKeeps == ASSUME Commands!CommandsAssumption, CommandsInv, NEW again \in BOOLEAN, Commands!Undo(again) PROVE CommandsInv'
<1> DEFINE s == lists[current]
           k == Commands!LastUser(s)
           z == SubSeq(s, 1, k - 1)
           t == s[k].turn
<1>1. /\ Commands!Starts /\ UNCHANGED <<current, turn, command>>
      /\ \/ k = 0 /\ UNCHANGED <<lists, count, retry, kept>>
         \/ /\ k # 0 /\ lists' = [lists EXCEPT ![current] = z]
            /\ count' = (IF count = 0 THEN 0 ELSE count - 1)
            /\ retry' = (IF again THEN t ELSE retry)
            /\ kept' = Select(kept, Commands!Turns \ {t})
  BY SameOperators DEF Commands!Undo
<1>2. /\ used' \in 0..MaxCommands /\ used' = used + 1 /\ current + 1 <= used' + 1
      /\ overlapped' \in BOOLEAN
      /\ ~overlapped' => ~overlapped /\ ~turn.running /\ command.pc = "idle"
  BY <1>1, StartsAlone
<1>3. s \in Seq(Commands!EventRecord) /\ Len(s) \in Nat
  BY CommandsTyped
<1>4. /\ current' = current /\ current <= used' + 1
      /\ command.pc = "building" => current <= used'
  <2>1. command.pc = "building" => current <= used
    BY DEF CommandsInv, CommandTypes
  <2>2. used' = used + 1 /\ current + 1 <= used' + 1 /\ used \in Nat /\ current \in Nat
    BY <1>2, CommandsTyped
  <2>3. current <= used' + 1 /\ (command.pc = "building" => current <= used')
    BY <2>1, <2>2
  <2> QED BY <1>1, <2>3
<1>5. CASE k = 0 /\ UNCHANGED <<lists, count, retry, kept>>
  <2> HIDE DEF k, z, t
  <2>1. CommandTypes'
    BY <1>1, <1>2, <1>4, <1>5, CommandsTyped DEF CommandsInv, CommandTypes, Commands!TypeOK
  <2>2. Fresh' /\ AsExpected'
    BY <1>1, <1>2, <1>5 DEF CommandsInv, Fresh, AsExpected
  <2> QED BY <2>1, <2>2 DEF CommandsInv
<1>6. CASE k # 0 /\ lists' = [lists EXCEPT ![current] = z]
                 /\ count' = (IF count = 0 THEN 0 ELSE count - 1)
                 /\ retry' = (IF again THEN t ELSE retry)
                 /\ kept' = Select(kept, Commands!Turns \ {t})
  <2>1. /\ k \in 1..Len(s) /\ s[k].n = 1
        /\ \A j \in 1..Len(s) : s[j].n = 1 => j <= k
    BY <1>3, <1>6, LastUserIs
  <2>2. z \in Seq(Commands!EventRecord) /\ t \in 0..MaxTurns
    <3>1. k - 1 \in 0..Len(s)
      BY <1>3, <2>1
    <3> QED BY <1>3, <2>1, <3>1, Beginning, EventsOf
  <2>3. ASSUME ~overlapped'
        PROVE  Expected(z, TurnEvents, Commands!ToSet(kept')) /\ Commands!ToSet(kept') \subseteq 1..turn.number
    <3>1. Expected(s, TurnEvents, Commands!ToSet(kept)) /\ Commands!ToSet(kept) \subseteq 1..turn.number
      BY <1>2, <2>3 DEF CommandsInv, AsExpected
    <3>2. Story(s, TurnEvents) /\ Commands!Shown(s) = Commands!ToSet(kept)
      BY <3>1 DEF Expected
    <3>3. Story(z, TurnEvents) /\ Commands!Shown(z) = Commands!Shown(s) \ {t}
      BY <1>3, <2>1, <3>2, StoryIsCut
    <3>4. Commands!ToSet(kept') = Commands!ToSet(kept) \ {t}
      BY <1>6, CommandsTyped, KeptWithout
    <3> HIDE DEF z, t, k, s
    <3> QED BY <3>1, <3>2, <3>3, <3>4 DEF Expected
  <2>4. kept' \in Seq(Commands!Turns)
    BY <1>6, CommandsTyped, KeptWithout
  <2> HIDE DEF z, t, k, s
  <2>5. /\ lists' \in [Commands!Objects -> Seq(Commands!EventRecord)] /\ lists'[current] = z
        /\ \A o \in Commands!Objects : o # current => lists'[o] = lists[o]
    BY <1>6, <2>2, CommandsTyped
  <2>6. /\ count' \in 0..MaxTurns /\ count' <= count /\ retry' \in 0..MaxTurns
    BY <1>6, <2>2, CommandsTyped, SMTT(30)
  <2>7. CommandTypes'
    <3>1. IF turn.running THEN turn.number >= 1 /\ count' < turn.number ELSE count' <= turn.number
      <4>1. IF turn.running THEN turn.number >= 1 /\ count < turn.number ELSE count <= turn.number
        BY DEF CommandsInv, CommandTypes
      <4>2. turn.number \in Nat /\ count \in Nat /\ count' \in Nat /\ count' <= count
        BY <2>6, CommandsTyped
      <4> QED BY <4>1, <4>2
    <3> QED BY <1>1, <1>2, <1>4, <2>4, <2>5, <2>6, <3>1, CommandsTyped DEF CommandsInv, CommandTypes, Commands!TypeOK
  <2>8. Fresh'
    <3>1. \A o \in Commands!Objects : o > current => o # current
      BY CommandsTyped
    <3> QED BY <1>1, <2>5, <3>1 DEF CommandsInv, Fresh
  <2>9. AsExpected'
    BY <1>1, <1>2, <2>3, <2>5 DEF AsExpected
  <2> QED BY <2>7, <2>8, <2>9 DEF CommandsInv
<1> QED BY <1>1, <1>5, <1>6

LEMMA SummarisingKeeps == ASSUME Commands!CommandsAssumption, CommandsInv, Commands!Compact PROVE CommandsInv'
<1> DEFINE s == lists[current]
<1>1. PICK m \in 1..Len(s) : /\ Commands!Starts /\ command = Commands!NoCommand
                             /\ command' = [pc |-> "summarising", object |-> current, events |-> Summarised(s, m)]
                             /\ UNCHANGED <<lists, current, turn, count, retry, kept>>
  BY DEF Commands!Compact, Summarised
<1>2. /\ used' \in 0..MaxCommands /\ used' = used + 1 /\ current + 1 <= used' + 1
      /\ overlapped' \in BOOLEAN
      /\ ~overlapped' => ~overlapped /\ ~turn.running /\ command.pc = "idle"
  BY <1>1, StartsAlone
<1>3. s \in Seq(Commands!EventRecord) /\ current \in Commands!Objects /\ current <= used' + 1
  <2>1. s \in Seq(Commands!EventRecord) /\ current \in Commands!Objects
    BY CommandsTyped
  <2>2. used' = used + 1 /\ current + 1 <= used' + 1 /\ used \in Nat /\ current \in Nat
    BY <1>2, CommandsTyped
  <2>3. current <= used' + 1
    BY <2>2
  <2> QED BY <2>1, <2>3
<1>4. /\ Summarised(s, m) \in Seq(Commands!EventRecord)
      /\ \A n : Story(s, n) => Story(Summarised(s, m), n) /\ Commands!Shown(Summarised(s, m)) = Commands!Shown(s)
  BY <1>3, StoryIsSummarised
<1> HIDE DEF s
<1>5. /\ command'.pc = "summarising" /\ command'.object = current /\ command'.events = Summarised(s, m)
      /\ command' \in [pc : {"idle", "summarising", "building"}, object : Commands!Objects, events : Seq(Commands!EventRecord)]
      /\ command' # Commands!NoCommand
  BY <1>1, <1>3, <1>4 DEF Commands!NoCommand
<1>6. CommandTypes'
  BY <1>1, <1>2, <1>3, <1>5, CommandsTyped DEF CommandsInv, CommandTypes, Commands!TypeOK
<1>7. Fresh'
  BY <1>1, <1>5, CommandsTyped DEF CommandsInv, Fresh
<1>8. ASSUME ~overlapped' PROVE Expected(Summarised(s, m), TurnEvents, Commands!ToSet(kept))
  <2>1. Expected(s, TurnEvents, Commands!ToSet(kept))
    BY <1>2, <1>8 DEF CommandsInv, AsExpected, s
  <2> QED BY <1>4, <2>1 DEF Expected
<1>9. AsExpected'
  BY <1>1, <1>2, <1>5, <1>8 DEF CommandsInv, AsExpected
<1> QED BY <1>6, <1>7, <1>9 DEF CommandsInv

LEMMA CompactedKeeps == ASSUME Commands!CommandsAssumption, CommandsInv, Commands!Compacted PROVE CommandsInv'
<1> DEFINE o == command.object
<1>1. /\ command.pc = "summarising" /\ command' = Commands!NoCommand
      /\ \/ lists' = [lists EXCEPT ![o] = command.events]
         \/ lists' = lists
      /\ UNCHANGED <<current, turn, count, retry, used, kept, overlapped>>
  BY DEF Commands!Compacted
<1>2. /\ Commands!NoCommand.pc = "idle" /\ Commands!NoCommand.object = 1 /\ Commands!NoCommand.events = <<>> /\ 1 \in Commands!Objects
      /\ Commands!NoCommand \in [pc : {"idle", "summarising", "building"}, object : Commands!Objects, events : Seq(Commands!EventRecord)]
  BY CommandsTyped DEF Commands!NoCommand, Commands!Objects
<1>3. /\ lists' \in [Commands!Objects -> Seq(Commands!EventRecord)] /\ lists'[o] \in {lists[o], command.events}
      /\ \A q \in Commands!Objects : q # o => lists'[q] = lists[q]
  BY <1>1, CommandsTyped
<1>4. o <= current /\ o \in Commands!Objects /\ o \in Nat
  BY CommandsTyped DEF CommandsInv, Fresh
<1> HIDE DEF o
<1>5. CommandTypes'
  BY <1>1, <1>2, <1>3, CommandsTyped DEF CommandsInv, CommandTypes, Commands!TypeOK
<1>6. Fresh'
  <2>1. \A q \in Commands!Objects : q > current => q # o
    BY <1>4, CommandsTyped
  <2>2. 1 <= current
    BY CommandsTyped DEF Commands!Objects
  <2> QED BY <1>1, <1>2, <1>3, <2>1, <2>2 DEF CommandsInv, Fresh
<1>7. AsExpected'
  <2>1. ~overlapped => ~turn.running /\ o = current /\ Expected(command.events, TurnEvents, Commands!ToSet(kept))
    BY <1>1 DEF CommandsInv, AsExpected, o
  <2>2. ~overlapped => Expected(lists[current], TurnEvents, Commands!ToSet(kept)) /\ Commands!ToSet(kept) \subseteq 1..turn.number
    BY <2>1 DEF CommandsInv, AsExpected
  <2>3. ~overlapped => Expected(lists'[current], TurnEvents, Commands!ToSet(kept))
    BY <1>3, <2>1, <2>2
  <2> QED BY <1>1, <1>2, <2>1, <2>2, <2>3 DEF AsExpected
<1> QED BY <1>5, <1>6, <1>7 DEF CommandsInv

LEMMA ModelKeeps == ASSUME Commands!CommandsAssumption, CommandsInv, Commands!Model PROVE CommandsInv'
<1>1. /\ Commands!Starts /\ command = Commands!NoCommand
      /\ command' = [pc |-> "building", object |-> current, events |-> lists[current]]
      /\ UNCHANGED <<lists, current, turn, count, retry, kept>>
  BY DEF Commands!Model
<1>2. /\ used' \in 0..MaxCommands /\ used' = used + 1 /\ current + 1 <= used' + 1
      /\ overlapped' \in BOOLEAN
      /\ ~overlapped' => ~overlapped /\ ~turn.running /\ command.pc = "idle"
  BY <1>1, StartsAlone
<1>3. lists[current] \in Seq(Commands!EventRecord) /\ current \in Commands!Objects /\ current <= used' + 1 /\ current <= used'
  <2>1. lists[current] \in Seq(Commands!EventRecord) /\ current \in Commands!Objects
    BY CommandsTyped
  <2>2. used' = used + 1 /\ current + 1 <= used' + 1 /\ used \in Nat /\ current \in Nat
    BY <1>2, CommandsTyped
  <2>3. current <= used' + 1 /\ current <= used'
    BY <2>2
  <2> QED BY <2>1, <2>3
<1>4. /\ command'.pc = "building" /\ command'.object = current /\ command'.events = lists[current]
      /\ command' \in [pc : {"idle", "summarising", "building"}, object : Commands!Objects, events : Seq(Commands!EventRecord)]
      /\ command' # Commands!NoCommand
  BY <1>1, <1>3 DEF Commands!NoCommand
<1>5. CommandTypes'
  BY <1>1, <1>2, <1>3, <1>4, CommandsTyped DEF CommandsInv, CommandTypes, Commands!TypeOK
<1>6. Fresh'
  BY <1>1, <1>4, CommandsTyped DEF CommandsInv, Fresh
<1>7. AsExpected'
  BY <1>1, <1>2, <1>4 DEF CommandsInv, AsExpected
<1> QED BY <1>5, <1>6, <1>7 DEF CommandsInv

LEMMA BuiltKeeps == ASSUME Commands!CommandsAssumption, CommandsInv, Commands!Built PROVE CommandsInv'
<1> DEFINE c == current + 1
           s == command.events
<1>1. /\ command.pc = "building" /\ command' = Commands!NoCommand
      /\ \/ current' = c /\ count' = 0 /\ lists' = [lists EXCEPT ![c] = lists[c] \o s]
         \/ current' = current /\ count' = count /\ lists' = lists
      /\ UNCHANGED <<turn, retry, used, kept, overlapped>>
  BY DEF Commands!Built
<1>2. /\ Commands!NoCommand.pc = "idle" /\ Commands!NoCommand.object = 1 /\ Commands!NoCommand.events = <<>> /\ 1 \in Commands!Objects
      /\ Commands!NoCommand \in [pc : {"idle", "summarising", "building"}, object : Commands!Objects, events : Seq(Commands!EventRecord)]
  BY CommandsTyped DEF Commands!NoCommand, Commands!Objects
<1>3. current <= used
  BY <1>1 DEF CommandsInv, CommandTypes
<1>4. c \in Commands!Objects /\ c <= used + 1 /\ c > current /\ current >= 1
  BY <1>3, CommandsTyped, SMTT(30) DEF Commands!Objects
<1>5. lists[c] = <<>> /\ s \in Seq(Commands!EventRecord)
  BY <1>4, CommandsTyped DEF CommandsInv, Fresh
<1>6. lists[c] \o s = s
  BY <1>5
<1>7. ~overlapped => ~turn.running /\ s = lists[current]
  BY <1>1 DEF CommandsInv, AsExpected
<1>8. turn.object <= current /\ \A q \in Commands!Objects : q > current => lists[q] = <<>>
  BY DEF CommandsInv, Fresh
<1> HIDE DEF c, s
<1>9. CASE current' = c /\ count' = 0 /\ lists' = [lists EXCEPT ![c] = lists[c] \o s]
  <2>1. /\ lists' \in [Commands!Objects -> Seq(Commands!EventRecord)] /\ lists'[c] = s
        /\ \A q \in Commands!Objects : q # c => lists'[q] = lists[q]
    BY <1>4, <1>5, <1>6, <1>9, CommandsTyped
  <2>2. CommandTypes'
    <3>1. 0 \in 0..MaxTurns /\ IF turn.running THEN turn.number >= 1 /\ 0 < turn.number ELSE 0 <= turn.number
      BY CommandsTyped, SMTT(30) DEF CommandsInv, CommandTypes
    <3> QED BY <1>1, <1>2, <1>4, <1>9, <2>1, <3>1, CommandsTyped DEF CommandsInv, CommandTypes, Commands!TypeOK
  <2>3. Fresh'
    <3>1. turn.object <= c /\ 1 <= c /\ \A q \in Commands!Objects : q > c => q > current /\ q # c
      BY <1>4, <1>8, CommandsTyped, SMTT(30) DEF c
    <3> QED BY <1>1, <1>2, <1>8, <1>9, <2>1, <3>1 DEF Fresh
  <2>4. AsExpected'
    <3>1. ~overlapped => Expected(s, TurnEvents, Commands!ToSet(kept)) /\ Commands!ToSet(kept) \subseteq 1..turn.number
      BY <1>7 DEF CommandsInv, AsExpected
    <3> QED BY <1>1, <1>2, <1>7, <1>9, <2>1, <3>1 DEF AsExpected
  <2> QED BY <2>2, <2>3, <2>4 DEF CommandsInv
<1>10. CASE current' = current /\ count' = count /\ lists' = lists
  <2>1. CommandTypes'
    BY <1>1, <1>2, <1>10, CommandsTyped DEF CommandsInv, CommandTypes, Commands!TypeOK
  <2>2. Fresh'
    BY <1>1, <1>2, <1>4, <1>8, <1>10 DEF Fresh
  <2>3. AsExpected'
    BY <1>1, <1>2, <1>10 DEF CommandsInv, AsExpected
  <2> QED BY <2>1, <2>2, <2>3 DEF CommandsInv
<1> QED BY <1>1, <1>9, <1>10

-----------------------------------------------------------------------------
LEMMA CommandsStep == ASSUME Commands!CommandsAssumption, CommandsInv, [Commands!Next]_Commands!vars PROVE CommandsInv'
<1>1. CASE Commands!Begin \/ Commands!AgentEvent \/ Commands!End
  BY <1>1, BeginKeeps, AgentEventKeeps, EndKeeps
<1>2. CASE Commands!Clear \/ Commands!Undo(TRUE) \/ Commands!Undo(FALSE) \/ Commands!Compact \/ Commands!Compacted \/ Commands!Model \/ Commands!Built
  <2>1. TRUE \in BOOLEAN /\ FALSE \in BOOLEAN
    OBVIOUS
  <2> QED BY <1>2, <2>1, ClearKeeps, UndoKeeps, SummarisingKeeps, CompactedKeeps, ModelKeeps, BuiltKeeps
<1>3. CASE UNCHANGED Commands!vars
  BY <1>3 DEF Commands!vars, CommandsInv, CommandTypes, Commands!TypeOK, Fresh, AsExpected
<1> QED BY <1>1, <1>2, <1>3 DEF Commands!Next

LEMMA CommandsSafe == ASSUME Commands!CommandsAssumption, CommandsInv PROVE Commands!CommandsKeepTheRest
<1> DEFINE s == lists[current]
<1>1. s \in Seq(Commands!EventRecord) /\ DOMAIN s = 1..Len(s) /\ Len(s) \in Nat
  BY CommandsTyped
<1>2. ASSUME ~overlapped, ~turn.running
      PROVE  /\ Commands!Shown(s) = Commands!ToSet(kept)
             /\ \A k \in DOMAIN s : s[k].turn # 0 =>
                  IF s[k].n < TurnEvents
                    THEN k < Len(s) /\ s[k + 1] = Commands!Event(s[k].turn, s[k].n + 1)
                    ELSE k < Len(s) => s[k + 1].n = 1 /\ s[k + 1].turn > s[k].turn
  <2>1. Expected(s, TurnEvents, Commands!ToSet(kept))
    BY <1>2 DEF CommandsInv, AsExpected
  <2>2. ASSUME NEW k \in DOMAIN s, s[k].turn # 0
        PROVE  IF s[k].n < TurnEvents
                 THEN k < Len(s) /\ s[k + 1] = Commands!Event(s[k].turn, s[k].n + 1)
                 ELSE k < Len(s) => s[k + 1].n = 1 /\ s[k + 1].turn > s[k].turn
    <3>1. IF k < Len(s) THEN NextOf(s[k], s[k + 1]) ELSE s[k].n = TurnEvents
      BY <1>1, <2>1, <2>2 DEF Expected, Story, Chained
    <3>2. ~(TurnEvents < TurnEvents)
      BY CommandsTyped
    <3> QED BY <3>1, <3>2 DEF NextOf
  <2> QED BY <2>1, <2>2 DEF Expected
<1> QED BY <1>2 DEF Commands!CommandsKeepTheRest

LEMMA CommandsLift == MCSpec => Commands!Spec
<1>1. MCInit => Commands!Init
  BY DEF MCInit
<1>2. [MCNext]_allVars => [Commands!Next]_Commands!vars
  BY DEF MCNext, RunnerNext, HistoryNext, TrustNext, ReplNext, LiveTextNext,
         CommandsNext, allVars, terminalVars, commandVars, Commands!vars
<1> QED BY <1>1, <1>2, PTL DEF MCSpec, Commands!Spec

LEMMA CommandsAlways == Commands!Spec => [](CommandsInv)
<1>0. Commands!CommandsAssumption
  BY ConversationAssumption
<1>1. Commands!Init => CommandsInv
  BY <1>0, CommandsInit
<1>2. CommandsInv /\ [Commands!Next]_Commands!vars => (CommandsInv)'
  BY <1>0, CommandsStep
<1> QED BY <1>1, <1>2, PTL DEF Commands!Spec

\* Slash commands given while no turn runs, in any order and any number, leave
\* the conversation the user expects: every turn that was not undone or cleared,
\* raw or summarised, and no other; raw turns come in order and end whole.
THEOREM RestIsKept == MCSpec => []CommandsKeepTheRest
<1>0. Commands!CommandsAssumption
  BY ConversationAssumption
<1>1. CommandsInv => CommandsKeepTheRest
  BY <1>0, CommandsSafe DEF CommandsKeepTheRest
<1> QED BY <1>1, CommandsAlways, CommandsLift, PTL

(***************************************************************************)
(* The types.                                                              *)
(***************************************************************************)
LEMMA RunnerLift == MCSpec => Spec
<1>1. MCInit => Init
  BY DEF MCInit
<1>2. [MCNext]_allVars => [Next]_vars
  BY DEF MCNext, RunnerNext, HistoryNext, TrustNext, ReplNext, LiveTextNext,
         CommandsNext, allVars, terminalVars, runnerVars, vars
<1> QED BY <1>1, <1>2, PTL DEF MCSpec, Spec

LEMMA RunnerAlways == Spec => [](IInv)
<1>0. RunnerAssumption
  BY ConversationAssumption
<1>1. Init => IInv
  BY <1>0, InitIsGood
<1>2. IInv /\ [Next]_vars => (IInv)'
  BY <1>0, NextIsGood
<1> QED BY <1>1, <1>2, PTL DEF Spec

\* Every part keeps its types, the bounds of its counters and buffers included.
THEOREM ConversationTypes == MCSpec => []MCTypeOK
<1>1. IInv => TypeOK
  BY DEF IInv, Item, Call, TypeOK
<1>2. HistoryInv => History!TypeOK
  BY DEF HistoryInv
<1>3. TrustInv => Trust!TypeOK
  BY DEF TrustInv
<1>4. QueueInv /\ LinesInv /\ PromptInv => Repl!TypeOK
  BY ReplTypes
<1>5. LiveInv => LiveText!TypeOK
  BY DEF LiveInv, LiveTypes
<1>6. CommandsInv => Commands!TypeOK
  BY DEF CommandsInv, CommandTypes
<1>7. IInv /\ HistoryInv /\ TrustInv /\ (QueueInv /\ LinesInv /\ PromptInv) /\ LiveInv /\ CommandsInv => MCTypeOK
  BY <1>1, <1>2, <1>3, <1>4, <1>5, <1>6 DEF MCTypeOK
<1> QED BY <1>7, RunnerAlways, RunnerLift, HistoryAlways, HistoryLift, TrustAlways, TrustLift,
           ReplAlways, ReplLift, LiveAlways, LiveLift, CommandsAlways, CommandsLift, PTL

=============================================================================
