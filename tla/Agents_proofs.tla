----------------------------- MODULE Agents_proofs -----------------------------
(***************************************************************************)
(* Agents, for any number of invocations, iterations, retries, calls and   *)
(* events, any todo lists and any trees: the tool loop of an LlmAgent,     *)
(* composite agents, and the types of these and of the ReActAgent, the     *)
(* AgentTool and background tasks. A step of the composition is a step of  *)
(* one part, or leaves its variables alone.                                *)
(***************************************************************************)
EXTENDS MCAgents, Selections_proofs

\* The instance counts as this module does.
LEMMA SameOperators == \A S : Composite!IsFiniteSet(S) = IsFiniteSet(S)
BY Zenon DEF Composite!IsFiniteSet, IsFiniteSet

(***************************************************************************)
(* The tool loop of one agent object that several invocations run at once. *)
(***************************************************************************)
Pc == Over \cup {"start", "hook", "model", "backoff", "recovering", "hookAfter",
                 "parsing", "tools", "responded"}
Owner == Invocations \cup {"none", "other"}
Line == Terminal \cup {"partial", "calls", "responses"}
Msg == [kind : Kinds, n : 0..MaxCalls, board : Boards]

Call == [pc : Pc, iteration : 0..MaxIterations, attempt : 0..(MaxRetries - 1),
         messages : Seq(Msg), calls : 0..MaxCalls, running : SUBSET Nat, ended : BOOLEAN, output : BOOLEAN, shown : Seq(Line),
         error : Owner, waited : BOOLEAN, told : BOOLEAN]

\* The calls of message k have their answers.
Settled(m, k) ==
  m[k].kind = "ai" =>
    \A c \in 1..m[k].n : k + c <= Len(m) /\ m[k + c] = Message("tool", c)

AllSettled(m) == \A k \in 1..Len(m) : Settled(m, k)

\* All but the last message, which is the answer whose tools run.
Unsettled(m, calls) ==
  /\ Len(m) > 0 /\ calls > 0 /\ m[Len(m)] = Message("ai", calls)
  /\ \A k \in 1..(Len(m) - 1) : Settled(m, k)

\* Who was told to go on was shown why, in the system message if there is one.
Reminded(m) ==
  Len(m) > 0 /\ m[Len(m)].kind = "reminder" /\ m[1].kind = "system" => HasPending(m[1].board)

\* The tools that run answer calls of the last answer.
RunningFits(v) ==
  /\ v.running \subseteq 1..v.calls
  /\ v.pc \notin {"tools"} \cup Over => v.running = {}

Good(i, v) ==
  /\ v \in Call
  /\ RunningFits(v)
  /\ v.pc \in {"hook", "model", "backoff", "recovering", "hookAfter"} => AllSettled(v.messages)
  /\ v.pc \in {"tools", "responded"} => Unsettled(v.messages, v.calls)
  /\ v.pc \in {"hook", "model", "backoff"} => Len(v.messages) > 0 /\ Reminded(v.messages)
  /\ v.pc = "recovering" => v.waited
  /\ ~v.waited => v.error \in {"none", i}

LoopInv ==
  /\ board \in Boards /\ lastError \in Owner
  /\ inv \in [Invocations -> Call]
  /\ \A i \in Invocations : Good(i, inv[i])

-----------------------------------------------------------------------------
LEMMA LoopInit == ASSUME LlmAgentAssumption, Init PROVE LoopInv
<1>1. Fresh \in Call
  BY DEF Fresh, Call, Pc, Over, Owner, LlmAgentAssumption
<1>2. \A i \in Invocations : Good(i, Fresh)
  BY <1>1 DEF Good, Fresh, RunningFits
<1> QED BY <1>1, <1>2 DEF Init, LoopInv, LlmAgentAssumption, Owner

LEMMA SetIsGood ==
  ASSUME LoopInv, NEW i \in Invocations, NEW r, Good(i, r), inv' = [inv EXCEPT ![i] = r],
         board' \in Boards, lastError' \in Owner
  PROVE  LoopInv'
BY DEF LoopInv, Good

LEMMA ShowIsTyped ==
  ASSUME NEW s \in Seq(Line), NEW kind \in Line PROVE Show(s, kind) \in Seq(Line)
<1>1. Append(s, kind) \in Seq(Line)
  OBVIOUS
<1>2. Show(s, kind) \in {s, Append(s, kind)}
  BY DEF Show
<1> QED BY <1>1, <1>2

-----------------------------------------------------------------------------
\* What is done to the messages.

LEMMA AppendSettles ==
  ASSUME NEW m \in Seq(Msg), AllSettled(m), NEW x \in Msg, x.kind # "ai" \/ x.n = 0
  PROVE  /\ Append(m, x) \in Seq(Msg) /\ AllSettled(Append(m, x))
         /\ Len(Append(m, x)) = Len(m) + 1 /\ Append(m, x)[Len(m) + 1] = x
<1> DEFINE a == Append(m, x)
<1>1. /\ a \in Seq(Msg) /\ Len(a) = Len(m) + 1 /\ Len(m) \in Nat /\ a[Len(m) + 1] = x
      /\ \A k \in 1..Len(m) : a[k] = m[k]
  OBVIOUS
<1> HIDE DEF a
<1>2. ASSUME NEW k \in 1..Len(a) PROVE Settled(a, k)
  <2>1. CASE k = Len(m) + 1
    BY <1>1, <2>1 DEF Settled, Msg
  <2>2. CASE k \in 1..Len(m)
    <3>1. Settled(m, k) /\ a[k] = m[k] /\ m[k] \in Msg
      BY <1>1, <2>2 DEF AllSettled
    <3>2. ASSUME m[k].kind = "ai", NEW c \in 1..m[k].n
          PROVE  k + c <= Len(a) /\ a[k + c] = Message("tool", c)
      <4>1. k + c \in 1..Len(m) /\ m[k + c] = Message("tool", c)
        BY <1>1, <2>2, <3>1, <3>2 DEF Settled, Msg
      <4> QED BY <1>1, <4>1
    <3> QED BY <3>1, <3>2 DEF Settled
  <2> QED BY <1>1, <2>1, <2>2
<1> QED BY <1>1, <1>2 DEF AllSettled, a

\* messages.extend(tool_messages).
LEMMA ExtendSettles ==
  ASSUME LlmAgentAssumption, NEW m \in Seq(Msg), NEW calls \in 0..MaxCalls,
         Unsettled(m, calls)
  PROVE  LET e == m \o [k \in 1..calls |-> Message("tool", k)]
         IN e \in Seq(Msg) /\ AllSettled(e) /\ Len(e) > 0 /\ e[Len(e)].kind = "tool"
<1> DEFINE t == [k \in 1..calls |-> Message("tool", k)]
           e == m \o t
<1>1. /\ t \in Seq(Msg) /\ Len(t) = calls
      /\ \A k \in 1..calls : t[k] = Message("tool", k) /\ Message("tool", k).kind = "tool"
  BY DEF Message, Msg, Kinds, LlmAgentAssumption
<1> HIDE DEF t
<1>2. /\ e \in Seq(Msg) /\ Len(e) = Len(m) + calls /\ Len(m) \in Nat
      /\ \A k \in 1..Len(m) : e[k] = m[k]
      /\ \A k \in 1..calls : e[Len(m) + k] = Message("tool", k)
  BY <1>1
<1> HIDE DEF e
<1>3. ASSUME NEW k \in 1..Len(e) PROVE Settled(e, k)
  <2>1. CASE k < Len(m)
    <3>1. Settled(m, k) /\ e[k] = m[k] /\ m[k] \in Msg
      <4>1. k \in 1..(Len(m) - 1) /\ k \in 1..Len(m)
        BY <1>2, <2>1
      <4>2. m[k] \in Msg
        BY <4>1, ElementsOf
      <4> QED BY <1>2, <4>1, <4>2 DEF Unsettled
    <3>2. ASSUME m[k].kind = "ai", NEW c \in 1..m[k].n
          PROVE  k + c <= Len(e) /\ e[k + c] = Message("tool", c)
      <4>1. k + c \in 1..Len(m) /\ m[k + c] = Message("tool", c)
        BY <1>2, <2>1, <3>1, <3>2, SMTT(30) DEF Settled, Msg
      <4> QED BY <1>2, <4>1
    <3> QED BY <3>1, <3>2 DEF Settled
  <2>2. CASE k = Len(m)
    <3>1. e[k].n = calls
      BY <1>2, <2>2 DEF Unsettled, Message
    <3>2. ASSUME NEW c \in 1..calls PROVE k + c <= Len(e) /\ e[k + c] = Message("tool", c)
      BY <1>2, <2>2
    <3> QED BY <3>1, <3>2 DEF Settled
  <2>3. CASE k > Len(m)
    <3>1. k - Len(m) \in 1..calls /\ k = Len(m) + (k - Len(m))
      BY <1>2, <2>3
    <3>2. e[k] = Message("tool", k - Len(m))
      BY <1>2, <3>1
    <3> QED BY <1>1, <3>1, <3>2 DEF Settled, Message
  <2> QED BY <1>2, <2>1, <2>2, <2>3
<1>4. calls \in 1..calls /\ Len(e) = Len(m) + calls /\ Len(e) > 0
  BY <1>2 DEF Unsettled
<1>5. e[Len(e)].kind = "tool"
  BY <1>1, <1>2, <1>4
<1> QED BY <1>2, <1>3, <1>4, <1>5 DEF AllSettled, e, t

LEMMA EnrichSettles ==
  ASSUME NEW m \in Seq(Msg), AllSettled(m), Len(m) > 0, NEW b \in Boards
  PROVE  LET e == Enriched(m, b)
         IN /\ e \in Seq(Msg) /\ AllSettled(e) /\ Len(e) = Len(m)
            /\ e[Len(e)].kind = m[Len(m)].kind
            /\ b # {} /\ e[1].kind = "system" => e[1].board = b
<1> DEFINE e == Enriched(m, b)
           x == [m[1] EXCEPT !.board = b]
<1>1. x \in Msg /\ x.kind = m[1].kind /\ x.n = m[1].n /\ x.board = b
  <2>1. m[1] \in Msg
    OBVIOUS
  <2> QED BY <2>1 DEF Msg
<1>2. /\ e \in Seq(Msg) /\ Len(e) = Len(m) /\ Len(m) \in Nat
      /\ \A k \in 1..Len(m) : k > 1 => e[k] = m[k]
      /\ \A k \in 1..Len(m) : e[k].kind = m[k].kind /\ e[k].n = m[k].n
      /\ b # {} /\ e[1].kind = "system" => e[1].board = b
  <2>1. CASE b = {} \/ m[1].kind # "system"
    BY <2>1 DEF Enriched
  <2>2. CASE ~(b = {} \/ m[1].kind # "system")
    BY <1>1, <2>2 DEF Enriched
  <2> QED BY <2>1, <2>2
<1> HIDE DEF e
<1>3. ASSUME NEW k \in 1..Len(e) PROVE Settled(e, k)
  <2>1. Settled(m, k) /\ m[k] \in Msg
    BY <1>2 DEF AllSettled
  <2>2. ASSUME m[k].kind = "ai", NEW c \in 1..m[k].n
        PROVE  k + c <= Len(e) /\ e[k + c] = Message("tool", c)
    <3>1. k + c \in 1..Len(m) /\ k + c > 1 /\ m[k + c] = Message("tool", c)
      BY <1>2, <2>1, <2>2 DEF Settled, Msg
    <3> QED BY <1>2, <3>1
  <2> QED BY <1>2, <2>1, <2>2 DEF Settled
<1> QED BY <1>2, <1>3 DEF AllSettled, e

-----------------------------------------------------------------------------
LEMMA IterateIsGood ==
  ASSUME LlmAgentAssumption, LoopInv, NEW i \in Invocations, NEW m \in Seq(Msg),
         AllSettled(m), Len(m) > 0, inv[i].running = {}, Iterate(i, m), lastError' = lastError,
         m[Len(m)].kind = "reminder" => HasPending(Seeded(board))
  PROVE  LoopInv'
<1> DEFINE v == inv[i]
<1>1. v \in Call /\ Good(i, v) /\ v.shown \in Seq(Line)
  BY DEF LoopInv, Call
<1>2. Seeded(board) \in Boards
  BY DEF Seeded, LoopInv, LlmAgentAssumption
<1>3. CASE v.iteration = MaxIterations
  <2> DEFINE r == [v EXCEPT !.pc = "done", !.messages = m, !.shown = Show(v.shown, "max")]
  <2>1. inv' = [inv EXCEPT ![i] = r] /\ board' = board
    BY <1>3 DEF Iterate, LoopInv
  <2>2. Show(v.shown, "max") \in Seq(Line)
    BY <1>1, ShowIsTyped DEF Line, Terminal
  <2>3. r \in Call /\ r.pc = "done" /\ r.running = v.running /\ r.waited = v.waited
        /\ r.error = v.error
    BY <1>1, <2>2 DEF Call, Pc, Over
  <2> HIDE DEF r
  <2>4. Good(i, r)
    BY <1>1, <2>3 DEF Good, RunningFits
  <2> QED BY <2>1, <2>4, SetIsGood DEF LoopInv
<1>4. CASE v.iteration # MaxIterations /\ v.ended
  <2> DEFINE r == [v EXCEPT !.pc = "done", !.messages = m]
  <2>1. inv' = [inv EXCEPT ![i] = r] /\ board' = board
    BY <1>4 DEF Iterate, LoopInv
  <2>2. r \in Call /\ r.pc = "done" /\ r.running = v.running /\ r.waited = v.waited
        /\ r.error = v.error
    BY <1>1 DEF Call, Pc, Over
  <2> HIDE DEF r
  <2>3. Good(i, r)
    BY <1>1, <2>2 DEF Good, RunningFits
  <2> QED BY <2>1, <2>3, SetIsGood DEF LoopInv
<1>5. CASE v.iteration # MaxIterations /\ ~v.ended
  <2> DEFINE b == Seeded(board)
             e == Enriched(m, b)
             r == [v EXCEPT !.pc = "hook", !.iteration = @ + 1, !.attempt = 0, !.messages = e]
  <2>1. inv' = [inv EXCEPT ![i] = r] /\ board' = b
    BY <1>5 DEF Iterate, LoopInv
  <2>2. /\ e \in Seq(Msg) /\ AllSettled(e) /\ Len(e) > 0
        /\ e[Len(e)].kind = m[Len(m)].kind /\ (b # {} /\ e[1].kind = "system" => e[1].board = b)
    BY <1>2, EnrichSettles
  <2> HIDE DEF e
  <2>3. r \in Call /\ r.pc = "hook" /\ r.messages = e /\ r.running = v.running
        /\ r.waited = v.waited /\ r.error = v.error
    <3>1. v.iteration + 1 \in 0..MaxIterations /\ 0 \in 0..(MaxRetries - 1) /\ "hook" \in Pc
      BY <1>1, <1>5 DEF Call, Pc, LlmAgentAssumption
    <3> HIDE DEF v
    <3> QED BY <1>1, <2>2, <3>1 DEF Call
  <2>4. Reminded(e)
    BY <2>2 DEF Reminded, HasPending
  <2> HIDE DEF r
  <2>5. Good(i, r)
    BY <1>1, <2>2, <2>3, <2>4 DEF Good, RunningFits
  <2> QED BY <1>2, <2>1, <2>5, SetIsGood DEF LoopInv
<1> QED BY <1>1, <1>3, <1>4, <1>5 DEF Call

\* The messages a call begins with, which are one or two.
LEMMA FirstMessages ==
  ASSUME NEW T, NEW x \in T, NEW y \in T
  PROVE  /\ <<>> \o <<y>> \in Seq(T) /\ Len(<<>> \o <<y>>) = 1 /\ (<<>> \o <<y>>)[1] = y
         /\ <<x>> \o <<y>> \in Seq(T) /\ Len(<<x>> \o <<y>>) = 2
         /\ (<<x>> \o <<y>>)[1] = x /\ (<<x>> \o <<y>>)[2] = y
<1>1. <<>> \in Seq(T) /\ Len(<<>>) = 0
  OBVIOUS
<1>2. ASSUME NEW z \in T PROVE <<z>> \in Seq(T) /\ Len(<<z>>) = 1 /\ <<z>>[1] = z
  OBVIOUS
<1>3. ASSUME NEW s \in Seq(T), NEW t \in Seq(T), Len(t) = 1
      PROVE  /\ s \o t \in Seq(T) /\ Len(s \o t) = Len(s) + 1 /\ (s \o t)[Len(s) + 1] = t[1]
             /\ \A k \in 1..Len(s) : (s \o t)[k] = s[k]
  <2>1. s \o t \in Seq(T) /\ Len(s \o t) = Len(s) + Len(t) /\ Len(s) \in Nat
    OBVIOUS
  <2>2. \A k \in 1..Len(s) : (s \o t)[k] = s[k]
    OBVIOUS
  <2>3. (s \o t)[Len(s) + 1] = t[Len(s) + 1 - Len(s)]
    BY <1>3, <2>1
  <2> QED BY <1>3, <2>1, <2>2, <2>3
<1>4. <<>> \o <<y>> \in Seq(T) /\ Len(<<>> \o <<y>>) = 1 /\ (<<>> \o <<y>>)[1] = y
  <2> DEFINE s == <<>>
             t == <<y>>
  <2>1. s \in Seq(T) /\ Len(s) = 0 /\ t \in Seq(T) /\ Len(t) = 1 /\ t[1] = y
    BY <1>1, <1>2
  <2> HIDE DEF s, t
  <2>2. s \o t \in Seq(T) /\ Len(s \o t) = 1 /\ (s \o t)[1] = y
    BY <1>3, <2>1
  <2> QED BY <2>2 DEF s, t
<1>5. /\ <<x>> \o <<y>> \in Seq(T) /\ Len(<<x>> \o <<y>>) = 2
      /\ (<<x>> \o <<y>>)[1] = x /\ (<<x>> \o <<y>>)[2] = y
  <2> DEFINE s == <<x>>
             t == <<y>>
  <2>1. s \in Seq(T) /\ Len(s) = 1 /\ s[1] = x /\ t \in Seq(T) /\ Len(t) = 1 /\ t[1] = y
    BY <1>2
  <2> HIDE DEF s, t
  <2>2. s \o t \in Seq(T) /\ Len(s \o t) = 2 /\ (s \o t)[2] = y /\ (s \o t)[1] = s[1]
    BY <1>3, <2>1
  <2> QED BY <2>1, <2>2 DEF s, t
<1> QED BY <1>4, <1>5

LEMMA BeginIsGood ==
  ASSUME LlmAgentAssumption, LoopInv, NEW i \in Invocations, Begin(i) PROVE LoopInv'
<1> DEFINE x == Message("system", 0)
           y == Message("human", 0)
<1>1. x \in Msg /\ y \in Msg /\ x.kind = "system" /\ y.kind = "human"
  BY DEF Message, Msg, Kinds, LlmAgentAssumption
<1>2. PICK m \in {<<>> \o <<y>>, <<x>> \o <<y>>} : Iterate(i, m)
  <2>1. PICK instructed \in BOOLEAN : Iterate(i, (IF instructed THEN <<x>> ELSE <<>>) \o <<y>>)
    BY DEF Begin
  <2>2. CASE instructed
    BY <2>1, <2>2
  <2>3. CASE ~instructed
    BY <2>1, <2>3
  <2> QED BY <2>2, <2>3
<1> HIDE DEF x, y
<1>3. m \in Seq(Msg) /\ Len(m) \in {1, 2} /\ \A k \in 1..Len(m) : m[k] \in {x, y}
  <2>1. CASE m = <<>> \o <<y>>
    BY <1>1, <2>1, FirstMessages
  <2>2. CASE m = <<x>> \o <<y>>
    BY <1>1, <2>2, FirstMessages
  <2> QED BY <2>1, <2>2
<1>4. Len(m) \in 1..Len(m) /\ \A k \in 1..Len(m) : m[k].kind \in {"system", "human"}
  <2>1. Len(m) \in 1..Len(m)
    BY <1>3
  <2>2. ASSUME NEW k \in 1..Len(m) PROVE m[k].kind \in {"system", "human"}
    <3>1. m[k] = x \/ m[k] = y
      BY <1>3
    <3> QED BY <1>1, <3>1
  <2> QED BY <2>1, <2>2
<1>5. AllSettled(m)
  BY <1>4 DEF AllSettled, Settled
<1>6. Len(m) > 0 /\ m[Len(m)].kind # "reminder"
  BY <1>3, <1>4
<1>7. lastError' = lastError /\ inv[i].running = {}
  BY DEF Begin, LoopInv, Good, RunningFits, Over
<1> QED BY <1>2, <1>3, <1>5, <1>6, <1>7, IterateIsGood

LEMMA ConcludeIsGood ==
  ASSUME LlmAgentAssumption, LoopInv, NEW i \in Invocations, Conclude(i) PROVE LoopInv'
<1> DEFINE v == inv[i]
           a == Answered(i)
<1>1. v \in Call /\ Good(i, v) /\ v.pc = "hookAfter" /\ v.calls = 0 /\ v.messages \in Seq(Msg)
      /\ AllSettled(v.messages) /\ v.shown \in Seq(Line) /\ v.running = {}
  BY DEF LoopInv, Call, Conclude, Good, RunningFits, Over
<1>2. Message("ai", 0) \in Msg /\ Message("ai", 0).n = 0
      /\ Message("reminder", 0) \in Msg /\ Message("reminder", 0).kind = "reminder"
  BY DEF Message, Msg, Kinds, LlmAgentAssumption
<1>3. a \in Seq(Msg) /\ AllSettled(a)
  BY <1>1, <1>2, AppendSettles DEF Answered
<1> HIDE DEF a
<1>4. CASE HasPending(Seeded(board))
  <2> DEFINE m == Append(a, Message("reminder", 0))
  <2>1. m \in Seq(Msg) /\ AllSettled(m) /\ Len(m) > 0
    BY <1>2, <1>3, AppendSettles
  <2>2. Iterate(i, m) /\ lastError' = lastError
    BY <1>4 DEF Conclude, a
  <2>3. inv[i].running = {}
    BY <1>1
  <2> HIDE DEF m, v
  <2> QED BY <1>4, <2>1, <2>2, <2>3, IterateIsGood
<1>5. CASE ~HasPending(Seeded(board))
  <2>1. UNCHANGED <<board, lastError>>
    BY <1>5 DEF Conclude
  <2>2. ASSUME NEW kind \in {"final", "blank"}, ShowFinal(i, a, kind) PROVE LoopInv'
    <3> DEFINE r == [v EXCEPT !.pc = "done", !.messages = a, !.shown = Show(v.shown, kind),
                              !.output = (kind = "final")]
    <3>1. inv' = [inv EXCEPT ![i] = r]
      BY <2>2 DEF ShowFinal, LoopInv
    <3>2. Show(v.shown, kind) \in Seq(Line)
      BY <1>1, ShowIsTyped DEF Line, Terminal
    <3>3. r \in Call /\ r.pc = "done" /\ r.running = v.running /\ r.waited = v.waited
        /\ r.error = v.error
      BY <1>1, <1>3, <3>2, ZenonT(60) DEF Call, Pc, Over
    <3> HIDE DEF r
    <3>4. Good(i, r)
      BY <1>1, <3>3 DEF Good, RunningFits
    <3> QED BY <2>1, <3>1, <3>4, SetIsGood DEF LoopInv
  <2>3. ASSUME inv' = [inv EXCEPT ![i].pc = "parsing", ![i].messages = a] PROVE LoopInv'
    <3> DEFINE r == [v EXCEPT !.pc = "parsing", !.messages = a]
    <3>1. inv' = [inv EXCEPT ![i] = r]
      BY <2>3 DEF LoopInv
    <3>2. r \in Call /\ r.pc = "parsing" /\ r.running = v.running /\ r.waited = v.waited
          /\ r.error = v.error
      BY <1>1, <1>3 DEF Call, Pc
    <3> HIDE DEF r
    <3>3. Good(i, r)
      BY <1>1, <3>2 DEF Good, RunningFits
    <3> QED BY <2>1, <3>1, <3>3, SetIsGood DEF LoopInv
  <2> QED BY <1>5, <2>2, <2>3 DEF Conclude, a
<1> QED BY <1>4, <1>5

LEMMA ExtendIsGood ==
  ASSUME LlmAgentAssumption, LoopInv, NEW i \in Invocations, Extend(i) PROVE LoopInv'
<1> DEFINE v == inv[i]
           e == v.messages \o [k \in 1..v.calls |-> Message("tool", k)]
<1>1. v.messages \in Seq(Msg) /\ v.calls \in 0..MaxCalls /\ Unsettled(v.messages, v.calls)
      /\ v.running = {}
  BY DEF LoopInv, Call, Extend, Good, RunningFits, Over
<1>2. e \in Seq(Msg) /\ AllSettled(e) /\ Len(e) > 0 /\ e[Len(e)].kind = "tool"
  BY <1>1, ExtendSettles
<1>3. Iterate(i, e) /\ lastError' = lastError
  BY DEF Extend
<1>4. inv[i].running = {}
  BY <1>1
<1> HIDE DEF e, v
<1> QED BY <1>2, <1>3, <1>4, IterateIsGood

-----------------------------------------------------------------------------
\* A step that leaves the messages and moves to a place that asks no more of
\* them, or no other.
LEMMA MoveIsGood ==
  ASSUME LoopInv, NEW i \in Invocations, NEW r \in Call, inv' = [inv EXCEPT ![i] = r],
         board' \in Boards, lastError' \in Owner,
         r.messages = inv[i].messages, r.running \subseteq inv[i].running,
         \/ r.pc = inv[i].pc /\ r.calls = inv[i].calls
         \/ r.pc \in Over /\ r.calls = inv[i].calls
         \/ inv[i].pc = "tools" /\ r.pc = "responded" /\ r.calls = inv[i].calls /\ r.running = {}
         \/ /\ inv[i].pc \in {"hook", "model", "backoff"}
            /\ r.pc \in {"model", "backoff", "recovering", "hookAfter"}
         \/ inv[i].pc = "recovering" /\ r.pc = "hookAfter",
         r.pc = "recovering" => r.waited,
         ~r.waited => r.error \in {"none", i}
  PROVE  LoopInv'
<1>1. Good(i, inv[i])
  BY DEF LoopInv
<1>2. Good(i, r)
  BY <1>1 DEF Good, Over, RunningFits
<1> QED BY <1>2, SetIsGood

LEMMA ModelIsGood ==
  ASSUME LlmAgentAssumption, LoopInv, NEW i \in Invocations,
         \/ BeforeModel(i) \/ Partial(i) \/ ModelFails(i) \/ Backoff(i) \/ Recover(i) \/ Raise(i)
         \/ \E n \in 0..MaxCalls : Answer(i, n)
  PROVE  LoopInv'
<1> DEFINE v == inv[i]
<1>1. /\ v \in Call /\ Good(i, v) /\ v.shown \in Seq(Line) /\ v.attempt \in 0..(MaxRetries - 1)
      /\ board \in Boards /\ lastError \in Owner /\ i \in Owner /\ inv \in [Invocations -> Call]
  BY DEF LoopInv, Call, Owner
<1>2. Show(v.shown, "error") \in Seq(Line) /\ Show(v.shown, "partial") \in Seq(Line)
  BY <1>1, ShowIsTyped DEF Line, Terminal
<1>3. CASE BeforeModel(i)
  <2>1. CASE inv' = [inv EXCEPT ![i].pc = "model"]
    <3> DEFINE r == [v EXCEPT !.pc = "model"]
    <3>1. inv' = [inv EXCEPT ![i] = r]
      BY <1>1, <2>1
    <3>2. /\ r \in Call /\ r.pc = "model" /\ r.messages = v.messages /\ r.running = v.running
          /\ r.calls = v.calls /\ r.waited = v.waited
          /\ r.error = v.error
      BY <1>1 DEF Call, Pc
    <3> HIDE DEF r
    <3> QED BY <1>1, <1>3, <3>1, <3>2, MoveIsGood DEF BeforeModel, Good
  <2>2. CASE inv' = [inv EXCEPT ![i].pc = "done", ![i].shown = Show(@, "error"), ![i].error = i]
    <3> DEFINE r == [v EXCEPT !.pc = "done", !.shown = Show(@, "error"), !.error = i]
    <3>1. inv' = [inv EXCEPT ![i] = r]
      BY <1>1, <2>2
    <3>2. r \in Call /\ r.pc \in Over /\ r.messages = v.messages /\ r.running = v.running
          /\ r.calls = v.calls /\ r.error = i /\ r.pc = "done"
      BY <1>1, <1>2 DEF Call, Pc, Over
    <3> HIDE DEF r
    <3> QED BY <1>1, <1>3, <3>1, <3>2, MoveIsGood DEF BeforeModel
  <2> QED BY <1>3, <2>1, <2>2 DEF BeforeModel
<1>4. CASE Partial(i)
  <2> DEFINE r == [v EXCEPT !.shown = Show(@, "partial")]
  <2>1. inv' = [inv EXCEPT ![i] = r]
    BY <1>1, <1>4 DEF Partial
  <2>2. /\ r \in Call /\ r.pc = v.pc /\ r.messages = v.messages /\ r.running = v.running
        /\ r.calls = v.calls
        /\ r.waited = v.waited /\ r.error = v.error
    BY <1>1, <1>2 DEF Call
  <2> HIDE DEF r
  <2> QED BY <1>1, <1>4, <2>1, <2>2, MoveIsGood DEF Partial, Good
<1>5. CASE ModelFails(i)
  <2>1. CASE /\ v.attempt < MaxRetries - 1
             /\ inv' = [inv EXCEPT ![i].pc = "backoff", ![i].attempt = @ + 1]
    <3> DEFINE r == [v EXCEPT !.pc = "backoff", !.attempt = @ + 1]
    <3>1. inv' = [inv EXCEPT ![i] = r]
      BY <1>1, <2>1
    <3>2. /\ r \in Call /\ r.pc = "backoff" /\ r.messages = v.messages /\ r.running = v.running
          /\ r.calls = v.calls /\ r.waited = v.waited
          /\ r.error = v.error
      <4>1. v.attempt + 1 \in 0..(MaxRetries - 1) /\ "backoff" \in Pc
        BY <1>1, <2>1 DEF Pc, LlmAgentAssumption
      <4> HIDE DEF v
      <4> QED BY <1>1, <4>1 DEF Call
    <3> HIDE DEF r
    <3> QED BY <1>1, <1>5, <3>1, <3>2, MoveIsGood DEF ModelFails, Good
  <2>2. CASE inv' = [inv EXCEPT ![i].pc = "recovering", ![i].waited = TRUE]
    <3> DEFINE r == [v EXCEPT !.pc = "recovering", !.waited = TRUE]
    <3>1. inv' = [inv EXCEPT ![i] = r]
      BY <1>1, <2>2
    <3>2. r \in Call /\ r.pc = "recovering" /\ r.messages = v.messages /\ r.running = v.running
          /\ r.calls = v.calls /\ r.waited
      BY <1>1 DEF Call, Pc
    <3> HIDE DEF r
    <3> QED BY <1>1, <1>5, <3>1, <3>2, MoveIsGood DEF ModelFails
  <2>3. CASE inv' = [inv EXCEPT ![i].pc = "done", ![i].shown = Show(@, "error"), ![i].error = i]
    <3> DEFINE r == [v EXCEPT !.pc = "done", !.shown = Show(@, "error"), !.error = i]
    <3>1. inv' = [inv EXCEPT ![i] = r]
      BY <1>1, <2>3
    <3>2. r \in Call /\ r.pc \in Over /\ r.messages = v.messages /\ r.running = v.running
          /\ r.calls = v.calls /\ r.error = i /\ r.pc = "done"
      BY <1>1, <1>2 DEF Call, Pc, Over
    <3> HIDE DEF r
    <3> QED BY <1>1, <1>5, <3>1, <3>2, MoveIsGood DEF ModelFails
  <2> QED BY <1>5, <2>1, <2>2, <2>3 DEF ModelFails
<1>6. CASE Backoff(i)
  <2> DEFINE r == [v EXCEPT !.pc = "model"]
  <2>1. inv' = [inv EXCEPT ![i] = r]
    BY <1>1, <1>6 DEF Backoff
  <2>2. /\ r \in Call /\ r.pc = "model" /\ r.messages = v.messages /\ r.running = v.running
        /\ r.calls = v.calls /\ r.waited = v.waited
        /\ r.error = v.error
    BY <1>1 DEF Call, Pc
  <2> HIDE DEF r
  <2> QED BY <1>1, <1>6, <2>1, <2>2, MoveIsGood DEF Backoff, Good
<1>7. CASE Recover(i)
  <2>1. v.waited /\ v.pc = "recovering"
    BY <1>1, <1>7 DEF Recover, Good
  <2>2. CASE inv' = [inv EXCEPT ![i].pc = "hookAfter", ![i].calls = 0]
    <3> DEFINE r == [v EXCEPT !.pc = "hookAfter", !.calls = 0]
    <3>1. inv' = [inv EXCEPT ![i] = r]
      BY <1>1, <2>2
    <3>2. r \in Call /\ r.pc = "hookAfter" /\ r.messages = v.messages /\ r.running = v.running
          /\ r.waited
      <4>1. 0 \in 0..MaxCalls /\ "hookAfter" \in Pc
        BY DEF Pc, LlmAgentAssumption
      <4> QED BY <1>1, <2>1, <4>1 DEF Call
    <3> HIDE DEF r
    <3> QED BY <1>1, <1>7, <2>1, <3>1, <3>2, MoveIsGood DEF Recover
  <2>3. CASE inv' = [inv EXCEPT ![i].pc = "done", ![i].shown = Show(@, "error"),
                                ![i].error = lastError]
    <3> DEFINE r == [v EXCEPT !.pc = "done", !.shown = Show(@, "error"), !.error = lastError]
    <3>1. inv' = [inv EXCEPT ![i] = r]
      BY <1>1, <2>3
    <3>2. r \in Call /\ r.pc \in Over /\ r.messages = v.messages /\ r.running = v.running
          /\ r.calls = v.calls /\ r.waited /\ r.pc = "done"
      BY <1>1, <1>2, <2>1 DEF Call, Pc, Over
    <3> HIDE DEF r
    <3> QED BY <1>1, <1>7, <3>1, <3>2, MoveIsGood DEF Recover
  <2> QED BY <1>7, <2>2, <2>3 DEF Recover
<1>8. CASE Raise(i)
  <2> DEFINE r == [v EXCEPT !.pc = "raised"]
  <2>1. inv' = [inv EXCEPT ![i] = r]
    BY <1>1, <1>8 DEF Raise
  <2>2. /\ r \in Call /\ r.pc = "raised" /\ r.pc \in Over /\ r.messages = v.messages /\ r.running = v.running
        /\ r.calls = v.calls
        /\ r.waited = v.waited /\ r.error = v.error
    BY <1>1 DEF Call, Pc, Over
  <2> HIDE DEF r
  <2> QED BY <1>1, <1>8, <2>1, <2>2, MoveIsGood DEF Raise, Good
<1>9. ASSUME NEW n \in 0..MaxCalls, Answer(i, n) PROVE LoopInv'
  <2> DEFINE r == [v EXCEPT !.pc = "hookAfter", !.calls = n]
  <2>1. inv' = [inv EXCEPT ![i] = r]
    BY <1>1, <1>9 DEF Answer
  <2>2. /\ r \in Call /\ r.pc = "hookAfter" /\ r.messages = v.messages /\ r.running = v.running
        /\ r.waited = v.waited
        /\ r.error = v.error
    BY <1>1 DEF Call, Pc
  <2> HIDE DEF r
  <2> QED BY <1>1, <1>9, <2>1, <2>2, MoveIsGood, ZenonT(60) DEF Answer, Good
<1> QED BY <1>3, <1>4, <1>5, <1>6, <1>7, <1>8, <1>9

LEMMA ToolsAreGood ==
  ASSUME LlmAgentAssumption, LoopInv, NEW i \in Invocations,
         \/ StartTools(i) \/ EndFromTool(i) \/ ShowResponses(i)
         \/ \E c \in 1..MaxCalls : ToolEnds(i, c)
  PROVE  LoopInv'
<1> DEFINE v == inv[i]
<1>1. /\ v \in Call /\ Good(i, v) /\ v.shown \in Seq(Line) /\ v.running \in SUBSET Nat
      /\ v.calls \in 0..MaxCalls /\ v.messages \in Seq(Msg) /\ board \in Boards /\ lastError \in Owner
      /\ inv \in [Invocations -> Call]
  BY DEF LoopInv, Call
<1>2. Show(v.shown, "calls") \in Seq(Line) /\ Show(v.shown, "responses") \in Seq(Line)
  BY <1>1, ShowIsTyped DEF Line
<1>3. CASE StartTools(i)
  <2> DEFINE a == Answered(i)
             r == [v EXCEPT !.pc = "tools", !.messages = a, !.running = 1..v.calls,
                            !.shown = Show(@, "calls")]
  <2>1. inv' = [inv EXCEPT ![i] = r] /\ UNCHANGED <<board, lastError>>
    BY <1>1, <1>3 DEF StartTools
  <2>2. Message("ai", v.calls) \in Msg
    BY <1>1 DEF Message, Msg, Kinds, LlmAgentAssumption
  <2>3. /\ a \in Seq(Msg) /\ Len(a) = Len(v.messages) + 1 /\ Len(v.messages) \in Nat
        /\ a[Len(a)] = Message("ai", v.calls)
        /\ \A k \in 1..Len(v.messages) : a[k] = v.messages[k]
    BY <1>1, <2>2 DEF Answered
  <2> HIDE DEF a
  <2>4. ASSUME NEW k \in 1..(Len(a) - 1) PROVE Settled(a, k)
    <3>1. /\ k \in 1..Len(v.messages) /\ Settled(v.messages, k)
          /\ a[k] = v.messages[k] /\ v.messages[k] \in Msg
      BY <1>1, <1>3, <2>3 DEF StartTools, Good, AllSettled
    <3>2. ASSUME v.messages[k].kind = "ai", NEW c \in 1..v.messages[k].n
          PROVE  k + c <= Len(a) /\ a[k + c] = Message("tool", c)
      <4>1. k + c \in 1..Len(v.messages) /\ v.messages[k + c] = Message("tool", c)
        BY <2>3, <3>1, <3>2 DEF Settled, Msg
      <4> QED BY <2>3, <4>1
    <3> QED BY <3>1, <3>2 DEF Settled
  <2>5. /\ r \in Call /\ r.pc = "tools" /\ r.messages = a /\ r.calls = v.calls
        /\ r.running = 1..v.calls /\ r.waited = v.waited /\ r.error = v.error
    <3>1. 1..v.calls \in SUBSET Nat /\ "tools" \in Pc
      BY <1>1 DEF Pc
    <3> HIDE DEF v
    <3> QED BY <1>1, <1>2, <2>3, <3>1 DEF Call
  <2>6. Unsettled(a, v.calls)
    BY <1>1, <1>3, <2>3, <2>4 DEF StartTools, Unsettled
  <2> HIDE DEF r
  <2>7. Good(i, r)
    BY <1>1, <2>5, <2>6 DEF Good, RunningFits
  <2> QED BY <1>1, <2>1, <2>7, SetIsGood
<1>4. CASE EndFromTool(i)
  <2> DEFINE r == [v EXCEPT !.told = TRUE]
  <2>1. inv' = [inv EXCEPT ![i] = r]
    BY <1>1, <1>4 DEF EndFromTool
  <2>2. /\ r \in Call /\ r.pc = v.pc /\ r.messages = v.messages /\ r.running = v.running
        /\ r.calls = v.calls
        /\ r.waited = v.waited /\ r.error = v.error
    BY <1>1 DEF Call
  <2> HIDE DEF r
  <2> QED BY <1>1, <1>4, <2>1, <2>2, MoveIsGood DEF EndFromTool, Good
<1>5. CASE ShowResponses(i)
  <2> DEFINE r == [v EXCEPT !.pc = "responded", !.shown = Show(@, "responses")]
  <2>1. inv' = [inv EXCEPT ![i] = r]
    BY <1>1, <1>5 DEF ShowResponses
  <2>2. /\ r \in Call /\ r.pc = "responded" /\ r.messages = v.messages /\ r.running = v.running
        /\ r.calls = v.calls
        /\ r.waited = v.waited /\ r.error = v.error
    BY <1>1, <1>2 DEF Call, Pc
  <2>3. r.running = {} /\ v.pc = "tools" /\ UNCHANGED <<board, lastError>>
    BY <1>5, <2>2 DEF ShowResponses
  <2>4. ~r.waited => r.error \in {"none", i}
    BY <1>1, <2>2 DEF Good
  <2> HIDE DEF r
  <2> QED BY <1>1, <2>1, <2>2, <2>3, <2>4, MoveIsGood
<1>6. ASSUME NEW c \in 1..MaxCalls, ToolEnds(i, c) PROVE LoopInv'
  <2> DEFINE r == [v EXCEPT !.running = @ \ {c}]
  <2>1. inv' = [inv EXCEPT ![i] = r]
    BY <1>1, <1>6 DEF ToolEnds
  <2>2. /\ r \in Call /\ r.pc = v.pc /\ r.messages = v.messages /\ r.running \subseteq v.running
        /\ r.calls = v.calls
        /\ r.waited = v.waited /\ r.error = v.error
    BY <1>1 DEF Call
  <2>3. board' \in Boards /\ lastError' \in Owner
    BY <1>1, <1>6 DEF ToolEnds
  <2>4. ~r.waited => r.error \in {"none", i}
    BY <1>1, <2>2 DEF Good, RunningFits
  <2>5. r.pc # "recovering"
    BY <1>6, <2>2 DEF ToolEnds
  <2> HIDE DEF r
  <2> QED BY <2>1, <2>2, <2>3, <2>4, <2>5, <1>1, MoveIsGood
<1> QED BY <1>3, <1>4, <1>5, <1>6

LEMMA EndsAreGood ==
  ASSUME LlmAgentAssumption, LoopInv, NEW i \in Invocations,
         Parsed(i) \/ EndFromOutside(i) \/ Close(i)
  PROVE  LoopInv'
<1> DEFINE v == inv[i]
<1>1. /\ v \in Call /\ Good(i, v) /\ v.shown \in Seq(Line) /\ board \in Boards
      /\ lastError \in Owner /\ inv \in [Invocations -> Call]
  BY DEF LoopInv, Call
<1>2. ASSUME NEW kind \in {"final", "blank"}, Parsed(i), ShowFinal(i, v.messages, kind)
      PROVE  LoopInv'
  <2> DEFINE r == [v EXCEPT !.pc = "done", !.messages = v.messages, !.shown = Show(@, kind),
                            !.output = (kind = "final")]
  <2>1. inv' = [inv EXCEPT ![i] = r]
    BY <1>1, <1>2 DEF ShowFinal
  <2>2. Show(v.shown, kind) \in Seq(Line)
    BY <1>1, ShowIsTyped DEF Line, Terminal
  <2>3. /\ r \in Call /\ r.pc = "done" /\ r.pc \in Over /\ r.messages = v.messages /\ r.running = v.running
        /\ r.calls = v.calls
        /\ r.waited = v.waited /\ r.error = v.error
    BY <1>1, <2>2 DEF Call, Pc, Over
  <2> HIDE DEF r
  <2> QED BY <1>1, <1>2, <2>1, <2>3, MoveIsGood DEF Parsed, Good
<1>3. CASE EndFromOutside(i)
  <2> DEFINE r == [v EXCEPT !.ended = TRUE]
  <2>1. inv' = [inv EXCEPT ![i] = r]
    BY <1>1, <1>3 DEF EndFromOutside
  <2>2. /\ r \in Call /\ r.pc = v.pc /\ r.messages = v.messages /\ r.running = v.running
        /\ r.calls = v.calls
        /\ r.waited = v.waited /\ r.error = v.error
    BY <1>1 DEF Call
  <2> HIDE DEF r
  <2> QED BY <1>1, <1>3, <2>1, <2>2, MoveIsGood DEF EndFromOutside, Good
<1>4. CASE Close(i)
  <2> DEFINE r == [v EXCEPT !.pc = "closed"]
  <2>1. inv' = [inv EXCEPT ![i] = r]
    BY <1>1, <1>4 DEF Close
  <2>2. /\ r \in Call /\ r.pc = "closed" /\ r.pc \in Over /\ r.messages = v.messages /\ r.running = v.running
        /\ r.calls = v.calls
        /\ r.waited = v.waited /\ r.error = v.error
    BY <1>1 DEF Call, Pc, Over
  <2> HIDE DEF r
  <2> QED BY <1>1, <1>4, <2>1, <2>2, MoveIsGood DEF Close, Good
<1> QED BY <1>2, <1>3, <1>4 DEF Parsed

-----------------------------------------------------------------------------
LEMMA LoopStep == ASSUME LlmAgentAssumption, LoopInv, [Next]_vars PROVE LoopInv'
<1>1. CASE UNCHANGED vars
  BY <1>1 DEF vars, LoopInv
<1>2. CASE Others
  BY <1>2 DEF Others, LoopInv, Owner
<1> QED
  BY <1>1, <1>2, BeginIsGood, ConcludeIsGood, ExtendIsGood, ModelIsGood, ToolsAreGood,
     EndsAreGood DEF Next, Run

\* TaskPlanner._seeded is only ever set.
SeededTyped == seeded \in BOOLEAN

LEMMA SeededIsTyped == Init /\ [][Next]_vars => []SeededTyped
<1>1. Init => SeededTyped
  BY DEF Init, SeededTyped
<1>2. ASSUME SeededTyped, [Next]_vars PROVE SeededTyped'
  <2>1. CASE seeded' = seeded
    BY <1>2, <2>1 DEF SeededTyped
  <2>2. CASE seeded' = (seeded \/ InitialTasks # {})
    BY <1>2, <2>2 DEF SeededTyped
  <2>3. \A i, m : Iterate(i, m) =>
          seeded' = seeded \/ seeded' = (seeded \/ InitialTasks # {})
    BY DEF Iterate
  <2> QED
    BY <1>2, <2>1, <2>2, <2>3, ZenonT(60)
    DEF Next, Run, vars, Others, Begin, BeforeModel, ModelFails, Backoff, Recover, Raise,
        StartTools, Conclude, Parsed, ShowResponses, Extend, Answer, ToolEnds, Partial,
        EndFromTool, EndFromOutside, Close
<1> QED BY <1>1, <1>2, PTL

LEMMA LoopAlways == ASSUME LlmAgentAssumption PROVE Init /\ [][Next]_vars => []LoopInv
<1>1. Init => LoopInv
  BY LoopInit
<1>2. LoopInv /\ [Next]_vars => LoopInv'
  BY LoopStep
<1> QED BY <1>1, <1>2, PTL

\* The types of LlmAgent's variables.
LEMMA AgentIsTyped ==
  ASSUME LlmAgentAssumption PROVE Init /\ [][Next]_vars => []TypeOK
<1>1. ASSUME LoopInv, SeededTyped PROVE TypeOK
  <2>1. ASSUME NEW i \in Invocations
        PROVE  LET v == inv[i] IN
               /\ v.pc \in Over \cup {"start", "hook", "model", "backoff", "recovering",
                                      "hookAfter", "parsing", "tools", "responded"}
               /\ v.iteration \in 0..MaxIterations /\ v.attempt \in 0..(MaxRetries - 1)
               /\ v.messages \in Seq([kind : Kinds, n : 0..MaxCalls, board : Boards])
               /\ v.running \subseteq 1..v.calls /\ v.calls \in 0..MaxCalls
               /\ v.shown \in Seq(Terminal \cup {"partial", "calls", "responses"})
               /\ v.error \in Invocations \cup {"none", "other"}
               /\ {v.ended, v.output, v.waited, v.told} \subseteq BOOLEAN
    BY <1>1 DEF LoopInv, Good, RunningFits, Call, Pc, Msg, Line, Owner
  <2> QED BY <1>1, <2>1 DEF TypeOK, LoopInv, Owner, SeededTyped
<1> QED BY <1>1, LoopAlways, SeededIsTyped, PTL

\* LlmAgent.astream and ToolExecutor.execute: whenever the model is called,
\* every message of it that made calls is followed at once by one answer per
\* call, in order, however many iterations, retries and reminders there were.
THEOREM CallsHaveAnswers == ASSUME LlmAgentAssumption PROVE Spec => []CallsAreAnswered
<1>1. LoopInv => CallsAreAnswered
  <2> SUFFICES ASSUME LoopInv, NEW i \in Invocations, inv[i].pc = "model",
                      NEW k \in DOMAIN inv[i].messages, inv[i].messages[k].kind = "ai",
                      NEW c \in 1..inv[i].messages[k].n
               PROVE  /\ k + c <= Len(inv[i].messages)
                      /\ inv[i].messages[k + c] = Message("tool", c)
    BY DEF CallsAreAnswered
  <2>1. inv[i].messages \in Seq(Msg) /\ AllSettled(inv[i].messages)
    BY DEF LoopInv, Call, Good
  <2>2. k \in 1..Len(inv[i].messages)
    BY <2>1
  <2> QED BY <2>1, <2>2 DEF AllSettled, Settled
<1> QED BY <1>1, LoopAlways, PTL DEF Spec

\* TaskPlanner.should_continue and enrich_prompt: a model that is told to go on
\* is shown a board with a pending task, although the board is shared by any
\* number of invocations.
THEOREM RemindersAreTrue == ASSUME LlmAgentAssumption PROVE Spec => []ReminderMatchesBoard
<1>1. LoopInv => ReminderMatchesBoard
  BY DEF LoopInv, Good, Reminded, ReminderMatchesBoard, Last
<1> QED BY <1>1, LoopAlways, PTL DEF Spec

\* LlmAgent._call_llm_with_recovery: the error an invocation shows is its own,
\* unless it awaited on_model_error, however many share _last_llm_error.
THEOREM ErrorsAreOwn == ASSUME LlmAgentAssumption PROVE Spec => []ErrorIsOwn
<1>1. LoopInv => ErrorIsOwn
  BY DEF LoopInv, Good, ErrorIsOwn
<1> QED BY <1>1, LoopAlways, PTL DEF Spec

(***************************************************************************)
(* Trees of agents. An event that escalates ends the outermost loop it     *)
(* passes; what keeps quiet afterwards is everything below that loop, and  *)
(* since no loop and no fork is above it, nothing starts it again.         *)
(***************************************************************************)
Members(t) == DOMAIN t.kind
Heard(t) == [at : Members(t) \cup {Composite!Consumer}, n : Nat, final : BOOLEAN, escalate : BOOLEAN]
Sts == {"idle", "running", "ended", "raised", "dropped", "joined"}
Locals(t) ==
  [st : Sts, step : Nat, iteration : Nat, input : Heard(t), next : Heard(t),
   ended : BOOLEAN, emitted : Nat]

\* The counters of a run of n are within their bounds.
Within(t, n, v) ==
  /\ v.step <= Len(t.kids[n]) /\ v.iteration <= Passes
  /\ t.kind[n] = "loop" /\ v.step > 0 => v.iteration < Passes
  /\ t.kind[n] = "leaf" => v.emitted <= t.events[n]
  /\ t.kind[n] \in {"sequence", "loop"} => v.emitted = 0
  /\ t.kind[n] = "parallel" =>
       v.emitted <= Len(t.kids[n]) /\ (v.st = "running" => v.emitted < Len(t.kids[n]))

LocalsTyped(t, ns) == ns \in [Members(t) -> Locals(t)] /\ \A n \in Members(t) : Within(t, n, ns[n])

TreeTypes(t, ns, q, w, sh) ==
  /\ t \in Trees /\ LocalsTyped(t, ns)
  /\ q \in [Members(t) -> Seq(Heard(t) \cup {Composite!End})] /\ sh \in Seq(Heard(t))
  /\ w = Composite!None \/ w \in [at : Members(t), event : Heard(t)]

\* The events of n reach the consumer without a queue.
Open(t, n) == \A p \in t.above[n] : t.kind[p] # "parallel"

\* Event e is one that x may have yielded.
From(t, e, x) ==
  /\ e.at \in Members(t)
  /\ e.at = x \/ (t.kind[x] = "parallel" /\ x \in t.above[e.at])

Queued(t, q) ==
  \A n \in Members(t) : \A i \in DOMAIN q[n] :
    /\ t.kind[n] = "parallel"
    /\ q[n][i] # Composite!End => From(t, q[n][i], n) /\ q[n][i].at # n

Held(t, ns, w) ==
  w # Composite!None => Open(t, w.at) /\ ns[w.at].st # "idle" /\ From(t, w.event, w.at)

\* Members above one that was started were started.
Rooted(t, ns) ==
  \A n \in Members(t) : ns[n].st # "idle" => \A p \in t.above[n] : ns[p].st # "idle"

\* No agent above n runs n more than once.
Straight(t, n) == \A p \in t.above[n] : t.kind[p] \notin {"loop", "parallel"}

StartedOnce(t, ns) ==
  \A n \in Members(t) :
    /\ ns[n].st = "idle" => ns[n].step = 0
    /\ Straight(t, n) /\ ns[n].st # "idle" =>
         \A q \in Members(t) : \A j \in DOMAIN t.kids[q] : t.kids[q][j] = n => j <= ns[q].step

Loops(t, x) == {l \in t.above[x] : t.kind[l] = "loop" /\ Open(t, l)}
Top(t, x) == CHOOSE n \in Loops(t, x) : Loops(t, x) \cap t.above[n] = {}

\* The loop l is over, and nothing below it that the consumer hears runs.
Quiet(t, ns, l) ==
  /\ ns[l].st \notin {"idle", "running"}
  /\ \A m \in Members(t) : l \in t.above[m] /\ Open(t, m) => ns[m].st # "running"

Stopped(t, ns) == \A m \in Members(t) : Open(t, m) => ns[m].st # "running"

CalmAfter(t, ns, w, sh, k) ==
  sh[k].escalate /\ Loops(t, sh[k].at) # {} =>
    /\ \A m \in (k + 1)..Len(sh) :
         Top(t, sh[k].at) \notin t.above[sh[m].at] /\ sh[m].at \notin Loops(t, sh[k].at)
    /\ \/ Quiet(t, ns, Top(t, sh[k].at))
       \/ Stopped(t, ns)
       \/ w # Composite!None /\ w.event = sh[k] /\ k = Len(sh)

Showable(t, sh) == \A k \in 1..Len(sh) : sh[k].at \in Members(t)

TreeInv ==
  /\ TreeTypes(tree, node, queue, waiting, shown) /\ Showable(tree, shown)
  /\ stateful \subseteq Members(tree)
  /\ Queued(tree, queue) /\ Held(tree, node, waiting)
  /\ Rooted(tree, node) /\ node[tree.root].st # "idle" /\ StartedOnce(tree, node)
  /\ \A k \in 1..Len(shown) : CalmAfter(tree, node, waiting, shown, k)

-----------------------------------------------------------------------------
LEMMA TreeIsFinite == ASSUME NEW t, Composite!IsTree(t) PROVE IsFiniteSet(Members(t))
BY SameOperators DEF Composite!IsTree, Members

LEMMA ParentIs ==
  ASSUME NEW t, Composite!IsTree(t), NEW p \in Members(t), NEW n \in Composite!ToSet(t.kids[p])
  PROVE  n \in Members(t) /\ t.above[n] = {p} \cup t.above[p] /\ p \in t.above[n]
<1>1. n \in Members(t)
  BY DEF Composite!IsTree, Composite!ToSet, Members
<1>2. p \in {q \in DOMAIN t.kind : n \in Composite!ToSet(t.kids[q])}
  BY DEF Members
<1>3. \A q \in {r \in DOMAIN t.kind : n \in Composite!ToSet(t.kids[r])} : q = p
  BY <1>1, <1>2 DEF Composite!IsTree, Members
<1>4. t.above[n] = UNION {{q} \cup t.above[q] : q \in {r \in DOMAIN t.kind : n \in Composite!ToSet(t.kids[r])}}
  BY <1>1 DEF Composite!IsTree, Members
<1> QED BY <1>1, <1>2, <1>3, <1>4

\* A set of agents has one that is below none of the others.
LEMMA OutermostIs ==
  ASSUME NEW t, Composite!IsTree(t), NEW S \in SUBSET Members(t), S # {}
  PROVE  \E n \in S : S \cap t.above[n] = {}
<1> DEFINE C(n) == Cardinality(t.above[n])
           T == {C(n) : n \in S}
<1>1. \A n \in S : IsFiniteSet(t.above[n]) /\ C(n) \in Nat
  <2> SUFFICES ASSUME NEW n \in S PROVE IsFiniteSet(t.above[n]) /\ C(n) \in Nat
    OBVIOUS
  <2>1. IsFiniteSet(Members(t)) /\ t.above[n] \in SUBSET Members(t)
    BY TreeIsFinite DEF Composite!IsTree, Members
  <2>2. IsFiniteSet(t.above[n])
    BY <2>1, FS_Subset
  <2> QED BY <2>2, FS_CardinalityType
<1>2. \E x \in T : \A y \in T : ~ (<<y, x>> \in OpToRel(<, Nat))
  <2>1. T \subseteq Nat /\ T # {}
    BY <1>1
  <2> QED BY <2>1, NatLessThanWellFounded, WFMin, Zenon
<1>3. PICK n \in S : \A m \in S : ~ (<<C(m), C(n)>> \in OpToRel(<, Nat))
  BY <1>2
<1>4. ASSUME NEW m \in S, m \in t.above[n] PROVE FALSE
  <2>1. t.above[m] \subseteq t.above[n] /\ m \notin t.above[m]
    BY <1>4 DEF Composite!IsTree, Members
  <2>2. C(m) <= C(n) /\ C(m) # C(n)
    <3>1. IsFiniteSet(t.above[n]) /\ t.above[m] \in SUBSET t.above[n] /\ t.above[m] # t.above[n]
      BY <1>1, <1>4, <2>1
    <3> QED BY <3>1, FS_Subset
  <2>3. C(m) \in Nat /\ C(n) \in Nat
    BY <1>1
  <2> HIDE DEF C
  <2>4. C(m) < C(n)
    BY <2>2, <2>3
  <2> QED BY <1>3, <2>3, <2>4 DEF OpToRel
<1> QED BY <1>4

\* ... and one that is above none of the others.
LEMMA DeepestIs ==
  ASSUME NEW t, Composite!IsTree(t), NEW S \in SUBSET Members(t), S # {}
  PROVE  \E n \in S : \A m \in S : n \notin t.above[m]
<1> DEFINE C(n) == Cardinality(t.above[n])
           T == {C(n) : n \in S}
<1>1. \A n \in S : IsFiniteSet(t.above[n]) /\ C(n) \in 0..Cardinality(Members(t))
  <2> SUFFICES ASSUME NEW n \in S PROVE IsFiniteSet(t.above[n]) /\ C(n) \in 0..Cardinality(Members(t))
    OBVIOUS
  <2>1. IsFiniteSet(Members(t)) /\ t.above[n] \in SUBSET Members(t)
    BY TreeIsFinite DEF Composite!IsTree, Members
  <2>2. IsFiniteSet(t.above[n]) /\ Cardinality(t.above[n]) <= Cardinality(Members(t))
    BY <2>1, FS_Subset
  <2>3. C(n) \in Nat /\ Cardinality(Members(t)) \in Nat
    BY <2>1, <2>2, FS_CardinalityType
  <2> QED BY <2>2, <2>3
<1>2. Cardinality(Members(t)) \in Nat
  BY TreeIsFinite, FS_CardinalityType
<1>3. \E x \in T : \A y \in T : y <= x
  <2>1. T \in SUBSET (0..Cardinality(Members(t))) /\ T # {}
    BY <1>1
  <2> HIDE DEF T
  <2> QED BY <1>2, <2>1, GreatestIsThere
<1>4. PICK n \in S : \A m \in S : C(m) <= C(n)
  BY <1>3
<1>5. ASSUME NEW m \in S, n \in t.above[m] PROVE FALSE
  <2>1. t.above[n] \subseteq t.above[m] /\ n \notin t.above[n]
    BY <1>5 DEF Composite!IsTree, Members
  <2>2. C(n) <= C(m) /\ C(m) # C(n)
    <3>1. IsFiniteSet(t.above[m]) /\ t.above[n] \in SUBSET t.above[m] /\ t.above[m] # t.above[n]
      BY <1>1, <1>5, <2>1
    <3> QED BY <3>1, FS_Subset
  <2>3. C(m) \in Nat /\ C(n) \in Nat
    BY <1>1
  <2> HIDE DEF C
  <2> QED BY <1>4, <2>2, <2>3
<1> QED BY <1>5

\* The loop that an event from x escalates to, among those the consumer hears.
LEMMA TopIs ==
  ASSUME NEW t, Composite!IsTree(t), NEW x \in Members(t), Loops(t, x) # {}
  PROVE  /\ Top(t, x) \in Loops(t, x) /\ Top(t, x) \in Members(t)
         /\ Straight(t, Top(t, x)) /\ Open(t, Top(t, x)) /\ t.kind[Top(t, x)] = "loop"
         /\ \A l \in Loops(t, x) : l = Top(t, x) \/ Top(t, x) \in t.above[l]
<1> DEFINE top == Top(t, x)
<1>1. Loops(t, x) \in SUBSET Members(t)
  BY DEF Composite!IsTree, Members, Loops
<1>2. \E n \in Loops(t, x) : Loops(t, x) \cap t.above[n] = {}
  BY <1>1, OutermostIs
<1>3. top \in Loops(t, x) /\ Loops(t, x) \cap t.above[top] = {}
  BY <1>2 DEF Top
<1> HIDE DEF top
<1>4. top \in Members(t) /\ top \in t.above[x] /\ t.kind[top] = "loop" /\ Open(t, top)
  BY <1>1, <1>3 DEF Loops
<1>5. t.above[top] \subseteq t.above[x] /\ t.above[top] \subseteq Members(t)
  BY <1>4 DEF Composite!IsTree, Members
<1>6. ASSUME NEW p \in t.above[top], t.kind[p] = "loop" PROVE FALSE
  <2>1. t.above[p] \subseteq t.above[top]
    BY <1>4 DEF Composite!IsTree, Members
  <2>2. p \in Loops(t, x)
    BY <1>4, <1>5, <1>6, <2>1 DEF Loops, Open
  <2> QED BY <1>3, <2>2
<1>7. Straight(t, top)
  BY <1>4, <1>6 DEF Straight, Open
<1>8. ASSUME NEW l \in Loops(t, x) PROVE l = top \/ top \in t.above[l]
  <2>1. l \in t.above[x] /\ l \notin t.above[top]
    BY <1>3 DEF Loops
  <2> QED BY <1>4, <2>1 DEF Composite!IsTree, Members
<1> QED BY <1>3, <1>4, <1>7, <1>8 DEF top

-----------------------------------------------------------------------------
(* What any step does to the nodes: only a running parent starts an agent. *)

Starts(t, ns, ns2, n) ==
  \E p \in Members(t) :
    /\ n \in Composite!ToSet(t.kids[p]) /\ ns[p].st = "running"
    /\ \/ t.kind[p] = "parallel"
       \/ /\ ns[p].step + 1 \in DOMAIN t.kids[p] /\ t.kids[p][ns[p].step + 1] = n
          /\ ns2[p].step = ns[p].step + 1

FadesAt(t, ns, ns2, n) ==
  /\ ns2[n].st = "idle" <=> ns[n].st = "idle"
  /\ ns2[n].st = "running" => ns[n].st = "running"
  /\ ns2[n].st = "idle" => ns2[n].step = ns[n].step
  /\ t.kind[n] \in {"leaf", "sequence"} => ns2[n].step >= ns[n].step

GentleAt(t, ns, ns2, n) ==
  FadesAt(t, ns, ns2, n) \/ (Starts(t, ns, ns2, n) /\ ns2[n].st # "idle")

Gentle(t, ns, ns2) ==
  /\ LocalsTyped(t, ns) /\ LocalsTyped(t, ns2)
  /\ \A n \in Members(t) : GentleAt(t, ns, ns2, n)

Fades(t, ns, ns2) ==
  /\ LocalsTyped(t, ns) /\ LocalsTyped(t, ns2)
  /\ \A n \in Members(t) : FadesAt(t, ns, ns2, n)

LEMMA StaysRooted ==
  ASSUME NEW t, Composite!IsTree(t), NEW ns, NEW ns2, Gentle(t, ns, ns2), Rooted(t, ns)
  PROVE  Rooted(t, ns2) /\ \A n \in Members(t) : ns[n].st # "idle" => ns2[n].st # "idle"
<1>1. \A n \in Members(t) : ns[n].st # "idle" => ns2[n].st # "idle"
  BY DEF Gentle, GentleAt, FadesAt
<1>2. ASSUME NEW n \in Members(t), ns2[n].st # "idle", NEW p \in t.above[n] PROVE ns2[p].st # "idle"
  <2>0. p \in Members(t)
    BY DEF Composite!IsTree, Members
  <2>1. CASE ns[n].st # "idle"
    BY <1>1, <2>0, <2>1 DEF Rooted
  <2>2. CASE Starts(t, ns, ns2, n)
    <3>1. PICK q \in Members(t) : n \in Composite!ToSet(t.kids[q]) /\ ns[q].st = "running"
      BY <2>2 DEF Starts
    <3>2. p = q \/ p \in t.above[q]
      BY <3>1, ParentIs
    <3>3. ns[p].st # "idle"
      BY <3>1, <3>2 DEF Rooted
    <3> QED BY <1>1, <2>0, <3>3
  <2> QED BY <1>2, <2>1, <2>2 DEF Gentle, GentleAt, FadesAt
<1> QED BY <1>1, <1>2 DEF Rooted

LEMMA StaysOnce ==
  ASSUME NEW t, Composite!IsTree(t), NEW ns, NEW ns2, Gentle(t, ns, ns2), Rooted(t, ns), StartedOnce(t, ns)
  PROVE  StartedOnce(t, ns2)
<1>1. ASSUME NEW n \in Members(t), ns2[n].st = "idle" PROVE ns2[n].step = 0
  BY <1>1 DEF Gentle, GentleAt, FadesAt, StartedOnce
<1>2. ASSUME NEW n \in Members(t), Straight(t, n), ns2[n].st # "idle",
             NEW q \in Members(t), NEW j \in DOMAIN t.kids[q], t.kids[q][j] = n
      PROVE  j <= ns2[q].step
  <2>0. n \in Composite!ToSet(t.kids[q])
    BY <1>2 DEF Composite!ToSet
  <2>1. t.above[n] = {q} \cup t.above[q] /\ q \in t.above[n] /\ t.kids[q] \in Seq(Members(t))
    BY <2>0, ParentIs DEF Composite!IsTree, Members
  <2>2. t.kind[q] \notin {"loop", "parallel"} /\ Straight(t, q)
    BY <1>2, <2>1 DEF Straight
  <2>3. j \in Nat /\ ns[q].step \in Nat /\ ns2[q].step \in Nat
    <3>1. DOMAIN t.kids[q] = 1..Len(t.kids[q])
      BY <2>1, ElementsOf
    <3> QED BY <3>1 DEF Gentle, LocalsTyped, Locals
  <2>4. CASE ns[n].st # "idle"
    <3>1. j <= ns[q].step /\ ns[q].st # "idle"
      BY <1>2, <2>1, <2>4 DEF StartedOnce, Rooted
    <3>2. CASE Starts(t, ns, ns2, q)
      <4>1. PICK p \in Members(t) :
              /\ q \in Composite!ToSet(t.kids[p])
              /\ \/ t.kind[p] = "parallel"
                 \/ /\ ns[p].step + 1 \in DOMAIN t.kids[p] /\ t.kids[p][ns[p].step + 1] = q
        BY <3>2 DEF Starts
      <4>2. p \in t.above[q]
        BY <4>1, ParentIs
      <4>3. t.kind[p] # "parallel"
        BY <2>2, <4>2 DEF Straight
      <4>4. ns[p].step + 1 <= ns[p].step
        BY <2>2, <3>1, <4>1, <4>3 DEF StartedOnce
      <4>5. ns[p].step \in Nat
        BY DEF Gentle, LocalsTyped, Locals
      <4> QED BY <4>4, <4>5
    <3>3. CASE ns2[q].step >= ns[q].step
      BY <2>3, <3>1, <3>3
    <3>4. t.kind[q] \in {"leaf", "sequence"}
      BY <2>2 DEF Composite!IsTree, Members
    <3> QED BY <3>2, <3>3, <3>4 DEF Gentle, GentleAt, FadesAt
  <2>5. CASE Starts(t, ns, ns2, n)
    <3>1. PICK p \in Members(t) :
            /\ n \in Composite!ToSet(t.kids[p])
            /\ \/ t.kind[p] = "parallel"
               \/ /\ ns[p].step + 1 \in DOMAIN t.kids[p] /\ t.kids[p][ns[p].step + 1] = n
                  /\ ns2[p].step = ns[p].step + 1
      BY <2>5 DEF Starts
    <3>2. p = q
      BY <2>0, <3>1, <1>2 DEF Composite!IsTree, Members
    <3>3. j = ns[q].step + 1 /\ ns2[q].step = ns[q].step + 1
      BY <1>2, <2>2, <3>1, <3>2 DEF Composite!IsTree, Members
    <3> QED BY <2>3, <3>3
  <2> QED BY <1>2, <2>4, <2>5 DEF Gentle, GentleAt, FadesAt
<1> QED BY <1>1, <1>2 DEF StartedOnce

\* A loop that is over stays so, and so does what is below it.
LEMMA StaysQuiet ==
  ASSUME NEW t, Composite!IsTree(t), NEW ns, NEW ns2, Gentle(t, ns, ns2), StartedOnce(t, ns),
         NEW l \in Members(t), Straight(t, l), t.kind[l] = "loop", Quiet(t, ns, l)
  PROVE  Quiet(t, ns2, l)
<1>1. ~Starts(t, ns, ns2, l)
  <2> SUFFICES ASSUME Starts(t, ns, ns2, l) PROVE FALSE
    OBVIOUS
  <2>1. PICK p \in Members(t) :
          /\ l \in Composite!ToSet(t.kids[p])
          /\ \/ t.kind[p] = "parallel"
             \/ /\ ns[p].step + 1 \in DOMAIN t.kids[p] /\ t.kids[p][ns[p].step + 1] = l
    BY DEF Starts
  <2>2. p \in t.above[l]
    BY <2>1, ParentIs
  <2>3. ns[p].step + 1 <= ns[p].step
    BY <2>1, <2>2 DEF StartedOnce, Straight, Quiet
  <2>4. ns[p].step \in Nat
    BY DEF Gentle, LocalsTyped, Locals
  <2> QED BY <2>3, <2>4
<1>2. ns2[l].st \notin {"idle", "running"}
  BY <1>1 DEF Gentle, GentleAt, FadesAt, Quiet
<1>3. ASSUME NEW m \in Members(t), l \in t.above[m], Open(t, m) PROVE ns2[m].st # "running"
  <2>1. CASE Starts(t, ns, ns2, m)
    <3>1. PICK p \in Members(t) : m \in Composite!ToSet(t.kids[p]) /\ ns[p].st = "running"
      BY <2>1 DEF Starts
    <3>2. t.above[m] = {p} \cup t.above[p]
      BY <3>1, ParentIs
    <3>3. Open(t, p) /\ (p = l \/ l \in t.above[p])
      BY <1>3, <3>2 DEF Open
    <3> QED BY <3>1, <3>3 DEF Quiet
  <2> QED BY <1>3, <2>1 DEF Gentle, GentleAt, FadesAt, Quiet
<1> QED BY <1>2, <1>3 DEF Quiet

LEMMA StaysStopped ==
  ASSUME NEW t, Composite!IsTree(t), NEW ns, NEW ns2, Gentle(t, ns, ns2), Stopped(t, ns)
  PROVE  Stopped(t, ns2)
<1> SUFFICES ASSUME NEW m \in Members(t), Open(t, m) PROVE ns2[m].st # "running"
  BY DEF Stopped
<1>1. CASE Starts(t, ns, ns2, m)
  <2>1. PICK p \in Members(t) : m \in Composite!ToSet(t.kids[p]) /\ ns[p].st = "running"
    BY <1>1 DEF Starts
  <2>2. Open(t, p)
    BY <2>1, ParentIs DEF Open
  <2> QED BY <2>1, <2>2 DEF Stopped
<1> QED BY <1>1 DEF Gentle, GentleAt, FadesAt, Stopped

LEMMA StaysCalm ==
  ASSUME NEW t, Composite!IsTree(t), NEW ns, NEW ns2, Gentle(t, ns, ns2), StartedOnce(t, ns),
         NEW w, NEW sh \in Seq(Heard(t)), NEW k \in 1..Len(sh), CalmAfter(t, ns, w, sh, k),
         From(t, sh[k], sh[k].at)
  PROVE  CalmAfter(t, ns2, w, sh, k)
<1> SUFFICES ASSUME sh[k].escalate, Loops(t, sh[k].at) # {}
             PROVE  CalmAfter(t, ns2, w, sh, k)
  BY DEF CalmAfter
<1> DEFINE l == Top(t, sh[k].at)
<1>1. l \in Members(t) /\ Straight(t, l) /\ t.kind[l] = "loop"
  BY TopIs DEF From
<1> HIDE DEF l
<1>2. Quiet(t, ns, l) => Quiet(t, ns2, l)
  BY <1>1, StaysQuiet
<1>3. Stopped(t, ns) => Stopped(t, ns2)
  BY StaysStopped
<1> QED BY <1>2, <1>3 DEF CalmAfter, l

\* The consumer is given an event of x, which ran.
LEMMA GrowsCalm ==
  ASSUME NEW t, Composite!IsTree(t), NEW ns, NEW ns2, Gentle(t, ns, ns2), StartedOnce(t, ns),
         NEW sh \in Seq(Heard(t)), \A k \in 1..Len(sh) : From(t, sh[k], sh[k].at),
         \A k \in 1..Len(sh) : CalmAfter(t, ns, Composite!None, sh, k),
         NEW x \in Members(t), Open(t, x), ns[x].st = "running",
         NEW e \in Heard(t), From(t, e, x), NEW w, w # Composite!None, w.event = e
  PROVE  \A k \in 1..Len(Append(sh, e)) : CalmAfter(t, ns2, w, Append(sh, e), k)
<1> DEFINE sh2 == Append(sh, e)
<1>1. /\ sh2 \in Seq(Heard(t)) /\ Len(sh2) = Len(sh) + 1 /\ Len(sh) \in Nat
      /\ \A k \in 1..Len(sh) : sh2[k] = sh[k]
      /\ sh2[Len(sh) + 1] = e
  OBVIOUS
<1> HIDE DEF sh2
<1>2. CalmAfter(t, ns2, w, sh2, Len(sh2))
  <2>1. (Len(sh2) + 1)..Len(sh2) = {}
    BY <1>1
  <2>2. w.event = sh2[Len(sh2)]
    BY <1>1
  <2> QED BY <2>1, <2>2 DEF CalmAfter
<1>3. ASSUME NEW k \in 1..Len(sh) PROVE CalmAfter(t, ns2, w, sh2, k)
  <2> SUFFICES ASSUME sh[k].escalate, Loops(t, sh[k].at) # {}
               PROVE  CalmAfter(t, ns2, w, sh2, k)
    BY <1>1 DEF CalmAfter
  <2> DEFINE l == Top(t, sh[k].at)
  <2>1. /\ l \in Members(t) /\ Straight(t, l) /\ t.kind[l] = "loop" /\ Open(t, l)
        /\ \A m \in Loops(t, sh[k].at) : m = l \/ l \in t.above[m]
    BY TopIs DEF From
  <2>2. CalmAfter(t, ns, Composite!None, sh, k)
    OBVIOUS
  <2>3. /\ \A m \in (k + 1)..Len(sh) : l \notin t.above[sh[m].at] /\ sh[m].at \notin Loops(t, sh[k].at)
        /\ Quiet(t, ns, l) \/ Stopped(t, ns)
    BY <2>2 DEF CalmAfter
  <2> HIDE DEF l
  <2>4. Quiet(t, ns, l)
    BY <2>3 DEF Stopped
  <2>5. x # l /\ l \notin t.above[x]
    BY <2>4 DEF Quiet
  <2>6. e.at # l /\ l \notin t.above[e.at]
    <3>1. CASE e.at = x
      BY <2>5, <3>1
    <3>2. CASE t.kind[x] = "parallel" /\ x \in t.above[e.at]
      <4>1. x \notin t.above[l]
        BY <2>1, <3>2 DEF Open
      <4>2. l \in t.above[e.at] => x = l \/ x \in t.above[l] \/ l \in t.above[x]
        BY <3>2 DEF Composite!IsTree, Members, From
      <4> QED BY <2>5, <3>2, <4>1, <4>2
    <3> QED BY <3>1, <3>2 DEF From
  <2>7. e.at \notin Loops(t, sh[k].at)
    BY <2>1, <2>6
  <2>8. \A m \in (k + 1)..Len(sh2) : l \notin t.above[sh2[m].at] /\ sh2[m].at \notin Loops(t, sh[k].at)
    <3> SUFFICES ASSUME NEW m \in (k + 1)..Len(sh2)
                 PROVE  l \notin t.above[sh2[m].at] /\ sh2[m].at \notin Loops(t, sh[k].at)
      OBVIOUS
    <3>1. m = Len(sh) + 1 \/ m \in (k + 1)..Len(sh)
      BY <1>1
    <3>2. \A i \in (k + 1)..Len(sh) : sh2[i] = sh[i]
      BY <1>1
    <3> QED BY <1>1, <2>3, <2>6, <2>7, <3>1, <3>2
  <2>9. Quiet(t, ns2, l)
    BY <2>1, <2>4, StaysQuiet
  <2> QED BY <1>1, <2>8, <2>9 DEF CalmAfter, l
<1>4. \A k \in 1..Len(sh2) : k \in 1..Len(sh) \/ k = Len(sh2)
  BY <1>1
<1> QED BY <1>2, <1>3, <1>4 DEF sh2

-----------------------------------------------------------------------------
(* The operators of the steps.                                             *)

LEMMA OwnerIs ==
  ASSUME Composite!IsTree(tree), NEW n \in Composite!Nodes
  PROVE  /\ Composite!Owner(n) = Composite!Consumer <=> Open(tree, n)
         /\ Composite!Owner(n) # Composite!Consumer => /\ Composite!Owner(n) \in Composite!Above(n) /\ Composite!Kind(Composite!Owner(n)) = "parallel"
                                                       /\ Composite!Owner(n) \in Composite!Nodes
<1> DEFINE forks == {p \in Composite!Above(n) : Composite!Kind(p) = "parallel"}
<1>1. forks \in SUBSET Members(tree) /\ Composite!Nodes = Members(tree) /\ Composite!Consumer \notin Composite!Nodes
  BY DEF Composite!IsTree, Members, Composite!Nodes, Composite!Above
<1>2. Open(tree, n) <=> forks = {}
  BY DEF Open, Composite!Above, Composite!Kind
<1>3. forks # {} => Composite!Deepest(forks) \in forks
  <2>1. forks # {} => \E m \in forks : \A k \in forks : m \notin tree.above[k]
    BY <1>1, DeepestIs
  <2>2. forks # {} => \E m \in forks : forks \cap Composite!Below(m) = {}
    BY <2>1 DEF Composite!Below, Composite!Above
  <2> HIDE DEF forks
  <2> QED BY <2>2 DEF Composite!Deepest
<1>4. Composite!Owner(n) = IF forks = {} THEN Composite!Consumer ELSE Composite!Deepest(forks)
  BY DEF Composite!Owner
<1> HIDE DEF forks
<1>5. Composite!Owner(n) \in forks \/ (forks = {} /\ Composite!Owner(n) = Composite!Consumer)
  BY <1>3, <1>4
<1>6. \A p \in forks : p \in Composite!Above(n) /\ Composite!Kind(p) = "parallel" /\ p \in Composite!Nodes
  BY <1>1 DEF forks
<1> QED BY <1>1, <1>2, <1>5, <1>6

LEMMA ChainIs == ASSUME NEW n PROVE Composite!Chain(n) \subseteq Composite!Above(n)
BY DEF Composite!Chain

LEMMA FadesTwice ==
  ASSUME NEW t, NEW a, NEW b, NEW c, Fades(t, a, b), Fades(t, b, c)
  PROVE  Fades(t, a, c)
<1>1. ASSUME NEW n \in Members(t) PROVE FadesAt(t, a, c, n)
  <2>1. FadesAt(t, a, b, n) /\ FadesAt(t, b, c, n)
    BY DEF Fades
  <2>2. a[n].step \in Nat /\ b[n].step \in Nat /\ c[n].step \in Nat
    BY DEF Fades, LocalsTyped, Locals
  <2> QED BY <2>1, <2>2 DEF FadesAt
<1> QED BY <1>1 DEF Fades

LEMMA FadesIsGentle ==
  ASSUME NEW t, NEW a, NEW b, Fades(t, a, b) PROVE Gentle(t, a, b)
BY DEF Fades, Gentle, GentleAt

LEMMA SameFades == ASSUME NEW t, NEW a, LocalsTyped(t, a) PROVE Fades(t, a, a)
<1>1. \A n \in Members(t) : a[n].step \in Nat
  BY DEF LocalsTyped, Locals
<1> QED BY <1>1 DEF Fades, FadesAt

LEMMA SetFades ==
  ASSUME NEW t, NEW a, LocalsTyped(t, a), NEW n \in Members(t), NEW v \in Locals(t),
         Within(t, n, v), a[n].st # "idle", v.st # "idle", v.st = "running" => a[n].st = "running",
         t.kind[n] \in {"leaf", "sequence"} => v.step >= a[n].step
  PROVE  Fades(t, a, [a EXCEPT ![n] = v])
<1> DEFINE b == [a EXCEPT ![n] = v]
<1>1. a \in [Members(t) -> Locals(t)] /\ \A m \in Members(t) : Within(t, m, a[m]) /\ a[m].step \in Nat
  BY DEF LocalsTyped, Locals
<1>2. /\ b \in [Members(t) -> Locals(t)] /\ b[n] = v
      /\ \A m \in Members(t) : m # n => b[m] = a[m]
  BY <1>1
<1> HIDE DEF b
<1>3. LocalsTyped(t, b)
  BY <1>1, <1>2 DEF LocalsTyped
<1>4. ASSUME NEW m \in Members(t) PROVE FadesAt(t, a, b, m)
  <2>1. CASE m = n
    BY <1>2, <2>1 DEF FadesAt
  <2>2. CASE m # n
    <3>1. b[m] = a[m] /\ a[m].step \in Nat
      BY <1>1, <1>2, <2>2
    <3> QED BY <3>1 DEF FadesAt
  <2> QED BY <2>1, <2>2
<1>5. Fades(t, a, b)
  BY <1>3, <1>4 DEF Fades
<1> QED BY <1>5 DEF b

LEMMA SetIs ==
  ASSUME NEW t, NEW n \in Members(t), NEW v \in Locals(t), Within(t, n, v),
         NEW st \in Sts, st = "running" => v.st = "running"
  PROVE  /\ [v EXCEPT !.st = st] \in Locals(t) /\ Within(t, n, [v EXCEPT !.st = st])
         /\ [v EXCEPT !.st = st].st = st /\ [v EXCEPT !.st = st].step = v.step
         /\ [v EXCEPT !.st = st].iteration = v.iteration
         /\ [v EXCEPT !.st = st].emitted = v.emitted
<1> DEFINE w == [v EXCEPT !.st = st]
<1>1. /\ w \in Locals(t) /\ w.st = st /\ w.step = v.step /\ w.iteration = v.iteration
      /\ w.emitted = v.emitted
  BY DEF Locals
<1> HIDE DEF w
<1>2. Within(t, n, w)
  BY <1>1 DEF Within
<1> QED BY <1>1, <1>2 DEF w

\* What is left behind stops, and nothing starts.
LEMMA LeftBehindFades ==
  ASSUME Composite!IsTree(tree), NEW ns, LocalsTyped(tree, ns), NEW top \in Members(tree),
         ns[top].st # "idle", NEW st \in {"ended", "dropped"}
  PROVE  /\ Fades(tree, ns, [Composite!LeftBehind(ns, top) EXCEPT ![top].st = st])
         /\ LET ns2 == [Composite!LeftBehind(ns, top) EXCEPT ![top].st = st] IN
            /\ ns2[top].st = st
            /\ \A m \in Members(tree) :
                 top \in tree.above[m] /\ Open(tree, m) => ns2[m].st # "running"
<1> DEFINE a == Composite!LeftBehind(ns, top)
           b == [a EXCEPT ![top].st = st]
<1>1. Composite!Nodes = Members(tree) /\ top \notin tree.above[top]
  BY DEF Composite!Nodes, Members, Composite!IsTree
<1>2. /\ ns \in [Members(tree) -> Locals(tree)]
      /\ \A m \in Members(tree) : /\ ns[m] \in Locals(tree) /\ Within(tree, m, ns[m])
                                /\ ns[m].step \in Nat
  BY DEF LocalsTyped, Locals
<1>3. ASSUME NEW m \in Members(tree)
      PROVE  /\ a[m] = ns[m] \/ (ns[m].st = "running" /\ a[m] = [ns[m] EXCEPT !.st = "dropped"])
             /\ top \in tree.above[m] /\ Open(tree, m) /\ ns[m].st = "running" =>
                  a[m] = [ns[m] EXCEPT !.st = "dropped"]
             /\ m = top => a[m] = ns[m]
  BY <1>1 DEF Composite!LeftBehind, Composite!Below, Composite!Above, Open, Composite!Kind
<1>4. a = [m \in Members(tree) |-> a[m]]
  BY <1>1 DEF Composite!LeftBehind
<1> HIDE DEF a
<1>5. ASSUME NEW m \in Members(tree)
      PROVE  /\ a[m] \in Locals(tree) /\ Within(tree, m, a[m]) /\ a[m].step = ns[m].step
             /\ a[m].st = ns[m].st \/ (ns[m].st = "running" /\ a[m].st = "dropped")
             /\ top \in tree.above[m] /\ Open(tree, m) => a[m].st # "running"
  <2>1. CASE a[m] = ns[m]
    <3>1. ns[m].st = "running" => [ns[m] EXCEPT !.st = "dropped"].st = "dropped"
      BY <1>2 DEF Locals
    <3> QED BY <1>2, <1>3, <2>1, <3>1
  <2>2. CASE ns[m].st = "running" /\ a[m] = [ns[m] EXCEPT !.st = "dropped"]
    <3>1. ns[m] \in Locals(tree) /\ Within(tree, m, ns[m]) /\ "dropped" \in Sts
      BY <1>2 DEF Sts
    <3> DEFINE v == ns[m]
    <3>2. /\ [v EXCEPT !.st = "dropped"] \in Locals(tree) /\ Within(tree, m, [v EXCEPT !.st = "dropped"])
          /\ [v EXCEPT !.st = "dropped"].st = "dropped" /\ [v EXCEPT !.st = "dropped"].step = v.step
      <4> HIDE DEF v
      <4> QED BY <3>1, SetIs DEF v
    <3> QED BY <2>2, <3>2
  <2> QED BY <1>3, <2>1, <2>2
<1>6. LocalsTyped(tree, a)
  BY <1>4, <1>5 DEF LocalsTyped
<1>7. Fades(tree, ns, a)
  <2>1. ASSUME NEW m \in Members(tree) PROVE FadesAt(tree, ns, a, m)
    BY <1>2, <1>5 DEF FadesAt
  <2> QED BY <1>6, <2>1 DEF Fades
<1>8. b = [a EXCEPT ![top] = [a[top] EXCEPT !.st = st]]
  OBVIOUS
<1>9. a[top] = ns[top]
  BY <1>3
<1>10. /\ [a[top] EXCEPT !.st = st] \in Locals(tree) /\ Within(tree, top, [a[top] EXCEPT !.st = st])
       /\ [a[top] EXCEPT !.st = st].st = st /\ [a[top] EXCEPT !.st = st].step = a[top].step
  <2> DEFINE v == a[top]
  <2>1. v \in Locals(tree) /\ Within(tree, top, v) /\ st \in Sts /\ st # "running"
    BY <1>5 DEF Sts
  <2> HIDE DEF v
  <2>2. /\ [v EXCEPT !.st = st] \in Locals(tree) /\ Within(tree, top, [v EXCEPT !.st = st])
        /\ [v EXCEPT !.st = st].st = st /\ [v EXCEPT !.st = st].step = v.step
    BY <2>1, SetIs
  <2> QED BY <2>2 DEF v
<1>11. Fades(tree, a, b)
  <2> DEFINE v == [a[top] EXCEPT !.st = st]
  <2>1. v \in Locals(tree) /\ Within(tree, top, v) /\ v.st = st /\ v.step = a[top].step /\ v.step \in Nat
    BY <1>2, <1>9, <1>10
  <2>2. b = [a EXCEPT ![top] = v]
    BY <1>8
  <2> HIDE DEF v, b
  <2>3. Fades(tree, a, [a EXCEPT ![top] = v])
    BY <1>6, <1>9, <2>1, SetFades
  <2> QED BY <2>2, <2>3
<1>12. b[top].st = st /\ \A m \in Members(tree) : m # top => b[m] = a[m]
  BY <1>6, <1>10 DEF LocalsTyped
<1>13. \A m \in Members(tree) : top \in tree.above[m] /\ Open(tree, m) => b[m].st # "running"
  BY <1>1, <1>5, <1>12
<1> HIDE DEF b
<1>14. Fades(tree, ns, b)
  BY <1>7, <1>11, FadesTwice
<1> QED BY <1>12, <1>13, <1>14 DEF a, b

LEMMA AfterFades ==
  ASSUME Composite!IsTree(tree), NEW ns, LocalsTyped(tree, ns), NEW x \in Members(tree),
         \A p \in tree.above[x] : ns[p].st # "idle", NEW e \in Heard(tree)
  PROVE  Fades(tree, ns, Composite!After(x, e, ns))
<1> DEFINE loops == {l \in Composite!Chain(x) : Composite!Kind(l) = "loop"}
<1>1. loops \in SUBSET Members(tree) /\ \A l \in loops : l \in tree.above[x]
  BY ChainIs DEF Composite!IsTree, Members, Composite!Above
<1>2. CASE e.escalate /\ loops # {}
  <2> DEFINE top == Composite!Outermost(loops)
  <2>1. top \in loops
    <3>1. \E n \in loops : loops \cap tree.above[n] = {}
      BY <1>1, <1>2, OutermostIs
    <3> HIDE DEF loops
    <3> QED BY <3>1 DEF Composite!Outermost, Composite!Above
  <2>2. Composite!After(x, e, ns) = [Composite!LeftBehind(ns, top) EXCEPT ![top].st = "ended"]
    BY <1>2 DEF Composite!After
  <2> HIDE DEF top
  <2>3. top \in Members(tree) /\ ns[top].st # "idle"
    BY <1>1, <2>1
  <2>4. Fades(tree, ns, [Composite!LeftBehind(ns, top) EXCEPT ![top].st = "ended"])
    <3>1. "ended" \in {"ended", "dropped"}
      OBVIOUS
    <3> QED BY <2>3, <3>1, LeftBehindFades, Zenon
  <2> QED BY <2>2, <2>4
<1>3. CASE ~(e.escalate /\ loops # {})
  <2> DEFINE a == [m \in Composite!Nodes |-> IF m \in Composite!Chain(x) /\ Composite!Kind(m) = "sequence" /\ e.final
                                  THEN [ns[m] EXCEPT !.next = e] ELSE ns[m]]
  <2>1. Composite!After(x, e, ns) = a
    BY <1>3 DEF Composite!After
  <2>2. ASSUME NEW m \in Members(tree)
        PROVE  /\ a[m] \in Locals(tree) /\ a[m].st = ns[m].st /\ a[m].step = ns[m].step
               /\ a[m].iteration = ns[m].iteration /\ a[m].emitted = ns[m].emitted
               /\ ns[m].step \in Nat /\ Within(tree, m, ns[m])
    BY DEF LocalsTyped, Locals, Composite!Nodes, Members
  <2>3. a = [m \in Members(tree) |-> a[m]]
    BY DEF Composite!Nodes, Members
  <2> HIDE DEF a
  <2>4. LocalsTyped(tree, a)
    <3>1. \A m \in Members(tree) : Within(tree, m, a[m])
      BY <2>2 DEF Within
    <3> QED BY <2>2, <2>3, <3>1 DEF LocalsTyped
  <2>5. \A m \in Members(tree) : FadesAt(tree, ns, a, m)
    BY <2>2 DEF FadesAt
  <2>6. Fades(tree, ns, a)
    BY <2>4, <2>5 DEF Fades
  <2> QED BY <2>1, <2>6
<1> QED BY <1>2, <1>3

-----------------------------------------------------------------------------
(* What a step does to the invariant.                                      *)

QueueTyped(t, q) == q \in [Members(t) -> Seq(Heard(t) \cup {Composite!End})]

LEMMA PutIs ==
  ASSUME NEW t, Composite!IsTree(t), NEW q, QueueTyped(t, q), Queued(t, q),
         NEW o \in Members(t), t.kind[o] = "parallel",
         NEW e \in Heard(t) \cup {Composite!End}, e # Composite!End => From(t, e, o) /\ e.at # o
  PROVE  /\ QueueTyped(t, [q EXCEPT ![o] = Append(@, e)])
         /\ Queued(t, [q EXCEPT ![o] = Append(@, e)])
<1> DEFINE T == Heard(t) \cup {Composite!End}
           s == q[o]
           q2 == [q EXCEPT ![o] = Append(@, e)]
<1>1. s \in Seq(T) /\ q \in [Members(t) -> Seq(T)]
  BY DEF QueueTyped
<1>2. q2 = [q EXCEPT ![o] = Append(s, e)]
  BY <1>1
<1> HIDE DEF T, s
<1>3. /\ Append(s, e) \in Seq(T) /\ DOMAIN Append(s, e) = 1..(Len(s) + 1) /\ DOMAIN s = 1..Len(s)
      /\ Len(s) \in Nat
      /\ \A i \in 1..Len(s) : Append(s, e)[i] = s[i]
      /\ Append(s, e)[Len(s) + 1] = e
  <2>1. e \in T
    BY DEF T
  <2> QED BY <1>1, <2>1
<1> HIDE DEF q2
<1>4. QueueTyped(t, q2)
  BY <1>1, <1>2, <1>3 DEF QueueTyped, T
<1>5. ASSUME NEW n \in Members(t), NEW i \in DOMAIN q2[n]
      PROVE  /\ t.kind[n] = "parallel"
             /\ q2[n][i] # Composite!End => From(t, q2[n][i], n) /\ q2[n][i].at # n
  <2>1. CASE n # o
    <3>1. q2[n] = q[n]
      BY <1>1, <1>2, <2>1
    <3> QED BY <1>5, <3>1 DEF Queued
  <2>2. CASE n = o
    <3>1. q2[n] = Append(s, e)
      BY <1>1, <1>2, <2>2
    <3>2. i \in 1..Len(s) \/ i = Len(s) + 1
      BY <1>3, <1>5, <3>1
    <3>3. CASE i \in 1..Len(s)
      <4>1. q2[n][i] = q[o][i] /\ i \in DOMAIN q[o]
        BY <1>3, <3>1, <3>3 DEF s
      <4> QED BY <4>1, <2>2 DEF Queued
    <3>4. CASE i = Len(s) + 1
      BY <1>3, <2>2, <3>1, <3>4
    <3> QED BY <3>2, <3>3, <3>4
  <2> QED BY <2>1, <2>2
<1> QED BY <1>4, <1>5 DEF Queued, q2

LEMMA TakeIs ==
  ASSUME NEW t, Composite!IsTree(t), NEW q, QueueTyped(t, q), Queued(t, q),
         NEW o \in Members(t), q[o] # <<>>
  PROVE  /\ QueueTyped(t, [q EXCEPT ![o] = Tail(@)]) /\ Queued(t, [q EXCEPT ![o] = Tail(@)])
         /\ t.kind[o] = "parallel" /\ Head(q[o]) \in Heard(t) \cup {Composite!End}
         /\ Head(q[o]) # Composite!End => From(t, Head(q[o]), o) /\ Head(q[o]).at # o
<1> DEFINE T == Heard(t) \cup {Composite!End}
           s == q[o]
           q2 == [q EXCEPT ![o] = Tail(@)]
<1>1. s \in Seq(T) /\ q \in [Members(t) -> Seq(T)] /\ s # <<>>
  BY DEF QueueTyped
<1>2. q2 = [q EXCEPT ![o] = Tail(s)]
  BY <1>1
<1> HIDE DEF T, s
<1>3. /\ Tail(s) \in Seq(T) /\ DOMAIN Tail(s) = 1..(Len(s) - 1) /\ DOMAIN s = 1..Len(s)
      /\ Len(s) \in Nat /\ Len(s) > 0 /\ Head(s) = s[1] /\ s[1] \in T
      /\ \A i \in 1..(Len(s) - 1) : Tail(s)[i] = s[i + 1]
  BY <1>1
<1> HIDE DEF q2
<1>4. QueueTyped(t, q2)
  BY <1>1, <1>2, <1>3 DEF QueueTyped, T
<1>5. ASSUME NEW n \in Members(t), NEW i \in DOMAIN q2[n]
      PROVE  /\ t.kind[n] = "parallel"
             /\ q2[n][i] # Composite!End => From(t, q2[n][i], n) /\ q2[n][i].at # n
  <2>1. CASE n # o
    <3>1. q2[n] = q[n]
      BY <1>1, <1>2, <2>1
    <3> QED BY <1>5, <3>1 DEF Queued
  <2>2. CASE n = o
    <3>1. q2[n] = Tail(s)
      BY <1>1, <1>2, <2>2
    <3>2. i \in 1..(Len(s) - 1) /\ i + 1 \in 1..Len(s)
      BY <1>3, <1>5, <3>1
    <3>3. q2[n][i] = q[o][i + 1] /\ i + 1 \in DOMAIN q[o]
      BY <1>3, <3>1, <3>2 DEF s
    <3> QED BY <3>3, <2>2 DEF Queued
  <2> QED BY <2>1, <2>2
<1>6. 1 \in DOMAIN q[o] /\ Head(q[o]) = q[o][1] /\ q[o][1] \in T
  BY <1>3 DEF s
<1>7. /\ t.kind[o] = "parallel"
      /\ q[o][1] # Composite!End => From(t, q[o][1], o) /\ q[o][1].at # o
  BY <1>6 DEF Queued
<1>8. Queued(t, q2)
  BY <1>5 DEF Queued
<1> QED BY <1>4, <1>6, <1>7, <1>8 DEF q2, T

TheTree == Composite!CompositeAssumption /\ TreeInv

LEMMA TreeFacts ==
  ASSUME TheTree
  PROVE  /\ Composite!IsTree(tree) /\ tree \in Trees /\ Composite!Nodes = Members(tree) /\ tree.root \in Members(tree)
         /\ LocalsTyped(tree, node) /\ QueueTyped(tree, queue) /\ Queued(tree, queue)
         /\ Rooted(tree, node) /\ StartedOnce(tree, node)
         /\ shown \in Seq(Heard(tree)) /\ Len(shown) \in Nat
         /\ waiting = Composite!None \/ waiting \in [at : Members(tree), event : Heard(tree)]
BY DEF TheTree, Composite!CompositeAssumption, TreeInv, TreeTypes, Composite!Nodes, Members, QueueTyped, Composite!IsTree

LEMMA KeepIs ==
  ASSUME TheTree, tree' = tree, Gentle(tree, node, node'), QueueTyped(tree, queue'),
         Queued(tree, queue'), UNCHANGED <<waiting, shown>>, stateful' \subseteq Composite!Nodes
  PROVE  TreeInv'
<1>1. /\ Composite!IsTree(tree) /\ Rooted(tree, node') /\ StartedOnce(tree, node')
      /\ \A n \in Members(tree) : node[n].st # "idle" => node'[n].st # "idle"
  BY TreeFacts, StaysRooted, StaysOnce
<1>2. TreeTypes(tree, node', queue', waiting, shown) /\ Composite!Nodes = Members(tree)
  BY TreeFacts DEF TreeTypes, Gentle, QueueTyped
<1>3. Held(tree, node', waiting)
  <2>1. Held(tree, node, waiting)
    BY DEF TheTree, TreeInv
  <2>2. waiting # Composite!None => waiting.at \in Members(tree)
    BY TreeFacts
  <2> QED BY <1>1, <2>1, <2>2 DEF Held
<1>4. \A k \in 1..Len(shown) : CalmAfter(tree, node', waiting, shown, k)
  <2> SUFFICES ASSUME NEW k \in 1..Len(shown) PROVE CalmAfter(tree, node', waiting, shown, k)
    OBVIOUS
  <2>1. CalmAfter(tree, node, waiting, shown, k) /\ shown[k].at \in Members(tree)
    BY DEF TheTree, TreeInv, Showable
  <2>2. From(tree, shown[k], shown[k].at)
    BY <2>1 DEF From
  <2> QED BY <2>1, <2>2, TreeFacts, StaysCalm
<1>5. Showable(tree, shown) /\ node'[tree.root].st # "idle"
  BY <1>1, TreeFacts DEF TheTree, TreeInv
<1> QED BY <1>1, <1>2, <1>3, <1>4, <1>5 DEF TreeInv

LEMMA DeliverIs ==
  ASSUME TheTree, tree' = tree, Gentle(tree, node, node'), QueueTyped(tree, queue'),
         Queued(tree, queue'), stateful' \subseteq Composite!Nodes,
         NEW x \in Composite!Nodes, Open(tree, x), node[x].st = "running", waiting = Composite!None,
         NEW e \in Heard(tree), From(tree, e, x),
         waiting' = [at |-> x, event |-> e], shown' = Append(shown, e)
  PROVE  TreeInv'
<1>1. /\ Composite!IsTree(tree) /\ Rooted(tree, node') /\ StartedOnce(tree, node')
      /\ \A n \in Members(tree) : node[n].st # "idle" => node'[n].st # "idle"
  BY TreeFacts, StaysRooted, StaysOnce
<1>2. waiting' # Composite!None /\ waiting'.at = x /\ waiting'.event = e /\ Composite!Nodes = Members(tree)
  BY TreeFacts DEF Composite!None
<1>3. TreeTypes(tree, node', queue', waiting', shown')
  <2>1. Append(shown, e) \in Seq(Heard(tree))
    BY TreeFacts
  <2> QED BY <1>2, <2>1, TreeFacts DEF TreeTypes, Gentle, QueueTyped
<1>4. Held(tree, node', waiting')
  BY <1>1, <1>2 DEF Held
<1>5. Showable(tree, shown')
  <2>1. ASSUME NEW k \in 1..Len(shown') PROVE shown'[k].at \in Members(tree)
    <3>1. (k \in 1..Len(shown) /\ shown'[k] = shown[k]) \/ shown'[k] = e
      BY TreeFacts
    <3> QED BY <3>1 DEF TheTree, TreeInv, Showable, From
  <2> QED BY <2>1 DEF Showable
<1>6. \A k \in 1..Len(shown') : CalmAfter(tree, node', waiting', shown', k)
  <2>1. \A k \in 1..Len(shown) : CalmAfter(tree, node, Composite!None, shown, k)
    BY DEF TheTree, TreeInv
  <2>2. \A k \in 1..Len(shown) : From(tree, shown[k], shown[k].at)
    BY DEF TheTree, TreeInv, Showable, From
  <2>3. StartedOnce(tree, node) /\ shown \in Seq(Heard(tree)) /\ x \in Members(tree)
    BY TreeFacts
  <2> DEFINE w == waiting'
  <2> HIDE DEF w
  <2>4. w # Composite!None /\ w.event = e
    BY <1>2 DEF w
  <2>5. \A k \in 1..Len(Append(shown, e)) : CalmAfter(tree, node', w, Append(shown, e), k)
    BY <1>1, <2>1, <2>2, <2>3, <2>4, GrowsCalm
  <2> QED BY <2>5 DEF w
<1>7. node'[tree.root].st # "idle"
  BY <1>1, TreeFacts DEF TheTree, TreeInv
<1> QED BY <1>1, <1>2, <1>3, <1>4, <1>5, <1>6, <1>7 DEF TreeInv

LEMMA ReleaseIs ==
  ASSUME TheTree, tree' = tree, Gentle(tree, node, node'), UNCHANGED <<queue, shown, stateful>>,
         waiting' = Composite!None,
         waiting # Composite!None /\ waiting.event.escalate /\ Loops(tree, waiting.event.at) # {} =>
           Quiet(tree, node', Top(tree, waiting.event.at)) \/ Stopped(tree, node')
  PROVE  TreeInv'
<1>1. /\ Composite!IsTree(tree) /\ Rooted(tree, node') /\ StartedOnce(tree, node')
      /\ \A n \in Members(tree) : node[n].st # "idle" => node'[n].st # "idle"
  BY TreeFacts, StaysRooted, StaysOnce
<1>2. TreeTypes(tree, node', queue, Composite!None, shown)
  BY TreeFacts DEF TreeTypes, Gentle, QueueTyped
<1>3. Held(tree, node', Composite!None)
  BY DEF Held
<1>4. \A k \in 1..Len(shown) : CalmAfter(tree, node', Composite!None, shown, k)
  <2> SUFFICES ASSUME NEW k \in 1..Len(shown) PROVE CalmAfter(tree, node', Composite!None, shown, k)
    OBVIOUS
  <2>1. CalmAfter(tree, node, waiting, shown, k) /\ shown[k].at \in Members(tree)
    BY DEF TheTree, TreeInv, Showable
  <2>2. From(tree, shown[k], shown[k].at)
    BY <2>1 DEF From
  <2>3. CalmAfter(tree, node', waiting, shown, k)
    BY <2>1, <2>2, TreeFacts, StaysCalm
  <2> QED BY <2>3 DEF CalmAfter
<1>5. Showable(tree, shown) /\ node'[tree.root].st # "idle"
  BY <1>1, TreeFacts DEF TheTree, TreeInv
<1> QED BY <1>1, <1>2, <1>3, <1>4, <1>5, TreeFacts DEF TreeInv, TheTree

\* Those above a leaf that runs were started.
LEMMA AboveIs ==
  ASSUME TheTree, NEW x \in Composite!Nodes, node[x].st # "idle", NEW ns, Fades(tree, node, ns)
  PROVE  \A p \in tree.above[x] : ns[p].st # "idle"
<1> SUFFICES ASSUME NEW p \in tree.above[x] PROVE ns[p].st # "idle"
  OBVIOUS
<1>1. p \in Members(tree) /\ x \in Members(tree)
  BY TreeFacts DEF Composite!IsTree, Members
<1>2. node[p].st # "idle"
  BY <1>1, TreeFacts DEF Rooted
<1> QED BY <1>1, <1>2 DEF Fades, FadesAt

LEMMA EnqueueIs ==
  ASSUME TheTree, tree' = tree, NEW x \in Composite!Nodes, node[x].st # "idle", NEW e \in Heard(tree),
         NEW ns, Fades(tree, node, ns), node' = Composite!After(x, e, ns),
         QueueTyped(tree, queue'), Queued(tree, queue'), UNCHANGED <<waiting, shown>>,
         stateful' \subseteq Composite!Nodes
  PROVE  TreeInv'
<1>1. LocalsTyped(tree, ns) /\ \A p \in tree.above[x] : ns[p].st # "idle"
  BY AboveIs DEF Fades
<1>2. Fades(tree, ns, Composite!After(x, e, ns))
  BY <1>1, TreeFacts, AfterFades
<1>3. Fades(tree, node, Composite!After(x, e, ns))
  BY <1>2, FadesTwice
<1>4. Gentle(tree, node, node')
  BY <1>3, FadesIsGentle
<1> QED BY <1>4, KeepIs

LEMMA OfOwner ==
  ASSUME TheTree, NEW x \in Composite!Nodes, Composite!Owner(x) # Composite!Consumer, NEW e, From(tree, e, x)
  PROVE  /\ Composite!Owner(x) \in Members(tree) /\ tree.kind[Composite!Owner(x)] = "parallel"
         /\ From(tree, e, Composite!Owner(x)) /\ e.at # Composite!Owner(x)
<1> DEFINE o == Composite!Owner(x)
<1>1. Composite!IsTree(tree) /\ Composite!Nodes = Members(tree)
  BY TreeFacts
<1>2. o \in tree.above[x] /\ tree.kind[o] = "parallel" /\ o \in Members(tree)
  BY <1>1, OwnerIs DEF Composite!Above, Composite!Kind
<1> HIDE DEF o
<1>3. e.at \in Members(tree) /\ (e.at = x \/ x \in tree.above[e.at])
  BY DEF From
<1>4. o \in tree.above[e.at]
  <2>1. x \in tree.above[e.at] => tree.above[x] \subseteq tree.above[e.at]
    BY <1>1, <1>3 DEF Composite!IsTree, Members
  <2> QED BY <1>2, <1>3, <2>1
<1>5. e.at # o
  <2>1. o \notin tree.above[o]
    BY <1>1, <1>2 DEF Composite!IsTree, Members
  <2> QED BY <1>4, <2>1
<1> QED BY <1>2, <1>3, <1>4, <1>5 DEF From, o

LEMMA YieldIs ==
  ASSUME TheTree, tree' = tree, NEW x \in Composite!Nodes, Composite!Runs(x), NEW e \in Heard(tree),
         From(tree, e, x), NEW ns, Fades(tree, node, ns), Composite!Yield(x, e, ns), stateful' \subseteq Composite!Nodes
  PROVE  TreeInv'
<1>1. CASE Composite!Owner(x) = Composite!Consumer
  <2>1. Open(tree, x) /\ waiting = Composite!None /\ node[x].st = "running"
    BY <1>1, TreeFacts, OwnerIs DEF Composite!Runs, Composite!Free
  <2>2. /\ shown' = Append(shown, e) /\ waiting' = [at |-> x, event |-> e] /\ node' = ns
        /\ queue' = queue
    BY <1>1 DEF Composite!Yield
  <2>3. Gentle(tree, node, node')
    BY <2>2, FadesIsGentle
  <2> QED BY <2>1, <2>2, <2>3, TreeFacts, DeliverIs
<1>2. CASE Composite!Owner(x) # Composite!Consumer
  <2>1. /\ queue' = [queue EXCEPT ![Composite!Owner(x)] = Append(@, e)]
        /\ node' = Composite!After(x, e, ns) /\ UNCHANGED <<waiting, shown>>
    BY <1>2 DEF Composite!Yield
  <2>2. QueueTyped(tree, queue') /\ Queued(tree, queue')
    BY <1>2, <2>1, OfOwner, PutIs, TreeFacts
  <2>3. node[x].st # "idle"
    BY DEF Composite!Runs
  <2> QED BY <2>1, <2>2, <2>3, EnqueueIs
<1> QED BY <1>1, <1>2

LEMMA NodeIs ==
  ASSUME TheTree, NEW n \in Composite!Nodes
  PROVE  /\ node[n] \in Locals(tree) /\ Within(tree, n, node[n]) /\ node \in [Composite!Nodes -> Locals(tree)]
         /\ Composite!Kids(n) \in Seq(Composite!Nodes) /\ Composite!Kids(n) = tree.kids[n] /\ Composite!Kind(n) = tree.kind[n]
         /\ Composite!Kids(n) = <<>> <=> Composite!Kind(n) = "leaf"
         /\ Composite!Kind(n) \in {"leaf", "sequence", "loop", "parallel"}
         /\ tree.events[n] \in Nat /\ Passes \in Nat
BY TreeFacts DEF LocalsTyped, Composite!IsTree, Members, Composite!Kids, Composite!Kind, TheTree, Composite!CompositeAssumption

\* The locals of one agent change, and it does not start.
LEMMA SetOne ==
  ASSUME TheTree, NEW n \in Composite!Nodes, NEW v \in Locals(tree), Within(tree, n, v),
         node[n].st # "idle", v.st # "idle", v.st = "running" => node[n].st = "running",
         v.step >= node[n].step \/ Composite!Kind(n) \in {"loop", "parallel"}
  PROVE  Fades(tree, node, [node EXCEPT ![n] = v]) /\ Gentle(tree, node, [node EXCEPT ![n] = v])
<1>1. LocalsTyped(tree, node) /\ n \in Members(tree)
  BY TreeFacts
<1>2. tree.kind[n] \in {"leaf", "sequence"} => v.step >= node[n].step
  BY DEF Composite!Kind
<1>3. Fades(tree, node, [node EXCEPT ![n] = v])
  BY <1>1, <1>2, SetFades
<1> QED BY <1>3, FadesIsGentle

LEMMA StatusIs ==
  ASSUME TheTree, NEW n \in Composite!Nodes, node[n].st # "idle",
         NEW st \in {"ended", "raised", "dropped", "joined"}
  PROVE  /\ Fades(tree, node, [node EXCEPT ![n].st = st])
         /\ Gentle(tree, node, [node EXCEPT ![n].st = st])
<1> DEFINE v == [node[n] EXCEPT !.st = st]
<1>1. node[n] \in Locals(tree) /\ Within(tree, n, node[n]) /\ node[n].step \in Nat
  BY NodeIs DEF Locals
<1>2. v \in Locals(tree) /\ v.st = st /\ v.step = node[n].step /\ Within(tree, n, v)
  <2> DEFINE u == node[n]
  <2>1. u \in Locals(tree) /\ Within(tree, n, u) /\ st \in Sts /\ st # "running" /\ n \in Members(tree)
    BY <1>1, TreeFacts DEF Sts
  <2> HIDE DEF u
  <2> QED BY <2>1, SetIs DEF u
<1>3. [node EXCEPT ![n].st = st] = [node EXCEPT ![n] = v]
  OBVIOUS
<1> HIDE DEF v
<1> QED BY <1>1, <1>2, <1>3, SetOne

-----------------------------------------------------------------------------
(* The steps.                                                              *)

LEMMA LeafYieldsIs == ASSUME TheTree, NEW n \in Composite!Nodes, Composite!LeafYields(n) PROVE TreeInv'
<1>1. PICK final, escalate \in BOOLEAN :
        Composite!Yield(n, Composite!Event(n, node[n].emitted + 1, final, escalate),
              [node EXCEPT ![n].emitted = @ + 1])
  BY DEF Composite!LeafYields
<1>2. /\ Composite!Kind(n) = "leaf" /\ Composite!Runs(n) /\ node[n].emitted < tree.events[n] /\ tree' = tree
      /\ stateful' = stateful \cup {n}
  BY DEF Composite!LeafYields, Composite!Kept
<1> DEFINE e == Composite!Event(n, node[n].emitted + 1, final, escalate)
           v == [node[n] EXCEPT !.emitted = @ + 1]
<1>3. node[n] \in Locals(tree) /\ Within(tree, n, node[n]) /\ tree.events[n] \in Nat
  BY NodeIs
<1>4. /\ v \in Locals(tree) /\ v.st = node[n].st /\ v.step = node[n].step /\ v.step \in Nat
      /\ v.iteration = node[n].iteration /\ v.emitted = node[n].emitted + 1
      /\ node[n].emitted \in Nat
  BY <1>3 DEF Locals
<1>5. [node EXCEPT ![n].emitted = @ + 1] = [node EXCEPT ![n] = v]
  BY NodeIs
<1>6. e \in Heard(tree) /\ From(tree, e, n)
  BY <1>4, TreeFacts DEF Heard, Composite!Event, From
<1>7. tree.kind[n] = "leaf"
  BY <1>2 DEF Composite!Kind
<1> HIDE DEF v, e
<1>8. Within(tree, n, v)
  BY <1>2, <1>3, <1>4, <1>7 DEF Within
<1>9. Fades(tree, node, [node EXCEPT ![n] = v])
  BY <1>2, <1>4, <1>8, SetOne DEF Composite!Runs
<1>10. stateful' \subseteq Composite!Nodes
  BY <1>2 DEF TheTree, TreeInv, Members, Composite!Nodes
<1>11. Composite!Yield(n, e, [node EXCEPT ![n] = v])
  BY <1>1, <1>5 DEF e
<1> QED BY <1>2, <1>6, <1>9, <1>10, <1>11, YieldIs

\* A step that changes the status of an agent only.
LEMMA StatusStep ==
  ASSUME TheTree, NEW n \in Composite!Nodes, node[n].st # "idle",
         NEW st \in {"ended", "raised", "dropped", "joined"}, node' = [node EXCEPT ![n].st = st],
         UNCHANGED <<tree, queue, waiting, shown, stateful>>
  PROVE  TreeInv'
<1>1. Gentle(tree, node, node')
  BY StatusIs
<1>2. QueueTyped(tree, queue') /\ Queued(tree, queue')
  BY TreeFacts
<1>3. stateful' \subseteq Composite!Nodes
  BY DEF TheTree, TreeInv, Members, Composite!Nodes
<1> QED BY <1>1, <1>2, <1>3, KeepIs

LEMMA EndsIs ==
  ASSUME TheTree, NEW n \in Composite!Nodes,
         Composite!LeafEnds(n) \/ Composite!SequenceEnds(n) \/ Composite!LoopKilled(n) \/ Composite!Propagate(n)
  PROVE  TreeInv'
<1>1. node[n].st # "idle" /\ UNCHANGED <<tree, queue, waiting, shown, stateful>>
  BY DEF Composite!LeafEnds, Composite!SequenceEnds, Composite!LoopKilled, Composite!Propagate, Composite!Runs
<1>2. \E st \in {"ended", "raised"} : node' = [node EXCEPT ![n].st = st]
  BY DEF Composite!LeafEnds, Composite!SequenceEnds, Composite!LoopKilled, Composite!Propagate
<1>3. PICK st \in {"ended", "raised"} : node' = [node EXCEPT ![n].st = st]
  BY <1>2
<1>4. st \in {"ended", "raised", "dropped", "joined"}
  OBVIOUS
<1> QED BY <1>1, <1>3, <1>4, StatusStep

LEMMA ExhaustedIs == ASSUME TheTree, NEW n \in Composite!Nodes, Composite!LoopExhausted(n) PROVE TreeInv'
<1> DEFINE e == Composite!Event(n, node[n].emitted + 1, FALSE, FALSE)
<1>1. /\ Composite!Runs(n) /\ Composite!Yield(n, e, [node EXCEPT ![n].st = "ended"]) /\ tree' = tree
      /\ stateful' = stateful
  BY DEF Composite!LoopExhausted
<1>2. node[n].emitted \in Nat
  BY NodeIs DEF Locals
<1>3. e \in Heard(tree) /\ From(tree, e, n)
  BY <1>2, TreeFacts DEF Heard, Composite!Event, From
<1>4. Fades(tree, node, [node EXCEPT ![n].st = "ended"])
  <2>1. node[n].st # "idle" /\ "ended" \in {"ended", "raised", "dropped", "joined"}
    BY <1>1 DEF Composite!Runs
  <2> QED BY <2>1, StatusIs
<1>5. stateful' \subseteq Composite!Nodes
  BY <1>1 DEF TheTree, TreeInv, Members, Composite!Nodes
<1> HIDE DEF e
<1> QED BY <1>1, <1>3, <1>4, <1>5, YieldIs

\* What ctx.derive makes of a child.
LEMMA DerivedIs ==
  ASSUME TheTree, NEW n \in Composite!Nodes, NEW c \in Composite!Nodes, NEW input \in Heard(tree)
  PROVE  /\ Composite!Derived(n, input) \in Locals(tree) /\ Within(tree, c, Composite!Derived(n, input))
         /\ Composite!Derived(n, input).st = "running"
<1> DEFINE v == Composite!Derived(n, input)
<1>1. node[n].ended \in BOOLEAN
  BY NodeIs DEF Locals
<1>2. Composite!User \in Heard(tree)
  BY DEF Composite!User, Heard
<1>3. /\ v \in Locals(tree) /\ v.st = "running" /\ v.step = 0 /\ v.iteration = 0 /\ v.emitted = 0
  BY <1>1, <1>2 DEF Composite!Derived, Composite!Idle, Locals, Sts
<1> HIDE DEF v
<1>4. Composite!Kind(c) = "parallel" => Len(Composite!Kids(c)) > 0
  <2>1. Composite!Kids(c) \in Seq(Composite!Nodes) /\ (Composite!Kind(c) = "parallel" => Composite!Kids(c) # <<>>)
    BY NodeIs
  <2> QED BY <2>1
<1>5. Len(Composite!Kids(c)) \in Nat /\ tree.events[c] \in Nat /\ Passes \in Nat
  BY NodeIs
<1>6. Within(tree, c, v)
  BY <1>3, <1>4, <1>5 DEF Within, Composite!Kind, Composite!Kids
<1> QED BY <1>3, <1>6 DEF v

LEMMA NextChildIs == ASSUME TheTree, NEW n \in Composite!Nodes, Composite!NextChild(n) PROVE TreeInv'
<1> DEFINE c == Composite!Kids(n)[node[n].step + 1]
           input == IF Composite!Kind(n) = "sequence" THEN node[n].next ELSE node[n].input
           stops == node[n].ended /\ (Composite!Kind(n) = "sequence" \/ node[n].step = 0)
<1>1. /\ Composite!Kind(n) \in {"sequence", "loop"} /\ node[n].st = "running" /\ node[n].step < Len(Composite!Kids(n))
      /\ Composite!Kind(n) = "loop" /\ node[n].step = 0 => node[n].iteration < Passes
      /\ UNCHANGED <<tree, queue, waiting, shown, stateful>>
      /\ node' = IF stops THEN [node EXCEPT ![n].st = "ended"]
                 ELSE [node EXCEPT ![n].step = @ + 1, ![c] = Composite!Derived(n, input)]
  BY DEF Composite!NextChild, Composite!Runs
<1>2. CASE stops
  <2>1. node' = [node EXCEPT ![n].st = "ended"]
    BY <1>1, <1>2
  <2>2. "ended" \in {"ended", "raised", "dropped", "joined"}
    OBVIOUS
  <2> QED BY <1>1, <2>1, <2>2, StatusStep
<1>3. CASE ~stops
  <2> DEFINE v == [node[n] EXCEPT !.step = @ + 1]
             d == Composite!Derived(n, input)
  <2>1. node' = [node EXCEPT ![n].step = @ + 1, ![c] = d]
    BY <1>1, <1>3
  <2>2. /\ node[n] \in Locals(tree) /\ Within(tree, n, node[n]) /\ node \in [Composite!Nodes -> Locals(tree)]
        /\ Composite!Kids(n) \in Seq(Composite!Nodes) /\ Passes \in Nat
    BY NodeIs
  <2>3. /\ v \in Locals(tree) /\ v.st = node[n].st /\ v.step = node[n].step + 1
        /\ node[n].step \in Nat /\ v.iteration = node[n].iteration /\ v.emitted = node[n].emitted
        /\ node[n].iteration \in Nat
    <3>1. node[n].step \in Nat /\ node[n].iteration \in Nat /\ node[n].step + 1 \in Nat
      BY <2>2 DEF Locals
    <3>2. v \in Locals(tree)
      BY <2>2, <3>1 DEF Locals
    <3> QED BY <2>2, <3>1, <3>2 DEF Locals
  <2>4. input \in Heard(tree)
    BY <2>2 DEF Locals
  <2>5. node[n].step + 1 \in DOMAIN Composite!Kids(n) /\ c \in Composite!Nodes /\ c \in Composite!ToSet(Composite!Kids(n))
    <3>1. node[n].step + 1 \in 1..Len(Composite!Kids(n)) /\ DOMAIN Composite!Kids(n) = 1..Len(Composite!Kids(n))
      BY <1>1, <2>2, <2>3
    <3> QED BY <2>2, <3>1 DEF Composite!ToSet
  <2>6. c # n
    <3>1. c \in Composite!ToSet(tree.kids[n]) /\ n \in Members(tree) /\ Composite!IsTree(tree)
      BY <2>5, TreeFacts DEF Composite!Kids
    <3> HIDE DEF c
    <3>2. n \in tree.above[c]
      BY <3>1, ParentIs
    <3>3. n \notin tree.above[n]
      BY <3>1 DEF Composite!IsTree, Members
    <3> QED BY <3>2, <3>3
  <2>7. d \in Locals(tree) /\ Within(tree, c, d) /\ d.st = "running"
    BY <2>4, <2>5, DerivedIs
  <2> HIDE DEF d, input, c
  <2>8. node' = [node EXCEPT ![n] = v, ![c] = d]
    BY <2>1, <2>2
  <2> HIDE DEF v
  <2>9. /\ node' \in [Composite!Nodes -> Locals(tree)] /\ node'[n] = v /\ node'[c] = d
        /\ \A m \in Composite!Nodes : m # n /\ m # c => node'[m] = node[m]
    BY <2>2, <2>3, <2>5, <2>6, <2>7, <2>8
  <2>10. Within(tree, n, v)
    <3>1. tree.kids[n] = Composite!Kids(n) /\ tree.kind[n] = Composite!Kind(n) /\ Len(Composite!Kids(n)) \in Nat
      BY <2>2 DEF Composite!Kids, Composite!Kind
    <3> QED BY <1>1, <2>2, <2>3, <3>1 DEF Within
  <2>11. LocalsTyped(tree, node) /\ LocalsTyped(tree, node') /\ Composite!Nodes = Members(tree)
    <3>1. \A m \in Composite!Nodes : Within(tree, m, node'[m])
      BY <2>7, <2>9, <2>10, NodeIs
    <3> QED BY <2>9, <3>1, TreeFacts DEF LocalsTyped
  <2>12. ASSUME NEW m \in Composite!Nodes PROVE GentleAt(tree, node, node', m)
    <3>1. CASE m = c
      <4>1. Starts(tree, node, node', c)
        BY <1>1, <2>3, <2>5, <2>9, <2>11 DEF Starts, Composite!Kids, c
      <4> QED BY <3>1, <4>1, <2>7, <2>9 DEF GentleAt
    <3>2. CASE m = n
      BY <1>1, <2>3, <2>9, <3>2 DEF GentleAt, FadesAt
    <3>3. CASE m # n /\ m # c
      <4>1. node'[m] = node[m] /\ node[m].step \in Nat
        BY <2>2, <2>9, <3>3 DEF Locals
      <4> QED BY <4>1 DEF GentleAt, FadesAt
    <3> QED BY <3>1, <3>2, <3>3
  <2>13. Gentle(tree, node, node')
    BY <2>11, <2>12 DEF Gentle
  <2>14. QueueTyped(tree, queue') /\ Queued(tree, queue') /\ stateful' \subseteq Composite!Nodes
    BY <1>1, TreeFacts DEF TheTree, TreeInv
  <2> QED BY <1>1, <2>13, <2>14, KeepIs
<1> QED BY <1>2, <1>3

LEMMA PassEndsIs == ASSUME TheTree, NEW n \in Composite!Nodes, Composite!PassEnds(n) PROVE TreeInv'
<1>1. /\ Composite!Kind(n) = "loop" /\ node[n].st = "running" /\ node[n].step = Len(Composite!Kids(n))
      /\ UNCHANGED <<tree, queue, waiting, shown>>
  BY DEF Composite!PassEnds, Composite!Runs
<1>2. CASE node' = [node EXCEPT ![n].st = "ended"] /\ UNCHANGED stateful
  <2>1. "ended" \in {"ended", "raised", "dropped", "joined"}
    OBVIOUS
  <2> QED BY <1>1, <1>2, <2>1, StatusStep
<1>3. CASE /\ node' = [node EXCEPT ![n].step = 0, ![n].iteration = @ + 1]
           /\ stateful' = Composite!Forgotten(n)
  <2> DEFINE v == [node[n] EXCEPT !.step = 0, !.iteration = @ + 1]
  <2>1. /\ node[n] \in Locals(tree) /\ Within(tree, n, node[n]) /\ node \in [Composite!Nodes -> Locals(tree)]
        /\ Composite!Kids(n) \in Seq(Composite!Nodes) /\ Passes \in Nat /\ Composite!Kids(n) # <<>>
    BY <1>1, NodeIs
  <2>2. /\ v \in Locals(tree) /\ v.st = node[n].st /\ v.step = 0
        /\ v.iteration = node[n].iteration + 1 /\ v.emitted = node[n].emitted
        /\ node[n].iteration \in Nat
    <3>1. node[n].iteration \in Nat /\ node[n].iteration + 1 \in Nat
      BY <2>1 DEF Locals
    <3>2. v \in Locals(tree)
      BY <2>1, <3>1 DEF Locals
    <3> QED BY <2>1, <3>1, <3>2 DEF Locals
  <2>3. node' = [node EXCEPT ![n] = v]
    BY <1>3, <2>1
  <2> HIDE DEF v
  <2>4. tree.kids[n] = Composite!Kids(n) /\ tree.kind[n] = Composite!Kind(n) /\ Len(Composite!Kids(n)) \in Nat /\ Len(Composite!Kids(n)) > 0
    BY <2>1 DEF Composite!Kids, Composite!Kind
  <2>5. Within(tree, n, v)
    BY <1>1, <2>1, <2>2, <2>4 DEF Within
  <2>6. Gentle(tree, node, node')
    BY <1>1, <2>2, <2>3, <2>5, SetOne
  <2>7. QueueTyped(tree, queue') /\ Queued(tree, queue') /\ stateful' \subseteq Composite!Nodes
    BY <1>1, <1>3, TreeFacts DEF TheTree, TreeInv, Composite!Forgotten
  <2> QED BY <1>1, <2>6, <2>7, KeepIs
<1> QED BY <1>2, <1>3 DEF Composite!PassEnds

LEMMA ForkIs == ASSUME TheTree, NEW n \in Composite!Nodes, Composite!Fork(n) PROVE TreeInv'
<1> DEFINE v == [node[n] EXCEPT !.step = 1]
           d == Composite!Derived(n, node[n].input)
<1>1. /\ Composite!Kind(n) = "parallel" /\ node[n].st = "running"
      /\ queue' = [queue EXCEPT ![n] = <<>>] /\ UNCHANGED <<tree, waiting, shown, stateful>>
      /\ node' = [m \in Composite!Nodes |-> IF m = n THEN v ELSE IF m \in Composite!ToSet(Composite!Kids(n)) THEN d ELSE node[m]]
  BY DEF Composite!Fork, Composite!Runs
<1>2. /\ node[n] \in Locals(tree) /\ Within(tree, n, node[n]) /\ node \in [Composite!Nodes -> Locals(tree)]
      /\ Composite!Kids(n) \in Seq(Composite!Nodes) /\ Composite!Kids(n) # <<>> /\ Composite!Nodes = Members(tree)
  BY <1>1, NodeIs, TreeFacts
<1>3. /\ v \in Locals(tree) /\ v.st = node[n].st /\ v.step = 1 /\ v.iteration = node[n].iteration
      /\ v.emitted = node[n].emitted /\ node[n].input \in Heard(tree)
  BY <1>2 DEF Locals
<1>4. Len(Composite!Kids(n)) \in Nat /\ Len(Composite!Kids(n)) > 0 /\ tree.kids[n] = Composite!Kids(n) /\ tree.kind[n] = Composite!Kind(n)
  BY <1>2 DEF Composite!Kids, Composite!Kind
<1>5. \A m \in Composite!Nodes : d \in Locals(tree) /\ Within(tree, m, d) /\ d.st = "running"
  BY <1>3, DerivedIs
<1> HIDE DEF d, v
<1>6. Within(tree, n, v)
  BY <1>1, <1>2, <1>3, <1>4 DEF Within
<1>7. ASSUME NEW m \in Composite!Nodes
      PROVE  node'[m] \in Locals(tree) /\ Within(tree, m, node'[m]) /\ GentleAt(tree, node, node', m)
  <2>1. CASE m = n
    <3>1. node'[m] = v /\ tree.kind[m] = "parallel"
      BY <1>1, <1>4, <2>1
    <3> QED BY <1>1, <1>3, <1>6, <2>1, <3>1 DEF GentleAt, FadesAt
  <2>2. CASE m # n /\ m \in Composite!ToSet(Composite!Kids(n))
    <3>1. node'[m] = d
      BY <1>1, <2>2
    <3>2. Starts(tree, node, node', m)
      BY <1>1, <1>2, <1>4, <2>2 DEF Starts
    <3> QED BY <1>5, <3>1, <3>2 DEF GentleAt
  <2>3. CASE m # n /\ m \notin Composite!ToSet(Composite!Kids(n))
    <3>1. node'[m] = node[m] /\ node[m] \in Locals(tree) /\ Within(tree, m, node[m])
      BY <1>1, <2>3, NodeIs
    <3>2. node[m].step \in Nat
      BY <3>1 DEF Locals
    <3> QED BY <3>1, <3>2 DEF GentleAt, FadesAt
  <2> QED BY <2>1, <2>2, <2>3
<1>8. node' \in [Composite!Nodes -> Locals(tree)]
  <2>1. node' = [m \in Composite!Nodes |-> node'[m]]
    BY <1>1
  <2> QED BY <1>7, <2>1
<1>9. Gentle(tree, node, node')
  BY <1>2, <1>7, <1>8, TreeFacts DEF Gentle, LocalsTyped
<1>10. QueueTyped(tree, queue') /\ Queued(tree, queue')
  <2>1. queue \in [Composite!Nodes -> Seq(Heard(tree) \cup {Composite!End})] /\ Queued(tree, queue)
    BY <1>2, TreeFacts DEF QueueTyped
  <2>2. /\ queue' \in [Composite!Nodes -> Seq(Heard(tree) \cup {Composite!End})] /\ queue'[n] = <<>>
        /\ \A m \in Composite!Nodes : m # n => queue'[m] = queue[m]
    BY <1>1, <2>1
  <2>3. \A m \in Composite!Nodes : \A i \in DOMAIN queue'[m] : m # n
    BY <2>2
  <2> QED BY <1>2, <2>1, <2>2, <2>3 DEF QueueTyped, Queued
<1>11. stateful' \subseteq Composite!Nodes
  BY <1>1, <1>2 DEF TheTree, TreeInv
<1> QED BY <1>1, <1>9, <1>10, <1>11, KeepIs

LEMMA PutEndIs == ASSUME TheTree, NEW n \in Composite!Nodes, Composite!PutEnd(n) PROVE TreeInv'
<1>1. /\ node[n].st = "ended" /\ node' = [node EXCEPT ![n].st = "joined"]
      /\ queue' = [queue EXCEPT ![Composite!Owner(n)] = Append(@, Composite!End)]
      /\ UNCHANGED <<tree, waiting, shown, stateful>>
  BY DEF Composite!PutEnd
<1>2. ~Open(tree, n)
  BY DEF Composite!PutEnd, Open, Composite!Above, Composite!Kind
<1>3. Composite!Owner(n) \in Members(tree) /\ tree.kind[Composite!Owner(n)] = "parallel"
  BY <1>2, TreeFacts, OwnerIs DEF Composite!Kind
<1>4. QueueTyped(tree, queue') /\ Queued(tree, queue')
  BY <1>1, <1>3, PutIs, TreeFacts
<1>5. Gentle(tree, node, node')
  <2>1. "joined" \in {"ended", "raised", "dropped", "joined"}
    OBVIOUS
  <2> QED BY <1>1, <2>1, StatusIs
<1>6. stateful' \subseteq Composite!Nodes
  BY <1>1 DEF TheTree, TreeInv, Members, Composite!Nodes
<1> QED BY <1>1, <1>4, <1>5, <1>6, KeepIs

LEMMA TakeEventIs == ASSUME TheTree, NEW n \in Composite!Nodes, Composite!TakeEvent(n) PROVE TreeInv'
<1> DEFINE e == Head(queue[n])
           taken == [queue EXCEPT ![n] = Tail(@)]
<1>1. /\ Composite!Kind(n) = "parallel" /\ Composite!Runs(n) /\ queue[n] # <<>> /\ e # Composite!End /\ UNCHANGED <<tree, stateful>>
  BY DEF Composite!TakeEvent
<1>2. /\ QueueTyped(tree, taken) /\ Queued(tree, taken)
      /\ e \in Heard(tree) /\ From(tree, e, n) /\ e.at # n
  BY <1>1, TakeIs, TreeFacts
<1>3. stateful' \subseteq Composite!Nodes
  BY <1>1 DEF TheTree, TreeInv, Members, Composite!Nodes
<1>4. CASE Composite!Owner(n) = Composite!Consumer
  <2>1. /\ shown' = Append(shown, e) /\ waiting' = [at |-> n, event |-> e]
        /\ queue' = taken /\ node' = node
    BY <1>4 DEF Composite!TakeEvent
  <2>2. Open(tree, n) /\ waiting = Composite!None /\ node[n].st = "running"
    BY <1>1, <1>4, TreeFacts, OwnerIs DEF Composite!Runs, Composite!Free
  <2>3. Gentle(tree, node, node')
    BY <2>1, TreeFacts, SameFades, FadesIsGentle
  <2> HIDE DEF e, taken
  <2> QED BY <1>1, <1>2, <1>3, <2>1, <2>2, <2>3, DeliverIs
<1>5. CASE Composite!Owner(n) # Composite!Consumer
  <2>1. /\ queue' = [queue EXCEPT ![n] = Tail(@), ![Composite!Owner(n)] = Append(@, e)]
        /\ node' = Composite!After(n, e, node) /\ UNCHANGED <<waiting, shown>>
    BY <1>5 DEF Composite!TakeEvent
  <2>2. queue' = [taken EXCEPT ![Composite!Owner(n)] = Append(@, e)]
    <3>1. Composite!Owner(n) \in Members(tree) /\ n \in Members(tree) /\ Composite!Owner(n) # n
      BY <1>5, TreeFacts, OwnerIs DEF Composite!Above, Composite!IsTree, Members
    <3>2. queue \in [Members(tree) -> Seq(Heard(tree) \cup {Composite!End})]
      BY TreeFacts DEF QueueTyped
    <3> HIDE DEF e
    <3> QED BY <2>1, <3>1, <3>2
  <2> HIDE DEF e, taken
  <2>3. /\ Composite!Owner(n) \in Members(tree) /\ tree.kind[Composite!Owner(n)] = "parallel"
        /\ From(tree, e, Composite!Owner(n)) /\ e.at # Composite!Owner(n)
    BY <1>2, <1>5, OfOwner
  <2>4. QueueTyped(tree, queue') /\ Queued(tree, queue')
    BY <1>2, <2>2, <2>3, PutIs, TreeFacts
  <2>5. Fades(tree, node, node) /\ node[n].st # "idle"
    BY <1>1, TreeFacts, SameFades DEF Composite!Runs
  <2> QED BY <1>1, <1>2, <1>3, <2>1, <2>4, <2>5, EnqueueIs
<1> QED BY <1>4, <1>5

LEMMA TakeEndIs == ASSUME TheTree, NEW n \in Composite!Nodes, Composite!TakeEnd(n) PROVE TreeInv'
<1> DEFINE st == IF node[n].emitted + 1 = Len(Composite!Kids(n)) THEN "ended" ELSE node[n].st
           v == [node[n] EXCEPT !.emitted = @ + 1, !.st = st]
<1>1. /\ Composite!Kind(n) = "parallel" /\ node[n].st = "running" /\ queue[n] # <<>>
      /\ queue' = [queue EXCEPT ![n] = Tail(@)] /\ UNCHANGED <<tree, waiting, shown, stateful>>
      /\ node' = [node EXCEPT ![n].emitted = @ + 1,
                              ![n].st = IF node[n].emitted + 1 = Len(Composite!Kids(n)) THEN "ended" ELSE @]
  BY DEF Composite!TakeEnd, Composite!Runs
<1>2. /\ node[n] \in Locals(tree) /\ Within(tree, n, node[n]) /\ node \in [Composite!Nodes -> Locals(tree)]
      /\ Composite!Kids(n) \in Seq(Composite!Nodes)
  BY NodeIs
<1>3. node' = [node EXCEPT ![n] = v]
  BY <1>1, <1>2
<1>4. node[n].emitted \in Nat /\ node[n].emitted + 1 \in Nat /\ st \in {"ended", "running"}
  BY <1>1, <1>2 DEF Locals
<1>5. v \in Locals(tree) /\ v.st = st /\ v.step = node[n].step /\ v.iteration = node[n].iteration
      /\ v.emitted = node[n].emitted + 1
  <2> HIDE DEF st
  <2> QED BY <1>2, <1>4 DEF Locals, Sts
<1>6. Within(tree, n, v)
  <2>1. tree.kids[n] = Composite!Kids(n) /\ tree.kind[n] = "parallel" /\ Len(Composite!Kids(n)) \in Nat
    BY <1>1, <1>2 DEF Composite!Kids, Composite!Kind
  <2>2. node[n].emitted < Len(Composite!Kids(n))
    BY <1>1, <1>2, <2>1 DEF Within
  <2>3. node[n].emitted + 1 <= Len(Composite!Kids(n))
    BY <1>4, <2>1, <2>2
  <2>4. st = "running" => node[n].emitted + 1 # Len(Composite!Kids(n))
    OBVIOUS
  <2> HIDE DEF v, st
  <2> QED BY <1>2, <1>4, <1>5, <2>1, <2>3, <2>4 DEF Within
<1> HIDE DEF v, st
<1>7. Gentle(tree, node, node')
  BY <1>1, <1>3, <1>4, <1>5, <1>6, SetOne
<1>8. QueueTyped(tree, queue') /\ Queued(tree, queue')
  BY <1>1, TakeIs, TreeFacts, ZenonT(60)
<1>9. stateful' \subseteq Composite!Nodes
  BY <1>1 DEF TheTree, TreeInv, Members, Composite!Nodes
<1> QED BY <1>1, <1>7, <1>8, <1>9, KeepIs

LEMMA CancelIs == ASSUME TheTree, NEW n \in Composite!Nodes, Composite!Cancel(n) PROVE TreeInv'
<1>1. /\ node' = [m \in Composite!Nodes |-> IF m \in Composite!Below(n) /\ node[m].st = "running"
                                  THEN [node[m] EXCEPT !.st = "dropped"] ELSE node[m]]
      /\ UNCHANGED <<tree, queue, waiting, shown, stateful>>
  BY DEF Composite!Cancel
<1>2. ASSUME NEW m \in Composite!Nodes
      PROVE  node'[m] \in Locals(tree) /\ Within(tree, m, node'[m]) /\ FadesAt(tree, node, node', m)
  <2> DEFINE u == node[m]
  <2>1. u \in Locals(tree) /\ Within(tree, m, u) /\ "dropped" \in Sts /\ m \in Members(tree)
    BY NodeIs, TreeFacts DEF Sts
  <2>2. u.step \in Nat
    BY <2>1 DEF Locals
  <2>3. CASE node'[m] = u
    BY <2>1, <2>2, <2>3 DEF FadesAt
  <2>4. CASE u.st = "running" /\ node'[m] = [u EXCEPT !.st = "dropped"]
    <3> DEFINE w == node'[m]
    <3> HIDE DEF u
    <3>1. w \in Locals(tree) /\ Within(tree, m, w) /\ w.st = "dropped" /\ w.step = u.step
      BY <2>1, <2>4, SetIs
    <3> HIDE DEF w
    <3>2. FadesAt(tree, node, node', m)
      BY <2>2, <2>4, <3>1 DEF FadesAt, w, u
    <3> QED BY <3>1, <3>2 DEF w
  <2> QED BY <1>1, <2>3, <2>4
<1>3. node' = [m \in Composite!Nodes |-> node'[m]]
  BY <1>1
<1>4. Fades(tree, node, node')
  <2>1. node' \in [Composite!Nodes -> Locals(tree)]
    BY <1>2, <1>3
  <2> QED BY <1>2, <2>1, TreeFacts DEF Fades, LocalsTyped
<1>5. QueueTyped(tree, queue') /\ Queued(tree, queue') /\ stateful' \subseteq Composite!Nodes
  BY <1>1, TreeFacts DEF TheTree, TreeInv
<1> QED BY <1>1, <1>4, <1>5, FadesIsGentle, KeepIs

\* The loops an event escalates out of are those above who yielded it.
LEMMA SameLoops ==
  ASSUME NEW t, Composite!IsTree(t), NEW x \in Members(t), Open(t, x), NEW e, From(t, e, x)
  PROVE  Loops(t, e.at) = {l \in t.above[x] : t.kind[l] = "loop"}
<1> DEFINE M == {l \in t.above[x] : t.kind[l] = "loop"}
<1>1. e.at \in Members(t) /\ (e.at = x \/ (t.kind[x] = "parallel" /\ x \in t.above[e.at]))
  BY DEF From
<1>2. t.above[x] \subseteq t.above[e.at]
  BY <1>1 DEF Composite!IsTree, Members
<1>3. ASSUME NEW l \in M PROVE l \in Loops(t, e.at)
  <2>1. t.above[l] \subseteq t.above[x]
    BY <1>3 DEF Composite!IsTree, Members
  <2> QED BY <1>2, <2>1 DEF Loops, Open
<1>4. ASSUME NEW l \in Loops(t, e.at) PROVE l \in M
  <2>1. l \in t.above[e.at] /\ t.kind[l] = "loop" /\ Open(t, l)
    BY DEF Loops
  <2>2. CASE t.kind[x] = "parallel" /\ x \in t.above[e.at]
    <3>1. l = x \/ l \in t.above[x] \/ x \in t.above[l]
      BY <1>1, <2>1, <2>2 DEF Composite!IsTree, Members
    <3> QED BY <2>1, <2>2, <3>1 DEF Open
  <2> QED BY <1>1, <2>1, <2>2
<1> QED BY <1>3, <1>4

LEMMA ResumeIs == ASSUME TheTree, Composite!Resume PROVE TreeInv'
<1> DEFINE x == waiting.at
           e == waiting.event
<1>1. /\ waiting # Composite!None /\ node' = Composite!After(x, e, node) /\ waiting' = Composite!None
      /\ UNCHANGED <<tree, queue, shown, stateful>>
  BY DEF Composite!Resume
<1>2. x \in Members(tree) /\ e \in Heard(tree) /\ Composite!Nodes = Members(tree) /\ Composite!IsTree(tree)
  BY <1>1, TreeFacts
<1>3. Open(tree, x) /\ node[x].st # "idle" /\ From(tree, e, x)
  BY <1>1 DEF TheTree, TreeInv, Held
<1> HIDE DEF x, e
<1>4. \A p \in tree.above[x] : node[p].st # "idle"
  BY <1>2, <1>3, AboveIs, TreeFacts, SameFades
<1>5. Gentle(tree, node, node')
  BY <1>1, <1>2, <1>4, TreeFacts, AfterFades, FadesIsGentle
<1>6. e.escalate /\ Loops(tree, e.at) # {} => Quiet(tree, node', Top(tree, e.at))
  <2> SUFFICES ASSUME e.escalate, Loops(tree, e.at) # {} PROVE Quiet(tree, node', Top(tree, e.at))
    OBVIOUS
  <2> DEFINE top == Top(tree, e.at)
             loops == {l \in Composite!Chain(x) : Composite!Kind(l) = "loop"}
  <2>1. loops = Loops(tree, e.at)
    <3>1. Composite!Chain(x) = tree.above[x]
      BY <1>2, <1>3, OwnerIs DEF Composite!Chain, Composite!Above
    <3> QED BY <1>2, <1>3, <3>1, SameLoops DEF Composite!Kind
  <2> HIDE DEF loops
  <2>2. Composite!Outermost(loops) = top
    BY <2>1 DEF Top, Composite!Outermost, Composite!Above
  <2>3. node' = [Composite!LeftBehind(node, top) EXCEPT ![top].st = "ended"]
    BY <1>1, <2>1, <2>2 DEF Composite!After, loops
  <2>4. top \in Loops(tree, e.at) /\ top \in Members(tree)
    BY <1>2, <1>3, TopIs DEF From
  <2>5. node[top].st # "idle"
    BY <1>2, <1>3, <1>4, <2>4, SameLoops
  <2> HIDE DEF top
  <2> DEFINE ns == [Composite!LeftBehind(node, top) EXCEPT ![top].st = "ended"]
  <2>6. /\ ns[top].st = "ended"
        /\ \A m \in Members(tree) : top \in tree.above[m] /\ Open(tree, m) => ns[m].st # "running"
    <3>1. "ended" \in {"ended", "dropped"}
      OBVIOUS
    <3>2. LocalsTyped(tree, node)
      BY TreeFacts
    <3> QED BY <1>2, <2>4, <2>5, <3>1, <3>2, LeftBehindFades, Zenon
  <2>7. Quiet(tree, ns, top)
    <3> HIDE DEF ns
    <3> QED BY <2>6 DEF Quiet
  <2> QED BY <2>3, <2>7 DEF top
<1> QED BY <1>1, <1>5, <1>6, ReleaseIs DEF e

LEMMA CloseIs == ASSUME TheTree, Composite!Close PROVE TreeInv'
<1> DEFINE root == tree.root
           ns == [Composite!LeftBehind(node, root) EXCEPT ![root].st = "dropped"]
<1>1. /\ node' = ns /\ waiting' = Composite!None /\ UNCHANGED <<tree, queue, shown, stateful>>
  BY DEF Composite!Close
<1>2. Composite!IsTree(tree) /\ root \in Members(tree) /\ LocalsTyped(tree, node) /\ node[root].st # "idle"
  BY TreeFacts DEF TheTree, TreeInv
<1> HIDE DEF root
<1>3. /\ Fades(tree, node, ns) /\ ns[root].st = "dropped"
      /\ \A m \in Members(tree) : root \in tree.above[m] /\ Open(tree, m) => ns[m].st # "running"
  <2>1. "dropped" \in {"ended", "dropped"}
    OBVIOUS
  <2> QED BY <1>2, <2>1, LeftBehindFades, Zenon
<1> HIDE DEF ns
<1>4. Stopped(tree, ns)
  <2> SUFFICES ASSUME NEW m \in Members(tree), Open(tree, m) PROVE ns[m].st # "running"
    BY DEF Stopped
  <2>1. m = root \/ root \in tree.above[m]
    BY <1>2 DEF Composite!IsTree, Members, root
  <2> QED BY <1>3, <2>1
<1> QED BY <1>1, <1>3, <1>4, FadesIsGentle, ReleaseIs

LEMMA KillIs == ASSUME TheTree, Composite!Kill PROVE TreeInv'
<1> DEFINE n == tree.root
           v == [node[n] EXCEPT !.ended = TRUE]
<1>1. /\ node' = [node EXCEPT ![n].ended = TRUE]
      /\ UNCHANGED <<tree, queue, waiting, shown, stateful>>
  BY DEF Composite!Kill
<1>2. n \in Composite!Nodes /\ node[n].st # "idle"
  BY TreeFacts DEF TheTree, TreeInv
<1> HIDE DEF n
<1>3. node[n] \in Locals(tree) /\ Within(tree, n, node[n]) /\ node \in [Composite!Nodes -> Locals(tree)]
  BY <1>2, NodeIs
<1>4. /\ v \in Locals(tree) /\ v.st = node[n].st /\ v.step = node[n].step /\ v.step \in Nat
      /\ v.iteration = node[n].iteration /\ v.emitted = node[n].emitted
  BY <1>3 DEF Locals
<1>5. node' = [node EXCEPT ![n] = v]
  BY <1>1, <1>3
<1> HIDE DEF v
<1>6. Within(tree, n, v)
  BY <1>3, <1>4 DEF Within
<1>7. Gentle(tree, node, node')
  <2>1. v.step >= node[n].step
    BY <1>4
  <2>2. v.st # "idle" /\ (v.st = "running" => node[n].st = "running")
    BY <1>2, <1>4
  <2>3. Gentle(tree, node, [node EXCEPT ![n] = v])
    BY <1>2, <1>4, <1>6, <2>1, <2>2, SetOne
  <2> QED BY <1>5, <2>3
<1>8. QueueTyped(tree, queue') /\ Queued(tree, queue') /\ stateful' \subseteq Composite!Nodes
  BY <1>1, TreeFacts DEF TheTree, TreeInv
<1> QED BY <1>1, <1>7, <1>8, KeepIs

-----------------------------------------------------------------------------
LEMMA TreeInit == ASSUME Composite!CompositeAssumption, Composite!Init PROVE TreeInv
<1>1. Composite!IsTree(tree) /\ tree \in Trees /\ Composite!Nodes = Members(tree) /\ tree.root \in Members(tree)
      /\ Passes \in Nat
  BY DEF Composite!Init, Composite!CompositeAssumption, Composite!IsTree, Composite!Nodes, Members
<1>2. Composite!Idle \in Locals(tree) /\ [Composite!Idle EXCEPT !.st = "running"] \in Locals(tree)
  BY DEF Composite!Idle, Composite!User, Locals, Heard, Sts
<1>3. ASSUME NEW n \in Members(tree)
      PROVE  /\ node[n] \in Locals(tree) /\ Within(tree, n, node[n]) /\ node[n].step = 0
             /\ node[n].st # "idle" <=> n = tree.root
  <2>1. node[n] = Composite!Idle \/ node[n] = [Composite!Idle EXCEPT !.st = "running"]
    BY <1>1 DEF Composite!Init
  <2>2. /\ node[n].step = 0 /\ node[n].iteration = 0 /\ node[n].emitted = 0
        /\ node[n].st # "idle" <=> n = tree.root
    BY <1>1 DEF Composite!Init, Composite!Idle
  <2>3. /\ tree.kids[n] \in Seq(Members(tree)) /\ tree.events[n] \in Nat
        /\ tree.kind[n] = "parallel" => tree.kids[n] # <<>>
    BY <1>1 DEF Composite!IsTree, Members
  <2>4. /\ Len(tree.kids[n]) \in Nat /\ (tree.kind[n] = "parallel" => Len(tree.kids[n]) > 0)
    BY <2>3
  <2>5. Within(tree, n, node[n])
    BY <1>1, <2>2, <2>3, <2>4 DEF Within
  <2> QED BY <1>2, <2>1, <2>2, <2>5
<1>4. LocalsTyped(tree, node)
  <2>1. node = [n \in Members(tree) |-> node[n]]
    BY <1>1 DEF Composite!Init
  <2> QED BY <1>3, <2>1 DEF LocalsTyped
<1>5. TreeTypes(tree, node, queue, waiting, shown) /\ Queued(tree, queue)
  BY <1>1, <1>4 DEF Composite!Init, TreeTypes, Queued
<1>6. Rooted(tree, node)
  <2>1. tree.above[tree.root] = {}
    <3>1. \A p \in tree.above[tree.root] : p \in Members(tree) /\ p # tree.root
      BY <1>1 DEF Composite!IsTree, Members
    <3>2. \A p \in tree.above[tree.root] : tree.root \in tree.above[p]
      BY <1>1, <3>1 DEF Composite!IsTree, Members
    <3>3. \A p \in tree.above[tree.root] : tree.above[p] \subseteq tree.above[tree.root]
      BY <1>1 DEF Composite!IsTree, Members
    <3> QED BY <3>1, <3>2, <3>3
  <2> QED BY <1>1, <1>3, <2>1 DEF Rooted
<1>7. StartedOnce(tree, node)
  <2>1. ASSUME NEW q \in Members(tree), NEW j \in DOMAIN tree.kids[q], tree.kids[q][j] = tree.root
        PROVE  FALSE
    <3>1. tree.root \in Composite!ToSet(tree.kids[q])
      BY <2>1 DEF Composite!ToSet
    <3>2. q \in tree.above[tree.root]
      BY <1>1, <3>1, ParentIs
    <3>3. q # tree.root /\ tree.root \in tree.above[q] /\ tree.above[q] \subseteq tree.above[tree.root]
      BY <1>1, <3>2 DEF Composite!IsTree, Members
    <3> QED BY <1>1, <3>3 DEF Composite!IsTree, Members
  <2> QED BY <1>3, <2>1 DEF StartedOnce
<1> QED BY <1>1, <1>3, <1>5, <1>6, <1>7 DEF Composite!Init, TreeInv, Held, Showable

LEMMA TreeStep == ASSUME Composite!CompositeAssumption, TreeInv, [Composite!Next]_Composite!vars PROVE TreeInv'
<1> USE DEF TheTree
<1>1. CASE UNCHANGED Composite!vars
  BY <1>1 DEF Composite!vars, TreeInv
<1>2. ASSUME NEW n \in Composite!Nodes, Composite!Step(n) PROVE TreeInv'
  BY <1>2, LeafYieldsIs, EndsIs, NextChildIs, PassEndsIs, ExhaustedIs, ForkIs, PutEndIs,
     TakeEventIs, TakeEndIs, CancelIs DEF Composite!Step
<1> QED BY <1>1, <1>2, ResumeIs, CloseIs, KillIs DEF Composite!Next, Composite!Progress

LEMMA EscalationSafe == ASSUME Composite!CompositeAssumption, TreeInv PROVE Composite!NothingAfterEscalation
<1> SUFFICES ASSUME NEW k \in DOMAIN shown, shown[k].escalate,
                    {l \in Composite!Above(shown[k].at) : Composite!Kind(l) = "loop" /\ Composite!Owner(l) = Composite!Consumer} # {},
                    NEW m \in (k + 1)..Len(shown)
             PROVE  shown[m].at \notin
                      Composite!Below(Composite!Outermost({l \in Composite!Above(shown[k].at) : Composite!Kind(l) = "loop" /\ Composite!Owner(l) = Composite!Consumer}))
                        \cup {l \in Composite!Above(shown[k].at) : Composite!Kind(l) = "loop" /\ Composite!Owner(l) = Composite!Consumer}
  BY DEF Composite!NothingAfterEscalation
<1> DEFINE loops == {l \in Composite!Above(shown[k].at) : Composite!Kind(l) = "loop" /\ Composite!Owner(l) = Composite!Consumer}
<1>1. Composite!IsTree(tree) /\ shown \in Seq(Heard(tree)) /\ Len(shown) \in Nat /\ Composite!Nodes = Members(tree)
  BY TreeFacts DEF TheTree
<1>2. k \in 1..Len(shown) /\ shown[k].at \in Members(tree)
  BY <1>1 DEF TreeInv, Showable
<1>3. loops = Loops(tree, shown[k].at)
  <2>1. \A l \in tree.above[shown[k].at] : l \in Composite!Nodes
    BY <1>1, <1>2 DEF Composite!IsTree, Members
  <2>2. \A l \in tree.above[shown[k].at] : Composite!Owner(l) = Composite!Consumer <=> Open(tree, l)
    BY <1>1, <2>1, OwnerIs
  <2> QED BY <2>2 DEF Loops, Composite!Above, Composite!Kind
<1> HIDE DEF loops
<1>4. Composite!Outermost(loops) = Top(tree, shown[k].at)
  BY <1>3 DEF Composite!Outermost, Top, Composite!Above
<1>5. CalmAfter(tree, node, waiting, shown, k)
  BY <1>2 DEF TreeInv
<1>6. /\ Top(tree, shown[k].at) \notin tree.above[shown[m].at]
      /\ shown[m].at \notin Loops(tree, shown[k].at)
  BY <1>3, <1>5 DEF CalmAfter, loops
<1> QED BY <1>3, <1>4, <1>6 DEF Composite!Below, Composite!Above, loops

LEMMA TreeTyped == ASSUME Composite!CompositeAssumption, TreeInv PROVE Composite!TypeOK
<1>1. ASSUME NEW n \in Composite!Nodes
      PROVE  /\ node[n].st \in {"idle", "running", "ended", "raised", "dropped", "joined"}
             /\ node[n].step \in 0..Len(Composite!Kids(n)) /\ node[n].iteration \in 0..Passes
             /\ node[n].emitted \in 0..(tree.events[n] + Len(Composite!Kids(n)) + 1)
  <2>1. /\ node[n] \in Locals(tree) /\ Within(tree, n, node[n]) /\ Len(tree.kids[n]) \in Nat
        /\ Composite!Kids(n) = tree.kids[n] /\ tree.events[n] \in Nat /\ Passes \in Nat
        /\ tree.kind[n] \in {"leaf", "sequence", "loop", "parallel"}
    BY NodeIs DEF TheTree, Composite!Kind
  <2>2. /\ node[n].st \in Sts /\ node[n].step \in Nat /\ node[n].iteration \in Nat
        /\ node[n].emitted \in Nat
    BY <2>1 DEF Locals
  <2>3. node[n].step <= Len(tree.kids[n]) /\ node[n].iteration <= Passes
    BY <2>1 DEF Within
  <2>4. node[n].emitted <= tree.events[n] + Len(tree.kids[n]) + 1
    <3>1. CASE tree.kind[n] = "leaf"
      <4>1. node[n].emitted <= tree.events[n]
        BY <2>1, <3>1 DEF Within
      <4> QED BY <2>1, <2>2, <4>1
    <3>2. CASE tree.kind[n] \in {"sequence", "loop"}
      <4>1. node[n].emitted = 0
        BY <2>1, <3>2 DEF Within
      <4> QED BY <2>1, <4>1
    <3>3. CASE tree.kind[n] = "parallel"
      <4>1. node[n].emitted <= Len(tree.kids[n])
        BY <2>1, <3>3 DEF Within
      <4> QED BY <2>1, <2>2, <4>1
    <3> QED BY <2>1, <3>1, <3>2, <3>3
  <2>5. node[n].st \in {"idle", "running", "ended", "raised", "dropped", "joined"}
    BY <2>2 DEF Sts
  <2>6. node[n].step \in 0..Len(tree.kids[n]) /\ node[n].iteration \in 0..Passes
    BY <2>1, <2>2, <2>3
  <2>7. node[n].emitted \in 0..(tree.events[n] + Len(tree.kids[n]) + 1)
    BY <2>1, <2>2, <2>4
  <2> QED BY <2>1, <2>5, <2>6, <2>7, ZenonT(60)
<1>2. (waiting = Composite!None \/ waiting.at \in Composite!Nodes) /\ stateful \subseteq Composite!Nodes
  BY TreeFacts DEF TheTree, TreeInv
<1> QED BY <1>1, <1>2 DEF Composite!TypeOK

(***************************************************************************)
(* What a ParallelAgent merges.  It is over when it has taken one None per *)
(* child; a child puts its None when nothing below it can yield any more,  *)
(* so that behind the last None there is nothing.                          *)
(***************************************************************************)
\* m is in the stream of a, or in one of those that a merges.
In(t, a, m) ==
  /\ a \in t.above[m]
  /\ \A p \in t.above[m] : t.kind[p] = "parallel" => p = a \/ p \in t.above[a]

Lone(t, n) == \A l \in t.above[n] : t.kind[l] = "loop" => Open(t, l)
Tame(t, a) == \A p \in t.above[a] : t.kind[p] = "parallel" => Lone(t, p)
Forks(t) == {n \in Members(t) : t.kind[n] = "parallel" /\ Lone(t, n)}

\* Who runs is run by those whose stream it is in ...
Calm(t, ns) ==
  \A a, m \in Members(t) :
    Tame(t, a) /\ t.kind[a] # "parallel" /\ In(t, a, m) /\ ns[m].st = "running" => ns[a].st = "running"

\* ... and a sequence or a loop runs the child it is at.
OneAtATime(t, ns) ==
  \A a \in Members(t) : Tame(t, a) /\ t.kind[a] # "parallel" =>
    \A j \in DOMAIN t.kids[a] : ns[t.kids[a][j]].st = "running" => j = ns[a].step

Nones(s) == {i \in 1..Len(s) : s[i] = Composite!End}
Children(t, n) == Composite!ToSet(t.kids[n])
Joined(t, ns, n) == {k \in Children(t, n) : ns[k].st = "joined"}

Merging(ns, n) == ns[n].st = "running" /\ ns[n].step # 0

\* The Nones taken and those in the queue are one per child that is over; when all
\* are, nothing is behind the last.
Counted(t, ns, q, n) ==
  /\ Cardinality(Nones(q[n])) + ns[n].emitted = Cardinality(Joined(t, ns, n))
  /\ (\A k \in Children(t, n) : ns[k].st = "joined") => q[n] = <<>> \/ q[n][Len(q[n])] = Composite!End

AtRest(t, ns, q, n) ==
  /\ q[n] = <<>>
  /\ \A k \in Children(t, n) : ns[k].st \in {"idle", "joined"}
  /\ ns[n].st \in {"ended", "joined"} => \A k \in Children(t, n) : ns[k].st = "joined"
  /\ ns[n].st = "running" => ns[n].emitted = 0

\* What was left behind is not started again: someone above it is over for good,
\* and nobody in between runs.
Path(t, n) == {n} \cup t.above[n]
Gone(ns, m) == ns[m].st \notin {"idle", "running"}
BarredAt(t, ns, n, top) ==
  /\ top \in Path(t, n) /\ Straight(t, top) /\ Gone(ns, top)
  /\ \A m \in Path(t, n) : top \in t.above[m] => ns[m].st # "running"
Barred(t, ns, n) == \E top \in Path(t, n) : BarredAt(t, ns, n, top)

ForkInv(t, ns, q, n) ==
  /\ ns[n].st = "dropped" => Barred(t, ns, n)
  /\ Merging(ns, n) => Counted(t, ns, q, n)
  /\ ns[n].st # "dropped" /\ ~Merging(ns, n) => AtRest(t, ns, q, n)

MergeInv(t, ns, q) ==
  /\ Calm(t, ns) /\ OneAtATime(t, ns)
  /\ \A n \in Forks(t) : ForkInv(t, ns, q, n)

-----------------------------------------------------------------------------
\* Below a there is a child of a that m is, or is below of.
LEMMA ChildTowards ==
  ASSUME NEW t, Composite!IsTree(t), NEW a \in Members(t), NEW m \in Members(t), a \in t.above[m]
  PROVE  \E k \in Children(t, a) : k \in Members(t) /\ (k = m \/ k \in t.above[m])
<1> DEFINE S == {x \in Members(t) : a \in t.above[x] /\ (x = m \/ x \in t.above[m])}
<1>1. S \in SUBSET Members(t) /\ m \in S
  OBVIOUS
<1>2. PICK x \in S : S \cap t.above[x] = {}
  <2> HIDE DEF S
  <2> QED BY <1>1, OutermostIs
<1>3. x \in Members(t) /\ a \in t.above[x] /\ (x = m \/ x \in t.above[m])
  BY <1>2
<1>4. t.above[x] \subseteq t.above[m] \/ x = m
  BY <1>3 DEF Composite!IsTree, Members
<1>5. PICK p \in Members(t) : x \in Composite!ToSet(t.kids[p]) /\ a \in {p} \cup t.above[p]
  BY <1>3 DEF Composite!IsTree, Members
<1>6. p \in t.above[x]
  BY <1>5, ParentIs
<1>7. p = a
  <2>1. p \in t.above[m]
    BY <1>3, <1>4, <1>6
  <2>2. a \in t.above[p] => p \in S
    BY <2>1
  <2> QED BY <1>2, <1>5, <1>6, <2>2
<1> QED BY <1>3, <1>5, <1>7 DEF Children

\* An agent has one parent and is not above itself.
LEMMA OneParent ==
  ASSUME NEW t, Composite!IsTree(t), NEW p \in Members(t), NEW q \in Members(t), NEW k \in Children(t, p),
         k \in Children(t, q)
  PROVE  p = q
<1>1. k \in DOMAIN t.kind
  BY DEF Composite!IsTree, Composite!ToSet, Children, Members
<1>2. \A x, y \in {r \in DOMAIN t.kind : k \in Composite!ToSet(t.kids[r])} : x = y
  BY <1>1 DEF Composite!IsTree
<1> QED BY <1>2 DEF Children, Members

LEMMA NotAboveItself ==
  ASSUME NEW t, Composite!IsTree(t), NEW n \in Members(t)
  PROVE  n \notin t.above[n]
BY DEF Composite!IsTree, Members

\* A child is in its parent's stream, and otherwise in those its parent is in.
LEMMA InOfChild ==
  ASSUME NEW t, Composite!IsTree(t), NEW q \in Members(t), NEW m \in Children(t, q)
  PROVE  /\ m \in Members(t) /\ In(t, q, m) /\ m # q /\ q \notin t.above[q]
         /\ \A a : In(t, a, m) => a = q \/ (In(t, a, q) /\ t.kind[q] # "parallel")
<1>1. m \in Members(t) /\ t.above[m] = {q} \cup t.above[q]
  BY ParentIs DEF Children
<1>2. q \notin t.above[q] /\ m \notin t.above[m]
  BY <1>1 DEF Composite!IsTree, Members
<1>3. In(t, q, m)
  BY <1>1 DEF In
<1>4. ASSUME NEW a, In(t, a, m), a # q PROVE In(t, a, q) /\ t.kind[q] # "parallel"
  <2>1. a \in t.above[q]
    BY <1>1, <1>4 DEF In
  <2>2. q \notin t.above[a]
    <3>1. t.above[a] \subseteq t.above[q]
      BY <2>1 DEF Composite!IsTree, Members
    <3> QED BY <1>2, <3>1
  <2> QED BY <1>1, <1>4, <2>1, <2>2 DEF In
<1> QED BY <1>1, <1>2, <1>3, <1>4

LEMMA InTwice ==
  ASSUME NEW t, Composite!IsTree(t), NEW a, NEW k \in Members(t), NEW m \in Members(t),
         In(t, a, k), In(t, k, m), t.kind[k] # "parallel"
  PROVE  In(t, a, m)
<1>1. t.above[k] \subseteq t.above[m]
  BY DEF In, Composite!IsTree, Members
<1> QED BY <1>1 DEF In

LEMMA InBetween ==
  ASSUME NEW t, Composite!IsTree(t), NEW a \in Members(t), NEW k \in Members(t), NEW m \in Members(t),
         In(t, a, m), k \in t.above[m], a \in t.above[k]
  PROVE  In(t, a, k) /\ t.kind[k] # "parallel" /\ In(t, k, m)
<1>1. t.above[k] \subseteq t.above[m] /\ t.above[a] \subseteq t.above[k] /\ a \notin t.above[a] /\ k \notin t.above[k]
  BY DEF Composite!IsTree, Members
<1>2. t.kind[k] # "parallel"
  BY <1>1 DEF In
<1> QED BY <1>1, <1>2 DEF In

LEMMA LoneIsTame ==
  ASSUME NEW t, Composite!IsTree(t), NEW n \in Members(t), Lone(t, n)
  PROVE  /\ \A p \in t.above[n] : p \in Members(t) /\ Lone(t, p)
         /\ Tame(t, n)
         /\ \A m \in Members(t) : In(t, n, m) => Tame(t, m)
<1>1. \A p \in t.above[n] : p \in Members(t) /\ t.above[p] \subseteq t.above[n]
  BY DEF Composite!IsTree, Members
<1>2. \A p \in t.above[n] : Lone(t, p)
  BY <1>1 DEF Lone
<1> QED BY <1>1, <1>2 DEF Tame, In

LEMMA TameIn ==
  ASSUME NEW t, NEW a, NEW m, In(t, a, m), Tame(t, a), t.kind[a] # "parallel"
  PROVE  Tame(t, m)
BY DEF In, Tame

\* Of a tree's agents one is the root: nobody is above it.
LEMMA RootIs ==
  ASSUME NEW t, Composite!IsTree(t)
  PROVE  /\ t.root \in Members(t) /\ t.above[t.root] = {} /\ Straight(t, t.root)
         /\ \A p \in Members(t) : t.root \notin Children(t, p)
<1>1. t.root \in Members(t)
  BY DEF Composite!IsTree, Members
<1>2. t.above[t.root] = {}
  <2>1. \A p \in t.above[t.root] : p \in Members(t) /\ p # t.root
    BY DEF Composite!IsTree, Members
  <2>2. \A p \in t.above[t.root] : t.root \in t.above[p]
    BY <2>1 DEF Composite!IsTree, Members
  <2>3. \A p \in t.above[t.root] : t.above[p] \subseteq t.above[t.root]
    BY <1>1 DEF Composite!IsTree, Members
  <2>4. t.root \notin t.above[t.root]
    BY <1>1 DEF Composite!IsTree, Members
  <2> QED BY <2>2, <2>3, <2>4
<1> QED BY <1>1, <1>2, ParentIs DEF Straight, Children

\* When no child runs, nothing in the stream does.
LEMMA ChildrenCalm ==
  ASSUME NEW t, Composite!IsTree(t), NEW ns, Calm(t, ns), NEW a \in Members(t),
         \/ Tame(t, a) /\ t.kind[a] # "parallel"
         \/ Lone(t, a)
  PROVE  \A m \in Members(t) : In(t, a, m) /\ ns[m].st = "running" =>
           \E k \in Children(t, a) : k \in Members(t) /\ ns[k].st = "running" /\ (k = m \/ In(t, k, m))
<1> SUFFICES ASSUME NEW m \in Members(t), In(t, a, m), ns[m].st = "running"
             PROVE  \E k \in Children(t, a) : k \in Members(t) /\ ns[k].st = "running" /\ (k = m \/ In(t, k, m))
  OBVIOUS
<1>1. PICK k \in Children(t, a) : k \in Members(t) /\ (k = m \/ k \in t.above[m])
  BY ChildTowards DEF In
<1>2. CASE k = m
  BY <1>1, <1>2
<1>3. CASE k \in t.above[m]
  <2>1. In(t, a, k) /\ a \in t.above[k]
    BY InOfChild DEF In
  <2>2. t.kind[k] # "parallel" /\ In(t, k, m)
    BY <1>1, <1>3, <2>1, InBetween
  <2>3. Tame(t, k)
    BY <1>1, <2>1, TameIn, LoneIsTame
  <2>4. ns[k].st = "running"
    BY <1>1, <2>2, <2>3 DEF Calm
  <2> QED BY <1>1, <2>2, <2>4
<1> QED BY <1>1, <1>2, <1>3

-----------------------------------------------------------------------------
\* Nodes that stop: a fork only when it is left behind, and everything else with
\* all that is in its stream.
StopsAt(t, a, b, m) ==
  /\ b[m].st \in {"ended", "raised", "dropped"}
  /\ a[m].st = "running" \/ ~Tame(t, m) \/ (Open(t, m) /\ a[m].st # "idle")
  /\ t.kind[m] = "parallel" => b[m].st = "dropped" /\ (Lone(t, m) => Barred(t, b, m))
  /\ t.kind[m] # "parallel" /\ Tame(t, m) => \A k \in Members(t) : In(t, m, k) => b[k].st # "running"

Stops(t, a, b) ==
  \A m \in Members(t) :
    /\ b[m].step = a[m].step /\ (t.kind[m] = "parallel" => b[m].emitted = a[m].emitted)
    /\ b[m].st = a[m].st \/ StopsAt(t, a, b, m)

\* What was left behind is not started again.
LEMMA StaysBarred ==
  ASSUME NEW t, Composite!IsTree(t), NEW a, NEW b, NEW n \in Members(t), Barred(t, a, n),
         \A m \in Members(t) : Straight(t, m) /\ Gone(a, m) => Gone(b, m),
         \A m \in Members(t) : b[m].st = "running" =>
           \/ a[m].st = "running"
           \/ \E p \in Members(t) : m \in Children(t, p) /\ a[p].st = "running"
  PROVE  Barred(t, b, n)
<1>1. PICK top \in Path(t, n) : BarredAt(t, a, n, top)
  BY DEF Barred
<1>2. Path(t, n) \subseteq Members(t)
  BY DEF Path, Composite!IsTree, Members
<1>3. ASSUME NEW m \in Path(t, n), top \in t.above[m], b[m].st = "running" PROVE FALSE
  <2>1. a[m].st # "running" /\ m \in Members(t)
    BY <1>1, <1>2, <1>3 DEF BarredAt
  <2>2. PICK p \in Members(t) : m \in Children(t, p) /\ a[p].st = "running"
    BY <1>3, <2>1
  <2>3. t.above[m] = {p} \cup t.above[p]
    BY <2>2, ParentIs DEF Children
  <2>4. p # top
    BY <1>1, <2>2 DEF BarredAt, Gone
  <2>5. p \in Path(t, n)
    <3>1. t.above[m] \subseteq t.above[n] \/ m = n
      BY DEF Path, Composite!IsTree, Members
    <3> QED BY <2>3, <3>1 DEF Path
  <2> QED BY <1>1, <1>3, <2>2, <2>3, <2>4, <2>5 DEF BarredAt
<1>4. Straight(t, top) /\ Gone(b, top)
  BY <1>1, <1>2 DEF BarredAt
<1> QED BY <1>1, <1>3, <1>4 DEF Barred, BarredAt

\* Nothing happens to a fork when only its children that run stop.
LEMMA SameFork ==
  ASSUME NEW t, NEW a, NEW b, NEW q, NEW q2, NEW f, ForkInv(t, a, q, f),
         b[f].st = a[f].st, b[f].step = a[f].step, b[f].emitted = a[f].emitted, q2[f] = q[f],
         \A k \in Children(t, f) : \/ b[k].st = a[k].st
                                   \/ a[k].st = "running" /\ b[k].st \notin {"idle", "joined"},
         Barred(t, a, f) => Barred(t, b, f)
  PROVE  ForkInv(t, b, q2, f)
<1>1. \A k \in Children(t, f) : b[k].st = "joined" <=> a[k].st = "joined"
  OBVIOUS
<1>2. Joined(t, b, f) = Joined(t, a, f)
  BY <1>1 DEF Joined
<1>3. Merging(b, f) <=> Merging(a, f)
  BY DEF Merging
<1>4. Counted(t, a, q, f) => Counted(t, b, q2, f)
  BY <1>1, <1>2 DEF Counted
<1>5. AtRest(t, a, q, f) => AtRest(t, b, q2, f)
  <2> SUFFICES ASSUME AtRest(t, a, q, f) PROVE AtRest(t, b, q2, f)
    OBVIOUS
  <2>1. \A k \in Children(t, f) : b[k].st = a[k].st
    BY DEF AtRest
  <2> QED BY <2>1 DEF AtRest
<1> QED BY <1>3, <1>4, <1>5 DEF ForkInv

\* The children of a fork that counts are tame, and not open.
LEMMA ForkChildIs ==
  ASSUME NEW t, Composite!IsTree(t), NEW f \in Forks(t), NEW k \in Children(t, f)
  PROVE  k \in Members(t) /\ Tame(t, k) /\ ~Open(t, k) /\ In(t, f, k) /\ k # f
<1>1. f \in Members(t) /\ Lone(t, f) /\ t.kind[f] = "parallel"
  BY DEF Forks
<1>2. k \in Members(t) /\ In(t, f, k) /\ k # f
  BY <1>1, InOfChild
<1> QED BY <1>1, <1>2, LoneIsTame DEF In, Open

LEMMA StopsMerge ==
  ASSUME NEW t, Composite!IsTree(t), NEW a, NEW b, NEW q, Stops(t, a, b), MergeInv(t, a, q)
  PROVE  MergeInv(t, b, q)
<1>1. \A m \in Members(t) : b[m].st = "running" => a[m].st = "running"
  BY DEF Stops, StopsAt
<1>2. ASSUME NEW x \in Members(t), NEW m \in Members(t), Tame(t, x), t.kind[x] # "parallel",
             In(t, x, m), b[m].st = "running", b[x].st # "running"
      PROVE  FALSE
  <2>1. a[x].st = "running"
    BY <1>1, <1>2 DEF MergeInv, Calm
  <2> QED BY <1>2, <2>1 DEF Stops, StopsAt
<1>3. Calm(t, b)
  BY <1>2 DEF Calm
<1>4. OneAtATime(t, b)
  <2> SUFFICES ASSUME NEW x \in Members(t), Tame(t, x), t.kind[x] # "parallel",
                      NEW j \in DOMAIN t.kids[x], b[t.kids[x][j]].st = "running"
               PROVE  j = b[x].step
    BY DEF OneAtATime
  <2>1. t.kids[x][j] \in Members(t)
    BY ParentIs DEF Composite!ToSet
  <2>2. a[t.kids[x][j]].st = "running"
    BY <1>1, <2>1
  <2>3. j = a[x].step
    BY <2>2 DEF MergeInv, OneAtATime
  <2> QED BY <2>3 DEF Stops
<1>5. ASSUME NEW f \in Forks(t) PROVE ForkInv(t, b, q, f)
  <2>1. ForkInv(t, a, q, f) /\ f \in Members(t) /\ t.kind[f] = "parallel" /\ Lone(t, f)
    BY DEF MergeInv, Forks
  <2>2. CASE b[f].st = a[f].st
    <3>1. \A k \in Children(t, f) : \/ b[k].st = a[k].st
                                    \/ a[k].st = "running" /\ b[k].st \notin {"idle", "joined"}
      <4> SUFFICES ASSUME NEW k \in Children(t, f), b[k].st # a[k].st
                   PROVE  a[k].st = "running" /\ b[k].st \notin {"idle", "joined"}
        OBVIOUS
      <4>1. k \in Members(t) /\ Tame(t, k) /\ ~Open(t, k)
        BY ForkChildIs
      <4> QED BY <4>1 DEF Stops, StopsAt
    <3>2. Barred(t, a, f) => Barred(t, b, f)
      <4>1. \A m \in Members(t) : Gone(a, m) => Gone(b, m)
        BY DEF Stops, StopsAt, Gone
      <4> QED BY <1>1, <2>1, <4>1, StaysBarred
    <3>3. b[f].step = a[f].step /\ b[f].emitted = a[f].emitted
      BY <2>1 DEF Stops
    <3> QED BY <2>1, <2>2, <3>1, <3>2, <3>3, SameFork
  <2>3. CASE b[f].st # a[f].st
    <3>1. b[f].st = "dropped" /\ Barred(t, b, f)
      BY <2>1, <2>3 DEF Stops, StopsAt
    <3> QED BY <3>1 DEF ForkInv, Merging
  <2> QED BY <2>2, <2>3
<1> QED BY <1>3, <1>4, <1>5 DEF MergeInv

\* The queues change, and nobody else.
LEMMA QueueMerge ==
  ASSUME NEW t, NEW ns, NEW q, NEW q2, MergeInv(t, ns, q),
         \A f \in Forks(t) : \/ q2[f] = q[f]
                             \/ ns[f].st = "dropped"
                             \/ Merging(ns, f) /\ Counted(t, ns, q2, f)
  PROVE  MergeInv(t, ns, q2)
<1>1. ASSUME NEW f \in Forks(t) PROVE ForkInv(t, ns, q2, f)
  <2>1. ForkInv(t, ns, q, f)
    BY DEF MergeInv
  <2>2. q2[f] = q[f] => ForkInv(t, ns, q2, f)
    BY <2>1 DEF ForkInv, Counted, AtRest
  <2> QED BY <2>1, <2>2 DEF ForkInv, Merging
<1> QED BY <1>1 DEF MergeInv

-----------------------------------------------------------------------------
\* The Nones of a queue that grows, or shrinks.
LEMMA NonesOfAppend ==
  ASSUME NEW T, NEW s \in Seq(T), NEW e \in T
  PROVE  /\ IsFiniteSet(Nones(s)) /\ Cardinality(Nones(s)) \in Nat
         /\ e # Composite!End => Nones(Append(s, e)) = Nones(s)
         /\ e = Composite!End => Cardinality(Nones(Append(s, e))) = Cardinality(Nones(s)) + 1
<1>1. IsFiniteSet(Nones(s)) /\ Cardinality(Nones(s)) \in Nat
  <2>1. Len(s) \in Nat /\ Nones(s) \in SUBSET (1..Len(s))
    BY DEF Nones
  <2>2. IsFiniteSet(1..Len(s))
    BY <2>1, FS_Interval
  <2> QED BY <2>1, <2>2, FS_Subset, FS_CardinalityType
<1>2. /\ Len(s) \in Nat /\ Len(Append(s, e)) = Len(s) + 1
      /\ \A i \in 1..Len(s) : Append(s, e)[i] = s[i]
      /\ Append(s, e)[Len(s) + 1] = e
  OBVIOUS
<1>3. e # Composite!End => Nones(Append(s, e)) = Nones(s)
  BY <1>2 DEF Nones
<1>4. e = Composite!End => Nones(Append(s, e)) = Nones(s) \cup {Len(s) + 1} /\ Len(s) + 1 \notin Nones(s)
  BY <1>2 DEF Nones
<1> QED BY <1>1, <1>3, <1>4, FS_AddElement

LEMMA NonesOfTail ==
  ASSUME NEW T, NEW s \in Seq(T), s # <<>>
  PROVE  /\ Head(s) # Composite!End => Cardinality(Nones(Tail(s))) = Cardinality(Nones(s))
         /\ Head(s) = Composite!End => Cardinality(Nones(Tail(s))) = Cardinality(Nones(s)) - 1
         /\ Tail(s) # <<>> => Tail(s)[Len(Tail(s))] = s[Len(s)]
<1>1. /\ Len(s) \in Nat /\ Len(s) > 0 /\ Len(Tail(s)) = Len(s) - 1 /\ Head(s) = s[1]
      /\ \A i \in 1..(Len(s) - 1) : Tail(s)[i] = s[i + 1]
      /\ Tail(s) \in Seq(T) /\ (Tail(s) # <<>> => Len(Tail(s)) > 0)
  OBVIOUS
<1> DEFINE A == Nones(Tail(s))
           B == Nones(s) \ {1}
           g == [i \in A |-> i + 1]
<1>2. IsFiniteSet(Nones(s))
  <2>1. Nones(s) \in SUBSET (1..Len(s)) /\ IsFiniteSet(1..Len(s))
    BY <1>1, FS_Interval DEF Nones
  <2> QED BY <2>1, FS_Subset
<1>3. IsFiniteSet(A)
  <2>1. A \in SUBSET (1..(Len(s) - 1)) /\ IsFiniteSet(1..(Len(s) - 1))
    BY <1>1, FS_Interval DEF Nones
  <2> QED BY <2>1, FS_Subset
<1>4. \A i \in A : i \in 1..(Len(s) - 1) /\ s[i + 1] = Composite!End
  BY <1>1 DEF Nones
<1>5. \A i \in A : g[i] = i + 1 /\ g[i] \in B
  BY <1>1, <1>4 DEF Nones
<1>6. \A k \in B : k - 1 \in A /\ k - 1 + 1 = k
  BY <1>1 DEF Nones
<1>7. \A i, j \in A : g[i] = g[j] => i = j
  BY <1>4
<1>8. DOMAIN g = A
  OBVIOUS
<1>9. g \in Bijection(A, B)
  <2>1. g \in [A -> B] /\ \A k \in B : \E i \in A : g[i] = k
    <3>1. g = [i \in A |-> g[i]]
      OBVIOUS
    <3>2. \A k \in B : g[k - 1] = k
      BY <1>5, <1>6
    <3> HIDE DEF g, A, B
    <3> QED BY <1>5, <1>6, <1>8, <3>1, <3>2
  <2> HIDE DEF g, A, B
  <2> QED BY <1>7, <2>1 DEF Bijection, Injection, Surjection, IsInjective
<1> HIDE DEF g
<1>10. Cardinality(A) = Cardinality(B)
  BY <1>3, <1>9, FS_Bijection DEF ExistsBijection
<1>11. Cardinality(B) = IF 1 \in Nones(s) THEN Cardinality(Nones(s)) - 1 ELSE Cardinality(Nones(s))
  BY <1>2, FS_RemoveElement
<1>12. 1 \in Nones(s) <=> Head(s) = Composite!End
  BY <1>1 DEF Nones
<1> QED BY <1>1, <1>10, <1>11, <1>12

\* A fork below which something runs is merging, or was left behind.
LEMMA WhoMerges ==
  ASSUME NEW t, Composite!IsTree(t), NEW ns, NEW q, MergeInv(t, ns, q), NEW f \in Forks(t),
         NEW m \in Members(t), In(t, f, m), ns[m].st = "running"
  PROVE  /\ ns[f].st = "dropped" \/ (Merging(ns, f) /\ Counted(t, ns, q, f))
         /\ \E k \in Children(t, f) : ns[k].st = "running"
<1>1. f \in Members(t) /\ Lone(t, f) /\ Calm(t, ns) /\ ForkInv(t, ns, q, f)
  BY DEF Forks, MergeInv
<1>2. \E k \in Children(t, f) : ns[k].st = "running"
  BY <1>1, ChildrenCalm
<1>3. ~AtRest(t, ns, q, f)
  BY <1>2 DEF AtRest
<1> QED BY <1>1, <1>2, <1>3 DEF ForkInv

\* An event is put while the child it is from runs.
LEMMA AppendMerge ==
  ASSUME NEW t, Composite!IsTree(t), NEW ns, NEW q, MergeInv(t, ns, q),
         NEW T, q \in [Members(t) -> Seq(T)], NEW o \in Members(t), NEW e \in T, e # Composite!End,
         NEW m \in Members(t), In(t, o, m), ns[m].st = "running"
  PROVE  MergeInv(t, ns, [q EXCEPT ![o] = Append(@, e)])
<1> DEFINE q2 == [q EXCEPT ![o] = Append(@, e)]
<1>1. \A f \in Members(t) : (f # o => q2[f] = q[f]) /\ (f = o => q2[f] = Append(q[f], e))
  OBVIOUS
<1> HIDE DEF q2
<1>2. ASSUME o \in Forks(t), ns[o].st # "dropped" PROVE Merging(ns, o) /\ Counted(t, ns, q2, o)
  <2>1. Merging(ns, o) /\ Counted(t, ns, q, o) /\ \E k \in Children(t, o) : ns[k].st = "running"
    BY <1>2, WhoMerges
  <2>2. Nones(Append(q[o], e)) = Nones(q[o])
    <3>1. q[o] \in Seq(T)
      OBVIOUS
    <3> QED BY <3>1, NonesOfAppend
  <2>3. q2[o] = Append(q[o], e) /\ ~\A k \in Children(t, o) : ns[k].st = "joined"
    BY <1>1, <2>1
  <2>4. Counted(t, ns, q2, o)
    BY <2>1, <2>2, <2>3 DEF Counted
  <2> QED BY <2>1, <2>4
<1>3. \A f \in Forks(t) : f \in Members(t)
  BY DEF Forks
<1>4. MergeInv(t, ns, q2)
  <2>1. \A f \in Forks(t) : \/ q2[f] = q[f]
                            \/ ns[f].st = "dropped"
                            \/ Merging(ns, f) /\ Counted(t, ns, q2, f)
    BY <1>1, <1>2, <1>3
  <2> QED BY <2>1, QueueMerge
<1> QED BY <1>4 DEF q2

\* The fork takes an event.
LEMMA TailMerge ==
  ASSUME NEW t, NEW ns, NEW q, MergeInv(t, ns, q), NEW T, q \in [Members(t) -> Seq(T)],
         NEW o \in Members(t), q[o] # <<>>, Head(q[o]) # Composite!End, ns[o].st = "running"
  PROVE  MergeInv(t, ns, [q EXCEPT ![o] = Tail(@)])
<1> DEFINE q2 == [q EXCEPT ![o] = Tail(@)]
<1>1. \A f \in Members(t) : (f # o => q2[f] = q[f]) /\ (f = o => q2[f] = Tail(q[f]))
  OBVIOUS
<1> HIDE DEF q2
<1>2. ASSUME o \in Forks(t) PROVE Merging(ns, o) /\ Counted(t, ns, q2, o)
  <2>1. Merging(ns, o) /\ Counted(t, ns, q, o)
    BY <1>2 DEF MergeInv, ForkInv, AtRest
  <2>2. q[o] \in Seq(T)
    OBVIOUS
  <2>3. /\ Cardinality(Nones(Tail(q[o]))) = Cardinality(Nones(q[o]))
        /\ Tail(q[o]) # <<>> => Tail(q[o])[Len(Tail(q[o]))] = q[o][Len(q[o])]
    BY <2>2, NonesOfTail
  <2>4. q2[o] = Tail(q[o])
    BY <1>1
  <2>5. Counted(t, ns, q2, o)
    BY <2>1, <2>3, <2>4 DEF Counted
  <2> QED BY <2>1, <2>5
<1>3. \A f \in Forks(t) : f \in Members(t)
  BY DEF Forks
<1>4. MergeInv(t, ns, q2)
  <2>1. \A f \in Forks(t) : \/ q2[f] = q[f]
                            \/ ns[f].st = "dropped"
                            \/ Merging(ns, f) /\ Counted(t, ns, q2, f)
    BY <1>1, <1>2, <1>3
  <2> QED BY <2>1, QueueMerge
<1> QED BY <1>4 DEF q2

\* When all that is left is one None, the last item of the queue, it is the only one.
LEMMA LastNone ==
  ASSUME NEW T, NEW s \in Seq(T), s # <<>>, Head(s) = Composite!End, s[Len(s)] = Composite!End,
         Cardinality(Nones(s)) <= 1
  PROVE  Tail(s) = <<>>
<1>1. Len(s) \in Nat /\ Len(s) > 0 /\ s[1] = Composite!End /\ Tail(s) \in Seq(T) /\ Len(Tail(s)) = Len(s) - 1
  OBVIOUS
<1>2. IsFiniteSet(Nones(s)) /\ {1, Len(s)} \in SUBSET Nones(s)
  <2>1. Nones(s) \in SUBSET (1..Len(s)) /\ IsFiniteSet(1..Len(s))
    BY <1>1, FS_Interval DEF Nones
  <2> QED BY <1>1, <2>1, FS_Subset DEF Nones
<1>3. ASSUME Len(s) # 1 PROVE FALSE
  <2>1. IsFiniteSet({1}) /\ Cardinality({1}) = 1
    BY FS_Singleton
  <2>2. Len(s) \notin {1}
    BY <1>3
  <2> DEFINE one == {1}
             both == {1} \cup {Len(s)}
  <2>3. Cardinality(both) = 2
    <3>1. Cardinality(both) = Cardinality(one) + 1
      <4> HIDE DEF one
      <4> SUFFICES Cardinality(one \cup {Len(s)}) = Cardinality(one) + 1
        BY DEF one
      <4>1. IsFiniteSet(one) /\ Len(s) \notin one
        BY <2>1, <2>2 DEF one
      <4> QED BY <4>1, FS_AddElement
    <3>2. Cardinality(one) = 1
      BY <2>1
    <3> HIDE DEF one, both
    <3> QED BY <3>1, <3>2
  <2>4. both \in SUBSET Nones(s)
    BY <1>2
  <2> HIDE DEF one, both
  <2>5. Cardinality(both) <= Cardinality(Nones(s)) /\ Cardinality(Nones(s)) \in Nat
    BY <1>2, <2>4, FS_Subset, FS_CardinalityType
  <2>6. 2 <= Cardinality(Nones(s))
    BY <2>3, <2>5
  <2> QED BY <2>5, <2>6, SMTT(30)
<1>4. Len(Tail(s)) = 0
  BY <1>1, <1>3
<1>5. \A u \in Seq(T) : Len(u) = 0 => u = <<>>
  OBVIOUS
<1> QED BY <1>1, <1>4, <1>5

\* As many children as the list has places.
LEMMA ChildrenAre ==
  ASSUME NEW t, Composite!IsTree(t), NEW n \in Members(t)
  PROVE  /\ IsFiniteSet(Children(t, n)) /\ Cardinality(Children(t, n)) <= Len(t.kids[n])
         /\ Cardinality(Children(t, n)) \in Nat
<1> DEFINE s == t.kids[n]
<1>1. s \in Seq(Members(t)) /\ Len(s) \in Nat /\ DOMAIN s = 1..Len(s)
  <2>1. s \in Seq(Members(t))
    BY DEF Composite!IsTree, Members
  <2> QED BY <2>1
<1>2. Children(t, n) = {s[i] : i \in 1..Len(s)}
  BY <1>1 DEF Children, Composite!ToSet
<1>3. [i \in 1..Len(s) |-> s[i]] \in Surjection(1..Len(s), Children(t, n))
  <2> DEFINE g == [i \in 1..Len(s) |-> s[i]]
  <2>1. g \in [1..Len(s) -> Children(t, n)] /\ \A k \in Children(t, n) : \E i \in 1..Len(s) : g[i] = k
    BY <1>2
  <2> HIDE DEF g
  <2>2. g \in Surjection(1..Len(s), Children(t, n))
    BY <2>1 DEF Surjection
  <2> QED BY <2>2 DEF g
<1>5. IsFiniteSet(1..Len(s)) /\ Cardinality(1..Len(s)) = Len(s)
  BY <1>1, FS_Interval
<1>6. IsFiniteSet(Children(t, n)) /\ Cardinality(Children(t, n)) <= Cardinality(1..Len(s))
  BY <1>3, <1>5, FS_Surjection
<1> QED BY <1>5, <1>6, FS_CardinalityType

-----------------------------------------------------------------------------
\* A sequence or a loop whose current child is over has nothing that runs.
LEMMA Stand ==
  ASSUME NEW t, Composite!IsTree(t), NEW ns, Calm(t, ns), OneAtATime(t, ns),
         NEW n \in Members(t), Tame(t, n), t.kind[n] # "parallel",
         \A j \in DOMAIN t.kids[n] : j = ns[n].step => ns[t.kids[n][j]].st # "running"
  PROVE  \A m \in Members(t) : In(t, n, m) => ns[m].st # "running"
<1> SUFFICES ASSUME NEW m \in Members(t), In(t, n, m), ns[m].st = "running" PROVE FALSE
  OBVIOUS
<1>1. PICK k \in Children(t, n) : ns[k].st = "running"
  BY ChildrenCalm
<1>2. PICK j \in DOMAIN t.kids[n] : t.kids[n][j] = k
  BY DEF Children, Composite!ToSet
<1> QED BY <1>1, <1>2 DEF OneAtATime

\* Who is in the stream of top, as LeftBehind says it.
LEMMA InIs ==
  ASSUME NEW t, Composite!IsTree(t), NEW a \in Members(t), NEW m \in Members(t)
  PROVE  In(t, a, m) <=> a \in t.above[m] /\ ~\E p \in t.above[m] : a \in t.above[p] /\ t.kind[p] = "parallel"
<1>1. ASSUME a \in t.above[m], NEW p \in t.above[m]
      PROVE  a \in t.above[p] <=> ~(p = a \/ p \in t.above[a])
  <2>1. p \in Members(t) /\ (p = a \/ p \in t.above[a] \/ a \in t.above[p])
    BY <1>1 DEF Composite!IsTree, Members
  <2>2. a \notin t.above[a] /\ (p \in t.above[a] => t.above[p] \subseteq t.above[a])
    BY DEF Composite!IsTree, Members
  <2> QED BY <2>1, <2>2
<1> QED BY <1>1 DEF In

\* What LeftBehind stops, it stops with all that is in its stream; and a fork that
\* counts is barred by what was left.
LEMMA LeftStops ==
  ASSUME Composite!IsTree(tree), NEW ns, LocalsTyped(tree, ns), NEW top \in Members(tree),
         NEW st \in {"ended", "dropped"}, tree.kind[top] = "parallel" => st = "dropped",
         ns[top].st = "running" \/ ~Tame(tree, top) \/ (Open(tree, top) /\ ns[top].st # "idle"),
         Straight(tree, top) \/ (tree.kind[top] = "loop" /\ ~Open(tree, top))
  PROVE  Stops(tree, ns, [Composite!LeftBehind(ns, top) EXCEPT ![top].st = st])
<1> DEFINE a == Composite!LeftBehind(ns, top)
           b == [a EXCEPT ![top].st = st]
<1>1. Composite!Nodes = Members(tree) /\ top \notin tree.above[top]
  BY DEF Composite!Nodes, Members, Composite!IsTree
<1>2. \A m \in Members(tree) : ns[m] \in Locals(tree)
  BY DEF LocalsTyped
<1>3. ASSUME NEW m \in Members(tree)
      PROVE  a[m] = IF In(tree, top, m) /\ ns[m].st = "running" THEN [ns[m] EXCEPT !.st = "dropped"] ELSE ns[m]
  <2>1. a[m] = IF m \in Composite!Below(top) /\ ns[m].st = "running"
                  /\ ~\E p \in Composite!Above(m) \cap Composite!Below(top) : Composite!Kind(p) = "parallel"
               THEN [ns[m] EXCEPT !.st = "dropped"] ELSE ns[m]
    BY <1>1 DEF Composite!LeftBehind
  <2>2. In(tree, top, m) <=> /\ m \in Composite!Below(top)
                             /\ ~\E p \in Composite!Above(m) \cap Composite!Below(top) : Composite!Kind(p) = "parallel"
    <3>1. \A p \in tree.above[m] : p \in Members(tree)
      BY DEF Composite!IsTree, Members
    <3> QED BY <1>1, <3>1, InIs DEF Composite!Below, Composite!Above, Composite!Kind
  <2> HIDE DEF a
  <2> QED BY <2>1, <2>2
<1>4. DOMAIN a = Members(tree)
  BY <1>1 DEF Composite!LeftBehind
<1> HIDE DEF a
<1>5. ASSUME NEW m \in Members(tree)
      PROVE  /\ b[m].step = ns[m].step /\ b[m].emitted = ns[m].emitted
             /\ m = top => b[m].st = st
             /\ m # top /\ In(tree, top, m) /\ ns[m].st = "running" => b[m].st = "dropped"
             /\ m # top /\ ~(In(tree, top, m) /\ ns[m].st = "running") => b[m].st = ns[m].st
  <2>1. CASE m = top
    <3>1. a[m] = ns[m] /\ b[m] = [ns[m] EXCEPT !.st = st]
      <4>1. ~In(tree, top, top)
        BY <1>1 DEF In
      <4> QED BY <1>3, <1>4, <2>1, <4>1
    <3> QED BY <1>2, <2>1, <3>1 DEF Locals
  <2>2. CASE m # top
    <3>1. b[m] = a[m]
      BY <1>4, <2>2
    <3> HIDE DEF b
    <3>2. CASE In(tree, top, m) /\ ns[m].st = "running"
      <4>1. b[m] = [ns[m] EXCEPT !.st = "dropped"]
        BY <1>3, <3>1, <3>2
      <4> QED BY <1>2, <2>2, <3>2, <4>1 DEF Locals
    <3>3. CASE ~(In(tree, top, m) /\ ns[m].st = "running")
      <4>1. b[m] = ns[m]
        BY <1>3, <3>1, <3>3
      <4> QED BY <2>2, <3>3, <4>1
    <3> QED BY <3>2, <3>3
  <2> QED BY <2>1, <2>2
<1> HIDE DEF b
<1>6. \A m \in Members(tree) : In(tree, top, m) => b[m].st # "running"
  BY <1>1, <1>5 DEF In
<1>7. ASSUME NEW m \in Members(tree), m = top \/ (In(tree, top, m) /\ b[m].st = "dropped"),
             tree.kind[m] = "parallel", Lone(tree, m)
      PROVE  Barred(tree, b, m)
  <2>1. Straight(tree, top)
    BY <1>7 DEF Lone, In
  <2>2. top \in Path(tree, m) /\ Gone(b, top)
    BY <1>5, <1>7 DEF Path, Gone, In
  <2>3. ASSUME NEW y \in Path(tree, m), top \in tree.above[y] PROVE b[y].st # "running"
    <3>1. CASE m = top
      <4>1. y \in Members(tree) /\ (y = m \/ y \in tree.above[m])
        BY DEF Path, Composite!IsTree, Members
      <4>2. y \in tree.above[m] => tree.above[y] \subseteq tree.above[m]
        BY DEF Composite!IsTree, Members
      <4> QED BY <1>1, <2>3, <3>1, <4>1, <4>2
    <3>2. CASE y = m /\ m # top
      BY <1>7, <3>2
    <3>3. CASE y # m /\ m # top
      <4>1. y \in tree.above[m] /\ y \in Members(tree) /\ In(tree, top, m)
        BY <1>7, <3>3 DEF Path, Composite!IsTree, Members
      <4>2. In(tree, top, y)
        BY <2>3, <4>1, InBetween
      <4> QED BY <1>6, <4>1, <4>2
    <3> QED BY <3>1, <3>2, <3>3
  <2> QED BY <2>1, <2>2, <2>3 DEF Barred, BarredAt
<1>8. ASSUME NEW m \in Members(tree), b[m].st # ns[m].st PROVE StopsAt(tree, ns, b, m)
  <2>1. CASE m = top
    <3>1. tree.kind[m] = "parallel" => b[m].st = "dropped" /\ (Lone(tree, m) => Barred(tree, b, m))
      BY <1>5, <1>7, <2>1
    <3> QED BY <1>5, <1>6, <2>1, <3>1 DEF StopsAt
  <2>2. CASE m # top
    <3>1. In(tree, top, m) /\ ns[m].st = "running" /\ b[m].st = "dropped"
      BY <1>5, <1>8, <2>2
    <3>2. tree.kind[m] # "parallel" => \A k \in Members(tree) : In(tree, m, k) => b[k].st # "running"
      BY <1>6, <3>1, InTwice
    <3> QED BY <1>7, <3>1, <3>2 DEF StopsAt
  <2> QED BY <2>1, <2>2
<1>9. Stops(tree, ns, b)
  BY <1>5, <1>8 DEF Stops
<1> QED BY <1>9 DEF a, b

\* Whose stream x is in below its owner.
LEMMA OwnerIn ==
  ASSUME Composite!IsTree(tree), NEW x \in Composite!Nodes, Composite!Owner(x) # Composite!Consumer
  PROVE  /\ Composite!Owner(x) \in Members(tree) /\ In(tree, Composite!Owner(x), x)
         /\ tree.kind[Composite!Owner(x)] = "parallel"
         /\ \A p \in Composite!Chain(x) :
              p \in Members(tree) /\ tree.kind[p] # "parallel" /\ In(tree, p, x) /\ ~Open(tree, p)
<1> DEFINE o == Composite!Owner(x)
           forks == {p \in Composite!Above(x) : Composite!Kind(p) = "parallel"}
<1>1. Composite!Nodes = Members(tree) /\ \A p \in tree.above[x] : p \in Members(tree)
  BY DEF Composite!Nodes, Composite!IsTree, Members
<1>2. o \in tree.above[x] /\ tree.kind[o] = "parallel" /\ o \in Members(tree)
  BY OwnerIs, <1>1 DEF Composite!Above, Composite!Kind
<1>3. \A p \in forks : o \notin tree.above[p]
  <2>1. forks \in SUBSET Members(tree) /\ forks # {}
    BY <1>1, <1>2 DEF Composite!Above, Composite!Kind
  <2>2. \E m \in forks : \A k \in forks : m \notin tree.above[k]
    BY <2>1, DeepestIs
  <2>3. o = Composite!Deepest(forks)
    BY <2>1 DEF Composite!Owner
  <2> HIDE DEF forks, o
  <2>4. \E m \in forks : forks \cap Composite!Below(m) = {}
    BY <2>2 DEF Composite!Below, Composite!Above
  <2>5. forks \cap Composite!Below(o) = {}
    BY <2>3, <2>4 DEF Composite!Deepest
  <2> QED BY <1>1, <2>1, <2>5 DEF Composite!Below, Composite!Above
<1>4. \A p \in tree.above[x] : tree.kind[p] = "parallel" => o \notin tree.above[p]
  BY <1>3 DEF Composite!Above, Composite!Kind
<1> HIDE DEF o, forks
<1>5. In(tree, o, x)
  BY <1>1, <1>2, <1>4, InIs
<1>6. ASSUME NEW p \in Composite!Chain(x)
      PROVE  p \in Members(tree) /\ tree.kind[p] # "parallel" /\ In(tree, p, x) /\ ~Open(tree, p)
  <2>1. p \in tree.above[x] /\ o \in tree.above[p]
    BY DEF Composite!Chain, o, Composite!Above, Composite!Below
  <2>2. ASSUME NEW r \in tree.above[x], p \in tree.above[r] PROVE tree.kind[r] # "parallel"
    <3>1. tree.above[p] \subseteq tree.above[r]
      BY <1>1, <2>2 DEF Composite!IsTree, Members
    <3> QED BY <1>4, <2>1, <2>2, <3>1
  <2> QED BY <1>1, <1>2, <1>4, <2>1, <2>2, InIs DEF Open
<1> QED BY <1>2, <1>5, <1>6 DEF o

\* The code after the yields.
LEMMA AfterStops ==
  ASSUME Composite!IsTree(tree), NEW ns, LocalsTyped(tree, ns), NEW x \in Members(tree), NEW e \in Heard(tree),
         e.escalate => \A l \in Composite!Chain(x) : tree.kind[l] = "loop" =>
           ns[l].st = "running" \/ ~Tame(tree, l) \/ (Open(tree, l) /\ ns[l].st # "idle")
  PROVE  Stops(tree, ns, Composite!After(x, e, ns))
<1> DEFINE loops == {l \in Composite!Chain(x) : Composite!Kind(l) = "loop"}
<1>1. Composite!Nodes = Members(tree) /\ loops \in SUBSET Members(tree) /\ \A l \in loops : l \in tree.above[x]
  BY ChainIs DEF Composite!Nodes, Composite!IsTree, Members, Composite!Above
<1>2. CASE e.escalate /\ loops # {}
  <2> DEFINE top == Composite!Outermost(loops)
  <2>1. top \in loops /\ \A l \in loops : l \notin tree.above[top]
    <3>1. \E n \in loops : loops \cap tree.above[n] = {}
      BY <1>1, <1>2, OutermostIs
    <3> HIDE DEF loops
    <3>2. top \in loops /\ loops \cap tree.above[top] = {}
      BY <3>1 DEF Composite!Outermost, Composite!Above
    <3> QED BY <3>2
  <2>2. Composite!After(x, e, ns) = [Composite!LeftBehind(ns, top) EXCEPT ![top].st = "ended"]
    BY <1>2 DEF Composite!After
  <2> HIDE DEF top
  <2>3. top \in Members(tree) /\ tree.kind[top] = "loop" /\ top \in tree.above[x] /\ top \in Composite!Chain(x)
    BY <1>1, <2>1 DEF Composite!Kind
  <2>4. Straight(tree, top) \/ ~Open(tree, top)
    <3>1. CASE Composite!Owner(x) = Composite!Consumer
      <4>1. Open(tree, x) /\ Composite!Chain(x) = tree.above[x]
        BY <1>1, <3>1, OwnerIs DEF Composite!Chain, Composite!Above
      <4>2. tree.above[top] \subseteq tree.above[x]
        BY <2>3 DEF Composite!IsTree, Members
      <4> QED BY <2>1, <4>1, <4>2 DEF Straight, Open, Composite!Kind
    <3>2. CASE Composite!Owner(x) # Composite!Consumer
      BY <1>1, <2>3, <3>2, OwnerIn
    <3> QED BY <3>1, <3>2
  <2>5. ns[top].st = "running" \/ ~Tame(tree, top) \/ (Open(tree, top) /\ ns[top].st # "idle")
    BY <1>2, <2>3
  <2>6. Stops(tree, ns, [Composite!LeftBehind(ns, top) EXCEPT ![top].st = "ended"])
    <3>1. "ended" \in {"ended", "dropped"}
      OBVIOUS
    <3> QED BY <2>3, <2>4, <2>5, <3>1, LeftStops
  <2> QED BY <2>2, <2>6
<1>3. CASE ~(e.escalate /\ loops # {})
  <2> DEFINE a == [m \in Composite!Nodes |-> IF m \in Composite!Chain(x) /\ Composite!Kind(m) = "sequence" /\ e.final
                                  THEN [ns[m] EXCEPT !.next = e] ELSE ns[m]]
  <2>1. Composite!After(x, e, ns) = a
    BY <1>3 DEF Composite!After
  <2>2. ASSUME NEW m \in Members(tree)
        PROVE  a[m].st = ns[m].st /\ a[m].step = ns[m].step /\ a[m].emitted = ns[m].emitted
    BY <1>1 DEF LocalsTyped, Locals
  <2>3. Stops(tree, ns, a)
    BY <2>2 DEF Stops
  <2> QED BY <2>1, <2>3
<1> QED BY <1>2, <1>3

TheMerge == TheTree /\ MergeInv(tree, node, queue)

LEMMA MergeFacts ==
  ASSUME TheMerge
  PROVE  /\ TheTree /\ Composite!IsTree(tree) /\ Composite!Nodes = Members(tree)
         /\ MergeInv(tree, node, queue) /\ Calm(tree, node) /\ OneAtATime(tree, node)
         /\ \A n \in Members(tree) : /\ node[n] \in Locals(tree)
                                     /\ Composite!Kids(n) = tree.kids[n] /\ Composite!Kind(n) = tree.kind[n]
                                     /\ tree.kids[n] \in Seq(Members(tree))
                                     /\ Composite!ToSet(Composite!Kids(n)) = Children(tree, n)
BY TreeFacts, NodeIs DEF TheMerge, MergeInv, Children

\* An agent that is no fork, and has nothing that runs, is over.
LEMMA HaltStops ==
  ASSUME TheMerge, NEW n \in Composite!Nodes, tree.kind[n] # "parallel", node[n].st = "running",
         NEW st \in {"ended", "raised"},
         Tame(tree, n) => \A m \in Members(tree) : In(tree, n, m) => node[m].st # "running"
  PROVE  Stops(tree, node, [node EXCEPT ![n].st = st])
<1> DEFINE b == [node EXCEPT ![n].st = st]
<1>1. /\ b[n].st = st /\ b[n].step = node[n].step
      /\ \A m \in Members(tree) : m # n => b[m] = node[m]
  BY MergeFacts, NodeIs DEF Locals
<1>2. ~In(tree, n, n)
  BY MergeFacts DEF In, Composite!IsTree, Members
<1> HIDE DEF b
<1>3. ASSUME NEW m \in Members(tree), b[m].st # node[m].st PROVE StopsAt(tree, node, b, m)
  <2>1. m = n
    BY <1>1, <1>3
  <2>2. Tame(tree, n) => \A k \in Members(tree) : In(tree, n, k) => b[k].st # "running"
    BY <1>1, <1>2
  <2> QED BY <1>1, <2>1, <2>2 DEF StopsAt
<1>4. Stops(tree, node, b)
  BY <1>1, <1>3 DEF Stops
<1> QED BY <1>4 DEF b

\* The steps by which an agent is over find nothing of it that runs.
LEMMA HasEnded ==
  ASSUME TheMerge, NEW n \in Composite!Nodes, Composite!Kind(n) \in {"sequence", "loop"},
         node[n].step = 0 \/ node[Composite!Child(n)].st # "running"
  PROVE  /\ tree.kind[n] # "parallel"
         /\ Tame(tree, n) => \A m \in Members(tree) : In(tree, n, m) => node[m].st # "running"
<1>1. tree.kind[n] # "parallel" /\ n \in Members(tree)
  BY MergeFacts
<1>2. \A j \in DOMAIN tree.kids[n] : j = node[n].step => node[tree.kids[n][j]].st # "running"
  <2>1. \A j \in DOMAIN tree.kids[n] : j # 0
    BY <1>1, MergeFacts
  <2> QED BY <1>1, <2>1, MergeFacts DEF Composite!Child
<1> QED BY <1>1, <1>2, MergeFacts, Stand

LEMMA LeafHasNone ==
  ASSUME TheMerge, NEW n \in Composite!Nodes, Composite!Kind(n) = "leaf"
  PROVE  /\ tree.kind[n] # "parallel"
         /\ \A m \in Members(tree) : ~In(tree, n, m)
<1>1. tree.kind[n] = "leaf" /\ n \in Members(tree) /\ tree.kids[n] = <<>>
  BY MergeFacts, NodeIs
<1>2. Children(tree, n) = {}
  BY <1>1 DEF Children, Composite!ToSet
<1> QED BY <1>1, <1>2, MergeFacts, ChildTowards DEF In

LEMMA HaltMerges ==
  ASSUME TheMerge, NEW n \in Composite!Nodes, tree.kind[n] # "parallel", node[n].st = "running",
         NEW st \in {"ended", "raised"}, node' = [node EXCEPT ![n].st = st], UNCHANGED <<tree, queue>>,
         Tame(tree, n) => \A m \in Members(tree) : In(tree, n, m) => node[m].st # "running"
  PROVE  MergeInv(tree, node, queue)'
<1>1. Stops(tree, node, node')
  BY HaltStops
<1>2. MergeInv(tree, node', queue)
  BY <1>1, MergeFacts, StopsMerge
<1> QED BY <1>2

LEMMA EndsMerge ==
  ASSUME TheMerge, NEW n \in Composite!Nodes,
         Composite!LeafEnds(n) \/ Composite!SequenceEnds(n) \/ Composite!LoopKilled(n) \/ Composite!Propagate(n)
  PROVE  MergeInv(tree, node, queue)'
<1>1. node[n].st = "running" /\ UNCHANGED <<tree, queue>>
  BY DEF Composite!LeafEnds, Composite!SequenceEnds, Composite!LoopKilled, Composite!Propagate, Composite!Runs
<1>2. PICK st \in {"ended", "raised"} : node' = [node EXCEPT ![n].st = st]
  BY DEF Composite!LeafEnds, Composite!SequenceEnds, Composite!LoopKilled, Composite!Propagate
<1>3. CASE Composite!Kind(n) = "leaf"
  BY <1>1, <1>2, <1>3, LeafHasNone, HaltMerges
<1>4. CASE Composite!Kind(n) # "leaf"
  <2>1. Composite!Kind(n) \in {"sequence", "loop"} /\ (node[n].step = 0 \/ node[Composite!Child(n)].st # "running")
    BY <1>4 DEF Composite!LeafEnds, Composite!SequenceEnds, Composite!LoopKilled, Composite!Propagate, Composite!ChildOver
  <2> QED BY <1>1, <1>2, <2>1, HasEnded, HaltMerges
<1> QED BY <1>3, <1>4

Items(t) == Heard(t) \cup {Composite!End}

\* An event goes to the queue of its owner, and x is asked for the next.
LEMMA ForwardMerges ==
  ASSUME TheMerge, tree' = tree, NEW x \in Composite!Nodes, node[x].st = "running",
         Composite!Owner(x) # Composite!Consumer, NEW e \in Heard(tree),
         NEW ns, LocalsTyped(tree, ns), Stops(tree, node, ns), e.escalate => ns[x].st = "running",
         NEW q \in [Members(tree) -> Seq(Items(tree))], MergeInv(tree, node, q),
         queue' = [q EXCEPT ![Composite!Owner(x)] = Append(@, e)], node' = Composite!After(x, e, ns)
  PROVE  MergeInv(tree, node, queue)'
<1> DEFINE o == Composite!Owner(x)
           q2 == [q EXCEPT ![o] = Append(@, e)]
<1>1. /\ o \in Members(tree) /\ In(tree, o, x) /\ x \in Members(tree) /\ Composite!IsTree(tree)
      /\ \A p \in Composite!Chain(x) : p \in Members(tree) /\ tree.kind[p] # "parallel" /\ In(tree, p, x)
  BY MergeFacts, OwnerIn
<1> HIDE DEF o
<1>2. e # Composite!End /\ e \in Items(tree)
  <2>1. DOMAIN e = {"at", "n", "final", "escalate"}
    BY DEF Heard
  <2>2. DOMAIN Composite!End = {"at"}
    BY DEF Composite!End
  <2> QED BY <2>1, <2>2 DEF Items
<1>3. MergeInv(tree, node, q2)
  <2> DEFINE T == Items(tree)
  <2>1. q \in [Members(tree) -> Seq(T)] /\ e \in T
    BY <1>2
  <2> HIDE DEF T
  <2> QED BY <1>1, <1>2, <2>1, AppendMerge
<1> HIDE DEF q2
<1>4. MergeInv(tree, ns, q2)
  BY <1>1, <1>3, StopsMerge
<1>5. Stops(tree, ns, Composite!After(x, e, ns))
  <2>1. ASSUME e.escalate, NEW l \in Composite!Chain(x), Tame(tree, l) PROVE ns[l].st = "running"
    <3>1. Calm(tree, ns) /\ ns[x].st = "running"
      BY <1>4, <2>1 DEF MergeInv
    <3> QED BY <1>1, <2>1, <3>1 DEF Calm
  <2> QED BY <1>1, <2>1, AfterStops
<1>6. MergeInv(tree, Composite!After(x, e, ns), q2)
  BY <1>1, <1>4, <1>5, StopsMerge
<1> QED BY <1>6 DEF q2, o

LEMMA YieldMerges ==
  ASSUME TheMerge, tree' = tree, NEW x \in Composite!Nodes, node[x].st = "running", NEW e \in Heard(tree),
         NEW ns, LocalsTyped(tree, ns), Stops(tree, node, ns), e.escalate => ns[x].st = "running",
         Composite!Yield(x, e, ns)
  PROVE  MergeInv(tree, node, queue)'
<1>1. CASE Composite!Owner(x) = Composite!Consumer
  <2>1. node' = ns /\ queue' = queue
    BY <1>1 DEF Composite!Yield
  <2>2. MergeInv(tree, ns, queue)
    BY MergeFacts, StopsMerge
  <2> QED BY <2>1, <2>2
<1>2. CASE Composite!Owner(x) # Composite!Consumer
  <2>1. /\ queue' = [queue EXCEPT ![Composite!Owner(x)] = Append(@, e)]
        /\ node' = Composite!After(x, e, ns)
    BY <1>2 DEF Composite!Yield
  <2>2. queue \in [Members(tree) -> Seq(Items(tree))]
    BY MergeFacts, TreeFacts DEF QueueTyped, Items
  <2> QED BY <1>2, <2>1, <2>2, MergeFacts, ForwardMerges
<1> QED BY <1>1, <1>2

LEMMA LeafYieldsMerges ==
  ASSUME TheMerge, NEW n \in Composite!Nodes, Composite!LeafYields(n) PROVE MergeInv(tree, node, queue)'
<1>1. PICK final, escalate \in BOOLEAN :
        Composite!Yield(n, Composite!Event(n, node[n].emitted + 1, final, escalate),
              [node EXCEPT ![n].emitted = @ + 1])
  BY DEF Composite!LeafYields
<1>2. /\ Composite!Kind(n) = "leaf" /\ node[n].st = "running" /\ node[n].emitted < tree.events[n] /\ tree' = tree
  BY DEF Composite!LeafYields, Composite!Runs
<1> DEFINE e == Composite!Event(n, node[n].emitted + 1, final, escalate)
           v == [node[n] EXCEPT !.emitted = @ + 1]
           ns == [node EXCEPT ![n].emitted = @ + 1]
<1>3. node[n] \in Locals(tree) /\ Within(tree, n, node[n]) /\ tree.events[n] \in Nat
  BY NodeIs, MergeFacts
<1>4. /\ v \in Locals(tree) /\ v.st = node[n].st /\ v.step = node[n].step
      /\ v.iteration = node[n].iteration /\ v.emitted = node[n].emitted + 1
      /\ node[n].emitted \in Nat
  BY <1>3 DEF Locals
<1>5. e \in Heard(tree)
  BY <1>4, MergeFacts DEF Heard, Composite!Event
<1>6. tree.kind[n] = "leaf" /\ n \in Members(tree)
  BY <1>2, MergeFacts
<1>7. LocalsTyped(tree, node) /\ node \in [Members(tree) -> Locals(tree)]
  BY MergeFacts, TreeFacts DEF LocalsTyped
<1>8. ns[n] = v /\ \A m \in Members(tree) : m # n => ns[m] = node[m]
  BY <1>6, <1>7
<1>9. ns \in [Members(tree) -> Locals(tree)]
  <2>1. ns = [node EXCEPT ![n] = v]
    BY <1>6, <1>7
  <2> HIDE DEF ns, v
  <2> QED BY <1>4, <1>6, <1>7, <2>1
<1> HIDE DEF v, e, ns
<1>10. LocalsTyped(tree, ns)
  <2>1. Within(tree, n, v)
    BY <1>2, <1>3, <1>4, <1>6 DEF Within
  <2> QED BY <1>7, <1>8, <1>9, <2>1 DEF LocalsTyped
<1>11. Stops(tree, node, ns)
  BY <1>4, <1>6, <1>8 DEF Stops
<1>12. ns[n].st = "running"
  BY <1>2, <1>4, <1>8
<1>13. Composite!Yield(n, e, ns)
  BY <1>1 DEF e, ns
<1> QED BY <1>2, <1>5, <1>10, <1>11, <1>12, <1>13, YieldMerges

LEMMA ExhaustedMerges ==
  ASSUME TheMerge, NEW n \in Composite!Nodes, Composite!LoopExhausted(n) PROVE MergeInv(tree, node, queue)'
<1> DEFINE e == Composite!Event(n, node[n].emitted + 1, FALSE, FALSE)
           ns == [node EXCEPT ![n].st = "ended"]
<1>1. /\ Composite!Kind(n) = "loop" /\ node[n].st = "running" /\ node[n].step = 0
      /\ Composite!Yield(n, e, ns) /\ tree' = tree
  BY DEF Composite!LoopExhausted, Composite!Runs
<1>2. node[n].emitted \in Nat
  BY NodeIs, MergeFacts DEF Locals
<1>3. e \in Heard(tree) /\ ~e.escalate
  BY <1>2, MergeFacts DEF Heard, Composite!Event
<1>4. Stops(tree, node, ns)
  BY <1>1, HasEnded, HaltStops
<1>5. LocalsTyped(tree, ns)
  <2>1. Fades(tree, node, ns)
    <3>1. "ended" \in {"ended", "raised", "dropped", "joined"} /\ node[n].st # "idle"
      BY <1>1
    <3> QED BY <3>1, StatusIs, MergeFacts
  <2> QED BY <2>1 DEF Fades
<1> HIDE DEF e, ns
<1> QED BY <1>1, <1>3, <1>4, <1>5, YieldMerges

LEMMA TakeEventMerges ==
  ASSUME TheMerge, NEW n \in Composite!Nodes, Composite!TakeEvent(n) PROVE MergeInv(tree, node, queue)'
<1> DEFINE e == Head(queue[n])
           q == [queue EXCEPT ![n] = Tail(@)]
<1>1. /\ Composite!Kind(n) = "parallel" /\ node[n].st = "running" /\ queue[n] # <<>> /\ e # Composite!End /\ tree' = tree
  BY DEF Composite!TakeEvent, Composite!Runs
<1>2. /\ queue \in [Members(tree) -> Seq(Items(tree))] /\ n \in Members(tree)
      /\ q \in [Members(tree) -> Seq(Items(tree))] /\ e \in Heard(tree)
  BY <1>1, MergeFacts, TreeFacts, TakeIs DEF QueueTyped, Items
<1>3. MergeInv(tree, node, q)
  <2> DEFINE T == Items(tree)
  <2>1. queue \in [Members(tree) -> Seq(T)]
    BY <1>2
  <2> HIDE DEF T
  <2> QED BY <1>1, <1>2, <2>1, MergeFacts, TailMerge
<1>4. CASE Composite!Owner(n) = Composite!Consumer
  <2>1. queue' = q /\ node' = node
    BY <1>4 DEF Composite!TakeEvent
  <2> QED BY <1>1, <1>3, <2>1
<1>5. CASE Composite!Owner(n) # Composite!Consumer
  <2>1. /\ queue' = [queue EXCEPT ![n] = Tail(@), ![Composite!Owner(n)] = Append(@, e)]
        /\ node' = Composite!After(n, e, node)
    BY <1>5 DEF Composite!TakeEvent
  <2>2. queue' = [q EXCEPT ![Composite!Owner(n)] = Append(@, e)]
    <3>1. Composite!Owner(n) \in Members(tree) /\ Composite!Owner(n) # n
      <4>1. Composite!Owner(n) \in Members(tree) /\ In(tree, Composite!Owner(n), n)
        BY <1>2, <1>5, MergeFacts, OwnerIn
      <4> QED BY <1>2, <4>1, MergeFacts, NotAboveItself DEF In
    <3> HIDE DEF e
    <3> QED BY <1>2, <2>1, <3>1
  <2> HIDE DEF e, q
  <2>3. LocalsTyped(tree, node) /\ Stops(tree, node, node)
    BY MergeFacts, TreeFacts DEF Stops
  <2> QED BY <1>1, <1>2, <1>3, <1>5, <2>1, <2>2, <2>3, ForwardMerges
<1> QED BY <1>4, <1>5

LEMMA ResumeMerges == ASSUME TheMerge, Composite!Resume PROVE MergeInv(tree, node, queue)'
<1> DEFINE x == waiting.at
           e == waiting.event
<1>1. waiting # Composite!None /\ node' = Composite!After(x, e, node) /\ UNCHANGED <<tree, queue>>
  BY DEF Composite!Resume
<1>2. x \in Members(tree) /\ e \in Heard(tree) /\ LocalsTyped(tree, node) /\ Composite!IsTree(tree)
  BY <1>1, TreeFacts, MergeFacts
<1>3. Open(tree, x) /\ node[x].st # "idle"
  BY <1>1 DEF TheMerge, TheTree, TreeInv, Held
<1> HIDE DEF x, e
<1>4. \A l \in Composite!Chain(x) : Open(tree, l) /\ node[l].st # "idle"
  <2>1. \A p \in tree.above[x] : node[p].st # "idle" /\ p \in Members(tree) /\ tree.above[p] \subseteq tree.above[x]
    BY <1>2, <1>3, TreeFacts, MergeFacts DEF Rooted, Composite!IsTree, Members
  <2> QED BY <1>3, <2>1, ChainIs DEF Open, Composite!Above
<1>5. Stops(tree, node, node')
  BY <1>1, <1>2, <1>4, AfterStops
<1>6. MergeInv(tree, node', queue)
  BY <1>2, <1>5, MergeFacts, StopsMerge
<1> QED BY <1>1, <1>6

LEMMA CloseMerges == ASSUME TheMerge, Composite!Close PROVE MergeInv(tree, node, queue)'
<1> DEFINE root == tree.root
<1>1. node' = [Composite!LeftBehind(node, root) EXCEPT ![root].st = "dropped"] /\ UNCHANGED <<tree, queue>>
  BY DEF Composite!Close
<1>2. /\ root \in Members(tree) /\ tree.above[root] = {} /\ Straight(tree, root) /\ node[root].st # "idle"
      /\ LocalsTyped(tree, node) /\ Composite!IsTree(tree)
  BY MergeFacts, RootIs, TreeFacts DEF TheTree, TreeInv
<1>3. Open(tree, root)
  BY <1>2 DEF Open
<1> HIDE DEF root
<1>4. Stops(tree, node, [Composite!LeftBehind(node, root) EXCEPT ![root].st = "dropped"])
  <2>1. "dropped" \in {"ended", "dropped"}
    OBVIOUS
  <2> QED BY <1>2, <1>3, <2>1, LeftStops
<1>5. MergeInv(tree, node', queue)
  BY <1>1, <1>2, <1>4, MergeFacts, StopsMerge
<1> QED BY <1>1, <1>5

LEMMA KillMerges == ASSUME TheMerge, Composite!Kill PROVE MergeInv(tree, node, queue)'
<1>1. node' = [node EXCEPT ![tree.root].ended = TRUE] /\ UNCHANGED <<tree, queue>>
  BY DEF Composite!Kill
<1>2. ASSUME NEW m \in Members(tree)
      PROVE  node'[m].st = node[m].st /\ node'[m].step = node[m].step /\ node'[m].emitted = node[m].emitted
  <2>1. node \in [Members(tree) -> Locals(tree)]
    BY MergeFacts, TreeFacts DEF LocalsTyped
  <2> QED BY <1>1, <2>1 DEF Locals
<1>3. Stops(tree, node, node')
  BY <1>2 DEF Stops
<1>4. MergeInv(tree, node', queue)
  BY <1>3, MergeFacts, StopsMerge
<1> QED BY <1>1, <1>4

\* The tasks of a fork that was left behind are cancelled: what it is barred by
\* bars those below it.
LEMMA CancelMerges ==
  ASSUME TheMerge, NEW n \in Composite!Nodes, Composite!Cancel(n) PROVE MergeInv(tree, node, queue)'
<1>1. /\ node[n].st = "dropped" /\ tree.kind[n] = "parallel" /\ UNCHANGED <<tree, queue>>
      /\ node' = [m \in Composite!Nodes |-> IF m \in Composite!Below(n) /\ node[m].st = "running"
                                  THEN [node[m] EXCEPT !.st = "dropped"] ELSE node[m]]
  BY MergeFacts DEF Composite!Cancel
<1> DEFINE b == node'
<1>2. ASSUME NEW m \in Members(tree)
      PROVE  /\ b[m].step = node[m].step /\ b[m].emitted = node[m].emitted
             /\ b[m].st = IF n \in tree.above[m] /\ node[m].st = "running" THEN "dropped" ELSE node[m].st
  <2>1. node[m] \in Locals(tree) /\ m \in Composite!Nodes
    BY MergeFacts
  <2>2. m \in Composite!Below(n) <=> n \in tree.above[m]
    BY <2>1 DEF Composite!Below, Composite!Above
  <2>3. b[m] = IF n \in tree.above[m] /\ node[m].st = "running" THEN [node[m] EXCEPT !.st = "dropped"] ELSE node[m]
    BY <1>1, <2>1, <2>2
  <2> HIDE DEF b
  <2>4. CASE n \in tree.above[m] /\ node[m].st = "running"
    <3>1. b[m] = [node[m] EXCEPT !.st = "dropped"]
      BY <2>3, <2>4
    <3> QED BY <2>1, <2>4, <3>1 DEF Locals
  <2>5. CASE ~(n \in tree.above[m] /\ node[m].st = "running")
    <3>1. b[m] = node[m]
      BY <2>3, <2>5
    <3> QED BY <2>5, <3>1
  <2> QED BY <2>4, <2>5
<1> HIDE DEF b
<1>3. \A m \in Members(tree) : n \in tree.above[m] => b[m].st # "running"
  BY <1>2
<1>4. ASSUME NEW m \in Members(tree), n \in tree.above[m], Lone(tree, m) PROVE Barred(tree, b, m)
  <2>1. n \in Members(tree) /\ Lone(tree, n) /\ n \in Forks(tree)
    BY <1>1, <1>4, MergeFacts, LoneIsTame DEF Forks
  <2>2. PICK top \in Path(tree, n) : BarredAt(tree, node, n, top)
    BY <1>1, <2>1, MergeFacts DEF MergeInv, ForkInv, Barred
  <2>3. tree.above[n] \subseteq tree.above[m] /\ top \in Members(tree)
    BY <1>4, <2>1, MergeFacts DEF Composite!IsTree, Members, Path
  <2>4. top \in Path(tree, m) /\ Straight(tree, top) /\ Gone(b, top)
    BY <1>2, <1>4, <2>2, <2>3 DEF Path, BarredAt, Gone
  <2>5. ASSUME NEW y \in Path(tree, m), top \in tree.above[y] PROVE b[y].st # "running"
    <3>1. y \in Members(tree) /\ (y = m \/ y = n \/ y \in tree.above[n] \/ n \in tree.above[y])
      BY <1>4, MergeFacts DEF Composite!IsTree, Members, Path
    <3>2. CASE n \in tree.above[y]
      BY <1>3, <3>1, <3>2
    <3>3. CASE y \in Path(tree, n)
      <4>1. node[y].st # "running"
        BY <2>2, <2>5, <3>3 DEF BarredAt
      <4> QED BY <1>2, <3>1, <4>1
    <3> QED BY <1>4, <3>1, <3>2, <3>3 DEF Path
  <2> QED BY <2>4, <2>5 DEF Barred, BarredAt
<1>5. ASSUME NEW m \in Members(tree), b[m].st # node[m].st PROVE StopsAt(tree, node, b, m)
  <2>1. n \in tree.above[m] /\ node[m].st = "running" /\ b[m].st = "dropped"
    BY <1>2, <1>5
  <2>2. \A k \in Members(tree) : In(tree, m, k) => n \in tree.above[k]
    BY <2>1, MergeFacts DEF In, Composite!IsTree, Members
  <2> QED BY <1>3, <1>4, <2>1, <2>2 DEF StopsAt
<1>6. Stops(tree, node, b)
  BY <1>2, <1>5 DEF Stops
<1>7. MergeInv(tree, b, queue)
  BY <1>6, MergeFacts, StopsMerge
<1> QED BY <1>1, <1>7 DEF b

\* A child's None: the count of those that joined grows with that of the Nones.
LEMMA PutEndMerges ==
  ASSUME TheMerge, NEW n \in Composite!Nodes, Composite!PutEnd(n) PROVE MergeInv(tree, node, queue)'
<1>1. /\ node[n].st = "ended" /\ node' = [node EXCEPT ![n].st = "joined"] /\ tree' = tree
      /\ queue' = [queue EXCEPT ![Composite!Owner(n)] = Append(@, Composite!End)]
  BY DEF Composite!PutEnd
<1>2. PICK p \in Members(tree) : tree.kind[p] = "parallel" /\ n \in Children(tree, p)
  <2>1. \A p \in Composite!Above(n) : p \in Members(tree)
    BY MergeFacts DEF Composite!Above, Composite!IsTree, Members
  <2> QED BY <2>1, MergeFacts DEF Composite!PutEnd
<1> DEFINE o == Composite!Owner(n)
           b == node'
           q2 == queue'
<1>3. o = p
  <2>1. In(tree, p, n) /\ p \in tree.above[n] /\ tree.above[n] = {p} \cup tree.above[p]
    BY <1>2, MergeFacts, ParentIs, InOfChild DEF Children
  <2>2. o # Composite!Consumer
    BY <1>2, <2>1, MergeFacts, OwnerIs DEF Open
  <2>3. In(tree, o, n) /\ tree.kind[o] = "parallel" /\ o \in Members(tree)
    BY <2>2, MergeFacts, OwnerIn
  <2>4. o = p \/ (In(tree, o, p) /\ tree.kind[p] # "parallel")
    BY <1>2, <2>3, MergeFacts, InOfChild
  <2> QED BY <1>2, <2>4
<1>4. /\ b[n].st = "joined" /\ b[n].step = node[n].step /\ b[n].emitted = node[n].emitted
      /\ \A m \in Members(tree) : m # n => b[m] = node[m]
  BY <1>1, MergeFacts, TreeFacts DEF LocalsTyped, Locals
<1>5. /\ queue \in [Members(tree) -> Seq(Items(tree))] /\ n \in Members(tree)
      /\ q2[p] = Append(queue[p], Composite!End) /\ \A f \in Members(tree) : f # p => q2[f] = queue[f]
  <2>1. queue \in [Members(tree) -> Seq(Items(tree))] /\ n \in Members(tree)
    BY MergeFacts, TreeFacts DEF QueueTyped, Items
  <2> QED BY <1>1, <1>2, <1>3, <2>1
<1> HIDE DEF b, q2, o
<1>6. \A m \in Members(tree) : b[m].st = "running" <=> node[m].st = "running"
  BY <1>1, <1>4
<1>7. Calm(tree, b)
  BY <1>6, MergeFacts DEF Calm
<1>8. OneAtATime(tree, b)
  <2>1. \A a \in Members(tree) : b[a].step = node[a].step
    BY <1>4
  <2>2. \A a \in Members(tree) : \A j \in DOMAIN tree.kids[a] : tree.kids[a][j] \in Members(tree)
    BY MergeFacts
  <2> QED BY <1>6, <2>1, <2>2, MergeFacts DEF OneAtATime
<1>9. ASSUME NEW f \in Forks(tree) PROVE ForkInv(tree, b, q2, f)
  <2>1. /\ f \in Members(tree) /\ ForkInv(tree, node, queue, f) /\ tree.kind[f] = "parallel"
        /\ \A k \in Children(tree, f) : k \in Members(tree) /\ k # f
    BY MergeFacts, ForkChildIs DEF Forks, MergeInv
  <2>2. Barred(tree, node, f) => Barred(tree, b, f)
    <3>1. \A m \in Members(tree) : Gone(node, m) => Gone(b, m)
      BY <1>1, <1>4 DEF Gone
    <3> QED BY <1>6, <2>1, <3>1, MergeFacts, StaysBarred
  <2>3. CASE f = n
    <3>1. f # p
      BY <1>2, <2>3, MergeFacts, InOfChild
    <3>2. AtRest(tree, node, queue, f)
      BY <1>1, <2>1, <2>3 DEF ForkInv, Merging
    <3>3. q2[f] = queue[f] /\ \A k \in Children(tree, f) : b[k] = node[k]
      BY <1>4, <1>5, <2>1, <2>3, <3>1
    <3>4. AtRest(tree, b, q2, f)
      BY <1>1, <1>4, <2>3, <3>2, <3>3 DEF AtRest
    <3> QED BY <1>4, <2>3, <3>4 DEF ForkInv, Merging
  <2>4. CASE f = p /\ f # n
    <3>1. b[f] = node[f] /\ n \in Children(tree, f)
      BY <1>2, <1>4, <2>1, <2>4
    <3>2. ~AtRest(tree, node, queue, f)
      BY <1>1, <3>1 DEF AtRest
    <3>3. CASE node[f].st = "dropped"
      BY <2>1, <2>2, <3>1, <3>3 DEF ForkInv, Merging
    <3>4. CASE Merging(node, f) /\ Counted(tree, node, queue, f)
      <4>1. Joined(tree, b, f) = Joined(tree, node, f) \cup {n} /\ n \notin Joined(tree, node, f)
        BY <1>1, <1>4, <2>1, <3>1 DEF Joined
      <4>2. IsFiniteSet(Joined(tree, node, f))
        <5>1. Joined(tree, node, f) \in SUBSET Children(tree, f) /\ IsFiniteSet(Children(tree, f))
          BY <2>1, MergeFacts, ChildrenAre DEF Joined
        <5> QED BY <5>1, FS_Subset
      <4>3. Cardinality(Joined(tree, b, f)) = Cardinality(Joined(tree, node, f)) + 1
        BY <4>1, <4>2, FS_AddElement
      <4>4. /\ Cardinality(Nones(q2[f])) = Cardinality(Nones(queue[f])) + 1
            /\ Cardinality(Nones(queue[f])) \in Nat /\ Cardinality(Joined(tree, node, f)) \in Nat
            /\ q2[f][Len(q2[f])] = Composite!End
        <5> DEFINE T == Items(tree)
                   s == queue[f]
        <5>1. s \in Seq(T) /\ Composite!End \in T /\ q2[f] = Append(s, Composite!End)
          BY <1>5, <2>1, <2>4 DEF Items
        <5> HIDE DEF T, s
        <5>2. /\ Cardinality(Nones(Append(s, Composite!End))) = Cardinality(Nones(s)) + 1
              /\ Cardinality(Nones(s)) \in Nat
          BY <5>1, NonesOfAppend
        <5>3. Append(s, Composite!End)[Len(Append(s, Composite!End))] = Composite!End
          BY <5>1
        <5> QED BY <4>2, <5>1, <5>2, <5>3, FS_CardinalityType DEF s
      <4>5. node[f].emitted \in Nat
        BY <2>1, MergeFacts DEF Locals
      <4>6. Cardinality(Nones(q2[f])) + b[f].emitted = Cardinality(Joined(tree, b, f))
        BY <3>1, <3>4, <4>3, <4>4, <4>5 DEF Counted
      <4>7. Counted(tree, b, q2, f)
        BY <4>4, <4>6 DEF Counted
      <4> QED BY <3>1, <3>4, <4>7 DEF ForkInv, Merging
    <3> QED BY <2>1, <3>2, <3>3, <3>4 DEF ForkInv
  <2>5. CASE f # p /\ f # n
    <3>1. n \notin Children(tree, f)
      BY <1>2, <1>5, <2>1, <2>5, MergeFacts DEF Children, Composite!IsTree, Members
    <3>2. b[f] = node[f] /\ q2[f] = queue[f] /\ \A k \in Children(tree, f) : b[k] = node[k]
      BY <1>4, <1>5, <2>1, <2>5, <3>1
    <3> QED BY <2>1, <2>2, <3>2, SameFork
  <2> QED BY <2>3, <2>4, <2>5
<1>10. MergeInv(tree, b, q2)
  BY <1>7, <1>8, <1>9 DEF MergeInv
<1> QED BY <1>1, <1>10 DEF b, q2

\* The last None is the last item.
LEMMA TakeEndMerges ==
  ASSUME TheMerge, NEW n \in Composite!Nodes, Composite!TakeEnd(n) PROVE MergeInv(tree, node, queue)'
<1> DEFINE b == node'
           q2 == queue'
           last == node[n].emitted + 1 = Len(tree.kids[n])
<1>1. /\ tree.kind[n] = "parallel" /\ node[n].st = "running" /\ queue[n] # <<>> /\ Head(queue[n]) = Composite!End
      /\ tree' = tree /\ queue' = [queue EXCEPT ![n] = Tail(@)] /\ n \in Members(tree)
      /\ node' = [node EXCEPT ![n].emitted = @ + 1, ![n].st = IF last THEN "ended" ELSE @]
  BY MergeFacts DEF Composite!TakeEnd, Composite!Runs
<1>2. node[n] \in Locals(tree) /\ node \in [Members(tree) -> Locals(tree)] /\ node[n].emitted \in Nat
  BY <1>1, MergeFacts, TreeFacts DEF LocalsTyped, Locals
<1>3. /\ b[n].emitted = node[n].emitted + 1 /\ b[n].step = node[n].step
      /\ b[n].st = IF last THEN "ended" ELSE "running"
      /\ \A m \in Members(tree) : m # n => b[m] = node[m]
  <2> DEFINE v == [node[n] EXCEPT !.emitted = @ + 1, !.st = IF last THEN "ended" ELSE @]
  <2>1. /\ v.emitted = node[n].emitted + 1 /\ v.step = node[n].step
        /\ v.st = IF last THEN "ended" ELSE node[n].st
    BY <1>2 DEF Locals
  <2>2. b = [node EXCEPT ![n] = v]
    BY <1>1, <1>2
  <2> HIDE DEF v, b, last
  <2>3. b[n] = v /\ \A m \in Members(tree) : m # n => b[m] = node[m]
    BY <1>1, <1>2, <2>2
  <2> QED BY <1>1, <2>1, <2>3
<1>4. /\ queue \in [Members(tree) -> Seq(Items(tree))]
      /\ q2[n] = Tail(queue[n]) /\ \A f \in Members(tree) : f # n => q2[f] = queue[f]
  <2>1. queue \in [Members(tree) -> Seq(Items(tree))]
    BY MergeFacts, TreeFacts DEF QueueTyped, Items
  <2> QED BY <1>1, <2>1
<1> HIDE DEF b, q2
<1>5. \A m \in Members(tree) : /\ b[m].st = "running" => node[m].st = "running"
                               /\ m # n => b[m].st = node[m].st
                               /\ b[m].step = node[m].step
  BY <1>1, <1>3
<1>6. Calm(tree, b)
  BY <1>1, <1>5, MergeFacts DEF Calm
<1>7. OneAtATime(tree, b)
  <2>1. \A a \in Members(tree) : \A j \in DOMAIN tree.kids[a] : tree.kids[a][j] \in Members(tree)
    BY MergeFacts
  <2> QED BY <1>5, <2>1, MergeFacts DEF OneAtATime
<1>8. ASSUME NEW f \in Forks(tree) PROVE ForkInv(tree, b, q2, f)
  <2>1. /\ f \in Members(tree) /\ ForkInv(tree, node, queue, f)
        /\ \A k \in Children(tree, f) : k \in Members(tree) /\ k # f
    BY MergeFacts, ForkChildIs DEF Forks, MergeInv
  <2>2. CASE f # n
    <3>1. Barred(tree, node, f) => Barred(tree, b, f)
      <4>1. \A m \in Members(tree) : Gone(node, m) => Gone(b, m)
        BY <1>1, <1>3 DEF Gone
      <4> QED BY <1>5, <2>1, <4>1, MergeFacts, StaysBarred
    <3>2. \A k \in Children(tree, f) : \/ b[k].st = node[k].st
                                       \/ node[k].st = "running" /\ b[k].st \notin {"idle", "joined"}
      BY <1>1, <1>3, <2>1
    <3> QED BY <1>3, <1>4, <2>1, <2>2, <3>1, <3>2, SameFork
  <2>3. CASE f = n
    <3> DEFINE s == queue[n]
               T == Items(tree)
    <3>1. s \in Seq(T) /\ s # <<>> /\ Head(s) = Composite!End
      BY <1>1, <1>4
    <3>2. Merging(node, n) /\ Counted(tree, node, queue, n)
      BY <1>1, <2>1, <2>3, <3>1 DEF ForkInv, AtRest
    <3>3. Joined(tree, b, n) = Joined(tree, node, n) /\ \A k \in Children(tree, n) : b[k] = node[k]
      <4>1. \A k \in Children(tree, n) : b[k] = node[k]
        BY <1>3, <2>1, <2>3
      <4> QED BY <4>1 DEF Joined
    <3> HIDE DEF T
    <3>4. /\ Cardinality(Nones(Tail(s))) = Cardinality(Nones(s)) - 1
          /\ Tail(s) # <<>> => Tail(s)[Len(Tail(s))] = s[Len(s)]
          /\ Cardinality(Nones(s)) \in Nat
      <4> HIDE DEF s
      <4> QED BY <3>1, NonesOfTail, NonesOfAppend
    <3>5. Cardinality(Nones(s)) + node[n].emitted = Cardinality(Joined(tree, node, n))
      BY <3>2 DEF Counted
    <3>6. CASE ~last
      <4>1. Cardinality(Nones(q2[n])) + b[n].emitted = Cardinality(Joined(tree, b, n))
        <5>1. q2[n] = Tail(s) /\ b[n].emitted = node[n].emitted + 1
          BY <1>3, <1>4
        <5> HIDE DEF s
        <5> QED BY <1>2, <3>3, <3>4, <3>5, <5>1
      <4>2. (\A k \in Children(tree, n) : b[k].st = "joined") => q2[n] = <<>> \/ q2[n][Len(q2[n])] = Composite!End
        BY <1>4, <3>1, <3>2, <3>3, <3>4 DEF Counted
      <4>3. Merging(b, n)
        BY <1>3, <3>2, <3>6 DEF Merging
      <4> QED BY <1>3, <2>3, <3>6, <4>1, <4>2, <4>3 DEF ForkInv, Counted
    <3>7. CASE last
      <4>1. /\ IsFiniteSet(Children(tree, n)) /\ Cardinality(Children(tree, n)) <= node[n].emitted + 1
            /\ Cardinality(Children(tree, n)) \in Nat
        BY <1>1, <3>7, MergeFacts, ChildrenAre
      <4>2. Joined(tree, node, n) \in SUBSET Children(tree, n)
        BY DEF Joined
      <4>3. /\ IsFiniteSet(Joined(tree, node, n)) /\ Cardinality(Joined(tree, node, n)) <= Cardinality(Children(tree, n))
            /\ Cardinality(Joined(tree, node, n)) = Cardinality(Children(tree, n)) => Joined(tree, node, n) = Children(tree, n)
        BY <4>1, <4>2, FS_Subset, Zenon
      <4>4. Cardinality(Nones(s)) <= 1
        <5>1. Cardinality(Joined(tree, node, n)) \in Nat
          BY <4>3, FS_CardinalityType
        <5> QED BY <1>2, <3>4, <3>5, <4>1, <4>3, <5>1
      <4>5. Cardinality(Nones(s)) >= 1
        <5>1. Len(s) \in Nat /\ 1 \in 1..Len(s) /\ s[1] = Composite!End
          <6> HIDE DEF s
          <6> QED BY <3>1
        <5>2. 1 \in Nones(s) /\ IsFiniteSet(Nones(s))
          <6> HIDE DEF s
          <6>1. Nones(s) \in SUBSET (1..Len(s)) /\ IsFiniteSet(1..Len(s))
            BY <5>1, FS_Interval DEF Nones
          <6> QED BY <5>1, <6>1, FS_Subset DEF Nones
        <5>3. Cardinality(Nones(s)) # 0
          BY <5>2, FS_EmptySet
        <5> QED BY <3>4, <5>3
      <4>6. Joined(tree, node, n) = Children(tree, n)
        <5>1. Cardinality(Joined(tree, node, n)) \in Nat
          BY <4>3, FS_CardinalityType
        <5> QED BY <1>2, <3>4, <3>5, <4>1, <4>3, <4>5, <5>1
      <4>7. \A k \in Children(tree, n) : node[k].st = "joined"
        BY <4>6 DEF Joined
      <4>8. Tail(s) = <<>>
        <5>1. s[Len(s)] = Composite!End
          BY <3>1, <3>2, <4>7 DEF Counted
        <5> HIDE DEF s
        <5> QED BY <3>1, <4>4, <5>1, LastNone
      <4>9. AtRest(tree, b, q2, n)
        BY <1>3, <1>4, <3>3, <3>7, <4>7, <4>8 DEF AtRest
      <4> QED BY <1>3, <2>3, <3>7, <4>9 DEF ForkInv, Merging
    <3> QED BY <3>6, <3>7
  <2> QED BY <2>2, <2>3
<1>9. MergeInv(tree, b, q2)
  BY <1>6, <1>7, <1>8 DEF MergeInv
<1> QED BY <1>1, <1>9 DEF b, q2

\* A pass of a loop begins again.
LEMMA PassEndsMerges ==
  ASSUME TheMerge, NEW n \in Composite!Nodes, Composite!PassEnds(n) PROVE MergeInv(tree, node, queue)'
<1>1. /\ Composite!Kind(n) = "loop" /\ node[n].st = "running" /\ Composite!ChildOver(n) /\ node[n].step = Len(Composite!Kids(n))
      /\ UNCHANGED <<tree, queue>> /\ n \in Members(tree) /\ tree.kind[n] # "parallel"
  BY MergeFacts DEF Composite!PassEnds, Composite!Runs
<1>2. node[n].step = 0 \/ node[Composite!Child(n)].st # "running"
  BY <1>1 DEF Composite!ChildOver
<1>3. CASE node' = [node EXCEPT ![n].st = "ended"]
  BY <1>1, <1>2, <1>3, HasEnded, HaltMerges
<1>4. CASE node' = [node EXCEPT ![n].step = 0, ![n].iteration = @ + 1]
  <2> DEFINE b == node'
  <2>1. /\ b[n].st = node[n].st /\ b[n].step = 0 /\ \A m \in Members(tree) : m # n => b[m] = node[m]
    BY <1>1, <1>4, MergeFacts, TreeFacts DEF LocalsTyped, Locals
  <2> HIDE DEF b
  <2>2. \A m \in Members(tree) : b[m].st = node[m].st
    BY <2>1
  <2>3. Calm(tree, b)
    BY <2>2, MergeFacts DEF Calm
  <2>4. OneAtATime(tree, b)
    <3> SUFFICES ASSUME NEW a \in Members(tree), Tame(tree, a), tree.kind[a] # "parallel",
                        NEW j \in DOMAIN tree.kids[a], b[tree.kids[a][j]].st = "running"
                 PROVE  j = b[a].step
      BY DEF OneAtATime
    <3>1. node[tree.kids[a][j]].st = "running"
      BY <2>2, MergeFacts
    <3>2. j = node[a].step
      BY <3>1, MergeFacts DEF OneAtATime
    <3>3. a # n
      <4>1. ASSUME a = n PROVE FALSE
        <5>1. j # 0 /\ Composite!Child(n) = tree.kids[n][j]
          BY <3>2, <4>1, MergeFacts DEF Composite!Child
        <5> QED BY <1>2, <3>1, <3>2, <4>1, <5>1
      <4> QED BY <4>1
    <3> QED BY <2>1, <3>2, <3>3
  <2>5. ASSUME NEW f \in Forks(tree) PROVE ForkInv(tree, b, queue, f)
    <3>1. /\ f \in Members(tree) /\ ForkInv(tree, node, queue, f) /\ f # n
          /\ \A k \in Children(tree, f) : k \in Members(tree)
      BY <1>1, MergeFacts, ForkChildIs DEF Forks, MergeInv
    <3>2. Barred(tree, node, f) => Barred(tree, b, f)
      <4>1. \A m \in Members(tree) : Gone(node, m) => Gone(b, m)
        BY <2>2 DEF Gone
      <4> QED BY <2>2, <3>1, <4>1, MergeFacts, StaysBarred
    <3> QED BY <2>1, <2>2, <3>1, <3>2, SameFork
  <2>6. MergeInv(tree, b, queue)
    BY <2>3, <2>4, <2>5 DEF MergeInv
  <2> QED BY <1>1, <2>6 DEF b
<1> QED BY <1>3, <1>4 DEF Composite!PassEnds

\* Who is started was at rest.
LEMMA NextChildMerges ==
  ASSUME TheMerge, NEW n \in Composite!Nodes, Composite!NextChild(n) PROVE MergeInv(tree, node, queue)'
<1> DEFINE i == node[n].step + 1
           c == Composite!Kids(n)[i]
           input == IF Composite!Kind(n) = "sequence" THEN node[n].next ELSE node[n].input
           stops == node[n].ended /\ (Composite!Kind(n) = "sequence" \/ node[n].step = 0)
           b == node'
<1>1. /\ Composite!Kind(n) \in {"sequence", "loop"} /\ node[n].st = "running" /\ node[n].step < Len(Composite!Kids(n))
      /\ UNCHANGED <<tree, queue>> /\ Composite!ChildOver(n) /\ n \in Members(tree) /\ tree.kind[n] # "parallel"
      /\ node' = IF stops THEN [node EXCEPT ![n].st = "ended"]
                 ELSE [node EXCEPT ![n].step = @ + 1, ![c] = Composite!Derived(n, input)]
  BY MergeFacts DEF Composite!NextChild, Composite!Runs
<1>2. node[n].step = 0 \/ node[Composite!Child(n)].st # "running"
  BY <1>1 DEF Composite!ChildOver
<1>3. CASE stops
  <2>1. node' = [node EXCEPT ![n].st = "ended"]
    BY <1>1, <1>3
  <2> QED BY <1>1, <1>2, <2>1, HasEnded, HaltMerges
<1>4. CASE ~stops
  <2> DEFINE d == Composite!Derived(n, input)
  <2>1. node' = [node EXCEPT ![n].step = @ + 1, ![c] = d]
    BY <1>1, <1>4
  <2>2. d.st = "running" /\ d.step = 0 /\ d.emitted = 0
    BY DEF Composite!Derived, Composite!Idle
  <2>3. /\ i \in DOMAIN tree.kids[n] /\ c = tree.kids[n][i] /\ c \in Children(tree, n) /\ node[n].step \in Nat
    <3>1. node[n].step \in Nat /\ tree.kids[n] \in Seq(Members(tree)) /\ Composite!Kids(n) = tree.kids[n]
      BY <1>1, MergeFacts DEF Locals
    <3>2. i \in DOMAIN tree.kids[n] /\ c = tree.kids[n][i]
      BY <1>1, <3>1
    <3> QED BY <3>1, <3>2 DEF Children, Composite!ToSet
  <2>4. /\ c \in Members(tree) /\ c # n /\ In(tree, n, c) /\ tree.above[c] = {n} \cup tree.above[n] /\ n # c
        /\ \A a : In(tree, a, c) => a = n \/ In(tree, a, n)
    <3> HIDE DEF c
    <3> QED BY <1>1, <2>3, MergeFacts, InOfChild, ParentIs DEF Children
  <2> HIDE DEF d, input, stops
  <2>5. /\ b[n].st = "running" /\ b[n].step = i /\ b[c] = d
        /\ \A m \in Members(tree) : m # n /\ m # c => b[m] = node[m]
    <3> HIDE DEF c
    <3>1. node \in [Members(tree) -> Locals(tree)] /\ node[n] \in Locals(tree)
      BY <1>1, MergeFacts, TreeFacts DEF LocalsTyped
    <3> QED BY <1>1, <2>1, <2>4, <3>1 DEF Locals
  <2> HIDE DEF b
  <2>6. \A j \in DOMAIN tree.kids[n] : j = node[n].step => node[tree.kids[n][j]].st # "running"
    <3>1. \A j \in DOMAIN tree.kids[n] : j # 0
      BY <1>1, MergeFacts
    <3> QED BY <1>1, <1>2, <3>1, MergeFacts DEF Composite!Child
  <2>7. Tame(tree, n) => node[c].st # "running"
    <3>1. i # node[n].step
      BY <2>3
    <3> QED BY <1>1, <2>3, <3>1, MergeFacts DEF OneAtATime
  <2>8. Tame(tree, c) => Tame(tree, n)
    BY <2>4 DEF Tame
  <2> HIDE DEF c
  <2>9. ~(Straight(tree, c) /\ Gone(node, c))
    <3> SUFFICES ASSUME Straight(tree, c), Gone(node, c) PROVE FALSE
      OBVIOUS
    <3>1. node[c].st # "idle" /\ StartedOnce(tree, node) /\ n \in Members(tree)
      BY <1>1, TreeFacts, MergeFacts DEF Gone
    <3>2. \A j \in DOMAIN tree.kids[n] : tree.kids[n][j] = c => j <= node[n].step
      BY ONLY <2>4, <3>1, Straight(tree, c) DEF StartedOnce
    <3>3. tree.kids[n][i] = c /\ i \in DOMAIN tree.kids[n]
      BY <2>3
    <3>4. i <= node[n].step
      <4> HIDE DEF i
      <4> QED BY <3>2, <3>3
    <3> QED BY <2>3, <3>4
  <2>10. Calm(tree, b)
    <3> SUFFICES ASSUME NEW a \in Members(tree), NEW m \in Members(tree), Tame(tree, a), tree.kind[a] # "parallel",
                        In(tree, a, m), b[m].st = "running"
                 PROVE  b[a].st = "running"
      BY DEF Calm
    <3>1. node[a].st = "running" => b[a].st = "running"
      BY <2>2, <2>5
    <3>2. CASE m = c
      <4>1. a = n \/ In(tree, a, n)
        BY <2>4, <3>2
      <4>2. node[a].st = "running"
        BY <1>1, <4>1, MergeFacts DEF Calm
      <4> QED BY <3>1, <4>2
    <3>3. CASE m # c
      <4>1. node[m].st = "running"
        BY <1>1, <2>5, <3>3
      <4>2. node[a].st = "running"
        BY <4>1, MergeFacts DEF Calm
      <4> QED BY <3>1, <4>2
    <3> QED BY <3>2, <3>3
  <2>11. OneAtATime(tree, b)
    <3> SUFFICES ASSUME NEW a \in Members(tree), Tame(tree, a), tree.kind[a] # "parallel",
                        NEW j \in DOMAIN tree.kids[a], b[tree.kids[a][j]].st = "running"
                 PROVE  j = b[a].step
      BY DEF OneAtATime
    <3> DEFINE k == tree.kids[a][j]
    <3>1. k \in Members(tree) /\ k \in Children(tree, a) /\ In(tree, a, k) /\ k # a
      <4>1. k \in Children(tree, a)
        BY DEF Children, Composite!ToSet
      <4> HIDE DEF k
      <4> QED BY <4>1, MergeFacts, InOfChild
    <3>2. CASE k = c
      <4>1. a = n
        <5>1. c \in Children(tree, a) /\ n \in Members(tree)
          BY <1>1, <3>1, <3>2, MergeFacts
        <5> HIDE DEF k
        <5> QED BY <2>3, <5>1, MergeFacts, OneParent
      <4>2. j = i
        BY <1>1, <2>3, <3>2, <4>1, MergeFacts DEF Composite!IsTree, Members
      <4> QED BY <2>5, <4>1, <4>2
    <3>3. CASE k # c
      <4>1. node[k].st = "running"
        <5>1. b[k].st = "running"
          OBVIOUS
        <5> HIDE DEF k
        <5> QED BY <1>1, <2>5, <3>1, <3>3, <5>1
      <4>2. j = node[a].step
        BY <4>1, MergeFacts DEF OneAtATime
      <4>3. a # n
        BY <2>6, <4>1, <4>2
      <4>4. a # c
        <5>1. node[a].st = "running"
          <6> HIDE DEF k
          <6> QED BY <3>1, <4>1, MergeFacts DEF Calm
        <5> QED BY <2>7, <2>8, <5>1
      <4> QED BY <2>5, <4>2, <4>3, <4>4
    <3> QED BY <3>2, <3>3
  <2>12. ASSUME NEW m \in Members(tree), Barred(tree, node, m) PROVE Barred(tree, b, m)
    <3>1. \A y \in Members(tree) : Straight(tree, y) /\ Gone(node, y) => Gone(b, y)
      <4> SUFFICES ASSUME NEW y \in Members(tree), Straight(tree, y), Gone(node, y) PROVE Gone(b, y)
        OBVIOUS
      <4>1. y # n
        BY <1>1 DEF Gone
      <4>2. y # c
        BY <2>9
      <4>3. b[y] = node[y]
        BY <2>5, <4>1, <4>2
      <4> QED BY <4>3 DEF Gone
    <3>2. \A y \in Members(tree) : b[y].st = "running" =>
            node[y].st = "running" \/ \E p \in Members(tree) : y \in Children(tree, p) /\ node[p].st = "running"
      BY <1>1, <2>3, <2>5
    <3> QED BY <2>12, <3>1, <3>2, MergeFacts, StaysBarred
  <2>13. ASSUME NEW f \in Forks(tree) PROVE ForkInv(tree, b, queue, f)
    <3>1. /\ f \in Members(tree) /\ ForkInv(tree, node, queue, f) /\ f # n /\ Lone(tree, f)
          /\ \A k \in Children(tree, f) : k \in Members(tree) /\ k # f /\ f \in tree.above[k]
      BY <1>1, MergeFacts, ForkChildIs DEF Forks, MergeInv, In
    <3>2. c \notin Children(tree, f)
      <4>1. n \in Members(tree)
        BY <1>1, MergeFacts
      <4> QED BY <2>3, <3>1, <4>1, MergeFacts, OneParent
    <3>3. CASE f # c
      <4>1. \A k \in Children(tree, f) : b[k].st = node[k].st
        BY <1>1, <2>5, <3>1, <3>2
      <4> QED BY <2>5, <2>12, <3>1, <3>3, <4>1, SameFork
    <3>4. CASE f = c
      <4>1. node[c].st # "running"
        BY <2>7, <2>8, <3>1, <3>4, LoneIsTame, MergeFacts
      <4>2. node[c].st # "dropped"
        <5> SUFFICES ASSUME node[c].st = "dropped" PROVE FALSE
          OBVIOUS
        <5>1. PICK top \in Path(tree, c) : BarredAt(tree, node, c, top)
          BY <3>1, <3>4 DEF ForkInv, Barred
        <5>2. top # c
          BY <2>9, <5>1 DEF BarredAt
        <5>3. top # n
          BY <1>1, <5>1 DEF BarredAt, Gone
        <5>4. top \in tree.above[n] /\ n \in Path(tree, c)
          BY <2>4, <5>2, <5>3 DEF Path
        <5> QED BY <1>1, <5>1, <5>4 DEF BarredAt
      <4>3. AtRest(tree, node, queue, c)
        BY <3>1, <3>4, <4>1, <4>2 DEF ForkInv, Merging
      <4>4. \A k \in Children(tree, c) : b[k] = node[k]
        <5>1. \A k \in Children(tree, c) : k # n
          BY <2>4, <3>1, <3>4, MergeFacts DEF Composite!IsTree, Members
        <5> QED BY <2>5, <3>1, <3>4, <5>1
      <4>5. AtRest(tree, b, queue, c)
        BY <2>2, <2>5, <4>3, <4>4 DEF AtRest
      <4> QED BY <2>2, <2>5, <3>4, <4>5 DEF ForkInv, Merging
    <3> QED BY <3>3, <3>4
  <2>14. MergeInv(tree, b, queue)
    BY <2>10, <2>11, <2>13 DEF MergeInv
  <2> QED BY <1>1, <2>14 DEF b
<1> QED BY <1>3, <1>4

\* All the tasks of a fork are started at once.
LEMMA ForkMerges ==
  ASSUME TheMerge, NEW n \in Composite!Nodes, Composite!Fork(n) PROVE MergeInv(tree, node, queue)'
<1> DEFINE b == node'
           q2 == queue'
           d == Composite!Derived(n, node[n].input)
<1>1. /\ tree.kind[n] = "parallel" /\ node[n].st = "running" /\ node[n].step = 0 /\ n \in Members(tree)
      /\ queue' = [queue EXCEPT ![n] = <<>>] /\ tree' = tree
      /\ node' = [m \in Members(tree) |->
           IF m = n THEN [node[n] EXCEPT !.step = 1] ELSE IF m \in Children(tree, n) THEN d ELSE node[m]]
  BY MergeFacts DEF Composite!Fork, Composite!Runs
<1>2. d.st = "running" /\ d.step = 0 /\ d.emitted = 0
  BY DEF Composite!Derived, Composite!Idle
<1>3. n \notin Children(tree, n)
  BY <1>1, MergeFacts, InOfChild
<1> HIDE DEF d
<1>4. /\ b[n].st = "running" /\ b[n].step = 1 /\ b[n].emitted = node[n].emitted
      /\ \A m \in Members(tree) : m \in Children(tree, n) => b[m] = d
      /\ \A m \in Members(tree) : m # n /\ m \notin Children(tree, n) => b[m] = node[m]
  <2>1. node[n] \in Locals(tree)
    BY <1>1, MergeFacts
  <2> QED BY <1>1, <1>3, <2>1 DEF Locals
<1>5. q2[n] = <<>> /\ \A f \in Members(tree) : f # n => q2[f] = queue[f]
  <2>1. queue \in [Members(tree) -> Seq(Items(tree))]
    BY MergeFacts, TreeFacts DEF QueueTyped, Items
  <2> QED BY <1>1, <2>1
<1> HIDE DEF b, q2
<1>6. \A m \in Members(tree) : node[m].st = "running" => b[m].st = "running"
  BY <1>2, <1>4
<1>7. \A m \in Members(tree) : b[m].st = "running" => node[m].st = "running" \/ m \in Children(tree, n)
  BY <1>1, <1>4
<1>8. \A c \in Children(tree, n) : /\ c \in Members(tree) /\ tree.above[c] = {n} \cup tree.above[n] /\ n \notin tree.above[n]
                                   /\ \A a : In(tree, a, c) => a = n
  BY <1>1, MergeFacts, InOfChild, ParentIs DEF Children
<1>9. \A m \in Members(tree) : b[m].step = node[m].step \/ m = n \/ m \in Children(tree, n)
  BY <1>4
<1>10. n \in Forks(tree) => AtRest(tree, node, queue, n)
  BY <1>1, MergeFacts DEF MergeInv, ForkInv, Merging
<1>11. \A c \in Children(tree, n) : Tame(tree, c) => n \in Forks(tree) /\ node[c].st \in {"idle", "joined"}
  BY <1>1, <1>8, <1>10 DEF Tame, Forks, AtRest
<1>12. Calm(tree, b)
  <2> SUFFICES ASSUME NEW a \in Members(tree), NEW m \in Members(tree), Tame(tree, a), tree.kind[a] # "parallel",
                      In(tree, a, m), b[m].st = "running"
               PROVE  b[a].st = "running"
    BY DEF Calm
  <2>1. m \notin Children(tree, n)
    BY <1>1, <1>8
  <2> QED BY <1>6, <1>7, <2>1, MergeFacts DEF Calm
<1>13. OneAtATime(tree, b)
  <2> SUFFICES ASSUME NEW a \in Members(tree), Tame(tree, a), tree.kind[a] # "parallel",
                      NEW j \in DOMAIN tree.kids[a], b[tree.kids[a][j]].st = "running"
               PROVE  j = b[a].step
    BY DEF OneAtATime
  <2> DEFINE k == tree.kids[a][j]
  <2>1. k \in Members(tree) /\ In(tree, a, k) /\ b[k].st = "running"
    <3>1. k \in Children(tree, a) /\ b[k].st = "running"
      BY DEF Children, Composite!ToSet
    <3> HIDE DEF k
    <3> QED BY <3>1, MergeFacts, InOfChild
  <2>2. k \notin Children(tree, n)
    <3> HIDE DEF k
    <3> QED BY <1>1, <1>8, <2>1
  <2>3. node[k].st = "running"
    <3> HIDE DEF k
    <3> QED BY <1>7, <2>1, <2>2
  <2>4. node[a].st = "running"
    <3> HIDE DEF k
    <3> QED BY <2>1, <2>3, MergeFacts DEF Calm
  <2>5. a \notin Children(tree, n)
    BY <1>11, <2>4
  <2>6. j = node[a].step
    BY <2>3, MergeFacts DEF OneAtATime
  <2> QED BY <1>1, <1>9, <2>5, <2>6
<1>14. ASSUME NEW m \in Members(tree), Barred(tree, node, m) PROVE Barred(tree, b, m)
  <2>1. \A y \in Members(tree) : Straight(tree, y) /\ Gone(node, y) => Gone(b, y)
    <3> SUFFICES ASSUME NEW y \in Members(tree), Straight(tree, y), Gone(node, y) PROVE Gone(b, y)
      OBVIOUS
    <3>1. y # n /\ y \notin Children(tree, n)
      BY <1>1, <1>8 DEF Gone, Straight
    <3>2. b[y] = node[y]
      BY <1>4, <3>1
    <3> QED BY <3>2 DEF Gone
  <2>2. \A y \in Members(tree) : b[y].st = "running" =>
          node[y].st = "running" \/ \E p \in Members(tree) : y \in Children(tree, p) /\ node[p].st = "running"
    BY <1>1, <1>7
  <2> QED BY <1>14, <2>1, <2>2, MergeFacts, StaysBarred
<1>15. ASSUME NEW f \in Forks(tree) PROVE ForkInv(tree, b, q2, f)
  <2>1. /\ f \in Members(tree) /\ ForkInv(tree, node, queue, f) /\ Lone(tree, f)
        /\ \A k \in Children(tree, f) : k \in Members(tree) /\ k # f /\ f \in tree.above[k]
    BY MergeFacts, ForkChildIs DEF Forks, MergeInv, In
  <2>2. CASE f = n
    <3>1. node[n].emitted = 0
      BY <1>1, <1>10, <2>2 DEF AtRest
    <3>2. Joined(tree, b, n) = {} /\ Nones(q2[n]) = {}
      <4>1. \A k \in Children(tree, n) : b[k].st # "joined"
        BY <1>2, <1>4, <1>8
      <4>2. Nones(<<>>) = {}
        BY DEF Nones
      <4> QED BY <1>5, <4>1, <4>2 DEF Joined
    <3>3. Cardinality(Nones(q2[n])) = 0 /\ Cardinality(Joined(tree, b, n)) = 0
      <4>1. Cardinality({}) = 0
        BY FS_EmptySet
      <4> QED BY <3>2, <4>1
    <3>4. Counted(tree, b, q2, n)
      BY <1>4, <1>5, <3>1, <3>3 DEF Counted
    <3> QED BY <1>4, <2>2, <3>4 DEF ForkInv, Merging
  <2>3. CASE f \in Children(tree, n)
    <3>1. node[f].st \in {"idle", "joined"}
      BY <1>11, <2>1, <2>3, LoneIsTame, MergeFacts
    <3>2. AtRest(tree, node, queue, f)
      BY <2>1, <3>1 DEF ForkInv, Merging
    <3>3. \A k \in Children(tree, f) : b[k] = node[k]
      <4>1. \A k \in Children(tree, f) : k # n
        BY <1>8, <2>1, <2>3, MergeFacts DEF Composite!IsTree, Members
      <4>2. \A k \in Children(tree, f) : k \notin Children(tree, n)
        BY <1>1, <1>3, <2>1, <2>3, MergeFacts DEF Children, Composite!IsTree, Members
      <4> QED BY <1>4, <2>1, <4>1, <4>2
    <3>4. b[f] = d /\ q2[f] = queue[f]
      BY <1>3, <1>4, <1>5, <2>1, <2>3
    <3>5. AtRest(tree, b, q2, f)
      BY <1>2, <3>2, <3>3, <3>4 DEF AtRest
    <3> QED BY <1>2, <3>4, <3>5 DEF ForkInv, Merging
  <2>4. CASE f # n /\ f \notin Children(tree, n)
    <3>1. \A k \in Children(tree, f) : k \notin Children(tree, n)
      BY <1>1, <2>1, <2>4, MergeFacts DEF Children, Composite!IsTree, Members
    <3>2. \A k \in Children(tree, f) : b[k].st = node[k].st
      BY <1>1, <1>4, <2>1, <3>1
    <3>3. b[f] = node[f] /\ q2[f] = queue[f]
      BY <1>4, <1>5, <2>1, <2>4
    <3> QED BY <1>14, <2>1, <3>2, <3>3, SameFork
  <2> QED BY <2>2, <2>3, <2>4
<1>16. MergeInv(tree, b, q2)
  BY <1>12, <1>13, <1>15 DEF MergeInv
<1> QED BY <1>1, <1>16 DEF b, q2

LEMMA MergeInit == ASSUME Composite!CompositeAssumption, Composite!Init PROVE MergeInv(tree, node, queue)
<1>1. Composite!IsTree(tree) /\ Composite!Nodes = Members(tree)
  BY DEF Composite!Init, Composite!CompositeAssumption, Composite!Nodes, Members
<1>2. ASSUME NEW n \in Members(tree)
      PROVE  /\ node[n].step = 0 /\ node[n].emitted = 0 /\ queue[n] = <<>>
             /\ node[n].st = IF n = tree.root THEN "running" ELSE "idle"
  BY <1>1 DEF Composite!Init, Composite!Idle
<1>3. \A p \in Members(tree) : \A k \in Children(tree, p) : k \in Members(tree) /\ node[k].st = "idle"
  BY <1>1, <1>2, RootIs, InOfChild
<1>4. Calm(tree, node)
  BY <1>1, <1>2, RootIs DEF Calm, In
<1>5. OneAtATime(tree, node)
  BY <1>3 DEF OneAtATime, Children, Composite!ToSet
<1>6. \A n \in Forks(tree) : ForkInv(tree, node, queue, n)
  BY <1>2, <1>3 DEF Forks, ForkInv, Merging, AtRest
<1> QED BY <1>4, <1>5, <1>6 DEF MergeInv

LEMMA MergeStep ==
  ASSUME Composite!CompositeAssumption, TreeInv, MergeInv(tree, node, queue), [Composite!Next]_Composite!vars
  PROVE  MergeInv(tree, node, queue)'
<1> USE DEF TheMerge, TheTree
<1>1. CASE UNCHANGED Composite!vars
  BY <1>1 DEF Composite!vars
<1>2. ASSUME NEW n \in Composite!Nodes, Composite!Step(n) PROVE MergeInv(tree, node, queue)'
  BY <1>2, LeafYieldsMerges, EndsMerge, NextChildMerges, PassEndsMerges, ExhaustedMerges, ForkMerges,
     PutEndMerges, TakeEventMerges, TakeEndMerges, CancelMerges DEF Composite!Step
<1> QED BY <1>1, <1>2, ResumeMerges, CloseMerges, KillMerges DEF Composite!Next, Composite!Progress

\* Every loop above a fork is open when its owner is the consumer.
LEMMA SoleIsLone ==
  ASSUME Composite!IsTree(tree), NEW n \in Composite!Nodes, Composite!Sole(n)
  PROVE  Lone(tree, n)
<1>1. \A l \in tree.above[n] : l \in Composite!Nodes
  BY DEF Composite!Nodes, Composite!IsTree
<1> QED BY <1>1, OwnerIs DEF Composite!Sole, Lone, Composite!Above, Composite!Kind

LEMMA MergeSafe ==
  ASSUME Composite!CompositeAssumption, TreeInv, MergeInv(tree, node, queue) PROVE Composite!MergeIsComplete
<1> SUFFICES ASSUME NEW n \in Composite!Nodes, Composite!Kind(n) = "parallel", Composite!Sole(n),
                    node[n].st \in {"ended", "joined"}
             PROVE  /\ queue[n] = <<>>
                    /\ \A m \in Composite!Nodes : Composite!Owner(m) = n => node[m].st # "running"
  BY DEF Composite!MergeIsComplete
<1>1. TheMerge
  BY DEF TheMerge, TheTree
<1>2. n \in Members(tree) /\ Lone(tree, n) /\ n \in Forks(tree) /\ Composite!IsTree(tree) /\ Calm(tree, node)
  BY <1>1, MergeFacts, SoleIsLone DEF Forks
<1>3. AtRest(tree, node, queue, n)
  BY <1>1, <1>2, MergeFacts DEF MergeInv, ForkInv, Merging
<1>4. ASSUME NEW m \in Composite!Nodes, Composite!Owner(m) = n, node[m].st = "running" PROVE FALSE
  <2>1. m \in Members(tree) /\ n # Composite!Consumer
    BY <1>1, <1>2, MergeFacts DEF Composite!IsTree, Members
  <2>2. In(tree, n, m)
    BY <1>2, <1>4, <2>1, OwnerIn
  <2>3. \E k \in Children(tree, n) : node[k].st = "running"
    BY <1>2, <1>4, <2>1, <2>2, ChildrenCalm
  <2> QED BY <1>3, <2>3 DEF AtRest
<1> QED BY <1>3, <1>4 DEF AtRest

(***************************************************************************)
(* The types of the other parts.                                           *)
(***************************************************************************)
LEMMA ReActIsTyped ==
  ASSUME ReAct!ReActAssumption PROVE ReAct!Init /\ [][ReAct!Next]_ReAct!vars => []ReAct!TypeOK
<1> DEFINE Said == ReAct!Terminal \cup {"partial", "thought", "action", "call", "response",
                                  "observation"}
<1>1. ReAct!Init => ReAct!TypeOK
  BY DEF ReAct!Init, ReAct!TypeOK, ReAct!ReActAssumption
<1>2. ASSUME ReAct!TypeOK, [ReAct!Next]_ReAct!vars PROVE ReAct!TypeOK'
  <2>1. /\ steps \in Seq(Said) /\ dialogue \in Seq({"step", "observation"})
        /\ iteration \in 0..Steps /\ action \in Tools \cup {ReAct!Unknown}
    BY <1>2 DEF ReAct!TypeOK
  <2>2. ASSUME NEW kind \in Said, ReAct!Show(kind) PROVE steps' \in Seq(Said)
    BY <2>1, <2>2 DEF ReAct!Show
  <2>3. ASSUME ReAct!NextStep
        PROVE  /\ pc' \in {"done", "model"} /\ iteration' \in 0..Steps
               /\ steps' \in Seq(Said)
    <3>1. "max" \in Said
      BY DEF ReAct!Terminal
    <3>2. CASE iteration = Steps
      BY <2>1, <2>2, <2>3, <3>1, <3>2 DEF ReAct!NextStep
    <3>3. CASE iteration # Steps
      BY <2>1, <2>3, <3>3 DEF ReAct!NextStep, ReAct!ReActAssumption
    <3> QED BY <3>2, <3>3
  <2>4. CASE UNCHANGED ReAct!vars
    BY <1>2, <2>4 DEF ReAct!vars, ReAct!TypeOK
  <2>5. CASE ReAct!Begin
    BY <2>1, <2>3, <2>5 DEF ReAct!Begin, ReAct!TypeOK
  <2>6. CASE ReAct!StreamStep
    BY <1>2, <2>1, <2>2, <2>6 DEF ReAct!StreamStep, ReAct!TypeOK
  <2>7. CASE ReAct!ModelFails
    <3>1. "error" \in Said
      BY DEF ReAct!Terminal
    <3> QED BY <2>1, <2>2, <2>7, <3>1 DEF ReAct!ModelFails, ReAct!TypeOK
  <2>8. CASE ReAct!Finish
    <3>1. "answer" \in Said
      BY DEF ReAct!Terminal
    <3> QED BY <2>1, <2>2, <2>8, <3>1 DEF ReAct!Finish, ReAct!TypeOK
  <2>9. CASE ReAct!Act
    BY <2>1, <2>2, <2>9 DEF ReAct!Act, ReAct!TypeOK
  <2>15. CASE ReAct!Call
    BY <2>1, <2>2, <2>15 DEF ReAct!Call, ReAct!TypeOK
  <2>10. CASE ReAct!ToolEnds
    BY <2>1, <2>2, <2>10 DEF ReAct!ToolEnds, ReAct!TypeOK
  <2>11. CASE ReAct!Observe
    BY <2>1, <2>2, <2>11 DEF ReAct!Observe, ReAct!TypeOK
  <2>12. CASE ReAct!Continue
    <3>1. <<"step", "observation">> \in Seq({"step", "observation"})
      OBVIOUS
    <3>2. dialogue' \in Seq({"step", "observation"})
      BY <2>1, <2>12, <3>1 DEF ReAct!Continue
    <3> QED BY <2>1, <2>3, <2>12, <3>2 DEF ReAct!Continue, ReAct!TypeOK
  <2>13. CASE ReAct!Close
    BY <1>2, <2>13 DEF ReAct!Close, ReAct!TypeOK
  <2>14. ASSUME NEW final \in BOOLEAN, NEW a \in Tools \cup {ReAct!Unknown}, ReAct!Think(final, a)
         PROVE  ReAct!TypeOK'
    BY <2>1, <2>2, <2>14 DEF ReAct!Think, ReAct!TypeOK
  <2> QED
    BY <1>2, <2>4, <2>5, <2>6, <2>7, <2>8, <2>9, <2>10, <2>11, <2>12, <2>13, <2>14, <2>15 DEF ReAct!Next
<1> QED BY <1>1, <1>2, PTL

Whose == Callers \cup {"none"}
Answers == {"none", "final", "callback", "no answer", "error"}
SubEvents == [call : Tool!Calls, n : 0..MaxEvents]
ToolLocals == [pc : {"new", "before", "running", "done"}, ctx : Whose, events : 0..MaxEvents,
          answer : Answers]

ToolTyped ==
  /\ injected \in Whose /\ call \in [Tool!Calls -> ToolLocals]
  /\ stream \in [Callers -> Seq(SubEvents)] /\ reading \subseteq Callers

LEMMA SetCallIsTyped ==
  ASSUME call \in [Tool!Calls -> ToolLocals], NEW c \in Tool!Calls, NEW r \in ToolLocals, call' = [call EXCEPT ![c] = r]
  PROVE  call' \in [Tool!Calls -> ToolLocals]
OBVIOUS

LEMMA PushIsTyped ==
  ASSUME ToolTyped, Tool!AgentToolAssumption, NEW c \in Tool!Calls, call[c].events < MaxEvents, Tool!Push(c)
  PROVE  stream' \in [Callers -> Seq(SubEvents)]
<1> DEFINE i == call[c].ctx
           x == [call |-> c, n |-> call[c].events + 1]
<1>1. call[c] \in ToolLocals
  BY DEF ToolTyped
<1>2. call[c].events + 1 \in 0..MaxEvents
  BY <1>1 DEF ToolLocals, Tool!AgentToolAssumption
<1>3. x \in SubEvents
  BY <1>2 DEF SubEvents
<1> HIDE DEF x
<1>4. CASE i \notin reading
  BY <1>4 DEF Tool!Push, ToolTyped
<1>5. CASE i \in reading
  <2>1. i \in Callers /\ stream[i] \in Seq(SubEvents)
    BY <1>5 DEF ToolTyped
  <2>2. Append(stream[i], x) \in Seq(SubEvents)
    BY <1>3, <2>1
  <2>3. stream' = [stream EXCEPT ![i] = Append(stream[i], x)]
    BY <1>5 DEF Tool!Push, x
  <2> QED BY <2>1, <2>2, <2>3 DEF ToolTyped
<1> QED BY <1>4, <1>5

LEMMA ToolCallsAreTyped ==
  ASSUME ToolTyped, Tool!AgentToolAssumption, NEW c \in Tool!Calls,
         Tool!Inject(c) \/ Tool!Read(c) \/ Tool!SubEvent(c) \/ Tool!SubEnds(c) \/ Tool!Raise(c)
  PROVE  ToolTyped'
<1> DEFINE v == call[c]
<1>1. v \in ToolLocals /\ call \in [Tool!Calls -> ToolLocals] /\ injected \in Whose /\ Tool!Of(c) \in Callers
  BY DEF ToolTyped, Tool!Calls, Tool!Of
<1>2. CASE Tool!Inject(c)
  <2> DEFINE r == [v EXCEPT !.pc = "before"]
  <2>1. r \in ToolLocals /\ call' = [call EXCEPT ![c] = r]
    BY <1>1, <1>2 DEF Tool!Inject, ToolLocals
  <2>2. call' \in [Tool!Calls -> ToolLocals]
    BY <1>1, <2>1, SetCallIsTyped
  <2> QED BY <1>1, <1>2, <2>2 DEF Tool!Inject, ToolTyped, Whose
<1>3. CASE Tool!Read(c)
  <2> DEFINE r == [v EXCEPT !.pc = "running", !.ctx = injected]
  <2>1. r \in ToolLocals /\ call' = [call EXCEPT ![c] = r]
    BY <1>1, <1>3 DEF Tool!Read, ToolLocals
  <2>2. call' \in [Tool!Calls -> ToolLocals]
    BY <1>1, <2>1, SetCallIsTyped
  <2> QED BY <1>1, <1>3, <2>2 DEF Tool!Read, ToolTyped
<1>4. CASE Tool!SubEvent(c)
  <2>1. v.events + 1 \in 0..MaxEvents /\ v.answer \in Answers
    BY <1>1, <1>4 DEF Tool!SubEvent, ToolLocals, Tool!AgentToolAssumption
  <2>2. call' \in [Tool!Calls -> ToolLocals]
    <3>1. ASSUME NEW answer \in {"final", v.answer},
                 call' = [call EXCEPT ![c].events = @ + 1, ![c].answer = answer]
          PROVE  call' \in [Tool!Calls -> ToolLocals]
      <4> DEFINE r == [v EXCEPT !.events = @ + 1, !.answer = answer]
      <4>1. answer \in Answers
        BY <2>1 DEF Answers
      <4>2. r \in ToolLocals
        BY <1>1, <2>1, <4>1 DEF ToolLocals
      <4>3. call' = [call EXCEPT ![c] = r]
        BY <1>1, <3>1
      <4> HIDE DEF r
      <4> QED BY <1>1, <4>2, <4>3, SetCallIsTyped
    <3>2. ASSUME call' = [call EXCEPT ![c].events = @ + 1, ![c].answer = "callback",
                                      ![c].pc = "done"]
          PROVE  call' \in [Tool!Calls -> ToolLocals]
      <4> DEFINE r == [v EXCEPT !.events = @ + 1, !.answer = "callback", !.pc = "done"]
      <4>1. "callback" \in Answers
        BY DEF Answers
      <4>2. r \in ToolLocals
        BY <1>1, <2>1, <4>1 DEF ToolLocals
      <4>3. call' = [call EXCEPT ![c] = r]
        BY <1>1, <3>2
      <4> HIDE DEF r
      <4> QED BY <1>1, <4>2, <4>3, SetCallIsTyped
    <3> QED BY <1>4, <3>1, <3>2 DEF Tool!SubEvent
  <2>3. stream' \in [Callers -> Seq(SubEvents)]
    BY <1>4, PushIsTyped DEF Tool!SubEvent
  <2> QED BY <1>4, <2>2, <2>3 DEF Tool!SubEvent, ToolTyped
<1>5. CASE Tool!SubEnds(c)
  <2>1. ASSUME NEW answer \in Answers,
               call' = [call EXCEPT ![c].pc = "done", ![c].answer = answer]
        PROVE  call' \in [Tool!Calls -> ToolLocals]
    <3> DEFINE r == [v EXCEPT !.pc = "done", !.answer = answer]
    <3>1. r \in ToolLocals /\ call' = [call EXCEPT ![c] = r]
      BY <1>1, <2>1 DEF ToolLocals
    <3> HIDE DEF r
    <3> QED BY <1>1, <3>1, SetCallIsTyped
  <2>2. \/ call' = [call EXCEPT ![c].pc = "done",
                                ![c].answer = IF v.answer = "none" THEN "no answer" ELSE v.answer]
        \/ call' = [call EXCEPT ![c].pc = "done", ![c].answer = "error"]
    BY <1>1, <1>5 DEF Tool!SubEnds
  <2>3. /\ (IF v.answer = "none" THEN "no answer" ELSE v.answer) \in Answers
        /\ "error" \in Answers
    BY <1>1 DEF ToolLocals, Answers
  <2>4. call' \in [Tool!Calls -> ToolLocals]
    BY <2>1, <2>2, <2>3
  <2> QED BY <1>5, <2>4 DEF Tool!SubEnds, ToolTyped
<1>6. CASE Tool!Raise(c)
  <2> DEFINE r == [v EXCEPT !.pc = "done", !.answer = "error"]
  <2>1. r \in ToolLocals /\ call' = [call EXCEPT ![c] = r]
    BY <1>1, <1>6 DEF Tool!Raise, ToolLocals, Answers
  <2>2. call' \in [Tool!Calls -> ToolLocals]
    BY <1>1, <2>1, SetCallIsTyped
  <2> QED BY <1>6, <2>2 DEF Tool!Raise, ToolTyped
<1> QED BY <1>2, <1>3, <1>4, <1>5, <1>6

LEMMA ToolIsTyped ==
  ASSUME Tool!AgentToolAssumption PROVE Tool!Init /\ [][Tool!Next]_Tool!vars => []ToolTyped
<1>1. Tool!Init => ToolTyped
  <2> SUFFICES ASSUME Tool!Init PROVE ToolTyped
    OBVIOUS
  <2>1. Tool!Fresh \in ToolLocals
    BY DEF Tool!Fresh, ToolLocals, Whose, Answers, Tool!AgentToolAssumption
  <2> QED BY <2>1 DEF Tool!Init, ToolTyped, Whose
<1>2. ASSUME ToolTyped, [Tool!Next]_Tool!vars PROVE ToolTyped'
  <2>1. CASE UNCHANGED Tool!vars
    BY <1>2, <2>1 DEF Tool!vars, ToolTyped
  <2>2. ASSUME NEW i \in Callers, Tool!Respond(i) PROVE ToolTyped'
    <3> DEFINE x == [k \in 1..CallsEach |-> [call |-> <<i, k>>, n |-> 0]]
    <3>1. x \in Seq(SubEvents)
      <4>1. ASSUME NEW k \in 1..CallsEach PROVE [call |-> <<i, k>>, n |-> 0] \in SubEvents
        BY DEF SubEvents, Tool!Calls, Tool!AgentToolAssumption
      <4>2. x \in [1..CallsEach -> SubEvents]
        BY <4>1
      <4> HIDE DEF x
      <4> QED BY <4>2 DEF Tool!AgentToolAssumption
    <3>2. stream' = [stream EXCEPT ![i] = @ \o x] /\ stream[i] \in Seq(SubEvents)
      BY <1>2, <2>2 DEF Tool!Respond, ToolTyped
    <3> HIDE DEF x
    <3>3. stream[i] \o x \in Seq(SubEvents)
      BY <3>1, <3>2
    <3> QED BY <1>2, <2>2, <3>2, <3>3 DEF Tool!Respond, ToolTyped
  <2>3. ASSUME NEW i \in Callers, Tool!Close(i) PROVE ToolTyped'
    BY <1>2, <2>3 DEF Tool!Close, ToolTyped
  <2> QED BY <1>2, <2>1, <2>2, <2>3, ToolCallsAreTyped DEF Tool!Next
<1> QED BY <1>1, <1>2, PTL

LEMMA ToolTypedIsTypeOK == ToolTyped => Tool!TypeOK
BY DEF ToolTyped, Tool!TypeOK, ToolLocals, Whose, Answers, SubEvents

LEMMA TasksAreTyped ==
  ASSUME Background!BackgroundTasksAssumption PROVE Background!Init /\ [][Background!Next]_Background!vars => []Background!TypeOK
<1>1. ASSUME Background!Init PROVE Background!TypeOK
  <2>1. status \in [Tasks -> Background!Statuses \cup {"none"}]
    BY <1>1 DEF Background!Init
  <2>2. /\ output \in [Tasks -> {"", "answer", "was stopped", "error"}]
        /\ run \in [Tasks -> {"none", "scheduled", "running", "done"}]
    BY <1>1 DEF Background!Init
  <2>3. cancel \in [Tasks -> BOOLEAN] /\ asked \in [Tasks -> BOOLEAN]
    BY <1>1 DEF Background!Init
  <2>4. updates \in [Tasks -> 0..MaxUpdates]
    <3>1. 0 \in 0..MaxUpdates
      BY DEF Background!BackgroundTasksAssumption
    <3> QED BY <1>1, <3>1 DEF Background!Init
  <2> QED BY <2>1, <2>2, <2>3, <2>4 DEF Background!TypeOK
<1>2. ASSUME Background!TypeOK, [Background!Next]_Background!vars PROVE Background!TypeOK'
  <2>1. CASE UNCHANGED Background!vars
    BY <1>2, <2>1 DEF Background!vars, Background!TypeOK
  <2>2. ASSUME NEW t \in Tasks, Background!Create(t) \/ Background!Start(t) PROVE Background!TypeOK'
    BY <1>2, <2>2 DEF Background!TypeOK, Background!Create, Background!Start, Background!Statuses, Background!Ends
  <2>5. ASSUME NEW t \in Tasks, Background!Stop(t) PROVE Background!TypeOK'
    <3>1. cancel' \in [Tasks -> BOOLEAN] /\ asked' \in [Tasks -> BOOLEAN]
      BY <1>2, <2>5 DEF Background!TypeOK, Background!Stop
    <3> QED BY <1>2, <2>5, <3>1 DEF Background!TypeOK, Background!Stop
  <2>4. ASSUME NEW t \in Tasks, Background!Finish(t) \/ Background!Cancelled(t) PROVE Background!TypeOK'
    <3>1. ASSUME NEW how \in Background!Ends, NEW what \in {"answer", "was stopped", "error"},
                 Background!End(t, how, what)
          PROVE  Background!TypeOK'
      BY <1>2, <3>1 DEF Background!TypeOK, Background!End, Background!Statuses
    <3> QED BY <2>4, <3>1 DEF Background!Finish, Background!Cancelled, Background!Ends
  <2>3. ASSUME NEW t \in Tasks, NEW s \in Background!Statuses, Background!Update(t, s) PROVE Background!TypeOK'
    <3>1. updates \in [Tasks -> 0..MaxUpdates] /\ updates[t] < MaxUpdates
      BY <1>2, <2>3 DEF Background!TypeOK, Background!Update
    <3>2. updates[t] + 1 \in 0..MaxUpdates
      BY <3>1 DEF Background!BackgroundTasksAssumption
    <3>3. updates' \in [Tasks -> 0..MaxUpdates]
      BY <2>3, <3>1, <3>2 DEF Background!Update
    <3> QED BY <1>2, <2>3, <3>3 DEF Background!TypeOK, Background!Update
  <2> QED BY <1>2, <2>1, <2>2, <2>3, <2>4, <2>5 DEF Background!Next
<1> QED BY <1>1, <1>2, PTL

(***************************************************************************)
(* The composition.                                                        *)
(***************************************************************************)
LEMMA LlmLift == MCSpec => Init /\ [][Next]_vars
<1>1. MCInit => Init
  BY DEF MCInit
<1>2. [MCNext]_allVars => [Next]_vars
  BY DEF MCNext, LlmNext, ReActNext, TreeNext, ToolNext, TasksNext, allVars, llmVars, vars
<1> QED BY <1>1, <1>2, PTL DEF MCSpec

LEMMA ReActLift == MCSpec => ReAct!Init /\ [][ReAct!Next]_ReAct!vars
<1>1. MCInit => ReAct!Init
  BY DEF MCInit
<1>2. [MCNext]_allVars => [ReAct!Next]_ReAct!vars
  BY DEF MCNext, LlmNext, ReActNext, TreeNext, ToolNext, TasksNext, allVars, reactVars, ReAct!vars
<1> QED BY <1>1, <1>2, PTL DEF MCSpec

LEMMA TreeLift == MCSpec => Composite!Init /\ [][Composite!Next]_Composite!vars
<1>1. MCInit => Composite!Init
  BY DEF MCInit
<1>2. [MCNext]_allVars => [Composite!Next]_Composite!vars
  BY DEF MCNext, LlmNext, ReActNext, TreeNext, ToolNext, TasksNext, allVars, treeVars, Composite!vars
<1> QED BY <1>1, <1>2, PTL DEF MCSpec

LEMMA ToolLift == MCSpec => Tool!Init /\ [][Tool!Next]_Tool!vars
<1>1. MCInit => Tool!Init
  BY DEF MCInit
<1>2. [MCNext]_allVars => [Tool!Next]_Tool!vars
  BY DEF MCNext, LlmNext, ReActNext, TreeNext, ToolNext, TasksNext, allVars, toolVars, Tool!vars
<1> QED BY <1>1, <1>2, PTL DEF MCSpec

LEMMA TasksLift == MCSpec => Background!Init /\ [][Background!Next]_Background!vars
<1>1. MCInit => Background!Init
  BY DEF MCInit
<1>2. [MCNext]_allVars => [Background!Next]_Background!vars
  BY DEF MCNext, LlmNext, ReActNext, TreeNext, ToolNext, TasksNext, allVars, taskVars, Background!vars
<1> QED BY <1>1, <1>2, PTL DEF MCSpec

LEMMA TreeAlways == MCSpec => []TreeInv
<1>0. Composite!CompositeAssumption
  BY AgentsAssumption
<1>1. Composite!Init => TreeInv
  BY <1>0, TreeInit
<1>2. TreeInv /\ [Composite!Next]_Composite!vars => TreeInv'
  BY <1>0, TreeStep
<1> QED BY <1>1, <1>2, TreeLift, PTL

\* LoopAgent.astream: after an event that escalates out of a loop the consumer
\* sees nothing more of that loop, in any tree of agents: not what its parallel
\* agents had queued, nor what tasks that run on produce, nor another pass.
THEOREM NothingEscapes == MCSpec => []NothingAfterEscalation
<1>1. TreeInv => NothingAfterEscalation
  BY EscalationSafe, AgentsAssumption DEF NothingAfterEscalation
<1> QED BY <1>1, TreeAlways, PTL

\* ParallelAgent._astream_impl: when the merge is over it has passed on all that
\* its tasks yielded, and none of them goes on, in any tree of agents: however
\* events escalate, loops are repeated, and whatever is left behind, cancelled
\* later or closed in between. Sole leaves out a fork in a loop below a fork.
THEOREM MergesAreComplete == MCSpec => []MergeIsComplete
<1>0. Composite!CompositeAssumption
  BY AgentsAssumption
<1>1. Composite!Init => MergeInv(tree, node, queue)
  BY <1>0, MergeInit
<1>2. TreeInv /\ MergeInv(tree, node, queue) /\ [Composite!Next]_Composite!vars => MergeInv(tree, node, queue)'
  BY <1>0, MergeStep
<1>3. TreeInv /\ MergeInv(tree, node, queue) => MergeIsComplete
  BY <1>0, MergeSafe DEF MergeIsComplete
<1> DEFINE I == MergeInv(tree, node, queue)
<1> HIDE DEF I
<1>4. (Composite!Init => I) /\ (TreeInv /\ I /\ [Composite!Next]_Composite!vars => I') /\ (TreeInv /\ I => MergeIsComplete)
  BY <1>1, <1>2, <1>3 DEF I
<1>5. MCSpec => []I
  BY <1>4, TreeAlways, TreeLift, PTL
<1> QED BY <1>4, <1>5, TreeAlways, PTL

\* The types of all parts, with the bounds of their counters: iterations,
\* attempts, steps and events of every agent.
THEOREM AgentTypes == MCSpec => []MCTypeOK
<1>1. TreeInv => Composite!TypeOK
  BY TreeTyped, AgentsAssumption
<1>2. MCSpec => []TypeOK
  BY LlmLift, AgentIsTyped, AgentsAssumption
<1>3. MCSpec => []ReAct!TypeOK
  BY ReActLift, ReActIsTyped, AgentsAssumption
<1>4. MCSpec => []ToolTyped
  BY ToolLift, ToolIsTyped, AgentsAssumption
<1>5. MCSpec => []Background!TypeOK
  BY TasksLift, TasksAreTyped, AgentsAssumption
<1>6. TypeOK /\ ReAct!TypeOK /\ Composite!TypeOK /\ ToolTyped /\ Background!TypeOK => MCTypeOK
  BY ToolTypedIsTypeOK DEF MCTypeOK
<1> QED BY <1>1, <1>2, <1>3, <1>4, <1>5, <1>6, TreeAlways, PTL
=============================================================================
