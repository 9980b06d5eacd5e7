--------------------------- MODULE Runner_proofs ---------------------------
(***************************************************************************)
(* HandoffIsFollowed and HooksArePaired for any number of calls of astream *)
(* on a session, of agents and of middleware, and any length of the log.   *)
(*                                                                         *)
(* Every action changes one call, so what is shown of an action is that it *)
(* leaves a good record of a call good.                                    *)
(***************************************************************************)
EXTENDS Runner, SequenceTheorems, TLAPS

Call ==
  [pc : {"idle", "begun", "streaming", "yielded", "unwinding", "compacting", "closing",
         "notice"} \cup Over,
   agent : Agent, target : Name \cup {Nobody}, offered : Name \cup {Nobody},
   asked : Seq(Name),
   then : {"done", "compacting", "closing", "failed"}, inside : Seq(1..Layers),
   broken : BOOLEAN]

Item == [kind : {"user", "event", "marker", "summary"},
         by : Invocation \cup {Nobody}, agent : Name]

\* The call has left its stream by itself.
Ends(c) == \/ c.pc \in {"compacting", "notice", "done"}
           \/ c.pc = "unwinding" /\ c.then = "compacting"

\* The transfer last shown is the one being yielded or the one remembered, and
\* a call leaves its stream by itself only with one that does not resolve.
Follows(c) ==
  /\ c.asked = <<>> => c.offered = Nobody /\ c.target = Nobody
  /\ c.asked # <<>> =>
       c.asked[Len(c.asked)] = IF c.offered # Nobody THEN c.offered ELSE c.target
  /\ c.pc \in {"idle", "begun", "streaming"} \/ Ends(c) => c.offered = Nobody
  /\ Ends(c) => c.target \notin Agent
  /\ c.pc = "unwinding" => c.then # "done"

\* The middleware entered and not left are the outermost, all of them while the
\* agent streams and none once the stack has been unwound.
Paired(c) ==
  /\ Len(c.inside) <= Layers
  /\ \A l \in 1..Len(c.inside) : c.inside[l] = l
  /\ c.pc = "idle" => c.inside = <<>>
  /\ c.pc \in {"streaming", "yielded"} => Len(c.inside) = Layers
  /\ c.pc \in Over \cup {"compacting", "closing", "notice"} => c.inside = <<>> \/ c.broken

Good(c) == c \in Call /\ Follows(c) /\ Paired(c)

IInv ==
  /\ log \in Seq(Item) /\ active \in Name
  /\ inv \in [Invocation -> Call]
  /\ \A i \in Invocation : Good(inv[i])

-----------------------------------------------------------------------------
LEMMA InitIsGood == ASSUME RunnerAssumption, Init PROVE IInv
<1>1. Idle \in Call /\ Paired(Idle)
  BY DEF RunnerAssumption, Idle, Call, Paired, Over
<1>2. Follows(Idle)
  BY DEF Idle, Follows, Ends
<1>3. log \in Seq(Item) /\ active \in Name
  BY DEF Init, Entry, Item, Name
<1> QED BY <1>1, <1>2, <1>3 DEF Init, IInv, Good

LEMMA PutIsTyped ==
  ASSUME log \in Seq(Item), NEW i \in Invocation, NEW a \in Name,
         NEW kind \in {"user", "event", "marker", "summary"}, Put(Entry(kind, i, a))
  PROVE  log' \in Seq(Item)
BY DEF Put, Entry, Item

LEMMA SetIsGood ==
  ASSUME IInv, NEW i \in Invocation, NEW r, Good(r), Set(i, r),
         log' \in Seq(Item), active' \in Name
  PROVE  IInv'
BY DEF IInv, Set, Good

-----------------------------------------------------------------------------
LEMMA BeginIsGood == ASSUME RunnerAssumption, IInv, NEW i \in Invocation, Begin(i) PROVE IInv'
<1> DEFINE first == IF active \in Agent THEN active ELSE Root
           r == [inv[i] EXCEPT !.pc = "begun", !.agent = first]
<1>1. first \in Agent /\ first \in Name
  BY DEF RunnerAssumption, Name
<1>2. Good(r)
  BY <1>1, ZenonT(60) DEF IInv, Begin, Good, Call, Follows, Ends, Paired, Over
<1>3. log' \in Seq(Item)
  BY <1>1, PutIsTyped DEF Begin, IInv
<1> QED BY <1>2, <1>3, SetIsGood DEF Begin, IInv

LEMMA BeforeInvokeIsGood ==
  ASSUME RunnerAssumption, IInv, NEW i \in Invocation, BeforeInvoke(i) PROVE IInv'
<1> DEFINE s == inv[i].inside
           r == [inv[i] EXCEPT !.inside = Append(@, Len(@) + 1)]
<1>1. inv[i] \in Call /\ s \in Seq(1..Layers) /\ Layers \in Nat /\ Len(s) < Layers
  BY DEF IInv, Call, BeforeInvoke, RunnerAssumption
<1>2. Len(s) + 1 \in 1..Layers
  BY <1>1
<1>3. /\ Append(s, Len(s) + 1) \in Seq(1..Layers)
      /\ Len(Append(s, Len(s) + 1)) = Len(s) + 1
      /\ \A l \in 1..Len(s) : Append(s, Len(s) + 1)[l] = s[l]
      /\ Append(s, Len(s) + 1)[Len(s) + 1] = Len(s) + 1
  BY <1>1, <1>2
<1>4. \A l \in 1..Len(s) : s[l] = l
  BY DEF IInv, Good, Paired
<1>5. /\ r \in Call /\ r.inside = Append(s, Len(s) + 1) /\ r.pc = "begun"
      /\ r.asked = inv[i].asked /\ r.offered = inv[i].offered /\ r.target = inv[i].target
      /\ r.then = inv[i].then
  BY <1>1, <1>3 DEF BeforeInvoke, Call
<1>6. Follows(r)
  BY <1>5 DEF IInv, Good, Follows, Ends, BeforeInvoke
<1>7. Paired(r)
  BY <1>1, <1>3, <1>4, <1>5 DEF Paired, Over
<1> QED BY <1>5, <1>6, <1>7, SetIsGood DEF BeforeInvoke, IInv, Good

LEMMA StreamIsGood == ASSUME IInv, NEW i \in Invocation, Stream(i) PROVE IInv'
<1> DEFINE r == [inv[i] EXCEPT !.pc = "streaming"]
<1>1. Good(r)
  BY ZenonT(60) DEF IInv, Stream, Good, Call, Follows, Ends, Paired, Over
<1> QED BY <1>1, SetIsGood DEF Stream, IInv

LEMMA AfterInvokeIsGood ==
  ASSUME RunnerAssumption, IInv, NEW i \in Invocation, AfterInvoke(i) PROVE IInv'
<1> DEFINE s == inv[i].inside
           t == SubSeq(s, 1, Len(s) - 1)
           r == [inv[i] EXCEPT !.inside = SubSeq(@, 1, Len(@) - 1)]
<1>1. /\ inv[i] \in Call /\ s \in Seq(1..Layers) /\ s # <<>> /\ Layers \in Nat
      /\ inv[i].pc = "unwinding" /\ Len(s) <= Layers /\ \A l \in 1..Len(s) : s[l] = l
  BY DEF IInv, Call, AfterInvoke, RunnerAssumption, Good, Paired
<1>2. Len(s) \in Nat /\ Len(s) > 0
  BY <1>1
<1>3. /\ t \in Seq(1..Layers) /\ Len(t) = Len(s) - 1
      /\ \A l \in 1..Len(t) : t[l] = s[l]
  BY <1>1, <1>2
<1>4. /\ r \in Call /\ r.inside = t /\ r.pc = "unwinding"
      /\ r.asked = inv[i].asked /\ r.offered = inv[i].offered /\ r.target = inv[i].target
      /\ r.then = inv[i].then
  BY <1>1, <1>3 DEF Call
<1>5. Follows(r)
  BY <1>1, <1>4 DEF IInv, Good, Follows, Ends
<1>6. Len(t) <= Layers /\ \A l \in 1..Len(t) : t[l] = l
  <2>1. Len(t) <= Layers
    BY <1>1, <1>2, <1>3
  <2>2. ASSUME NEW l \in 1..Len(t) PROVE t[l] = l
    <3>1. l \in 1..Len(s)
      BY <1>2, <1>3
    <3>2. t[l] = s[l]
      BY <1>3
    <3> QED BY <1>1, <3>1, <3>2
  <2> QED BY <2>1, <2>2
<1>7. Paired(r)
  <2> HIDE DEF t, r
  <2> QED BY <1>4, <1>6 DEF Paired, Over
<1> QED BY <1>4, <1>5, <1>7, SetIsGood DEF AfterInvoke, IInv, Good

LEMMA UnwoundIsGood == ASSUME IInv, NEW i \in Invocation, Unwound(i) PROVE IInv'
<1> DEFINE r == [inv[i] EXCEPT !.pc = inv[i].then]
<1>1. Good(r)
  BY ZenonT(60) DEF IInv, Unwound, Good, Call, Follows, Ends, Paired, Over
<1> QED BY <1>1, SetIsGood DEF Unwound, IInv

LEMMA HookFailsIsGood == ASSUME IInv, NEW i \in Invocation, HookFails(i) PROVE IInv'
<1> DEFINE r == [inv[i] EXCEPT !.pc = "failed", !.broken = TRUE]
<1>1. inv[i] \in Call /\ inv[i].pc \in {"begun", "unwinding"}
  BY DEF IInv, HookFails
<1>2. /\ r \in Call /\ r.pc = "failed" /\ r.broken /\ r.inside = inv[i].inside
      /\ r.asked = inv[i].asked /\ r.offered = inv[i].offered /\ r.target = inv[i].target
  BY <1>1 DEF Call, Over
<1>3. Follows(r)
  BY <1>2 DEF IInv, Good, Follows, Ends
<1>4. Paired(r)
  BY <1>2 DEF IInv, Good, Paired
<1> QED BY <1>2, <1>3, <1>4, SetIsGood DEF HookFails, IInv, Good

-----------------------------------------------------------------------------
LEMMA EmitIsGood ==
  ASSUME RunnerAssumption, IInv, NEW i \in Invocation, Emit(i) PROVE IInv'
<1>1. PICK ask \in Name \cup {Nobody} :
        /\ Put(Entry("event", i, inv[i].agent))
        /\ \/ UNCHANGED inv
           \/ Set(i, [inv[i] EXCEPT !.pc = "yielded", !.offered = ask,
                                    !.asked = IF ask = Nobody THEN @ ELSE Append(@, ask)])
  BY DEF Emit
<1>2. /\ inv[i] \in Call /\ inv[i].pc = "streaming" /\ Good(inv[i]) /\ inv[i].asked \in Seq(Name)
      /\ active' \in Name /\ inv[i].agent \in Name
  BY DEF IInv, Emit, Call, Name
<1>3. log' \in Seq(Item)
  BY <1>1, <1>2, PutIsTyped DEF IInv
<1>4. CASE UNCHANGED inv
  BY <1>2, <1>3, <1>4 DEF IInv
<1>5. CASE ~UNCHANGED inv
  <2> DEFINE s == IF ask = Nobody THEN inv[i].asked ELSE Append(inv[i].asked, ask)
             r == [inv[i] EXCEPT !.pc = "yielded", !.offered = ask,
                                 !.asked = IF ask = Nobody THEN @ ELSE Append(@, ask)]
  <2>1. Set(i, r)
    BY <1>1, <1>5
  <2>2. ask # Nobody => s \in Seq(Name) /\ s # <<>> /\ s[Len(s)] = ask
    BY <1>2
  <2>3. /\ r \in Call /\ r.pc = "yielded" /\ r.offered = ask /\ r.asked = s
        /\ r.target = inv[i].target /\ r.inside = inv[i].inside
    BY <1>2, <2>2 DEF Call
  <2>4. Follows(r)
    BY <1>2, <2>2, <2>3 DEF Good, Follows, Ends
  <2>5. Paired(r)
    BY <1>2, <2>3 DEF Good, Paired, Over
  <2> QED BY <1>2, <1>3, <2>1, <2>3, <2>4, <2>5, SetIsGood DEF Good
<1> QED BY <1>4, <1>5

LEMMA EmitPartialIsGood == ASSUME IInv, NEW i \in Invocation, EmitPartial(i) PROVE IInv'
<1> DEFINE r == [inv[i] EXCEPT !.pc = "yielded", !.offered = Nobody]
<1>1. Good(r)
  BY DEF IInv, EmitPartial, Good, Call, Follows, Ends, Paired, Over
<1> QED BY <1>1, SetIsGood DEF EmitPartial, IInv

LEMMA ResumeIsGood == ASSUME IInv, NEW i \in Invocation, Resume(i) PROVE IInv'
<1> DEFINE r == [inv[i] EXCEPT !.pc = "streaming", !.offered = Nobody,
                   !.target = IF inv[i].offered = Nobody THEN @ ELSE inv[i].offered]
<1>1. inv[i] \in Call /\ inv[i].pc = "yielded" /\ Good(inv[i])
  BY DEF IInv, Resume
<1>2. /\ r \in Call /\ r.pc = "streaming" /\ r.offered = Nobody /\ r.inside = inv[i].inside
      /\ r.asked = inv[i].asked
      /\ r.target = IF inv[i].offered = Nobody THEN inv[i].target ELSE inv[i].offered
  BY <1>1 DEF Call
<1>3. Follows(r)
  BY <1>1, <1>2 DEF Good, Follows, Ends
<1>4. Paired(r)
  BY <1>1, <1>2 DEF Good, Paired, Over
<1> QED BY <1>2, <1>3, <1>4, SetIsGood DEF Resume, IInv, Good

LEMMA HandoffIsGood ==
  ASSUME RunnerAssumption, IInv, NEW i \in Invocation, Handoff(i) PROVE IInv'
<1> DEFINE a == inv[i].target
           r == [inv[i] EXCEPT !.agent = a, !.target = Nobody, !.asked = <<>>]
<1>1. inv[i] \in Call /\ inv[i].pc = "streaming" /\ Good(inv[i]) /\ a \in Agent /\ a \in Name
  BY DEF IInv, Handoff, Name
<1>2. /\ r \in Call /\ r.pc = "streaming" /\ r.offered = inv[i].offered
      /\ r.inside = inv[i].inside /\ r.asked = <<>> /\ r.target = Nobody
  <2>1. <<>> \in Seq(Name) /\ Nobody \in Name \cup {Nobody}
    OBVIOUS
  <2> HIDE DEF a
  <2> QED BY <1>1, <2>1 DEF Call
<1>3. Follows(r)
  BY <1>1, <1>2 DEF Good, Follows, Ends
<1>4. Paired(r)
  BY <1>1, <1>2 DEF Good, Paired, Over
<1>5. log' \in Seq(Item)
  BY <1>1, PutIsTyped DEF Handoff, IInv
<1> QED BY <1>1, <1>2, <1>3, <1>4, <1>5, SetIsGood DEF Handoff, Good

LEMMA AgentEndsIsGood == ASSUME IInv, NEW i \in Invocation, AgentEnds(i) PROVE IInv'
<1> DEFINE r == [inv[i] EXCEPT !.pc = "unwinding", !.then = "compacting"]
<1>1. Good(r)
  BY ZenonT(60) DEF IInv, AgentEnds, Good, Call, Follows, Ends, Paired, Over
<1> QED BY <1>1, SetIsGood DEF AgentEnds, IInv

LEMMA FailIsGood == ASSUME IInv, NEW i \in Invocation, Fail(i) PROVE IInv'
<1>1. CASE inv[i].pc = "streaming"
  <2> DEFINE r == [inv[i] EXCEPT !.pc = "unwinding", !.then = "failed"]
  <2>1. Good(r)
    BY <1>1 DEF IInv, Good, Call, Follows, Ends, Paired, Over
  <2> QED BY <1>1, <2>1, SetIsGood DEF Fail, IInv
<1>2. CASE inv[i].pc \in {"compacting", "closing", "notice"}
  <2> DEFINE r == [inv[i] EXCEPT !.pc = "failed"]
  <2>1. Good(r)
    BY <1>2 DEF IInv, Good, Call, Follows, Ends, Paired, Over
  <2> QED BY <1>2, <2>1, SetIsGood DEF Fail, IInv
<1> QED BY <1>1, <1>2 DEF Fail

LEMMA CloseIsGood == ASSUME IInv, NEW i \in Invocation, Close(i) PROVE IInv'
<1> DEFINE r == [inv[i] EXCEPT !.pc = "unwinding", !.then = "closing"]
<1>1. Good(r)
  BY DEF IInv, Close, Good, Call, Follows, Ends, Paired, Over
<1> QED BY <1>1, SetIsGood DEF Close, IInv

-----------------------------------------------------------------------------
LEMMA SkipCompactionIsGood ==
  ASSUME IInv, NEW i \in Invocation, SkipCompaction(i) PROVE IInv'
<1> DEFINE r == [inv[i] EXCEPT !.pc = IF inv[i].pc = "closing" THEN "closed" ELSE "done"]
<1>1. Good(r)
  BY ZenonT(60) DEF IInv, SkipCompaction, Good, Call, Follows, Ends, Paired, Over
<1> QED BY <1>1, SetIsGood DEF SkipCompaction, IInv

LEMMA NoticeIsGood == ASSUME IInv, NEW i \in Invocation, Notice(i) PROVE IInv'
<1> DEFINE r == [inv[i] EXCEPT !.pc = IF inv[i].pc = "closing" THEN "broken" ELSE "notice"]
<1>1. Good(r)
  BY ZenonT(60) DEF IInv, Notice, Good, Call, Follows, Ends, Paired, Over
<1> QED BY <1>1, SetIsGood DEF Notice, IInv

LEMMA CompactIsGood ==
  ASSUME RunnerAssumption, IInv, NEW i \in Invocation, Compact(i) PROVE IInv'
<1> DEFINE r == [inv[i] EXCEPT !.pc = "done"]
<1>1. Good(r)
  BY DEF IInv, Compact, Good, Call, Follows, Ends, Paired, Over
<1>2. log' \in Seq(Item)
  BY PutIsTyped DEF Compact, IInv, RunnerAssumption, Name
<1> QED BY <1>1, <1>2, SetIsGood DEF Compact, IInv

LEMMA CloseAtNoticeIsGood ==
  ASSUME IInv, NEW i \in Invocation, CloseAtNotice(i) PROVE IInv'
<1> DEFINE r == [inv[i] EXCEPT !.pc = "closed"]
<1>1. Good(r)
  BY DEF IInv, CloseAtNotice, Good, Call, Follows, Ends, Paired, Over
<1> QED BY <1>1, SetIsGood DEF CloseAtNotice, IInv

-----------------------------------------------------------------------------
LEMMA NextIsGood == ASSUME RunnerAssumption, IInv, [Next]_vars PROVE IInv'
<1>1. ASSUME NEW i \in Invocation, Step(i) PROVE IInv'
  BY <1>1, BeginIsGood, BeforeInvokeIsGood, StreamIsGood, AfterInvokeIsGood, UnwoundIsGood,
     HookFailsIsGood, EmitIsGood, EmitPartialIsGood, ResumeIsGood, HandoffIsGood,
     AgentEndsIsGood, FailIsGood, CloseIsGood, SkipCompactionIsGood, NoticeIsGood,
     CompactIsGood, CloseAtNoticeIsGood DEF Step
<1>2. CASE UNCHANGED vars
  BY <1>2 DEF vars, IInv
<1> QED BY <1>1, <1>2 DEF Next

LEMMA GoodIsFollowed == ASSUME RunnerAssumption, IInv PROVE HandoffIsFollowed
<1> SUFFICES ASSUME NEW i \in Invocation, inv[i].pc \in {"compacting", "notice", "done"},
                    inv[i].asked # <<>>
             PROVE  inv[i].asked[Len(inv[i].asked)] = Stranger
  BY DEF HandoffIsFollowed
<1>1. inv[i] \in Call /\ Follows(inv[i]) /\ Ends(inv[i])
  BY DEF IInv, Good, Ends
<1>2. inv[i].asked \in Seq(Name) /\ inv[i].asked[Len(inv[i].asked)] \in Name
  BY <1>1 DEF Call
<1>3. inv[i].asked[Len(inv[i].asked)] = inv[i].target /\ inv[i].target \notin Agent
  BY <1>1 DEF Follows
<1> QED BY <1>2, <1>3 DEF Name

LEMMA GoodIsPaired == ASSUME IInv PROVE HooksArePaired
<1> SUFFICES ASSUME NEW i \in Invocation
             PROVE  /\ inv[i].inside = [l \in 1..Len(inv[i].inside) |-> l]
                    /\ inv[i].pc \in {"streaming", "yielded"} => Len(inv[i].inside) = Layers
                    /\ inv[i].pc \in Over \cup {"compacting", "closing", "notice"} =>
                         inv[i].inside = <<>> \/ inv[i].broken
  BY DEF HooksArePaired
<1>1. inv[i] \in Call /\ Paired(inv[i])
  BY DEF IInv, Good
<1>2. inv[i].inside = [l \in 1..Len(inv[i].inside) |-> l]
  <2>1. inv[i].inside \in Seq(1..Layers)
    BY <1>1 DEF Call
  <2>2. inv[i].inside = [l \in 1..Len(inv[i].inside) |-> inv[i].inside[l]]
    BY <2>1
  <2> QED BY <1>1, <2>2 DEF Paired
<1> QED BY <1>1, <1>2 DEF Paired

\* Runner.astream: a call does not end by itself while the last transfer its
\* consumer was shown could be followed.
THEOREM HandoffsAreFollowed == ASSUME RunnerAssumption PROVE Spec => []HandoffIsFollowed
<1>1. Init => IInv
  BY InitIsGood
<1>2. IInv /\ [Next]_vars => IInv'
  BY NextIsGood
<1>3. IInv => HandoffIsFollowed
  BY GoodIsFollowed
<1> QED BY <1>1, <1>2, <1>3, PTL DEF Spec

\* MiddlewareStack: however a call ends, and in whatever order its hooks fail,
\* the middleware entered and not left are the outermost ones.
THEOREM HooksPair == ASSUME RunnerAssumption PROVE Spec => []HooksArePaired
<1>1. Init => IInv
  BY InitIsGood
<1>2. IInv /\ [Next]_vars => IInv'
  BY NextIsGood
<1>3. IInv => HooksArePaired
  BY GoodIsPaired
<1> QED BY <1>1, <1>2, <1>3, PTL DEF Spec
=============================================================================
