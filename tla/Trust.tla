------------------------------- MODULE Trust -------------------------------
(***************************************************************************)
(* Signed events: BaseAgent._emit_event links each event to the last whole *)
(* one made on its branch, and TrustMiddleware follows the links when the  *)
(* events arrive.  Events are not delivered in the order they were made:   *)
(* the answers of tools that run at once are made as the tools end and     *)
(* yielded in the order of the calls, and those of parallel branches go    *)
(* through queues.                                                         *)
(*                                                                         *)
(* One invocation: both sides keep their heads in ctx.state, which Runner  *)
(* makes anew for each and every derived context shares.  A signature is   *)
(* the number of the event; resolving a DID may fail (external).           *)
(***************************************************************************)
EXTENDS Naturals, Sequences, SequencesExt, FiniteSets, Selections

CONSTANTS Policies,    \* [mode, chain, mustSign, denied]: the types of events that
                       \* must be signed, the signers denied or not listed
          Branches,
          Signers,     \* the DIDs of agents that sign
          MaxCalls,    \* bound: tool calls in one answer
          MaxEvents    \* bound: events made

\* What the instances ASSUME.
TrustAssumption ==
  /\ MaxCalls \in Nat /\ MaxEvents \in Nat
  /\ Policies \subseteq [mode : {"strict", "permissive"}, chain : BOOLEAN, denied : SUBSET Signers,
                         mustSign : SUBSET {"message", "response"}]

VARIABLES
  policy,      \* the policy of the middleware
  made,        \* number of events made
  heads,       \* ctx.state["_orx_chain_heads"]
  trustHeads,  \* ctx.state["_orx_trust_chain_heads"]
  tools,       \* calls of each branch under way: their agent, and the answers,
               \* None for those still running
  arriving,    \* events that were yielded and not looked at yet
  log,         \* history: the events of the session with their verdicts
  signed,      \* history: signed whole events of each branch, as made
  disturbed    \* history: branches with a signer denied or not resolved, or
               \* with answers of several tools

vars == <<policy, made, heads, trustHeads, tools, arriving, log, signed, disturbed>>

Types == {"message", "response"}
NoSigner == "unsigned"
None == [n |-> 0]
NoTools == [signer |-> NoSigner, answers |-> <<>>]

Event == [n : 1..MaxEvents, type : Types, branch : Branches, partial : BOOLEAN,
          signer : Signers \cup {NoSigner}, prev : 0..MaxEvents]
Entry == [event : Event, verified : BOOLEAN, shown : BOOLEAN]

TypeOK ==
  /\ policy \in Policies
  /\ made \in 0..MaxEvents
  /\ heads \in [Branches -> 0..MaxEvents] /\ trustHeads \in [Branches -> 0..MaxEvents]
  /\ tools \in [Branches -> [signer : Signers \cup {NoSigner}, answers : Seq(Event \cup {None})]]
  /\ arriving \in Seq(Event)
  /\ log \in Seq(Entry)
  /\ signed \in [Branches -> Seq(1..MaxEvents)] /\ disturbed \subseteq Branches

Init ==
  /\ policy \in Policies
  /\ made = 0 /\ heads = [b \in Branches |-> 0] /\ trustHeads = [b \in Branches |-> 0]
  /\ tools = [b \in Branches |-> NoTools] /\ arriving = <<>> /\ log = <<>>
  /\ signed = [b \in Branches |-> <<>>] /\ disturbed = {}

\* Partial events advance the head, too (mutant).
EmitAdvancing(e) ==
  /\ made < MaxEvents /\ made' = made + 1 /\ e.n = made'
  /\ e.prev = IF e.signer = NoSigner THEN 0 ELSE heads[e.branch]
  /\ LET whole == e.signer # NoSigner /\ ~e.partial IN
       /\ heads' = IF e.signer # NoSigner THEN [heads EXCEPT ![e.branch] = e.n] ELSE heads
       /\ signed' = IF whole THEN [signed EXCEPT ![e.branch] = Append(@, e.n)] ELSE signed
  /\ UNCHANGED <<policy, trustHeads, log>>

\* _emit_event: an agent without a key leaves the chain alone, a partial event
\* is linked to it without becoming its head.
Emit(e) ==
  /\ made < MaxEvents /\ made' = made + 1 /\ e.n = made'
  /\ e.prev = IF e.signer = NoSigner THEN 0 ELSE heads[e.branch]
  /\ IF e.signer # NoSigner /\ ~e.partial
       THEN /\ heads' = [heads EXCEPT ![e.branch] = e.n]
            /\ signed' = [signed EXCEPT ![e.branch] = Append(@, e.n)]
       ELSE UNCHANGED <<heads, signed>>
  /\ UNCHANGED <<policy, trustHeads, log>>

\* An agent yields a message, or the event with its tool calls.
Message(e) ==
  /\ e.type = "message" /\ tools[e.branch] = NoTools
  /\ Emit(e)
  /\ arriving' = Append(arriving, e)
  /\ UNCHANGED tools
  /\ disturbed' = IF e.signer \in policy.denied THEN disturbed \cup {e.branch} ELSE disturbed

\* ToolExecutor.execute starts the calls of an answer.
StartTools(b, signer, calls) ==
  /\ tools[b] = NoTools
  /\ tools' = [tools EXCEPT ![b] = [signer |-> signer, answers |-> [c \in 1..calls |-> None]]]
  /\ disturbed' = IF calls > 1 THEN disturbed \cup {b} ELSE disturbed
  /\ UNCHANGED <<policy, made, heads, trustHeads, arriving, log, signed>>

\* ToolExecutor._build_response, when a tool ends; the last one to end lets
\* the answers be yielded, in the order of the calls.
ToolEnds(e, c) ==
  /\ e.type = "response" /\ ~e.partial /\ e.signer = tools[e.branch].signer
  /\ c \in DOMAIN tools[e.branch].answers /\ tools[e.branch].answers[c] = None
  /\ Emit(e)
  /\ LET answers == [tools[e.branch].answers EXCEPT ![c] = e] IN
       IF None \in ToSet(answers)
         THEN tools' = [tools EXCEPT ![e.branch].answers = answers] /\ UNCHANGED arriving
         ELSE tools' = [tools EXCEPT ![e.branch] = NoTools] /\ arriving' = arriving \o answers
  /\ disturbed' = IF e.signer \in policy.denied THEN disturbed \cup {e.branch} ELSE disturbed

\* _evaluate, steps 2 to 5, of a signed event.
Verified(e, resolved) ==
  /\ e.signer # NoSigner /\ e.signer \notin policy.denied
  /\ resolved
  /\ policy.chain /\ ~e.partial => e.prev = trustHeads[e.branch]

\* ... and step 1: what strict mode lets through.
Shown(e, verified) ==
  verified \/ policy.mode = "permissive" \/ (e.signer = NoSigner /\ e.type \notin policy.mustSign)

\* The head moves on with every signed event (mutant).
OnEventAdvancing(resolved) ==
  /\ arriving # <<>> /\ arriving' = Tail(arriving)
  /\ LET e == Head(arriving)
         verified == Verified(e, resolved)
     IN /\ trustHeads' = IF e.signer # NoSigner /\ ~e.partial
                           THEN [trustHeads EXCEPT ![e.branch] = e.n] ELSE trustHeads
        /\ log' = Append(log, [event |-> e, verified |-> verified, shown |-> Shown(e, verified)])
        /\ disturbed' = IF resolved \/ e.signer = NoSigner THEN disturbed ELSE disturbed \cup {e.branch}
  /\ UNCHANGED <<policy, made, heads, tools, signed>>

\* TrustMiddleware.on_event.
OnEvent(resolved) ==
  /\ arriving # <<>> /\ arriving' = Tail(arriving)
  /\ LET e == Head(arriving)
         verified == Verified(e, resolved)
     IN /\ trustHeads' = IF verified /\ ~e.partial
                           THEN [trustHeads EXCEPT ![e.branch] = e.n] ELSE trustHeads
        /\ log' = Append(log, [event |-> e, verified |-> verified, shown |-> Shown(e, verified)])
        /\ disturbed' = IF resolved \/ e.signer = NoSigner THEN disturbed ELSE disturbed \cup {e.branch}
  /\ UNCHANGED <<policy, made, heads, tools, signed>>

Next ==
  \/ \E b \in Branches :
       \/ \E signer \in Signers \cup {NoSigner}, calls \in 1..MaxCalls :
            StartTools(b, signer, calls)
       \/ \E signer \in Signers \cup {NoSigner}, type \in Types, partial \in BOOLEAN :
            LET e == [n |-> made + 1, type |-> type, branch |-> b, partial |-> partial,
                      signer |-> signer, prev |-> IF signer = NoSigner THEN 0 ELSE heads[b]]
            IN Message(e) \/ (\E c \in 1..MaxCalls : ToolEnds(e, c))
  \/ \E resolved \in BOOLEAN : OnEvent(resolved)

Spec == Init /\ [][Next]_vars
-----------------------------------------------------------------------------
\* The signed whole events of a branch that passed as verified, in their order.
Passed(b) ==
  Select(log, {r \in Entry : r.event.branch = b /\ r.event.signer # NoSigner
                             /\ ~r.event.partial /\ r.verified})

\* With require_chain, the events of a branch that pass as verified are, in the
\* order of the log, a beginning without gaps of what was signed on it: also
\* after an event that was rejected, answers out of order and failures of the
\* resolver (policy.py: "Gaps or forks are rejected").
VerifiedIsPrefix ==
  policy.chain => \A b \in Branches :
    IsPrefix([k \in DOMAIN Passed(b) |-> Passed(b)[k].event.n], signed[b])

\* A branch whose signers are trusted and resolved, and which never ran two
\* tools at once, has every signed event verified and shown, whatever other branches do
\* in between and however many partial and unsigned events are among them.
HonestIsVerified ==
  \A b \in Branches \ disturbed : \A k \in DOMAIN log :
    log[k].event.branch = b /\ log[k].event.signer # NoSigner =>
      log[k].verified /\ log[k].shown

=============================================================================
