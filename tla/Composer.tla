------------------------------ MODULE Composer ------------------------------
(***************************************************************************)
(* The Composer (composer/composer.py with its agent and tool builders):   *)
(* the agents of a YAML file are built depth first, each once, the main    *)
(* agent last; then the Runner around it is built and the identity of the  *)
(* file is given to the tree.                                              *)
(*                                                                         *)
(* A file is a definition per name: the sub-agents a composite names, or   *)
(* the tools of an LLM agent that refer to other agents, one target each:  *)
(* AgentTool ("agent") and transfer_to_agent ("transfer"); a reference to  *)
(* a tool that cannot be resolved is one to a name that is not defined.  A *)
(* definition may be wrong otherwise, which is found before its references *)
(* are followed ("early": the type, the model, a loop's should_continue)   *)
(* or after ("late": planner, output schema, skills).  What models and     *)
(* tools do is left out, and of what schema.py rejects, all but a tool of  *)
(* two kinds ("both"), a composite of nothing and a missing main agent.    *)
(***************************************************************************)
EXTENDS Naturals, Sequences, FiniteSets, SequencesExt, Selections

CONSTANTS Files,   \* the files: functions from defined names to definitions
          Main,    \* spec.main_agent
          Agents,  \* every name a file defines
         Names    \* every name a file mentions

\* What the instances ASSUME.
ComposerAssumption ==
  /\ Agents \subseteq Names /\ Main \in Names
  /\ \A f \in Files :
       /\ DOMAIN f \subseteq Agents
       /\ \A n \in DOMAIN f :
            /\ f[n].type \in {"llm", "composite"} /\ f[n].fault \in {"none", "early", "late"}
            /\ f[n].type = "composite" => f[n].fault # "late"
            /\ f[n].agents \in Seq(Names)
            /\ f[n].tools \in Seq([kind : {"agent", "transfer", "both"}, agent : Names])

VARIABLES
  spec,     \* Composer._spec
  agents,   \* the names in Composer._agents
  building, \* Composer._building, each with the position of its next reference
  subs,     \* sub_agents of every agent
  result,   \* "loading", "building", "built", "signing", then what is ready:
            \* "runner" or "server"; or the error raised
  todo,     \* _propagate_identity: stack
  signed,   \* the agents with a signing key
  verifies  \* the runner has a TrustMiddleware

vars == <<spec, agents, building, subs, result, todo, signed, verifies>>

\* CircularReferenceError, and other ComposerErrors: of the file as it is
\* loaded, of the build and of the runner.
Errors == {"circular", "rejected", "invalid", "unattested"}

Init ==
  /\ spec \in Files
  /\ agents = {} /\ building = <<>> /\ subs = [n \in Agents |-> <<>>]
  /\ result = "loading" /\ todo = <<>> /\ signed = {} /\ verifies = FALSE

Targets(tools) == [k \in DOMAIN tools |-> tools[k].agent]
OfKind(tools, kind) == Select(tools, {t \in ToSet(tools) : t.kind = kind})
Transfers(n) == Targets(OfKind(spec[n].tools, "transfer"))

\* The agents a composite is built of.
Children(n) == IF spec[n].type = "composite" THEN spec[n].agents ELSE <<>>

\* The transfer targets are not built with the agent (mutant).
RefsWithoutTransfers(n) ==
  IF spec[n].type = "composite" THEN Children(n)
  ELSE Targets(OfKind(spec[n].tools, "agent"))

\* The agents a builder asks _build_agent for, in order.
Refs(n) == IF spec[n].type = "composite" THEN Children(n) ELSE Targets(spec[n].tools)

Top == Last(building)
Wants(n) ==
  /\ result = "building"
  /\ IF building = <<>> THEN n = Main
     ELSE Top.next <= Len(Refs(Top.name)) /\ n = Refs(Top.name)[Top.next]

Raise(error) ==
  /\ result' = error /\ building' = <<>>
  /\ UNCHANGED <<spec, agents, subs, todo, signed, verifies>>

\* _load_spec: the validators of schema.py look at every definition, used or not.
ValidTool(tool) == tool.kind # "both"
ValidAgent(agent) ==
  /\ agent.type = "composite" => agent.agents # <<>>
  /\ \A k \in DOMAIN agent.tools : ValidTool(agent.tools[k])
ValidFile == Main \in DOMAIN spec /\ \A n \in DOMAIN spec : ValidAgent(spec[n])

Load ==
  /\ result = "loading"
  /\ IF ~ValidFile THEN Raise("rejected")
     ELSE /\ result' = "building"
          /\ UNCHANGED <<spec, agents, building, subs, todo, signed, verifies>>
-----------------------------------------------------------------------------
(* _build_agent(n).                                                        *)

Cached(n) ==
  /\ Wants(n) /\ n \in agents
  /\ IF building = <<>> THEN result' = "built" /\ UNCHANGED building
     ELSE /\ building' = Front(building) \o <<[Top EXCEPT !.next = @ + 1]>>
          /\ UNCHANGED result
  /\ UNCHANGED <<spec, agents, subs, todo, signed, verifies>>

\* Defined, of a known type and with a known model.
Known(n) == IF n \in DOMAIN spec THEN spec[n].fault # "early" ELSE FALSE

BeingBuilt == {building[k].name : k \in DOMAIN building}

Descend(n) ==
  /\ Wants(n) /\ n \notin agents
  /\ IF n \in BeingBuilt THEN Raise("circular")
     ELSE IF ~Known(n) THEN Raise("invalid")
     ELSE /\ building' = Append(building, [name |-> n, next |-> 1])
          /\ UNCHANGED <<spec, agents, subs, result, todo, signed, verifies>>

\* The agent is made, then _register_transfer_sub_agents appends the transfer
\* targets that exist by now: all of an LLM agent's, and whatever a composite,
\* whose tools are otherwise ignored, finds.
Construct ==
  LET n == Top.name
  IN /\ result = "building" /\ building # <<>> /\ Top.next > Len(Refs(n))
     /\ IF spec[n].fault = "late" THEN Raise("invalid")
        ELSE /\ subs' = [subs EXCEPT ![n] = Children(n) \o Select(Transfers(n), agents)]
             /\ agents' = agents \cup {n}
             /\ building' = Front(building)
             /\ UNCHANGED <<spec, result, todo, signed, verifies>>
-----------------------------------------------------------------------------
(* _build_runner.                                                          *)

\* _build_middleware: a trust block without an identity is ignored, a local
\* attestation log without one is an error.
Verifies(identity, trust) == trust /\ identity
Unattested(identity, localLog) == localLog /\ ~identity

\* The identity is resolved, the middleware is made, then the runner.
BuildRunner ==
  /\ result = "built"
  /\ \E identity, trust, localLog \in BOOLEAN :
       IF Unattested(identity, localLog) THEN Raise("unattested")
       ELSE /\ result' = "signing"
            /\ verifies' = Verifies(identity, trust)
            /\ todo' = IF identity THEN <<Main>> ELSE <<>>
            /\ UNCHANGED <<spec, agents, building, subs, signed>>

\* _propagate_identity: an agent that was not seen is stamped, and its
\* sub_agents are looked at next.
Stamp ==
  /\ result = "signing" /\ todo # <<>>
  /\ LET n == Last(todo) IN
       /\ todo' = Front(todo) \o (IF n \in signed THEN <<>> ELSE subs[n])
       /\ signed' = signed \cup {n}
  /\ UNCHANGED <<spec, agents, building, subs, result, verifies>>

Stamped ==
  /\ result = "signing" /\ todo = <<>>
  /\ result' = "runner"
  /\ UNCHANGED <<spec, agents, building, subs, todo, signed, verifies>>

\* _build_server: the tree is served as it is, without identity or middleware.
BuildServer ==
  /\ result = "built"
  /\ result' = "server"
  /\ UNCHANGED <<spec, agents, building, subs, todo, signed, verifies>>

Next ==
  \/ Load \/ BuildServer
  \/ \E n \in Names : Cached(n) \/ Descend(n)
  \/ Construct \/ BuildRunner \/ Stamp \/ Stamped

Spec == Init /\ [][Next]_vars
-----------------------------------------------------------------------------
TypeOK ==
  /\ spec \in Files /\ agents \subseteq Agents
  /\ building \in Seq([name : Agents, next : Nat])
  /\ subs \in [Agents -> Seq(Agents)]
  /\ result \in {"loading", "building", "built", "signing", "runner", "server"} \cup Errors
  /\ todo \in Seq(Agents) /\ signed \subseteq Agents /\ verifies \in BOOLEAN

\* What is reached from the names S in one step or more: what is in every set
\* that no step from S or from within leads out of.
Reached(S, step) ==
  {n \in Names : \A T \in SUBSET Names : (\A m \in S \cup T : step[m] \subseteq T) => n \in T}

\* Whom a definition refers to, and whom an agent has below it.
Refers == [n \in Names |-> IF Known(n) THEN ToSet(Refs(n)) ELSE {}]
Holds == [n \in Names |-> IF n \in Agents THEN ToSet(subs[n]) ELSE {}]

Sound(n) == Known(n) /\ spec[n].fault = "none"
Needed == {Main} \cup Reached({Main}, Refers)
Routable == {Main} \cup Reached({Main}, Holds)

\* For every file: the build succeeds only when what the main agent needs,
\* directly or through others, is defined, free of faults and of cycles; an
\* error that is raised is there to be found; and every needed agent is built,
\* and no other.  The tree that results has no cycle, so find_agent ends; an
\* agent the Runner can get to can hand over to every target of its transfer
\* tool; and a runner that verifies signatures has the identity on every
\* agent it can get to.
BuildIsExact ==
  LET circular == \E n \in Needed : n \in Reached({n}, Refers)
  IN /\ result = "circular" => circular
     /\ result = "invalid" => \E n \in Needed : ~Sound(n)
     /\ result \in {"built", "signing", "runner", "server", "unattested"} =>
          /\ ~circular /\ \A n \in Needed : Sound(n)
          /\ agents = Needed
          /\ \A n \in agents : n \notin Reached({n}, Holds)
          /\ \A n \in Routable :
               spec[n].type = "llm" => ToSet(Transfers(n)) \subseteq Routable
     /\ result = "runner" => signed \in {{}, Routable} /\ (verifies => signed # {})
=============================================================================
