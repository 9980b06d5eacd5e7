--------------------------- MODULE MCConversation ---------------------------
(***************************************************************************)
(* Model-checking instance of a conversation: the calls of Runner.astream  *)
(* on a session, the session's compaction with the history it leaves the   *)
(* model, the chain of signed events, and the terminal in which a user has *)
(* it: the prompt with its workers, the live text and the slash commands.  *)
(* They are checked one at a time: `part`, chosen in the initial state, is *)
(* the one that moves, and the others stay in an initial state.            *)
(***************************************************************************)
EXTENDS Runner, FiniteSets, TLC

CONSTANTS Compactors, Threshold, Retention, MaxChars, MaxEvents,
          Branches, Signers, MaxCalls, MaxSigned,
          MaxTyped, MaxWork, Slash,
          MaxTexts, MaxLines, SpillThreshold, TailLines,
          MaxTurns, TurnEvents, MaxCommands

\* A strict policy that requires the chain and every signature, and a
\* permissive one that trusts nobody.
TrustPolicies ==
  {[mode |-> "strict", chain |-> TRUE, mustSign |-> {"message", "response"}, denied |-> {}],
   [mode |-> "permissive", chain |-> FALSE, mustSign |-> {"message"}, denied |-> Signers]}

VARIABLES
  part,
  events, compacting,                                                   \* Compaction
  policy, made, heads, trustHeads, tools, arriving, received, signed, disturbed,  \* Trust
  typed, running, pending, worker, history, ask, selector, key,
  interrupted, misled, given,                                                     \* Repl
  streamer, text, buffer, region, scrollback, live, canceler, late, cancelled,    \* LiveText
  lists, current, turn, count, retry, command, used, kept, overlapped             \* Commands

History == INSTANCE MessageBuilder WITH Invocation <- Compactors, inv <- compacting
Trust == INSTANCE Trust
           WITH Policies <- TrustPolicies, MaxEvents <- MaxSigned, log <- received
Repl == INSTANCE Repl WITH Command <- Slash, disturbed <- misled
LiveText == INSTANCE LiveText
              WITH Threshold <- SpillThreshold, worker <- streamer, history <- scrollback
Commands == INSTANCE Commands

ASSUME ConversationAssumption ==
  /\ RunnerAssumption /\ History!CompactionAssumption /\ Trust!TrustAssumption
  /\ Repl!ReplAssumption /\ LiveText!LiveTextAssumption /\ Commands!CommandsAssumption

runnerVars == <<log, active, inv>>
historyVars == <<events, compacting>>
trustVars == <<policy, made, heads, trustHeads, tools, arriving, received, signed, disturbed>>
replVars == <<typed, running, pending, worker, history, ask, selector, key,
              interrupted, misled, given>>
liveTextVars == <<streamer, text, buffer, region, scrollback, live, canceler, late, cancelled>>
commandVars == <<lists, current, turn, count, retry, command, used, kept, overlapped>>
terminalVars == <<replVars, liveTextVars, commandVars>>
allVars == <<part, runnerVars, historyVars, trustVars, terminalVars>>

MCInit ==
  /\ part \in {"runner", "history", "trust", "repl", "livetext", "commands"}
  /\ Init /\ History!Init /\ Trust!Init
  /\ Repl!Init /\ LiveText!Init /\ Commands!Init
  /\ part # "runner" => active = Root
  /\ part # "trust" => policy.mode = "strict"

RunnerNext ==
  /\ part = "runner" /\ Next
  /\ UNCHANGED <<part, historyVars, trustVars, terminalVars>>
HistoryNext ==
  /\ part = "history" /\ History!Next
  /\ UNCHANGED <<part, runnerVars, trustVars, terminalVars>>
TrustNext ==
  /\ part = "trust" /\ Trust!Next
  /\ UNCHANGED <<part, runnerVars, historyVars, terminalVars>>
ReplNext ==
  /\ part = "repl" /\ Repl!Next
  /\ UNCHANGED <<part, runnerVars, historyVars, trustVars, liveTextVars, commandVars>>
LiveTextNext ==
  /\ part = "livetext" /\ LiveText!Next
  /\ UNCHANGED <<part, runnerVars, historyVars, trustVars, replVars, commandVars>>
CommandsNext ==
  /\ part = "commands" /\ Commands!Next
  /\ UNCHANGED <<part, runnerVars, historyVars, trustVars, replVars, liveTextVars>>

MCNext ==
  \/ RunnerNext \/ HistoryNext \/ TrustNext
  \/ ReplNext \/ LiveTextNext \/ CommandsNext

MCSpec == MCInit /\ [][MCNext]_allVars

\* Invocations are told apart by nothing, and neither are branches; the
\* configuration gives them the same two names, so that one renaming does.
Symmetry == Permutations(Invocation)

MCTypeOK ==
  /\ TypeOK /\ History!TypeOK /\ Trust!TypeOK
  /\ Repl!TypeOK /\ LiveText!TypeOK /\ Commands!TypeOK

\* compact_session: what summaries hide from the model is what they cover.
SummariesReplaceExactly == History!SummariesReplaceExactly

\* events_to_messages: the history a turn begins with is one a model accepts.
HistoryIsWellFormed == History!HistoryIsWellFormed

\* TrustMiddleware with require_chain: the events of a branch that pass as
\* verified are a gapless beginning of what was signed on it.
VerifiedIsPrefix == Trust!VerifiedIsPrefix

\* TrustMiddleware: a branch with trusted signers whose tools run one at a
\* time has every signed event verified, whatever other branches do.
HonestIsVerified == Trust!HonestIsVerified

\* ink_app.py: a queued message has a worker that will take it.
QueueHasAWorker == Repl!QueueHasAWorker

\* ink_app.py:400-407: what a turn shows stands after the message it answers
\* and before the next one.
LinesFollowTheirMessage == Repl!LinesFollowTheirMessage

\* request_input and on_key: who asks gets what the user chose at its prompt.
PromptsGetTheirAnswer == Repl!PromptsGetTheirAnswer

\* _StreamRenderer: a text stands in the scrollback whole and once.
TextIsShownOnce == LiveText!TextIsShownOnce

\* Slash commands between turns remove what the user removed and nothing else.
CommandsKeepTheRest == Commands!CommandsKeepTheRest
=============================================================================
