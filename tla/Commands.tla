------------------------------ MODULE Commands ------------------------------
(***************************************************************************)
(* The slash commands that change the conversation (cli/commands.py), each *)
(* in a thread of its own (_dispatch_slash), next to the turn a worker     *)
(* runs: /clear, /compact, /model, /undo and /retry.                       *)
(*                                                                         *)
(* The session service is the in-memory one of the CLI's runner, so all    *)
(* who ask for a session get the same list of events.  A list is an object *)
(* with a number: /clear and /model make `state` point to another one.     *)
(* What is summarised is any beginning of the list, a matter of its        *)
(* characters.  A turn is the user's message and the agent's events.       *)
(***************************************************************************)
EXTENDS Naturals, Sequences, SequencesExt, Selections

CONSTANTS MaxTurns,     \* bound: turns
          TurnEvents,   \* events of a whole turn, the user's message included
          MaxCommands   \* bound: commands

\* What the instances ASSUME.
CommandsAssumption ==
  MaxTurns \in Nat \ {0} /\ TurnEvents \in Nat \ {0} /\ MaxCommands \in Nat

Turns == 1..MaxTurns
Objects == 1..(MaxCommands + 1)

VARIABLES
  lists,      \* the event list of every session object
  current,    \* the object of state.runner and state.session_id
  turn,       \* the worker: turn number, its session object, events appended
  count,      \* state.turn_count
  retry,      \* state.retry_message, 0 for None
  command,    \* the command thread that awaits something, with its locals
  used,       \* commands so far
  kept,       \* history: the turns the user has not removed
  overlapped  \* history: a command changed a session whose turn was running

vars == <<lists, current, turn, count, retry, command, used, kept, overlapped>>

\* An event of turn t, the first being the user's message; or a summary of turns.
Event(t, n) == [turn |-> t, n |-> n, covers |-> {}]
SummaryOf(s) ==
  [turn |-> 0, n |-> 0,
   covers |-> UNION {IF s[k].turn = 0 THEN s[k].covers ELSE {s[k].turn} : k \in DOMAIN s}]

EventRecord == [turn : 0..MaxTurns, n : 0..TurnEvents, covers : SUBSET Turns]
NoCommand == [pc |-> "idle", object |-> 1, events |-> <<>>]

TypeOK ==
  /\ \A o \in Objects : lists[o] \in Seq(EventRecord)
  /\ current \in Objects
  /\ turn \in [number : 0..MaxTurns, object : Objects, events : 0..TurnEvents, running : BOOLEAN]
  /\ count \in 0..MaxTurns /\ retry \in 0..MaxTurns
  /\ command.pc \in {"idle", "summarising", "building"} /\ command.object \in Objects
  /\ command.events \in Seq(EventRecord)
  /\ used \in 0..MaxCommands /\ kept \in Seq(Turns) /\ overlapped \in BOOLEAN

Init ==
  /\ lists = [o \in Objects |-> <<>>] /\ current = 1
  /\ turn = [number |-> 0, object |-> 1, events |-> 0, running |-> FALSE]
  /\ count = 0 /\ retry = 0 /\ command = NoCommand /\ used = 0
  /\ kept = <<>> /\ overlapped = FALSE
-----------------------------------------------------------------------------
(* The worker.                                                             *)

\* stream_response begins: Runner.astream appends the user's message to the
\* session `state` names now.
Begin ==
  /\ ~turn.running /\ turn.number < MaxTurns
  /\ turn' = [number |-> turn.number + 1, object |-> current, events |-> 1, running |-> TRUE]
  /\ lists' = [lists EXCEPT ![current] = Append(@, Event(turn'.number, 1))]
  /\ kept' = Append(kept, turn'.number)
  /\ overlapped' = (overlapped \/ command # NoCommand)
  /\ UNCHANGED <<current, count, retry, command, used>>

AgentEvent ==
  /\ turn.running /\ turn.events < TurnEvents
  /\ turn' = [turn EXCEPT !.events = @ + 1]
  /\ lists' = [lists EXCEPT ![turn.object] = Append(@, Event(turn.number, turn'.events))]
  /\ UNCHANGED <<current, count, retry, command, used, kept, overlapped>>

End ==
  /\ turn.running /\ turn.events = TurnEvents
  /\ turn' = [turn EXCEPT !.running = FALSE]
  /\ count' = count + 1
  /\ UNCHANGED <<lists, current, retry, command, used, kept, overlapped>>
-----------------------------------------------------------------------------
(* The commands.                                                           *)

\* A command thread starts; it may come while a turn, or another command, runs.
Starts ==
  /\ used < MaxCommands
  /\ used' = used + 1
  /\ overlapped' = (overlapped \/ turn.running \/ command # NoCommand)

\* /clear: another session id.
Clear ==
  /\ Starts
  /\ current' = current + 1 /\ count' = 0 /\ kept' = <<>>
  /\ UNCHANGED <<lists, turn, retry, command>>

Users(s) == {k \in DOMAIN s : s[k].n = 1}

\* The first user message instead (mutant).
FirstUser(s) == IF Users(s) = {} THEN 0 ELSE CHOOSE k \in Users(s) : \A j \in Users(s) : k <= j

\* The index of the last user message, 0 when there is none.
LastUser(s) == IF Users(s) = {} THEN 0 ELSE CHOOSE k \in Users(s) : \A j \in Users(s) : j <= k

\* /undo and /retry: the list is cut before the last user message; /retry
\* also notes the message, which nothing reads.
Undo(again) ==
  LET s == lists[current]
      k == LastUser(s)
  IN /\ Starts
     /\ IF k = 0 THEN UNCHANGED <<lists, count, retry, kept>>
        ELSE /\ lists' = [lists EXCEPT ![current] = SubSeq(s, 1, k - 1)]
             /\ count' = (IF count = 0 THEN 0 ELSE count - 1)
             /\ retry' = IF again THEN s[k].turn ELSE retry
             /\ kept' = Select(kept, Turns \ {s[k].turn})
     /\ UNCHANGED <<current, turn, command>>

\* /compact: the first n events are old; the model is awaited.
Compact ==
  LET s == lists[current]
  IN /\ Starts /\ command = NoCommand
     /\ \E n \in 1..Len(s) :
          command' = [pc |-> "summarising", object |-> current,
                      events |-> <<SummaryOf(SubSeq(s, 1, n))>> \o SubSeq(s, n + 1, Len(s))]
     /\ UNCHANGED <<lists, current, turn, count, retry, kept>>

\* The list becomes the one computed before the await; or nothing happens.
Compacted ==
  /\ command.pc = "summarising"
  /\ \/ lists' = [lists EXCEPT ![command.object] = command.events]
     \/ UNCHANGED lists
  /\ command' = NoCommand
  /\ UNCHANGED <<current, turn, count, retry, used, kept, overlapped>>

\* /model: the events are copied and another runner is built.
Model ==
  /\ Starts /\ command = NoCommand
  /\ command' = [pc |-> "building", object |-> current, events |-> lists[current]]
  /\ UNCHANGED <<lists, current, turn, count, retry, kept>>

\* The new runner has the session without its history (mutant).
BuiltEmpty ==
  /\ command.pc = "building"
  /\ current' = current + 1 /\ count' = 0
  /\ command' = NoCommand
  /\ UNCHANGED <<lists, turn, retry, used, kept, overlapped>>

\* The new runner's session is extended by the copy; or building fails.
Built ==
  /\ command.pc = "building"
  /\ \/ /\ current' = current + 1 /\ count' = 0
        /\ lists' = [lists EXCEPT ![current + 1] = @ \o command.events]
     \/ UNCHANGED <<current, count, lists>>
  /\ command' = NoCommand
  /\ UNCHANGED <<turn, retry, used, kept, overlapped>>

Next ==
  \/ Begin \/ AgentEvent \/ End
  \/ Clear \/ Undo(TRUE) \/ Undo(FALSE) \/ Compact \/ Compacted \/ Model \/ Built

Spec == Init /\ [][Next]_vars

\* The turns a session shows, whole or in part, raw or in its summaries.
Shown(s) == UNION {IF s[k].turn = 0 THEN s[k].covers ELSE {s[k].turn} : k \in DOMAIN s}

\* Commands that are given while no turn runs, in any order, leave the
\* conversation the user expects: every turn that was not undone or cleared
\* is in it, raw or summarised, and no other; the turns that are raw come in
\* order and end whole.
CommandsKeepTheRest ==
  ~overlapped /\ ~turn.running =>
    LET s == lists[current]
    IN /\ Shown(s) = ToSet(kept)
       /\ \A k \in DOMAIN s : s[k].turn # 0 =>
            IF s[k].n < TurnEvents
              THEN k < Len(s) /\ s[k + 1] = Event(s[k].turn, s[k].n + 1)
              ELSE k < Len(s) => s[k + 1].n = 1 /\ s[k + 1].turn > s[k].turn
=============================================================================
