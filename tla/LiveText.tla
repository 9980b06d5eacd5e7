------------------------------ MODULE LiveText ------------------------------
(***************************************************************************)
(* How the terminal shows the text an agent streams during a turn          *)
(* (cli/stream.py, cli/writer.py): the worker thread that runs             *)
(* stream_response, a renderer thread for every live region                *)
(* (_StreamRenderer), and Ctrl-C in the thread of the user interface.      *)
(*                                                                         *)
(* A turn streams several texts, one live region each, with a line of      *)
(* output (a tool call, the turn's summary) after each.  A text is the     *)
(* number of its lines and grows by a line at a time; the conversion to    *)
(* ANSI is left out.  A turn that raises ends like one that is over.       *)
(***************************************************************************)
EXTENDS Naturals, Sequences, FiniteSets, Selections

CONSTANTS MaxTexts,     \* bound: texts of the turn
          MaxLines,     \* bound: lines of all texts of the turn
          Threshold,    \* _SPILL_THRESHOLD
          TailLines          \* _STREAM_TAIL_LINES

\* What the instances ASSUME.
LiveTextAssumption ==
  /\ MaxTexts \in Nat \ {0} /\ MaxLines \in Nat \ {0}
  /\ Threshold \in Nat \ {0} /\ TailLines \in 1..Threshold

Texts == 1..MaxTexts

VARIABLES
  worker,      \* where stream_response is
  text,        \* the text being streamed
  buffer,      \* its lines so far: _StreamState.buffer
  region,      \* the live region of each text: _InkLiveHandle and its renderer
  history,     \* what was appended to the scrollback
  live,        \* the text in the dynamic area, 0 when it is empty
  canceler,    \* where cancel_live is, and the region it stops
  late,        \* history: texts whose renderer outlived a join
  cancelled    \* history: texts Ctrl-C was for

vars == <<worker, text, buffer, region, history, live, canceler, late, cancelled>>

\* A live region.
\* pc       the renderer's: "none" before start_live, "waiting" for its
\*          mailbox, "taken", "spilling", "showing", "over"
\* slot     the mailbox, 0 when empty;  got, ending: the renderer's locals
\* last, spilled, bullet    _last_text, _spilled_lines, _bullet_emitted
\* closed, stopping         _InkLiveHandle._stopped, _StreamRenderer._stopped
NoRegion == [pc |-> "none", slot |-> 0, got |-> 0, ending |-> FALSE, last |-> 0, spilled |-> 0,
             bullet |-> FALSE, closed |-> FALSE, stopping |-> FALSE]

Region == [pc : {"none", "waiting", "taken", "spilling", "showing", "over"},
           slot : 0..MaxLines, got : 0..MaxLines, ending : BOOLEAN, last : 0..MaxLines,
           spilled : 0..MaxLines, bullet : BOOLEAN, closed : BOOLEAN, stopping : BOOLEAN]

\* A piece of a text in the scrollback: its lines, and whether it carries the
\* bullet of a response.  The line of output after the text is no piece of it;
\* history: how many lines the text had.
Piece(t, from, to, bullet) == [text |-> t, from |-> from, to |-> to, bullet |-> bullet]
After(t, lines) == Piece(t, lines, 0, FALSE)
IsAfter(p) == p.to = 0
PieceRecord == [text : Texts, from : 0..MaxLines, to : 0..MaxLines, bullet : BOOLEAN]

TypeOK ==
  /\ worker \in {"streaming", "joining", "flushing", "clearing", "printing", "over"}
  /\ text \in Texts /\ buffer \in 0..MaxLines
  /\ region \in [Texts -> Region]
  /\ history \in Seq(PieceRecord)
  /\ live \in 0..MaxTexts
  /\ canceler \in [pc : {"idle", "stopping", "joining", "clearing", "done"}, text : Texts]
  /\ late \subseteq Texts /\ cancelled \subseteq Texts

Init ==
  /\ worker = "streaming" /\ text = 1 /\ buffer = 0
  /\ region = [t \in Texts |-> NoRegion]
  /\ history = <<>> /\ live = 0
  /\ canceler = [pc |-> "idle", text |-> 1] /\ late = {} /\ cancelled = {}

Set(t, r) == region' = [region EXCEPT ![t] = r]
-----------------------------------------------------------------------------
(* The worker.                                                             *)

\* The lines of the turn so far: those of the texts that are over, and the buffer.
Streamed ==
  buffer + Cardinality({p \in (DOMAIN history) \X (1..MaxLines) :
                          IsAfter(history[p[1]]) /\ p[2] <= history[p[1]].from})

\* A partial event: the first one starts the live region; the text goes into
\* the mailbox unless the region was cancelled.
Partial ==
  /\ worker = "streaming" /\ Streamed < MaxLines
  /\ buffer' = buffer + 1
  /\ LET r == region[text]
     IN IF buffer = 0
          THEN Set(text, [r EXCEPT !.pc = "waiting", !.slot = 1]) /\ live' = 0
          ELSE Set(text, IF r.closed THEN r ELSE [r EXCEPT !.slot = buffer + 1]) /\ UNCHANGED live
  /\ UNCHANGED <<worker, text, history, canceler, late, cancelled>>

\* end_stream: the whole buffer is submitted once more, then the handle and
\* its renderer are told to stop.  Nothing happens when no text was streamed
\* or when the region was cancelled.
EndStream ==
  /\ worker = "streaming"
  /\ IF buffer = 0 \/ region[text].closed
       THEN worker' = "printing" /\ UNCHANGED region
       ELSE /\ worker' = "joining"
            /\ Set(text, [region[text] EXCEPT !.slot = buffer, !.closed = TRUE, !.stopping = TRUE])
  /\ UNCHANGED <<text, buffer, history, live, canceler, late, cancelled>>

\* The renderer is joined, or the join times out.
Join ==
  /\ worker = "joining"
  /\ worker' = "flushing"
  /\ late' = IF region[text].pc = "over" THEN late ELSE late \cup {text}
  /\ UNCHANGED <<text, buffer, region, history, live, canceler, cancelled>>

\* What was not spilled goes to the scrollback in one piece, before the
\* dynamic area is cleared.
Flush ==
  /\ worker = "flushing"
  /\ worker' = "clearing"
  /\ LET r == region[text]
     IN history' = IF r.last <= r.spilled THEN history
                   ELSE Append(history, Piece(text, r.spilled + 1, r.last, ~r.bullet))
  /\ UNCHANGED <<text, buffer, region, live, canceler, late, cancelled>>

Clear ==
  /\ worker = "clearing"
  /\ worker' = "printing" /\ live' = 0
  /\ UNCHANGED <<text, buffer, region, history, canceler, late, cancelled>>

\* The line after the text; another text begins or the turn is over.
PrintAfter ==
  /\ worker = "printing"
  /\ history' = Append(history, After(text, buffer))
  /\ buffer' = 0
  /\ \/ /\ text < MaxTexts /\ text' = text + 1 /\ worker' = "streaming"
     \/ /\ worker' = "over" /\ UNCHANGED text
  /\ UNCHANGED <<region, live, canceler, late, cancelled>>
-----------------------------------------------------------------------------
(* The renderer of text t: _run and _maybe_spill.                          *)

\* A renderer that leaves as soon as it is stopped (mutant).
TakeUnlessStopped(t) ==
  LET r == region[t]
  IN /\ r.pc = "waiting" /\ (r.slot # 0 \/ r.stopping)
     /\ Set(t, IF r.stopping THEN [r EXCEPT !.pc = "over"]
               ELSE [r EXCEPT !.pc = "taken", !.got = r.slot, !.slot = 0])
     /\ UNCHANGED <<worker, text, buffer, history, live, canceler, late, cancelled>>

\* It empties the mailbox before it looks at the stop.
Take(t) ==
  LET r == region[t]
  IN /\ r.pc = "waiting" /\ (r.slot # 0 \/ r.stopping)
     /\ Set(t, IF r.slot = 0 THEN [r EXCEPT !.pc = "over"]
               ELSE [r EXCEPT !.pc = "taken", !.got = r.slot, !.slot = 0, !.ending = r.stopping])
     /\ UNCHANGED <<worker, text, buffer, history, live, canceler, late, cancelled>>

\* Older lines go to the scrollback once more than Threshold are not there.
Spill(t) ==
  LET r == region[t]
      long == r.got - r.spilled > Threshold
  IN /\ r.pc = "taken"
     /\ IF long
          THEN /\ history' = Append(history, Piece(t, r.spilled + 1, r.got - TailLines, ~r.bullet))
               /\ Set(t, [r EXCEPT !.last = r.got, !.bullet = TRUE, !.pc = "spilling"])
          ELSE /\ Set(t, [r EXCEPT !.last = r.got, !.pc = "showing"])
               /\ UNCHANGED history
     /\ UNCHANGED <<worker, text, buffer, live, canceler, late, cancelled>>

CountSpilled(t) ==
  LET r == region[t]
  IN /\ r.pc = "spilling"
     /\ Set(t, [r EXCEPT !.spilled = r.got - TailLines, !.pc = "showing"])
     /\ UNCHANGED <<worker, text, buffer, history, live, canceler, late, cancelled>>

\* The rest is shown, unless the region is about to be cleared.
Show(t) ==
  LET r == region[t]
  IN /\ r.pc = "showing"
     /\ live' = IF r.ending THEN live ELSE t
     /\ Set(t, [r EXCEPT !.pc = IF r.ending THEN "over" ELSE "waiting"])
     /\ UNCHANGED <<worker, text, buffer, history, canceler, late, cancelled>>
-----------------------------------------------------------------------------
(* Ctrl-C: cancel_live stops the active region and keeps nothing of it.    *)
(* The turn counts as not running from then on, so it happens once.        *)

\* It finds the region not stopped, and marks it in a later step.
Cancel ==
  /\ canceler.pc = "idle" /\ worker # "over"
  /\ region[text].pc # "none" /\ ~region[text].closed
  /\ canceler' = [pc |-> "stopping", text |-> text]
  /\ cancelled' = cancelled \cup {text}
  /\ UNCHANGED <<worker, text, buffer, region, history, live, late>>

CancelStops ==
  /\ canceler.pc = "stopping"
  /\ Set(canceler.text, [region[canceler.text] EXCEPT !.closed = TRUE, !.stopping = TRUE])
  /\ canceler' = [canceler EXCEPT !.pc = "joining"]
  /\ UNCHANGED <<worker, text, buffer, history, live, late, cancelled>>

CancelJoins ==
  /\ canceler.pc = "joining"
  /\ canceler' = [canceler EXCEPT !.pc = "clearing"]
  /\ late' = IF region[canceler.text].pc = "over" THEN late ELSE late \cup {canceler.text}
  /\ UNCHANGED <<worker, text, buffer, region, history, live, cancelled>>

CancelClears ==
  /\ canceler.pc = "clearing"
  /\ canceler' = [canceler EXCEPT !.pc = "done"]
  /\ live' = 0
  /\ UNCHANGED <<worker, text, buffer, region, history, late, cancelled>>
-----------------------------------------------------------------------------
Next ==
  \/ Partial \/ EndStream \/ Join \/ Flush \/ Clear \/ PrintAfter
  \/ \E t \in Texts : Take(t) \/ Spill(t) \/ CountSpilled(t) \/ Show(t)
  \/ Cancel \/ CancelStops \/ CancelJoins \/ CancelClears

Spec == Init /\ [][Next]_vars

\* The pieces are the text's n lines, each once and in order, and the first
\* of them has the bullet.
Tiles(pieces, n) ==
  /\ \A k \in DOMAIN pieces :
       /\ pieces[k].from = (IF k = 1 THEN 1 ELSE pieces[k - 1].to + 1)
       /\ pieces[k].bullet <=> k = 1
  /\ n = IF pieces = <<>> THEN 0 ELSE pieces[Len(pieces)].to

\* The pieces of a text in the scrollback, in their order.
Pieces(t) == Select(history, {p \in PieceRecord : p.text = t /\ ~IsAfter(p)})

\* Whatever the interleaving of the worker with its renderers: a text that
\* nobody cancelled and whose renderer was joined in time stands in the
\* scrollback whole, each line once, in order, with one bullet, before the
\* output that follows it; and when such a turn is over nothing is left in
\* the dynamic area.
TextIsShownOnce ==
  /\ \A k \in DOMAIN history :
       LET t == history[k].text
       IN IsAfter(history[k]) /\ t \notin late \cup cancelled =>
            /\ Tiles(Pieces(t), history[k].from)
            /\ \A j \in (k + 1)..Len(history) : history[j].text # t
  /\ late = {} /\ worker = "over" /\ canceler.pc \in {"idle", "done"} => live = 0
=============================================================================
