----------------------------- MODULE SessionLog -----------------------------
(***************************************************************************)
(* What a session service promises its callers (BaseSessionService,        *)
(* src/orxhestra/sessions/base_session_service.py): every session has a    *)
(* log; append_event puts an event into the log of one session, once;      *)
(* creating and deleting a session empties its log; nothing else changes   *)
(* what get_session returns.  Both services of module Sessions are shown   *)
(* to implement this.  The order of a log is left out: the database sorts  *)
(* by creation time, the memory service keeps the order of arrival.        *)
(***************************************************************************)
CONSTANTS Ids, Event

VARIABLES log,     \* the events get_session returns, per session
          acked,   \* those of them whose append_event has returned
          past     \* events that were appended, or lost, before

vars == <<log, acked, past>>

Init == /\ log = [id \in Ids |-> {}] /\ acked = [id \in Ids |-> {}]
        /\ past = {}

\* append_event of an event no session has or had; the caller may hear of it.
\* An event counts as past with all that have its number.
Append(id, e) ==
  /\ e \notin past
  /\ log' = [log EXCEPT ![id] = @ \cup {e}]
  /\ acked' \in {acked, [acked EXCEPT ![id] = @ \cup {e}]}
  /\ past \cup {e} \subseteq past'

\* append_event that fails, or for a session that is gone.
Lose ==
  /\ past \subseteq past'
  /\ UNCHANGED <<log, acked>>

\* create_session, delete_session.
Clear(id) ==
  /\ log' = [log EXCEPT ![id] = {}] /\ acked' = [acked EXCEPT ![id] = {}]
  /\ UNCHANGED past

Next == Lose \/ \E id \in Ids : Clear(id) \/ (\E e \in Event : Append(id, e))

Spec == Init /\ [][Next]_vars
-----------------------------------------------------------------------------
\* What a caller was told is in the log is there.
Kept == \A id \in Ids : acked[id] \subseteq log[id]

\* No event is in the logs of two sessions.
Isolated == \A i, j \in Ids : i # j => log[i] \cap log[j] = {}
=============================================================================
