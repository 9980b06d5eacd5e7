------------------------------ MODULE Sessions ------------------------------
(***************************************************************************)
(* The two session services, InMemorySessionService and                    *)
(* DatabaseSessionService, as their callers use them: Runner gets or       *)
(* creates a session, appends events to the Session object it holds, and   *)
(* others update or delete the session meanwhile.                          *)
(*                                                                         *)
(* A Session object is an entry of `heap`.  With the memory back end the   *)
(* stored session and the callers' objects are the same objects; with the  *)
(* database each caller has a private copy and the tables are `row` and    *)
(* `eventRow`.  The in-memory methods never suspend and are one step each; *)
(* the database is taken to run transactions at READ COMMITTED, so that    *)
(* the statements of two transactions may interleave and a transaction may *)
(* fail (external).  An event is its creation number, which is also its    *)
(* timestamp, and the key its state_delta sets, to that number.            *)
(***************************************************************************)
EXTENDS Naturals, SequencesExt, FiniteSetsExt

CONSTANTS Callers, Owners, Ids, Keys,
          MaxEvents,    \* events created in a behaviour
          MaxObjects    \* Session objects created in a behaviour

\* What the instances ASSUME.
SessionsAssumption == MaxEvents \in Nat /\ MaxObjects \in Nat

VARIABLES
  backend,   \* which service is in use
  heap,      \* the Session objects: [id, owner, state, list, live]
  lists,     \* the event lists the objects point to
  store,     \* InMemorySessionService._store: id -> object, 0 if none
  row,       \* orx_sessions: id -> [owner, state], or NoRow
  eventRow,  \* orx_events: set of [id, event]
  held,      \* the object each caller holds, 0 if none
  tx,        \* the database transaction of each caller
  acked,     \* history: events whose append returned, per existing session
  created    \* number of events created so far

vars == <<backend, heap, lists, store, row, eventRow, held, tx, acked, created>>
dbVars == <<row, eventRow, tx>>

State == [Keys -> 0..MaxEvents]
Event == [n : 1..MaxEvents, key : Keys]
NoRow == [owner |-> "none"]
Row == [owner : Owners, state : State] \cup {NoRow}
Idle == [at |-> "idle"]
EmptyState == [k \in Keys |-> 0]
Transaction ==
  {Idle} \cup [at : {"loading"}, id : Ids, row : Row \ {NoRow}]
         \cup [at : {"creating"}, id : Ids, owner : Owners]
         \cup [at : {"appending"}, event : Event]
         \cup [at : {"updating"}, id : Ids, state : State]

TypeOK ==
  /\ backend \in {"memory", "database"}
  /\ heap \in Seq([id : Ids, owner : Owners, state : State,
                   list : 1..MaxObjects, live : BOOLEAN])
  /\ \A o \in DOMAIN heap : heap[o].list \in DOMAIN lists
  /\ lists \in Seq(Seq(Event))
  /\ store \in [Ids -> 0..Len(heap)] /\ held \in [Callers -> 0..Len(heap)]
  /\ row \in [Ids -> Row] /\ eventRow \subseteq [id : Ids, event : Event]
  /\ tx \in [Callers -> Transaction]
  /\ acked \in [Ids -> SUBSET Event] /\ created \in 0..MaxEvents

Init ==
  /\ backend \in {"memory", "database"}
  /\ heap = <<>> /\ lists = <<>>
  /\ store = [i \in Ids |-> 0] /\ row = [i \in Ids |-> NoRow] /\ eventRow = {}
  /\ held = [c \in Callers |-> 0] /\ tx = [c \in Callers |-> Idle]
  /\ acked = [i \in Ids |-> {}] /\ created = 0

\* A new Session object with an event list of its own, held by c.
NewObject(c, objects, id, owner, state, events) ==
  /\ Len(heap) < MaxObjects
  /\ lists' = Append(lists, events)
  /\ heap' = Append(objects, [id |-> id, owner |-> owner, state |-> state,
                              list |-> Len(lists) + 1, live |-> TRUE])
  /\ held' = [held EXCEPT ![c] = Len(heap) + 1]

\* state_delta merged into a state.
WithDelta(state, e) == [state EXCEPT ![e.key] = e.n]

\* BaseSessionService.append_event on the object of c: its state, its list.
ApplyEvent(c, e) ==
  LET o == held[c] IN
  /\ heap' = [heap EXCEPT ![o].state = WithDelta(@, e)]
  /\ lists' = [lists EXCEPT ![heap[o].list] = Append(@, e)]

\* A new whole event; partial ones are returned before anything is changed.
NewEvent(e) ==
  /\ created < MaxEvents /\ created' = created + 1
  /\ e.n = created + 1

\* History: the objects of a session that is deleted or replaced.
Dead(id) ==
  [o \in DOMAIN heap |-> IF heap[o].id = id THEN [heap[o] EXCEPT !.live = FALSE] ELSE heap[o]]

(***************************************************************************)
(* InMemorySessionService.                                                 *)
(***************************************************************************)
\* create_session also replaces a session of that id: of another owner, as
\* get_or_create_session finds none.
MemoryCreate(c, id, owner) ==
  /\ store' = [store EXCEPT ![id] = Len(heap) + 1]
  /\ NewObject(c, Dead(id), id, owner, EmptyState, <<>>)
  /\ acked' = [acked EXCEPT ![id] = {}]

MemoryGet(c, id) ==
  /\ held' = [held EXCEPT ![c] = store[id]]
  /\ UNCHANGED <<heap, lists, store, acked>>

\* Runner.get_or_create_session: nothing suspends between the two calls.
MemoryGetOrCreate(c, id, owner) ==
  /\ backend = "memory"
  /\ IF store[id] # 0 /\ heap[store[id]].owner = owner
       THEN MemoryGet(c, id)
       ELSE MemoryCreate(c, id, owner)
  /\ UNCHANGED <<backend, created, dbVars>>

MemoryAppend(c, e) ==
  /\ backend = "memory" /\ held[c] # 0
  /\ NewEvent(e) /\ ApplyEvent(c, e)
  /\ LET o == heap[held[c]] IN
       acked' = IF o.live THEN [acked EXCEPT ![o.id] = @ \cup {e}] ELSE acked
  /\ UNCHANGED <<backend, store, held, dbVars>>

\* The copied session gets a list of its own (mutant).
MemoryUpdateDeep(id, k) ==
  /\ backend = "memory" /\ store[id] # 0 /\ Len(heap) < MaxObjects
  /\ LET o == heap[store[id]] IN
       /\ heap' = Append(heap, [o EXCEPT !.state[k] = 0, !.list = Len(lists) + 1])
       /\ lists' = Append(lists, lists[o.list])
  /\ store' = [store EXCEPT ![id] = Len(heap) + 1]
  /\ UNCHANGED <<backend, held, acked, created, dbVars>>

\* update_session: model_copy with a new state dict replaces the stored
\* object; the copy is shallow and shares the event list.
MemoryUpdate(id, k) ==
  /\ backend = "memory" /\ store[id] # 0 /\ Len(heap) < MaxObjects
  /\ heap' = Append(heap, [heap[store[id]] EXCEPT !.state[k] = 0])
  /\ store' = [store EXCEPT ![id] = Len(heap) + 1]
  /\ UNCHANGED <<backend, lists, held, acked, created, dbVars>>

MemoryDelete(id) ==
  /\ backend = "memory"
  /\ store' = [store EXCEPT ![id] = 0] /\ heap' = Dead(id)
  /\ acked' = [acked EXCEPT ![id] = {}]
  /\ UNCHANGED <<backend, lists, held, created, dbVars>>

(***************************************************************************)
(* DatabaseSessionService.                                                 *)
(***************************************************************************)
\* The events of a session in the order of created_at.
StoredEvents(id) ==
  LET events == {r.event : r \in {x \in eventRow : x.id = id}}
  IN CHOOSE s \in [1..Cardinality(events) -> events] :
       \A j, k \in DOMAIN s : j < k => s[j].n < s[k].n

\* get_session, first statement: the row of this id and owner.
DatabaseGetRow(c, id, owner) ==
  /\ backend = "database" /\ tx[c] = Idle
  /\ LET found == row[id] # NoRow /\ row[id].owner = owner IN
       tx' = [tx EXCEPT ![c] =
                IF found THEN [at |-> "loading", id |-> id, row |-> row[id]]
                         ELSE [at |-> "creating", id |-> id, owner |-> owner]]
  /\ UNCHANGED <<backend, heap, lists, store, row, eventRow, held, acked, created>>

\* get_session, second statement: its events.
DatabaseGetEvents(c) ==
  /\ tx[c].at = "loading"
  /\ LET t == tx[c] IN
       NewObject(c, heap, t.id, t.row.owner, t.row.state, StoredEvents(t.id))
  /\ tx' = [tx EXCEPT ![c] = Idle]
  /\ UNCHANGED <<backend, store, row, eventRow, acked, created>>

\* create_session: the id is the primary key.
DatabaseCreate(c) ==
  /\ tx[c].at = "creating"
  /\ LET t == tx[c] IN
       IF row[t.id] # NoRow
         THEN UNCHANGED <<heap, lists, held, row, acked>>
         ELSE /\ NewObject(c, heap, t.id, t.owner, EmptyState, <<>>)
              /\ row' = [row EXCEPT ![t.id] = [owner |-> t.owner, state |-> EmptyState]]
              /\ acked' = [acked EXCEPT ![t.id] = {}]
  /\ tx' = [tx EXCEPT ![c] = Idle]
  /\ UNCHANGED <<backend, store, eventRow, created>>

\* append_event: the base class changes the object, then the transaction of
\* the event row and of the whole state of this object begins.
DatabaseAppend(c, e) ==
  /\ backend = "database" /\ held[c] # 0 /\ tx[c] = Idle
  /\ NewEvent(e) /\ ApplyEvent(c, e)
  /\ tx' = [tx EXCEPT ![c] = [at |-> "appending", event |-> e]]
  /\ UNCHANGED <<backend, store, row, eventRow, held, acked>>

\* The commit: also for a session that was deleted meanwhile, whose event row
\* is then one without a session.
DatabaseCommit(c) ==
  /\ tx[c].at = "appending"
  /\ LET o == held[c]  id == heap[o].id IN
       /\ eventRow' = eventRow \cup {[id |-> id, event |-> tx[c].event]}
       /\ IF row[id] = NoRow
            THEN UNCHANGED <<row, acked>>
            ELSE /\ row' = [row EXCEPT ![id].state = heap[o].state]
                 /\ acked' = [acked EXCEPT ![id] = @ \cup {tx[c].event}]
       /\ tx' = [tx EXCEPT ![c] = Idle]
  /\ UNCHANGED <<backend, heap, lists, store, held, created>>

\* The transaction fails and append_event raises: the object is ahead.
DatabaseFail(c) ==
  /\ tx[c].at = "appending"
  /\ tx' = [tx EXCEPT ![c] = Idle]
  /\ UNCHANGED <<backend, heap, lists, store, row, eventRow, held, acked, created>>

\* update_session reads the row and writes it back with the change.
DatabaseUpdateRead(c, id, k) ==
  /\ backend = "database" /\ tx[c] = Idle /\ row[id] # NoRow
  /\ tx' = [tx EXCEPT ![c] = [at |-> "updating", id |-> id,
                              state |-> [row[id].state EXCEPT ![k] = 0]]]
  /\ UNCHANGED <<backend, heap, lists, store, row, eventRow, held, acked, created>>

DatabaseUpdateWrite(c) ==
  /\ tx[c].at = "updating"
  /\ LET t == tx[c] IN
       /\ row' = IF row[t.id] = NoRow THEN row ELSE [row EXCEPT ![t.id].state = t.state]
       /\ tx' = [tx EXCEPT ![c] = Idle]
  /\ UNCHANGED <<backend, heap, lists, store, eventRow, held, acked, created>>

DatabaseDelete(c, id) ==
  /\ backend = "database" /\ tx[c] = Idle
  /\ eventRow' = {r \in eventRow : r.id # id}
  /\ row' = [row EXCEPT ![id] = NoRow]
  /\ acked' = [acked EXCEPT ![id] = {}]
  /\ UNCHANGED <<backend, heap, lists, store, held, tx, created>>

(***************************************************************************)
(* The specification.                                                      *)
(***************************************************************************)
Next ==
  \/ \E id \in Ids : MemoryDelete(id) \/ (\E k \in Keys : MemoryUpdate(id, k))
  \/ \E c \in Callers :
       \/ \E id \in Ids, owner \in Owners :
            MemoryGetOrCreate(c, id, owner) \/ DatabaseGetRow(c, id, owner)
       \/ \E e \in Event : MemoryAppend(c, e) \/ DatabaseAppend(c, e)
       \/ DatabaseGetEvents(c) \/ DatabaseCreate(c) \/ DatabaseCommit(c) \/ DatabaseFail(c)
       \/ DatabaseUpdateWrite(c)
       \/ \E id \in Ids : DatabaseDelete(c, id) \/ (\E k \in Keys : DatabaseUpdateRead(c, id, k))

Spec == Init /\ [][Next]_vars

(***************************************************************************)
(* Properties.                                                             *)
(***************************************************************************)
\* The events a get_session would return.
LoadedEvents(id) ==
  IF backend = "database" THEN StoredEvents(id)
  ELSE IF store[id] = 0 THEN <<>> ELSE lists[heap[store[id]].list]

\* An event whose append_event has returned is in every later load of the
\* session, whichever object it was appended through, whoever updated the
\* session meanwhile, until the session is deleted.
AcknowledgedIsLoaded ==
  \A id \in Ids : acked[id] \subseteq ToSet(LoadedEvents(id))

==============================================================================
