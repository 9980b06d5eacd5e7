--------------------------- MODULE Services_proofs ---------------------------
(***************************************************************************)
(* The services an invocation uses, for any number of callers, programs,   *)
(* processes and files, and any bounds: sessions, artifacts, file memory,  *)
(* MCP connections, the attestation log and the signing identity. Each     *)
(* service has an inductive invariant of its own; a step of the            *)
(* composition is a step of one service, or leaves its variables alone, so *)
(* that every behaviour of the composition is one of each service.         *)
(***************************************************************************)
EXTENDS MCServices, FiniteSetTheorems, SequenceTheorems, Selections_proofs

(***************************************************************************)
(* Numbers and orders.                                                     *)
(***************************************************************************)
\* A set of natural numbers below a bound has a maximum.
LEMMA MaxIsThere ==
  ASSUME NEW n \in Nat, NEW S \in SUBSET (0..n), S # {}
  PROVE  /\ Attestation!Max(S) \in S /\ \A k \in S : k <= Attestation!Max(S)
         /\ Artifacts!Max(S) = Attestation!Max(S)
<1> DEFINE T == {n - k : k \in S}
<1>1. \E x \in T : \A y \in T : ~ (<<y, x>> \in OpToRel(<, Nat))
  <2>1. T \subseteq Nat
    <3>1. ASSUME NEW k \in S PROVE n - k \in Nat
      BY <3>1
    <3> QED BY <3>1
  <2>2. T # {}
    OBVIOUS
  <2> QED BY <2>1, <2>2, NatLessThanWellFounded, WFMin, Zenon
<1>2. PICK k \in S : \A y \in T : ~ (<<y, n - k>> \in OpToRel(<, Nat))
  BY <1>1
<1>3. \A j \in S : j <= k
  <2> SUFFICES ASSUME NEW j \in S, j > k PROVE FALSE
    OBVIOUS
  <2>1. n - j \in T /\ n - j < n - k /\ n - j \in Nat /\ n - k \in Nat
    OBVIOUS
  <2>2. <<n - j, n - k>> \in OpToRel(<, Nat)
    BY <2>1 DEF OpToRel
  <2> QED BY <1>2, <2>1, <2>2
<1>4. \E x \in S : \A y \in S : x >= y
  BY <1>3
<1> QED BY <1>4 DEF Attestation!Max, Artifacts!Max

\* The instances count as this module does.
LEMMA SameCardinality ==
  ASSUME NEW S
  PROVE  /\ Sessions!Cardinality(S) = Cardinality(S) /\ Memory!Cardinality(S) = Cardinality(S)
         /\ Attestation!Cardinality(S) = Cardinality(S)
<1>1. Sessions!Cardinality(S) = Cardinality(S)
  BY Zenon DEF Sessions!Cardinality, Cardinality
<1>2. Memory!Cardinality(S) = Cardinality(S)
  BY Zenon DEF Memory!Cardinality, Cardinality
<1>3. Attestation!Cardinality(S) = Cardinality(S)
  BY Zenon DEF Attestation!Cardinality, Cardinality
<1> QED BY <1>1, <1>2, <1>3

\* A set of natural numbers has a minimum.
LEMMA MinIsThere ==
  ASSUME NEW S \in SUBSET Nat, S # {}
  PROVE  \E m \in S : \A k \in S : m <= k
<1>1. \E m \in S : \A k \in S : ~ (<<k, m>> \in OpToRel(<, Nat))
  BY NatLessThanWellFounded, WFMin, Zenon
<1>2. PICK m \in S : \A k \in S : ~ (<<k, m>> \in OpToRel(<, Nat))
  BY <1>1
<1>3. ASSUME NEW k \in S PROVE m <= k
  <2> SUFFICES ASSUME k < m PROVE FALSE
    OBVIOUS
  <2>1. <<k, m>> \in OpToRel(<, Nat)
    BY DEF OpToRel
  <2> QED BY <1>2, <2>1
<1> QED BY <1>3

\* A finite set can be put in the order of a key that tells its elements apart.
LEMMA SortedExists ==
  ASSUME NEW U, NEW key \in [U -> Nat], NEW S \in SUBSET U, IsFiniteSet(S),
         \A x, y \in S : key[x] = key[y] => x = y
  PROVE  \E s \in [1..Cardinality(S) -> S] : \A j, k \in 1..Cardinality(S) : j < k => key[s[j]] > key[s[k]]
<1> DEFINE Sorted(T) == \E s \in [1..Cardinality(T) -> T] :
             \A j, k \in 1..Cardinality(T) : j < k => key[s[j]] > key[s[k]]
           Bad == {n \in Nat : \E T \in SUBSET S : Cardinality(T) = n /\ ~Sorted(T)}
<1>1. Bad = {}
  <2> SUFFICES ASSUME Bad # {} PROVE FALSE
    OBVIOUS
  <2>1. PICK n \in Bad : \A m \in Bad : n <= m
    <3>1. Bad \in SUBSET Nat
      OBVIOUS
    <3> HIDE DEF Bad
    <3> QED BY <3>1, MinIsThere
  <2>2. PICK T \in SUBSET S : Cardinality(T) = n /\ ~Sorted(T)
    BY <2>1
  <2> HIDE DEF Sorted
  <2>3. IsFiniteSet(T) /\ n \in Nat
    BY <2>1, FS_Subset
  <2>4. T # {}
    <3> SUFFICES ASSUME T = {} PROVE FALSE
      OBVIOUS
    <3>1. Cardinality(T) = 0
      BY FS_EmptySet
    <3>2. 1..0 = {}
      OBVIOUS
    <3> DEFINE none == [k \in 1..0 |-> k]
    <3>4. none \in [1..0 -> T]
      BY <3>2
    <3> HIDE DEF none
    <3>3. Sorted(T)
      BY <3>1, <3>2, <3>4 DEF Sorted
    <3> QED BY <2>2, <3>3
  <2>5. PICK x \in T : \A y \in T : key[x] <= key[y]
    <3> DEFINE K == {key[y] : y \in T}
    <3>1. K \in SUBSET Nat /\ K # {}
      BY <2>4
    <3> HIDE DEF K
    <3>2. PICK m \in K : \A k \in K : m <= k
      BY <3>1, MinIsThere
    <3> QED BY <3>2 DEF K
  <2> DEFINE R == T \ {x}
  <2>6. IsFiniteSet(R) /\ Cardinality(R) = n - 1 /\ n \in Nat \ {0}
    BY <2>2, <2>3, <2>4, FS_RemoveElement, FS_EmptySet
  <2>7. n - 1 \notin Bad
    BY <2>1, <2>6
  <2>8. Sorted(R)
    BY <2>6, <2>7
  <2>9. PICK s \in [1..(n - 1) -> R] : \A j, k \in 1..(n - 1) : j < k => key[s[j]] > key[s[k]]
    BY <2>6, <2>8 DEF Sorted
  <2> DEFINE t == [k \in 1..n |-> IF k = n THEN x ELSE s[k]]
  <2>10. \A k \in 1..n : k # n => k \in 1..(n - 1)
    BY <2>6
  <2>11. t \in [1..n -> T]
    BY <2>9, <2>10
  <2>12. \A k \in 1..(n - 1) : key[s[k]] > key[x]
    <3>1. ASSUME NEW k \in 1..(n - 1) PROVE key[s[k]] > key[x]
      <4>1. s[k] \in R /\ s[k] \in U /\ x \in U /\ s[k] \in S /\ x \in S
        BY <2>9, <3>1
      <4>2. key[s[k]] # key[x] /\ key[x] <= key[s[k]] /\ key[x] \in Nat /\ key[s[k]] \in Nat
        BY <2>5, <4>1
      <4> QED BY <4>2
    <3> QED BY <3>1
  <2>13. ASSUME NEW j \in 1..n, NEW k \in 1..n, j < k PROVE key[t[j]] > key[t[k]]
    <3>1. j \in 1..(n - 1)
      BY <2>6, <2>13
    <3>2. CASE k = n
      BY <2>12, <3>1, <3>2
    <3>3. CASE k # n
      BY <2>9, <2>10, <2>13, <3>1, <3>3
    <3> QED BY <3>2, <3>3
  <2>14. Sorted(T)
    BY <2>2, <2>11, <2>13 DEF Sorted
  <2> QED BY <2>2, <2>14
<1>2. Cardinality(S) \in Nat
  BY FS_CardinalityType
<1>3. Sorted(S)
  BY <1>1, <1>2
<1> QED BY <1>3

(***************************************************************************)
(* Sessions.                                                               *)
(***************************************************************************)
Rows(id) == {x \in eventRow : x.id = id}
Stored(id) == {r.event : r \in Rows(id)}

\* An event is found by its number; a transaction belongs to the database, and
\* the one of an event to the object the caller holds.
Ordered ==
  /\ Len(lists) <= Len(heap) /\ Len(heap) <= SessionObjects
  /\ \A r \in eventRow : r.event.n <= created
  /\ \A c \in Users : tx[c].at = "appending" => tx[c].event.n <= created /\ held[c] # 0
  /\ \A r, q \in eventRow : r.event.n = q.event.n => r.event = q.event
  /\ \A r \in eventRow, c \in Users :
       tx[c].at = "appending" /\ tx[c].event.n = r.event.n => tx[c].event = r.event
  /\ \A c, d \in Users : tx[c].at = "appending" /\ tx[d].at = "appending"
                           /\ tx[c].event.n = tx[d].event.n => tx[c].event = tx[d].event
  /\ backend = "memory" => \A c \in Users : tx[c] = Sessions!Idle

\* The objects of a stored session have the list of the stored one.
ListIsShared ==
  backend = "memory" =>
    /\ \A id \in Ids : store[id] # 0 => heap[store[id]].id = id /\ heap[store[id]].live
    /\ \A o \in DOMAIN heap : heap[o].live =>
         store[heap[o].id] # 0 /\ heap[o].list = heap[store[heap[o].id]].list

\* Acknowledged events are in the table, or in the list of the stored object.
AckedIsStored ==
  \A id \in Ids :
    IF backend = "database" THEN acked[id] \subseteq Stored(id)
    ELSE acked[id] # {} => store[id] # 0 /\ acked[id] \subseteq Sessions!ToSet(lists[heap[store[id]].list])

SessionInv == Sessions!TypeOK /\ Ordered /\ ListIsShared /\ AckedIsStored

Object == [id : Ids, owner : Owners, state : Sessions!State, list : 1..SessionObjects, live : BOOLEAN]

\* What TypeOK says of the objects, the lists and the callers.
LEMMA SessionBounds ==
  ASSUME Sessions!SessionsAssumption, Sessions!TypeOK
  PROVE  /\ SessionEvents \in Nat /\ SessionObjects \in Nat /\ created \in 0..SessionEvents
         /\ heap \in Seq(Object) /\ Len(heap) \in Nat /\ DOMAIN heap = 1..Len(heap)
         /\ lists \in Seq(Seq(Sessions!Event)) /\ Len(lists) \in Nat /\ DOMAIN lists = 1..Len(lists)
         /\ \A o \in 1..Len(heap) : heap[o] \in Object /\ heap[o].list \in 1..Len(lists)
         /\ \A l \in 1..Len(lists) : lists[l] \in Seq(Sessions!Event)
         /\ \A c \in Users : held[c] \in 0..Len(heap)
         /\ \A id \in Ids : store[id] \in 0..Len(heap)
<1>1. SessionEvents \in Nat /\ SessionObjects \in Nat /\ created \in 0..SessionEvents
  BY DEF Sessions!SessionsAssumption, Sessions!TypeOK
<1>2. heap \in Seq(Object) /\ Len(heap) \in Nat /\ DOMAIN heap = 1..Len(heap)
  BY DEF Sessions!TypeOK, Object
<1>3. lists \in Seq(Seq(Sessions!Event)) /\ Len(lists) \in Nat /\ DOMAIN lists = 1..Len(lists)
  BY DEF Sessions!TypeOK
<1>4. \A o \in 1..Len(heap) : heap[o] \in Object /\ heap[o].list \in 1..Len(lists)
  BY <1>2, <1>3, ElementOfSeq DEF Sessions!TypeOK
<1>5. \A l \in 1..Len(lists) : lists[l] \in Seq(Sessions!Event)
  BY <1>3, ElementOfSeq
<1>6. /\ \A c \in Users : held[c] \in 0..Len(heap)
      /\ \A id \in Ids : store[id] \in 0..Len(heap)
  BY DEF Sessions!TypeOK
<1> QED BY <1>1, <1>2, <1>3, <1>4, <1>5, <1>6

\* A transaction has the fields its step needs.
LEMMA TransactionKinds ==
  ASSUME Sessions!TypeOK, NEW c \in Users
  PROVE  /\ tx[c].at = "loading" => tx[c] \in [at : {"loading"}, id : Ids, row : Sessions!Row \ {Sessions!NoRow}]
         /\ tx[c].at = "creating" => tx[c] \in [at : {"creating"}, id : Ids, owner : Owners]
         /\ tx[c].at = "appending" => tx[c] \in [at : {"appending"}, event : Sessions!Event]
         /\ tx[c].at = "updating" => tx[c] \in [at : {"updating"}, id : Ids, state : Sessions!State]
<1>1. tx[c] \in Sessions!Transaction
  BY DEF Sessions!TypeOK
<1> QED BY <1>1 DEF Sessions!Transaction, Sessions!Idle

\* create_session and get_session: one object more, at the end.
LEMMA ObjectIsMade ==
  ASSUME Sessions!SessionsAssumption, Sessions!TypeOK, Ordered,
         NEW c \in Users, NEW objects \in Seq(Object), Len(objects) = Len(heap),
         \A o \in 1..Len(heap) : objects[o].list = heap[o].list,
         NEW id \in Ids, NEW owner \in Owners, NEW state \in Sessions!State, NEW events \in Seq(Sessions!Event),
         Sessions!NewObject(c, objects, id, owner, state, events)
  PROVE  LET n == Len(heap) + 1 IN
         /\ heap' \in Seq(Object) /\ Len(heap') = n /\ n <= SessionObjects
         /\ \A o \in 1..Len(heap) : heap'[o] = objects[o]
         /\ heap'[n].id = id /\ heap'[n].live /\ heap'[n].list = Len(lists) + 1
         /\ lists' \in Seq(Seq(Sessions!Event)) /\ Len(lists') = Len(lists) + 1
         /\ \A l \in 1..Len(lists) : lists'[l] = lists[l]
         /\ \A o \in DOMAIN heap' : heap'[o].list \in DOMAIN lists'
         /\ held' \in [Users -> 0..n] /\ held'[c] = n
         /\ \A d \in Users \ {c} : held'[d] = held[d]
<1> DEFINE n == Len(heap) + 1
           new == [id |-> id, owner |-> owner, state |-> state, list |-> Len(lists) + 1, live |-> TRUE]
<1>1. Len(heap) < SessionObjects /\ lists' = Append(lists, events) /\ heap' = Append(objects, new)
      /\ held' = [held EXCEPT ![c] = n]
  BY DEF Sessions!NewObject
<1>2. /\ Len(heap) \in Nat /\ Len(lists) \in Nat /\ SessionObjects \in Nat /\ lists \in Seq(Seq(Sessions!Event))
      /\ \A o \in 1..Len(heap) : heap[o].list \in 1..Len(lists)
  BY SessionBounds
<1>3. n \in 1..SessionObjects /\ Len(lists) + 1 \in 1..SessionObjects
  BY <1>1, <1>2 DEF Ordered
<1>4. new \in Object /\ new.id = id /\ new.live /\ new.list = Len(lists) + 1
  BY <1>3 DEF Object
<1> HIDE DEF new
<1>5. /\ heap' \in Seq(Object) /\ Len(heap') = n /\ heap'[n] = new
      /\ \A o \in 1..Len(heap) : heap'[o] = objects[o]
  BY <1>1, <1>2, <1>4, AppendProperties
<1>6. /\ lists' \in Seq(Seq(Sessions!Event)) /\ Len(lists') = Len(lists) + 1
      /\ \A l \in 1..Len(lists) : lists'[l] = lists[l]
  BY <1>1, <1>2, AppendProperties
<1>7. ASSUME NEW o \in DOMAIN heap' PROVE heap'[o].list \in DOMAIN lists'
  <2>1. DOMAIN heap' = 1..n /\ DOMAIN lists' = 1..(Len(lists) + 1)
    BY <1>5, <1>6
  <2>2. CASE o = n
    <3>1. heap'[o].list = Len(lists) + 1
      BY <1>4, <1>5, <2>2
    <3> QED BY <1>2, <2>1, <3>1
  <2>3. CASE o # n
    <3>1. o \in 1..Len(heap)
      BY <1>2, <2>1, <2>3
    <3> QED BY <1>2, <1>5, <2>1, <3>1, SMTT(30)
  <2> QED BY <2>2, <2>3
<1>8. held' \in [Users -> 0..n] /\ held'[c] = n /\ \A d \in Users \ {c} : held'[d] = held[d]
  BY <1>1, <1>2 DEF Sessions!TypeOK
<1> QED BY <1>1, <1>2, <1>3, <1>4, <1>5, <1>6, <1>7, <1>8

\* append_event of the base class: the list of the object grows.
LEMMA EventIsApplied ==
  ASSUME Sessions!SessionsAssumption, Sessions!TypeOK, NEW c \in Users, held[c] # 0, NEW e \in Sessions!Event, Sessions!ApplyEvent(c, e)
  PROVE  /\ heap' \in Seq(Object) /\ Len(heap') = Len(heap) /\ held[c] \in 1..Len(heap)
         /\ \A o \in 1..Len(heap) : /\ heap'[o].id = heap[o].id /\ heap'[o].live = heap[o].live
                                    /\ heap'[o].list = heap[o].list
         /\ lists' \in Seq(Seq(Sessions!Event)) /\ Len(lists') = Len(lists)
         /\ \A o \in DOMAIN heap' : heap'[o].list \in DOMAIN lists'
         /\ e \in Sessions!ToSet(lists'[heap[held[c]].list])
         /\ \A l \in 1..Len(lists) : Sessions!ToSet(lists[l]) \subseteq Sessions!ToSet(lists'[l])
<1> DEFINE o == held[c]
           l == heap[o].list
<1>1. /\ o \in 1..Len(heap) /\ heap[o] \in Object /\ l \in 1..Len(lists) /\ lists[l] \in Seq(Sessions!Event)
      /\ heap \in Seq(Object) /\ lists \in Seq(Seq(Sessions!Event)) /\ Len(heap) \in Nat /\ Len(lists) \in Nat
  BY SessionBounds
<1> DEFINE new == [heap[o] EXCEPT !.state = Sessions!WithDelta(@, e)]
<1>2. new \in Object /\ new.id = heap[o].id /\ new.live = heap[o].live /\ new.list = l
  <2>1. Sessions!WithDelta(heap[o].state, e) \in Sessions!State
    <3>1. heap[o].state \in [Keys -> 0..SessionEvents]
      BY <1>1 DEF Sessions!State, Object
    <3>2. e.key \in Keys /\ e.n \in 0..SessionEvents
      BY DEF Sessions!Event
    <3> QED BY <3>1, <3>2 DEF Sessions!WithDelta, Sessions!State
  <2> QED BY <1>1, <2>1 DEF Object
<1>3. heap' = [heap EXCEPT ![o] = new] /\ lists' = [lists EXCEPT ![l] = Append(lists[l], e)]
  BY <1>1 DEF Sessions!ApplyEvent
<1> HIDE DEF new
<1>4. Append(lists[l], e) \in Seq(Sessions!Event) /\ Sessions!ToSet(Append(lists[l], e)) = Sessions!ToSet(lists[l]) \cup {e}
  <2>1. /\ Append(lists[l], e) \in Seq(Sessions!Event) /\ Len(Append(lists[l], e)) = Len(lists[l]) + 1
        /\ \A i \in 1..Len(lists[l]) : Append(lists[l], e)[i] = lists[l][i]
        /\ Append(lists[l], e)[Len(lists[l]) + 1] = e /\ Len(lists[l]) \in Nat
    BY <1>1, AppendProperties
  <2>2. DOMAIN lists[l] = 1..Len(lists[l]) /\ DOMAIN Append(lists[l], e) = 1..(Len(lists[l]) + 1)
    BY <1>1, <2>1
  <2>3. \A i \in 1..(Len(lists[l]) + 1) : i \in 1..Len(lists[l]) \/ i = Len(lists[l]) + 1
    BY <2>1
  <2>4. ASSUME NEW x \in Sessions!ToSet(Append(lists[l], e)) PROVE x \in Sessions!ToSet(lists[l]) \cup {e}
    BY <2>1, <2>2, <2>3 DEF Sessions!ToSet
  <2>5. e \in Sessions!ToSet(Append(lists[l], e))
    <3>1. Len(lists[l]) + 1 \in DOMAIN Append(lists[l], e)
      BY <2>1, <2>2
    <3> QED BY <2>1, <3>1, Zenon DEF Sessions!ToSet
  <2>6. Sessions!ToSet(lists[l]) \subseteq Sessions!ToSet(Append(lists[l], e))
    BY <2>1, <2>2, SMTT(30) DEF Sessions!ToSet
  <2> QED BY <2>1, <2>4, <2>5, <2>6
<1>5. heap' \in Seq(Object) /\ Len(heap') = Len(heap)
  BY <1>1, <1>2, <1>3, ExceptSeq
<1>6. lists' \in Seq(Seq(Sessions!Event)) /\ Len(lists') = Len(lists)
  BY <1>1, <1>3, <1>4, ExceptSeq
<1>7. \A i \in 1..Len(heap) : heap'[i] = IF i = o THEN new ELSE heap[i]
  BY <1>1, <1>3
<1>8. \A i \in 1..Len(lists) : lists'[i] = IF i = l THEN Append(lists[l], e) ELSE lists[i]
  BY <1>1, <1>3
<1> HIDE DEF l
<1>9. \A i \in 1..Len(heap) : heap[i].list \in 1..Len(lists)
  BY SessionBounds
<1>10. DOMAIN heap' = 1..Len(heap) /\ DOMAIN lists' = 1..Len(lists)
  BY <1>5, <1>6
<1> USE DEF l
<1>11. \A i \in 1..Len(heap) : /\ heap'[i].id = heap[i].id /\ heap'[i].live = heap[i].live
                              /\ heap'[i].list = heap[i].list
  BY <1>2, <1>7
<1>12. e \in Sessions!ToSet(lists'[l]) /\ \A i \in 1..Len(lists) : Sessions!ToSet(lists[i]) \subseteq Sessions!ToSet(lists'[i])
  BY <1>1, <1>4, <1>8
<1> QED BY <1>1, <1>5, <1>6, <1>9, <1>10, <1>11, <1>12

\* get_session: the events of the table, every one of them once.
LEMMA StoredAreListed ==
  ASSUME Sessions!SessionsAssumption, Sessions!TypeOK, Ordered, NEW id \in Ids
  PROVE  Sessions!StoredEvents(id) \in Seq(Sessions!Event) /\ Sessions!ToSet(Sessions!StoredEvents(id)) = Stored(id)
<1> DEFINE events == Stored(id)
           key == [e \in Sessions!Event |-> SessionEvents - e.n]
           n == Cardinality(events)
<1>1. SessionEvents \in Nat
  BY DEF Sessions!SessionsAssumption
<1>2. events \subseteq Sessions!Event /\ \A e \in events : e.n \in 1..SessionEvents
  BY DEF Stored, Rows, Sessions!TypeOK, Sessions!Event
<1>3. \A e, f \in events : e.n = f.n => e = f
  BY DEF Stored, Rows, Ordered
<1>4. IsFiniteSet(events) /\ n \in Nat
  <2> DEFINE number == [e \in events |-> e.n]
  <2>1. number \in Injection(events, 1..SessionEvents)
    BY <1>2, <1>3 DEF Injection, IsInjective
  <2>2. IsFiniteSet(1..SessionEvents)
    BY <1>1, FS_Interval
  <2> HIDE DEF number, events
  <2> QED BY <2>1, <2>2, FS_Injection, FS_CardinalityType DEF n
<1>5. key \in [Sessions!Event -> Nat] /\ \A e, f \in events : key[e] = key[f] => e = f
  BY <1>1, <1>2, <1>3 DEF Sessions!Event
<1>6. PICK s \in [1..n -> events] : \A j, k \in 1..n : j < k => key[s[j]] > key[s[k]]
  <2> HIDE DEF key, events
  <2> QED BY <1>2, <1>4, <1>5, SortedExists
<1>7. \A j, k \in DOMAIN s : j < k => s[j].n < s[k].n
  <2> SUFFICES ASSUME NEW j \in 1..n, NEW k \in 1..n, j < k PROVE s[j].n < s[k].n
    OBVIOUS
  <2>1. s[j] \in Sessions!Event /\ s[k] \in Sessions!Event /\ s[j].n \in 1..SessionEvents /\ s[k].n \in 1..SessionEvents
    BY <1>2
  <2>2. SessionEvents - s[j].n > SessionEvents - s[k].n
    BY <1>6, <2>1
  <2> QED BY <1>1, <2>1, <2>2
<1> DEFINE t == Sessions!StoredEvents(id)
<1>8. t \in [1..n -> events] /\ \A j, k \in 1..n : j < k => t[j].n < t[k].n
  BY <1>6, <1>7, SameCardinality DEF Sessions!StoredEvents, Stored, Rows
<1> HIDE DEF t, events
<1>9. t \in Surjection(1..n, events)
  <2>1. \A j, k \in 1..n : t[j] = t[k] => j = k
    <3> SUFFICES ASSUME NEW j \in 1..n, NEW k \in 1..n, j < k, t[j] = t[k] PROVE FALSE
      BY <1>4
    <3>1. t[j].n < t[k].n /\ t[j].n \in 1..SessionEvents
      BY <1>2, <1>8
    <3> QED BY <3>1
  <2>2. t \in Injection(1..n, events)
    BY <1>8, <2>1 DEF Injection, IsInjective
  <2>3. Cardinality(1..n) = n
    BY <1>4, FS_Interval
  <2> QED BY <1>4, <2>2, <2>3, FS_Injection
<1>10. Sessions!ToSet(t) = events
  BY <1>8, <1>9 DEF Sessions!ToSet, Surjection
<1>11. t \in Seq(Sessions!Event)
  BY <1>2, <1>4, <1>8, SeqDef
<1> QED BY <1>10, <1>11 DEF t, events

LEMMA SessionsInit ==
  ASSUME Sessions!SessionsAssumption, Sessions!Init PROVE SessionInv
<1>1. Sessions!TypeOK
  <2>1. heap = <<>> /\ lists = <<>> /\ Len(heap) = 0
    BY DEF Sessions!Init
  <2>2. heap \in Seq([id : Ids, owner : Owners, state : Sessions!State, list : 1..SessionObjects, live : BOOLEAN])
    BY <2>1
  <2>3. lists \in Seq(Seq(Sessions!Event))
    BY <2>1
  <2>4. \A o \in DOMAIN heap : heap[o].list \in DOMAIN lists
    BY <2>1
  <2>5. /\ store \in [Ids -> 0..Len(heap)] /\ held \in [Users -> 0..Len(heap)]
        /\ row \in [Ids -> Sessions!Row] /\ eventRow \subseteq [id : Ids, event : Sessions!Event]
        /\ tx \in [Users -> Sessions!Transaction] /\ acked \in [Ids -> SUBSET Sessions!Event]
    BY <2>1 DEF Sessions!Init, Sessions!Row, Sessions!Transaction
  <2>6. created \in 0..SessionEvents /\ backend \in {"memory", "database"}
    BY DEF Sessions!Init, Sessions!SessionsAssumption
  <2> QED BY <2>2, <2>3, <2>4, <2>5, <2>6 DEF Sessions!TypeOK
<1>2. Ordered
  BY DEF Sessions!Init, Ordered, Sessions!Idle, Sessions!SessionsAssumption
<1>3. ListIsShared /\ AckedIsStored
  BY DEF Sessions!Init, ListIsShared, AckedIsStored
<1> QED BY <1>1, <1>2, <1>3 DEF SessionInv

LEMMA MemorySteps ==
  ASSUME Sessions!SessionsAssumption, SessionInv, backend = "memory",
         \/ \E id \in Ids : Sessions!MemoryDelete(id) \/ (\E k \in Keys : Sessions!MemoryUpdate(id, k))
         \/ \E c \in Users : \/ \E id \in Ids, owner \in Owners : Sessions!MemoryGetOrCreate(c, id, owner)
                             \/ \E e \in Sessions!Event : Sessions!MemoryAppend(c, e)
  PROVE  SessionInv'
<1> USE DEF SessionInv
<1>0. /\ SessionEvents \in Nat /\ SessionObjects \in Nat /\ created \in 0..SessionEvents
      /\ heap \in Seq(Object) /\ Len(heap) \in Nat /\ DOMAIN heap = 1..Len(heap)
      /\ lists \in Seq(Seq(Sessions!Event)) /\ Len(lists) \in Nat /\ DOMAIN lists = 1..Len(lists)
      /\ \A o \in 1..Len(heap) : heap[o] \in Object /\ heap[o].list \in 1..Len(lists)
      /\ \A l \in 1..Len(lists) : lists[l] \in Seq(Sessions!Event)
      /\ \A c \in Users : held[c] \in 0..Len(heap)
      /\ \A id \in Ids : store[id] \in 0..Len(heap)
  BY SessionBounds
\* What the invariant says of this service.
<1>1. /\ \A id \in Ids : store[id] # 0 =>
           /\ store[id] \in 1..Len(heap) /\ heap[store[id]].id = id /\ heap[store[id]].live
           /\ heap[store[id]].list \in 1..Len(lists)
      /\ \A o \in 1..Len(heap) : heap[o].live =>
           /\ heap[o].id \in Ids /\ store[heap[o].id] # 0
           /\ heap[o].list = heap[store[heap[o].id]].list
      /\ \A id \in Ids : acked[id] # {} =>
           store[id] # 0 /\ acked[id] \subseteq Sessions!ToSet(lists[heap[store[id]].list])
      /\ Len(lists) <= Len(heap) /\ Len(heap) <= SessionObjects
  <2>1. \A id \in Ids : store[id] # 0 => store[id] \in 1..Len(heap)
    BY <1>0
  <2>2. \A o \in 1..Len(heap) : heap[o].id \in Ids
    BY <1>0 DEF Object
  <2>3. Len(lists) <= Len(heap) /\ Len(heap) <= SessionObjects
    BY DEF Ordered
  <2>4. /\ \A id \in Ids : store[id] # 0 => heap[store[id]].id = id /\ heap[store[id]].live
        /\ \A o \in 1..Len(heap) : heap[o].live =>
             store[heap[o].id] # 0 /\ heap[o].list = heap[store[heap[o].id]].list
    BY <1>0, Zenon DEF ListIsShared
  <2>5. \A id \in Ids : acked[id] # {} =>
           store[id] # 0 /\ acked[id] \subseteq Sessions!ToSet(lists[heap[store[id]].list])
    BY DEF AckedIsStored
  <2> QED BY <1>0, <2>1, <2>2, <2>3, <2>4, <2>5, Zenon
<1>2. ASSUME UNCHANGED <<backend, row, eventRow, tx>>,
             created' \in 0..SessionEvents, created <= created',
             heap' \in Seq(Object), lists' \in Seq(Seq(Sessions!Event)),
             \A o \in DOMAIN heap' : heap'[o].list \in DOMAIN lists',
             Len(lists') <= Len(heap'), Len(heap') <= SessionObjects,
             store' \in [Ids -> 0..Len(heap')], held' \in [Users -> 0..Len(heap')],
             acked' \in [Ids -> SUBSET Sessions!Event]
      PROVE  Sessions!TypeOK' /\ Ordered'
  <2>1. Sessions!TypeOK'
    BY <1>2 DEF Sessions!TypeOK, Object
  <2>2. \A r \in eventRow : r.event.n <= created /\ r.event.n \in Nat
    BY DEF Ordered, Sessions!TypeOK, Sessions!Event
  <2>3. \A c \in Users : tx'[c].at # "appending"
    BY <1>2 DEF Ordered, Sessions!Idle
  <2>4. \A r \in eventRow : r.event.n <= created'
    BY <1>0, <1>2, <2>2
  <2>5. Ordered'
    BY <1>2, <2>3, <2>4 DEF Ordered
  <2> QED BY <2>1, <2>5
<1>3. ASSUME NEW id \in Ids
      PROVE  /\ Sessions!Dead(id) \in Seq(Object) /\ Len(Sessions!Dead(id)) = Len(heap)
             /\ \A o \in 1..Len(heap) :
                  /\ Sessions!Dead(id)[o].id = heap[o].id /\ Sessions!Dead(id)[o].list = heap[o].list
                  /\ Sessions!Dead(id)[o].live <=> heap[o].live /\ heap[o].id # id
  <2>1. \A o \in 1..Len(heap) : Sessions!Dead(id)[o] = IF heap[o].id = id THEN [heap[o] EXCEPT !.live = FALSE] ELSE heap[o]
    BY <1>0 DEF Sessions!Dead
  <2>2. ASSUME NEW o \in 1..Len(heap)
        PROVE  /\ Sessions!Dead(id)[o] \in Object
               /\ Sessions!Dead(id)[o].id = heap[o].id /\ Sessions!Dead(id)[o].list = heap[o].list
               /\ Sessions!Dead(id)[o].live <=> heap[o].live /\ heap[o].id # id
    BY <1>0, <2>1 DEF Object
  <2>3. Sessions!Dead(id) \in [1..Len(heap) -> Object]
    BY <1>0, <2>2 DEF Sessions!Dead
  <2>4. Sessions!Dead(id) \in Seq(Object) /\ Len(Sessions!Dead(id)) = Len(heap)
    <3> DEFINE d == Sessions!Dead(id)
               n == Len(heap)
    <3>1. n \in Nat /\ d \in [1..n -> Object]
      BY <1>0, <2>3
    <3> HIDE DEF d, n
    <3>2. d \in Seq(Object)
      BY <3>1, SeqDef
    <3>3. Len(d) = n
      BY <3>1, <3>2
    <3> QED BY <3>2, <3>3 DEF d, n
  <2> QED BY <2>2, <2>4
<1>4. ASSUME NEW id \in Ids, Sessions!MemoryDelete(id) PROVE SessionInv'
  <2>1. /\ store' = [store EXCEPT ![id] = 0] /\ heap' = Sessions!Dead(id) /\ acked' = [acked EXCEPT ![id] = {}]
        /\ UNCHANGED <<backend, lists, held, created, row, eventRow, tx>>
    BY <1>4 DEF Sessions!MemoryDelete, Sessions!dbVars
  <2>2. Sessions!TypeOK' /\ Ordered'
    <3>1. \A o \in DOMAIN heap' : heap'[o].list \in DOMAIN lists'
      BY <1>0, <1>3, <2>1
    <3>2. /\ store' \in [Ids -> 0..Len(heap')] /\ held' \in [Users -> 0..Len(heap')]
          /\ acked' \in [Ids -> SUBSET Sessions!Event]
      BY <1>0, <1>3, <2>1 DEF Sessions!TypeOK
    <3> QED BY <1>0, <1>1, <1>2, <1>3, <2>1, <3>1, <3>2
  <2>3. ListIsShared'
    <3>1. DOMAIN heap' = 1..Len(heap)
      BY <1>0, <1>3, <2>1
    <3>2. ASSUME NEW i \in Ids, store'[i] # 0 PROVE heap'[store'[i]].id = i /\ heap'[store'[i]].live
      <4>1. i # id /\ store'[i] = store[i]
        BY <2>1, <3>2 DEF Sessions!TypeOK
      <4>2. store[i] \in 1..Len(heap) /\ heap[store[i]].id = i /\ heap[store[i]].live
        BY <1>1, <3>2, <4>1, Zenon
      <4>3. heap'[store[i]].id = i /\ heap'[store[i]].live
        BY <1>3, <2>1, <4>1, <4>2
      <4> QED BY <4>1, <4>3, Zenon
    <3>3. ASSUME NEW o \in 1..Len(heap), heap'[o].live
          PROVE  store'[heap'[o].id] # 0 /\ heap'[o].list = heap'[store'[heap'[o].id]].list
      <4>1. heap[o].live /\ heap[o].id # id /\ heap[o].id \in Ids
        BY <1>0, <1>3, <2>1, <3>3 DEF Object
      <4>2. store'[heap[o].id] = store[heap[o].id] /\ store[heap[o].id] \in 1..Len(heap)
        BY <1>0, <1>1, <2>1, <4>1 DEF Sessions!TypeOK
      <4> QED BY <1>1, <1>3, <2>1, <4>1, <4>2
    <3> QED BY <3>1, <3>2, <3>3 DEF ListIsShared
  <2>4. AckedIsStored'
    <3>1. ASSUME NEW i \in Ids, acked'[i] # {}
          PROVE  store'[i] # 0 /\ acked'[i] \subseteq Sessions!ToSet(lists'[heap'[store'[i]].list])
      <4>1. i # id /\ acked'[i] = acked[i] /\ store'[i] = store[i]
        BY <2>1, <3>1 DEF Sessions!TypeOK
      <4>2. store[i] \in 1..Len(heap)
        BY <1>0, <1>1, <3>1, <4>1
      <4> QED BY <1>1, <1>3, <2>1, <3>1, <4>1, <4>2, SMTT(30)
    <3> QED BY <2>1, <3>1 DEF AckedIsStored
  <2> QED BY <2>2, <2>3, <2>4
<1>5. ASSUME NEW id \in Ids, NEW k \in Keys, Sessions!MemoryUpdate(id, k) PROVE SessionInv'
  <2> DEFINE old == heap[store[id]]
             new == [old EXCEPT !.state[k] = 0]
             n == Len(heap) + 1
  <2>1. /\ store[id] \in 1..Len(heap) /\ Len(heap) < SessionObjects
        /\ heap' = Append(heap, new) /\ store' = [store EXCEPT ![id] = n]
        /\ UNCHANGED <<backend, lists, held, acked, created, row, eventRow, tx>>
    BY <1>0, <1>5 DEF Sessions!MemoryUpdate, Sessions!dbVars
  <2>2. new \in Object /\ new.id = id /\ new.live /\ new.list = old.list /\ old.list \in 1..Len(lists)
    <3>1. old \in Object /\ old.id = id /\ old.live /\ old.list \in 1..Len(lists)
      BY <1>0, <1>1, <2>1
    <3> HIDE DEF old
    <3>2. [old.state EXCEPT ![k] = 0] \in Sessions!State
      BY <1>0, <3>1 DEF Sessions!State, Object
    <3> QED BY <3>1, <3>2 DEF Object
  <2> HIDE DEF new
  <2>3. /\ heap' \in Seq(Object) /\ Len(heap') = n /\ heap'[n] = new
        /\ \A o \in 1..Len(heap) : heap'[o] = heap[o]
    BY <1>0, <2>1, <2>2, AppendProperties
  <2>4. DOMAIN heap' = 1..n /\ \A o \in 1..n : o \in 1..Len(heap) \/ o = n
    BY <1>0, <2>3
  <2>5. Sessions!TypeOK' /\ Ordered'
    <3>1. \A o \in DOMAIN heap' : heap'[o].list \in DOMAIN lists'
      BY <1>0, <2>1, <2>2, <2>3, <2>4
    <3>2. /\ store' \in [Ids -> 0..Len(heap')] /\ held' \in [Users -> 0..Len(heap')]
          /\ acked' \in [Ids -> SUBSET Sessions!Event]
      BY <1>0, <2>1, <2>3 DEF Sessions!TypeOK
    <3>3. Len(lists') <= Len(heap') /\ Len(heap') <= SessionObjects
      BY <1>0, <1>1, <2>1, <2>3
    <3> QED BY <1>0, <1>2, <2>1, <2>3, <3>1, <3>2, <3>3
  <2>6. store'[id] = n /\ \A i \in Ids \ {id} : store'[i] = store[i]
    BY <2>1 DEF Sessions!TypeOK
  <2>7. ListIsShared'
    <3>1. ASSUME NEW i \in Ids, store'[i] # 0 PROVE heap'[store'[i]].id = i /\ heap'[store'[i]].live
      <4>1. CASE i = id
        BY <2>2, <2>3, <2>6, <4>1
      <4>2. CASE i # id
        <5>1. store'[i] = store[i] /\ store[i] \in 1..Len(heap)
          BY <1>0, <2>6, <3>1, <4>2
        <5> QED BY <1>1, <2>3, <5>1
      <4> QED BY <4>1, <4>2
    <3>2. ASSUME NEW o \in 1..n, heap'[o].live
          PROVE  store'[heap'[o].id] # 0 /\ heap'[o].list = heap'[store'[heap'[o].id]].list
      <4>1. CASE o = n
        BY <1>0, <2>2, <2>3, <2>6, <4>1
      <4>2. CASE o \in 1..Len(heap)
        <5>1. heap'[o] = heap[o] /\ heap[o].live /\ heap[o].id \in Ids
          BY <1>0, <2>3, <3>2, <4>2 DEF Object
        <5>2. store[heap[o].id] \in 1..Len(heap) /\ heap[o].list = heap[store[heap[o].id]].list
          BY <1>0, <1>1, <4>2, <5>1
        <5>3. CASE heap[o].id = id
          BY <1>0, <2>2, <2>3, <2>6, <5>1, <5>2, <5>3
        <5>4. CASE heap[o].id # id
          BY <2>3, <2>6, <5>1, <5>2, <5>4
        <5> QED BY <5>3, <5>4
      <4> QED BY <2>4, <4>1, <4>2
    <3> QED BY <2>4, <3>1, <3>2 DEF ListIsShared
  <2>8. AckedIsStored'
    <3>1. ASSUME NEW i \in Ids, acked'[i] # {}
          PROVE  store'[i] # 0 /\ acked'[i] \subseteq Sessions!ToSet(lists'[heap'[store'[i]].list])
      <4>1. acked[i] # {} /\ acked'[i] = acked[i] /\ lists' = lists
        BY <2>1, <3>1
      <4>4. store[i] \in 1..Len(heap) /\ acked[i] \subseteq Sessions!ToSet(lists[heap[store[i]].list])
        BY <1>1, <4>1, Zenon
      <4>2. CASE i = id
        <5>1. n # 0 /\ heap'[n].list = heap[store[id]].list
          BY <1>0, <2>2, <2>3
        <5> QED BY <2>6, <4>1, <4>2, <4>4, <5>1, Zenon
      <4>3. CASE i # id
        <5>1. store'[i] # 0 /\ heap'[store'[i]] = heap[store[i]]
          BY <1>0, <2>3, <2>6, <4>3, <4>4
        <5> QED BY <2>6, <4>1, <4>3, <4>4, <5>1, Zenon
      <4> QED BY <4>2, <4>3
    <3> QED BY <2>1, <3>1 DEF AckedIsStored
  <2> QED BY <2>5, <2>7, <2>8
<1>6. ASSUME NEW c \in Users, NEW id \in Ids, NEW owner \in Owners, Sessions!MemoryGetOrCreate(c, id, owner)
      PROVE  SessionInv'
  <2>1. UNCHANGED <<backend, created, row, eventRow, tx>>
    BY <1>6 DEF Sessions!MemoryGetOrCreate, Sessions!dbVars
  <2>2. CASE Sessions!MemoryGet(c, id)
    <3>1. /\ UNCHANGED <<heap, lists, store, acked>>
          /\ held' \in [Users -> 0..Len(heap)]
      BY <1>0, <2>2 DEF Sessions!MemoryGet, Sessions!TypeOK
    <3>2. Sessions!TypeOK' /\ Ordered'
      BY <1>0, <1>1, <1>2, <2>1, <3>1 DEF Sessions!TypeOK
    <3>3. ListIsShared' /\ AckedIsStored'
      BY <2>1, <3>1 DEF ListIsShared, AckedIsStored, Stored, Rows
    <3> QED BY <3>2, <3>3
  <2>3. CASE Sessions!MemoryCreate(c, id, owner)
    <3> DEFINE n == Len(heap) + 1
    <3>1. /\ store' = [store EXCEPT ![id] = n] /\ acked' = [acked EXCEPT ![id] = {}]
          /\ Sessions!NewObject(c, Sessions!Dead(id), id, owner, Sessions!EmptyState, <<>>)
      BY <2>3 DEF Sessions!MemoryCreate
    <3>2. Sessions!EmptyState \in Sessions!State /\ <<>> \in Seq(Sessions!Event)
      BY <1>0 DEF Sessions!EmptyState, Sessions!State
    <3>3. /\ heap' \in Seq(Object) /\ Len(heap') = n /\ n <= SessionObjects
          /\ \A o \in 1..Len(heap) : heap'[o] = Sessions!Dead(id)[o]
          /\ heap'[n].id = id /\ heap'[n].live /\ heap'[n].list = Len(lists) + 1
          /\ lists' \in Seq(Seq(Sessions!Event)) /\ Len(lists') = Len(lists) + 1
          /\ \A l \in 1..Len(lists) : lists'[l] = lists[l]
          /\ \A o \in DOMAIN heap' : heap'[o].list \in DOMAIN lists'
          /\ held' \in [Users -> 0..n]
      <4>1. /\ Sessions!Dead(id) \in Seq(Object) /\ Len(Sessions!Dead(id)) = Len(heap)
            /\ \A o \in 1..Len(heap) : Sessions!Dead(id)[o].list = heap[o].list
        BY <1>3, Zenon
      <4>2. PICK objects \in Seq(Object), state \in Sessions!State, events \in Seq(Sessions!Event) :
              objects = Sessions!Dead(id) /\ state = Sessions!EmptyState /\ events = <<>>
        BY <3>2, <4>1, Zenon
      <4>3. /\ Sessions!NewObject(c, objects, id, owner, state, events) /\ Len(objects) = Len(heap)
            /\ \A o \in 1..Len(heap) : objects[o].list = heap[o].list
        BY <3>1, <4>1, <4>2, Zenon
      <4> QED BY <4>2, <4>3, ObjectIsMade, ZenonT(60)
    <3>9. /\ \A o \in 1..Len(heap) : heap'[o].id = heap[o].id
          /\ \A o \in 1..Len(heap) : heap'[o].list = heap[o].list
          /\ \A o \in 1..Len(heap) : heap'[o].live => heap[o].live /\ heap[o].id # id
          /\ \A o \in 1..Len(heap) : heap[o].live /\ heap[o].id # id => heap'[o].live
      BY <1>3, <3>3
    <3>4. DOMAIN heap' = 1..n /\ \A o \in 1..n : o \in 1..Len(heap) \/ o = n
      BY <1>0, <3>3
    <3>5. store'[id] = n /\ \A i \in Ids \ {id} : store'[i] = store[i]
      BY <3>1 DEF Sessions!TypeOK
    <3>6. Sessions!TypeOK' /\ Ordered'
      <4>1. store' \in [Ids -> 0..Len(heap')] /\ acked' \in [Ids -> SUBSET Sessions!Event]
        BY <1>0, <3>1, <3>3 DEF Sessions!TypeOK
      <4>2. Len(lists') <= Len(heap')
        BY <1>0, <1>1, <3>3
      <4> QED BY <1>0, <1>2, <2>1, <3>3, <4>1, <4>2
    <3>7. ListIsShared'
      <4>1. ASSUME NEW i \in Ids, store'[i] # 0 PROVE heap'[store'[i]].id = i /\ heap'[store'[i]].live
        <5>1. CASE i = id
          BY <3>3, <3>5, <5>1
        <5>2. CASE i # id
          <6>1. store'[i] = store[i] /\ store[i] # 0
            BY <3>5, <4>1, <5>2, Zenon
          <6>2. store[i] \in 1..Len(heap) /\ heap[store[i]].id = i /\ heap[store[i]].live
            BY <1>1, <6>1, Zenon
          <6>3. heap'[store[i]].id = i /\ heap'[store[i]].live
            BY <3>9, <5>2, <6>2, Zenon
          <6> QED BY <6>1, <6>3, Zenon
        <5> QED BY <5>1, <5>2
      <4>2. ASSUME NEW o \in 1..n, heap'[o].live
            PROVE  store'[heap'[o].id] # 0 /\ heap'[o].list = heap'[store'[heap'[o].id]].list
        <5>1. CASE o = n
          BY <1>0, <3>3, <3>5, <5>1
        <5>2. CASE o \in 1..Len(heap)
          <6>1. /\ heap'[o].list = heap[o].list /\ heap'[o].id = heap[o].id
                /\ heap[o].live /\ heap[o].id # id /\ heap[o].id \in Ids
            BY <1>1, <3>9, <4>2, <5>2, Zenon
          <6>2. /\ store[heap[o].id] # 0 /\ store[heap[o].id] \in 1..Len(heap)
                /\ heap[o].list = heap[store[heap[o].id]].list
            BY <1>1, <5>2, <6>1, Zenon
          <6>3. store'[heap[o].id] = store[heap[o].id]
            BY <3>5, <6>1, Zenon
          <6>4. heap'[store[heap[o].id]].list = heap[store[heap[o].id]].list
            BY <3>9, <6>2, Zenon
          <6> QED BY <6>1, <6>2, <6>3, <6>4, Zenon
        <5> QED BY <3>4, <5>1, <5>2
      <4> QED BY <3>4, <4>1, <4>2 DEF ListIsShared
    <3>8. AckedIsStored'
      <4>1. ASSUME NEW i \in Ids, acked'[i] # {}
            PROVE  store'[i] # 0 /\ acked'[i] \subseteq Sessions!ToSet(lists'[heap'[store'[i]].list])
        <5>1. i # id /\ acked'[i] = acked[i] /\ store'[i] = store[i]
          BY <3>1, <3>5, <4>1 DEF Sessions!TypeOK
        <5>2. /\ store[i] # 0 /\ store[i] \in 1..Len(heap) /\ heap[store[i]].list \in 1..Len(lists)
              /\ acked[i] \subseteq Sessions!ToSet(lists[heap[store[i]].list])
          BY <1>1, <4>1, <5>1, Zenon
        <5>3. heap'[store[i]].list = heap[store[i]].list /\ lists'[heap[store[i]].list] = lists[heap[store[i]].list]
          BY <3>3, <3>9, <5>2, Zenon
        <5> QED BY <5>1, <5>2, <5>3, Zenon
      <4> QED BY <2>1, <4>1 DEF AckedIsStored
    <3> QED BY <3>6, <3>7, <3>8
  <2> QED BY <1>6, <2>2, <2>3 DEF Sessions!MemoryGetOrCreate
<1>7. ASSUME NEW c \in Users, NEW e \in Sessions!Event, Sessions!MemoryAppend(c, e) PROVE SessionInv'
  <2> DEFINE o == held[c]
  <2>1. /\ o # 0 /\ Sessions!ApplyEvent(c, e) /\ UNCHANGED <<backend, store, held, row, eventRow, tx>>
        /\ created' = created + 1 /\ created < SessionEvents
        /\ acked' = IF heap[o].live THEN [acked EXCEPT ![heap[o].id] = @ \cup {e}] ELSE acked
    BY <1>7 DEF Sessions!MemoryAppend, Sessions!NewEvent, Sessions!dbVars
  <2>2. /\ heap' \in Seq(Object) /\ Len(heap') = Len(heap) /\ o \in 1..Len(heap)
        /\ \A i \in 1..Len(heap) : /\ heap'[i].id = heap[i].id /\ heap'[i].live = heap[i].live
                                   /\ heap'[i].list = heap[i].list
        /\ lists' \in Seq(Seq(Sessions!Event)) /\ Len(lists') = Len(lists)
        /\ \A i \in DOMAIN heap' : heap'[i].list \in DOMAIN lists'
        /\ e \in Sessions!ToSet(lists'[heap[o].list])
        /\ \A l \in 1..Len(lists) : Sessions!ToSet(lists[l]) \subseteq Sessions!ToSet(lists'[l])
    BY <2>1, EventIsApplied
  <2> HIDE DEF o
  <2>3. heap[o].id \in Ids
    BY <1>0, <2>2 DEF Object
  <2>4. Sessions!TypeOK' /\ Ordered'
    <3>1. acked' \in [Ids -> SUBSET Sessions!Event]
      BY <2>1, <2>3 DEF Sessions!TypeOK
    <3>2. created' \in 0..SessionEvents /\ created <= created'
      BY <1>0, <2>1
    <3>3. store' \in [Ids -> 0..Len(heap')] /\ held' \in [Users -> 0..Len(heap')]
      BY <2>1, <2>2 DEF Sessions!TypeOK
    <3> QED BY <1>0, <1>1, <1>2, <2>1, <2>2, <3>1, <3>2, <3>3
  <2>5. DOMAIN heap' = 1..Len(heap)
    BY <2>2
  <2>6. ListIsShared'
    <3>1. ASSUME NEW i \in Ids, store'[i] # 0 PROVE heap'[store'[i]].id = i /\ heap'[store'[i]].live
      <4>1. /\ store'[i] = store[i] /\ store[i] \in 1..Len(heap)
            /\ heap[store[i]].id = i /\ heap[store[i]].live
        BY <1>1, <2>1, <3>1, Zenon
      <4> QED BY <2>2, <4>1, Zenon
    <3>2. ASSUME NEW i \in 1..Len(heap), heap'[i].live
          PROVE  store'[heap'[i].id] # 0 /\ heap'[i].list = heap'[store'[heap'[i].id]].list
      <4>1. heap[i].live /\ heap'[i].id = heap[i].id /\ heap[i].id \in Ids
        BY <1>1, <2>2, <3>2, Zenon
      <4>2. /\ store[heap[i].id] # 0 /\ store[heap[i].id] \in 1..Len(heap)
            /\ heap[i].list = heap[store[heap[i].id]].list
        BY <1>1, <3>2, <4>1, Zenon
      <4> QED BY <2>1, <2>2, <4>1, <4>2, Zenon
    <3> QED BY <2>5, <3>1, <3>2 DEF ListIsShared
  <2>7. AckedIsStored'
    <3>1. ASSUME NEW i \in Ids, acked'[i] # {}
          PROVE  store'[i] # 0 /\ acked'[i] \subseteq Sessions!ToSet(lists'[heap'[store'[i]].list])
      <4>1. ASSUME acked[i] # {} 
            PROVE  /\ store[i] \in 1..Len(heap) /\ heap'[store[i]].list = heap[store[i]].list
                   /\ acked[i] \subseteq Sessions!ToSet(lists'[heap[store[i]].list])
        <5>1. /\ store[i] \in 1..Len(heap) /\ heap[store[i]].list \in 1..Len(lists)
              /\ acked[i] \subseteq Sessions!ToSet(lists[heap[store[i]].list])
          BY <1>1, <4>1, Zenon
        <5>2. Sessions!ToSet(lists[heap[store[i]].list]) \subseteq Sessions!ToSet(lists'[heap[store[i]].list])
          BY <2>2, <5>1, Zenon
        <5> QED BY <2>2, <5>1, <5>2
      <4>2. CASE acked'[i] = acked[i]
        <5>1. store'[i] = store[i] /\ acked[i] # {} /\ store[i] # 0
          BY <1>1, <2>1, <3>1, <4>2, Zenon
        <5> QED BY <4>1, <4>2, <5>1, Zenon
      <4>3. CASE acked'[i] # acked[i]
        <5>1. heap[o].live /\ i = heap[o].id /\ acked'[i] = acked[i] \cup {e}
          BY <2>1, <2>3, <4>3 DEF Sessions!TypeOK
        <5>2. store[i] \in 1..Len(heap) /\ heap[o].list = heap[store[i]].list
          BY <1>1, <2>2, <5>1, Zenon
        <5>3. acked[i] \subseteq Sessions!ToSet(lists'[heap[store[i]].list])
          BY <4>1
        <5>4. store'[i] # 0 /\ heap'[store'[i]].list = heap[o].list
          BY <1>0, <2>1, <2>2, <5>2, SMTT(30)
        <5> QED BY <2>2, <5>1, <5>2, <5>3, <5>4
      <4> QED BY <4>2, <4>3
    <3> QED BY <2>1, <3>1 DEF AckedIsStored
  <2> QED BY <2>4, <2>6, <2>7
<1> QED BY <1>4, <1>5, <1>6, <1>7

LEMMA DatabaseSteps ==
  ASSUME Sessions!SessionsAssumption, SessionInv, backend = "database", NEW c \in Users,
         \/ \E id \in Ids, owner \in Owners : Sessions!DatabaseGetRow(c, id, owner)
         \/ \E e \in Sessions!Event : Sessions!DatabaseAppend(c, e)
         \/ Sessions!DatabaseGetEvents(c) \/ Sessions!DatabaseCreate(c) \/ Sessions!DatabaseCommit(c) \/ Sessions!DatabaseFail(c)
         \/ Sessions!DatabaseUpdateWrite(c)
         \/ \E id \in Ids : Sessions!DatabaseDelete(c, id) \/ (\E k \in Keys : Sessions!DatabaseUpdateRead(c, id, k))
  PROVE  SessionInv'
<1> USE DEF SessionInv
<1>0. /\ SessionEvents \in Nat /\ SessionObjects \in Nat /\ created \in 0..SessionEvents
      /\ heap \in Seq(Object) /\ Len(heap) \in Nat /\ DOMAIN heap = 1..Len(heap)
      /\ lists \in Seq(Seq(Sessions!Event)) /\ Len(lists) \in Nat /\ DOMAIN lists = 1..Len(lists)
      /\ \A o \in 1..Len(heap) : heap[o] \in Object /\ heap[o].list \in 1..Len(lists)
      /\ \A l \in 1..Len(lists) : lists[l] \in Seq(Sessions!Event)
      /\ \A d \in Users : held[d] \in 0..Len(heap)
      /\ \A id \in Ids : store[id] \in 0..Len(heap)
  BY SessionBounds
<1>1. \A r \in eventRow : r.event.n <= created /\ r.event \in Sessions!Event /\ r.event.n \in Nat
  BY DEF Ordered, Sessions!TypeOK, Sessions!Event
<1>2. \A d \in Users : tx[d].at = "appending" =>
        tx[d].event \in Sessions!Event /\ tx[d].event.n \in Nat /\ tx[d].event.n <= created /\ held[d] # 0
  BY TransactionKinds DEF Ordered, Sessions!Event
<1>3. \A id \in Ids : acked[id] \subseteq Stored(id)
  BY DEF AckedIsStored
\* A step that changes neither the objects nor the number of events.
<1>4. ASSUME UNCHANGED <<backend, heap, lists, store, held, created>>,
             row' \in [Ids -> Sessions!Row], eventRow' \subseteq [id : Ids, event : Sessions!Event],
             tx' \in [Users -> Sessions!Transaction], acked' \in [Ids -> SUBSET Sessions!Event]
      PROVE  Sessions!TypeOK'
  BY <1>4 DEF Sessions!TypeOK
\* A step that begins no transaction of an event.
<1>5. ASSUME UNCHANGED <<backend, created>>, eventRow' \subseteq eventRow,
             Len(lists') <= Len(heap'), Len(heap') <= SessionObjects,
             \A d \in Users : tx'[d].at = "appending" => tx'[d] = tx[d] /\ held'[d] # 0
      PROVE  Ordered'
  <2>1. \A r \in eventRow' : r \in eventRow
    BY <1>5
  <2>2. /\ \A r \in eventRow' : r.event.n <= created'
        /\ \A d \in Users : tx'[d].at = "appending" => tx'[d].event.n <= created' /\ held'[d] # 0
        /\ \A r, q \in eventRow' : r.event.n = q.event.n => r.event = q.event
    BY <1>1, <1>2, <1>5, <2>1 DEF Ordered
  <2>3. /\ \A r \in eventRow', d \in Users :
             tx'[d].at = "appending" /\ tx'[d].event.n = r.event.n => tx'[d].event = r.event
        /\ \A d, f \in Users : tx'[d].at = "appending" /\ tx'[f].at = "appending"
                           /\ tx'[d].event.n = tx'[f].event.n => tx'[d].event = tx'[f].event
    BY <1>5, <2>1 DEF Ordered
  <2> QED BY <1>5, <2>2, <2>3 DEF Ordered
<1>6. ASSUME UNCHANGED backend PROVE ListIsShared'
  BY <1>6 DEF ListIsShared
<1>7. ASSUME UNCHANGED <<backend, eventRow>>, \A id \in Ids : acked'[id] \subseteq acked[id]
      PROVE  AckedIsStored'
  <2>1. \A id \in Ids : Stored(id)' = Stored(id)
    BY <1>7 DEF Stored, Rows
  <2> QED BY <1>3, <1>7, <2>1 DEF AckedIsStored
<1>8. Len(lists) <= Len(heap) /\ Len(heap) <= SessionObjects
  BY DEF Ordered
<1>9. \A d \in Users : tx[d].at = "appending" => held[d] # 0
  BY <1>2
<1>10. ASSUME NEW id \in Ids, NEW owner \in Owners, Sessions!DatabaseGetRow(c, id, owner) PROVE SessionInv'
  <2> DEFINE t == IF row[id] # Sessions!NoRow /\ row[id].owner = owner
                    THEN [at |-> "loading", id |-> id, row |-> row[id]]
                    ELSE [at |-> "creating", id |-> id, owner |-> owner]
  <2>1. /\ tx' = [tx EXCEPT ![c] = t]
        /\ UNCHANGED <<backend, heap, lists, store, row, eventRow, held, acked, created>>
    BY <1>10 DEF Sessions!DatabaseGetRow
  <2>2. t \in Sessions!Transaction /\ t.at # "appending"
    <3>1. row[id] \in Sessions!Row
      BY DEF Sessions!TypeOK
    <3> QED BY <3>1 DEF Sessions!Transaction
  <2> HIDE DEF t
  <2>3. /\ tx' \in [Users -> Sessions!Transaction]
        /\ \A d \in Users : tx'[d].at = "appending" => tx'[d] = tx[d]
    BY <2>1, <2>2 DEF Sessions!TypeOK
  <2>4. Sessions!TypeOK'
    BY <1>4, <2>1, <2>3 DEF Sessions!TypeOK
  <2>5. Ordered'
    BY <1>5, <1>8, <1>9, <2>1, <2>3
  <2> QED BY <1>6, <1>7, <2>1, <2>4, <2>5
<1>11. ASSUME NEW e \in Sessions!Event, Sessions!DatabaseAppend(c, e) PROVE SessionInv'
  <2> DEFINE t == [at |-> "appending", event |-> e]
  <2>1. /\ held[c] # 0 /\ tx[c] = Sessions!Idle /\ created < SessionEvents /\ created' = created + 1
        /\ e.n = created + 1 /\ Sessions!ApplyEvent(c, e) /\ tx' = [tx EXCEPT ![c] = t]
        /\ UNCHANGED <<backend, store, row, eventRow, held, acked>>
    BY <1>11 DEF Sessions!DatabaseAppend, Sessions!NewEvent
  <2>2. /\ heap' \in Seq(Object) /\ Len(heap') = Len(heap)
        /\ lists' \in Seq(Seq(Sessions!Event)) /\ Len(lists') = Len(lists)
        /\ \A i \in DOMAIN heap' : heap'[i].list \in DOMAIN lists'
    BY <2>1, EventIsApplied
  <2>3. t \in Sessions!Transaction /\ t.at = "appending" /\ t.event = e
    BY DEF Sessions!Transaction
  <2> HIDE DEF t
  <2>4. /\ tx' \in [Users -> Sessions!Transaction] /\ tx'[c] = t
        /\ \A d \in Users \ {c} : tx'[d] = tx[d]
    BY <2>1, <2>3 DEF Sessions!TypeOK
  <2>5. created' \in 0..SessionEvents /\ created <= created' /\ e.n = created' /\ ~ (e.n <= created)
    BY <1>0, <2>1
  <2>6. Sessions!TypeOK'
    <3>1. store' \in [Ids -> 0..Len(heap')] /\ held' \in [Users -> 0..Len(heap')]
      BY <2>1, <2>2 DEF Sessions!TypeOK
    <3>2. /\ row' \in [Ids -> Sessions!Row] /\ eventRow' \subseteq [id : Ids, event : Sessions!Event]
          /\ acked' \in [Ids -> SUBSET Sessions!Event] /\ backend' \in {"memory", "database"}
      BY <2>1 DEF Sessions!TypeOK
    <3> QED BY <2>2, <2>4, <2>5, <3>1, <3>2 DEF Sessions!TypeOK, Object
  <2>7. Ordered'
    <3>1. \A r \in eventRow' : r.event.n <= created' /\ r.event.n # e.n
      BY <1>0, <1>1, <2>1, <2>5
    <3>2. \A d \in Users \ {c} : tx'[d].at = "appending" =>
             tx'[d].event.n <= created' /\ tx'[d].event.n # e.n /\ held'[d] # 0
      BY <1>0, <1>2, <2>1, <2>4, <2>5
    <3>3. tx'[c].at = "appending" /\ tx'[c].event = e /\ held'[c] # 0 /\ e.n <= created'
      BY <1>0, <2>1, <2>3, <2>4, <2>5
    <3>4. /\ \A r \in eventRow' : r.event.n <= created'
          /\ \A d \in Users : tx'[d].at = "appending" => tx'[d].event.n <= created' /\ held'[d] # 0
      BY <3>1, <3>2, <3>3
    <3>5. \A r, q \in eventRow' : r.event.n = q.event.n => r.event = q.event
      BY <2>1 DEF Ordered
    <3>6. ASSUME NEW r \in eventRow', NEW d \in Users,
                 tx'[d].at = "appending", tx'[d].event.n = r.event.n
          PROVE  tx'[d].event = r.event
      <4>1. d # c
        BY <3>1, <3>3, <3>6
      <4> QED BY <2>1, <2>4, <3>6, <4>1 DEF Ordered
    <3>7. ASSUME NEW d \in Users, NEW f \in Users, tx'[d].at = "appending",
                 tx'[f].at = "appending", tx'[d].event.n = tx'[f].event.n
          PROVE  tx'[d].event = tx'[f].event
      <4>1. CASE d = c
        BY <3>2, <3>3, <3>7, <4>1
      <4>2. CASE f = c
        BY <3>2, <3>3, <3>7, <4>2
      <4>3. CASE d # c /\ f # c
        BY <2>4, <3>7, <4>3 DEF Ordered
      <4> QED BY <4>1, <4>2, <4>3
    <3>8. Len(lists') <= Len(heap') /\ Len(heap') <= SessionObjects /\ backend' = "database"
      BY <1>8, <2>1, <2>2
    <3> QED BY <3>4, <3>5, <3>6, <3>7, <3>8 DEF Ordered
  <2> QED BY <1>6, <1>7, <2>1, <2>6, <2>7
<1>12. ASSUME Sessions!DatabaseGetEvents(c) PROVE SessionInv'
  <2> DEFINE t == tx[c]
             n == Len(heap) + 1
  <2>1. /\ t.at = "loading" /\ tx' = [tx EXCEPT ![c] = Sessions!Idle]
        /\ Sessions!NewObject(c, heap, t.id, t.row.owner, t.row.state, Sessions!StoredEvents(t.id))
        /\ UNCHANGED <<backend, store, row, eventRow, acked, created>>
    BY <1>12 DEF Sessions!DatabaseGetEvents
  <2>2. t.id \in Ids /\ t.row.owner \in Owners /\ t.row.state \in Sessions!State
    BY <2>1, TransactionKinds DEF Sessions!Row
  <2>3. Sessions!StoredEvents(t.id) \in Seq(Sessions!Event)
    BY <2>2, StoredAreListed
  <2>4. /\ heap' \in Seq(Object) /\ Len(heap') = n /\ n <= SessionObjects
        /\ lists' \in Seq(Seq(Sessions!Event)) /\ Len(lists') = Len(lists) + 1
        /\ \A o \in DOMAIN heap' : heap'[o].list \in DOMAIN lists'
        /\ held' \in [Users -> 0..n] /\ held'[c] = n
        /\ \A d \in Users \ {c} : held'[d] = held[d]
    BY <1>0, <2>1, <2>2, <2>3, ObjectIsMade
  <2>5. /\ tx' \in [Users -> Sessions!Transaction]
        /\ \A d \in Users : tx'[d].at = "appending" => tx'[d] = tx[d] /\ d # c
    BY <2>1 DEF Sessions!TypeOK, Sessions!Transaction, Sessions!Idle
  <2>6. Sessions!TypeOK'
    <3>1. store' \in [Ids -> 0..Len(heap')] /\ held' \in [Users -> 0..Len(heap')]
      <4>1. \A i \in 0..Len(heap) : i \in 0..n
        BY <1>0
      <4>2. store \in [Ids -> 0..n]
        BY <4>1 DEF Sessions!TypeOK
      <4> QED BY <2>1, <2>4, <4>2
    <3>2. /\ row' \in [Ids -> Sessions!Row] /\ eventRow' \subseteq [id : Ids, event : Sessions!Event]
          /\ acked' \in [Ids -> SUBSET Sessions!Event] /\ backend' \in {"memory", "database"}
          /\ created' \in 0..SessionEvents
      BY <2>1 DEF Sessions!TypeOK
    <3> QED BY <2>4, <2>5, <3>1, <3>2 DEF Sessions!TypeOK, Object
  <2>7. Ordered'
    <3>1. Len(lists') <= Len(heap') /\ Len(heap') <= SessionObjects
      BY <1>0, <1>8, <2>4
    <3>2. \A d \in Users : tx'[d].at = "appending" => tx'[d] = tx[d] /\ held'[d] # 0
      BY <1>9, <2>4, <2>5
    <3> QED BY <1>5, <2>1, <3>1, <3>2
  <2> QED BY <1>6, <1>7, <2>1, <2>6, <2>7
<1>13. ASSUME Sessions!DatabaseCreate(c) PROVE SessionInv'
  <2> DEFINE t == tx[c]
             n == Len(heap) + 1
             new == [owner |-> t.owner, state |-> Sessions!EmptyState]
  <2>1. /\ t.at = "creating" /\ tx' = [tx EXCEPT ![c] = Sessions!Idle]
        /\ UNCHANGED <<backend, store, eventRow, created>>
    BY <1>13 DEF Sessions!DatabaseCreate
  <2>2. t.id \in Ids /\ t.owner \in Owners
    BY <2>1, TransactionKinds
  <2>3. /\ tx' \in [Users -> Sessions!Transaction]
        /\ \A d \in Users : tx'[d].at = "appending" => tx'[d] = tx[d] /\ d # c
    BY <2>1 DEF Sessions!TypeOK, Sessions!Transaction, Sessions!Idle
  <2>4. CASE UNCHANGED <<heap, lists, held, row, acked>>
    <3>1. Sessions!TypeOK'
      BY <1>4, <2>1, <2>3, <2>4 DEF Sessions!TypeOK
    <3>2. Ordered'
      BY <1>5, <1>8, <1>9, <2>1, <2>3, <2>4
    <3> QED BY <1>6, <1>7, <2>1, <2>4, <3>1, <3>2
  <2>5. CASE /\ Sessions!NewObject(c, heap, t.id, t.owner, Sessions!EmptyState, <<>>)
             /\ row' = [row EXCEPT ![t.id] = new] /\ acked' = [acked EXCEPT ![t.id] = {}]
    <3>1. Sessions!EmptyState \in Sessions!State /\ <<>> \in Seq(Sessions!Event)
      BY <1>0 DEF Sessions!EmptyState, Sessions!State
    <3>2. PICK state \in Sessions!State, events \in Seq(Sessions!Event) : state = Sessions!EmptyState /\ events = <<>>
      BY <3>1
    <3>3. Sessions!NewObject(c, heap, t.id, t.owner, state, events)
      BY <2>5, <3>2, Zenon
    <3>4. /\ heap' \in Seq(Object) /\ Len(heap') = n /\ n <= SessionObjects
          /\ lists' \in Seq(Seq(Sessions!Event)) /\ Len(lists') = Len(lists) + 1
          /\ \A o \in DOMAIN heap' : heap'[o].list \in DOMAIN lists'
          /\ held' \in [Users -> 0..n] /\ held'[c] = n
          /\ \A d \in Users \ {c} : held'[d] = held[d]
      BY <1>0, <2>2, <3>3, ObjectIsMade
    <3>5. Sessions!TypeOK'
      <4>1. store' \in [Ids -> 0..Len(heap')] /\ held' \in [Users -> 0..Len(heap')]
        <5>1. \A i \in 0..Len(heap) : i \in 0..n
          BY <1>0
        <5>2. store \in [Ids -> 0..n]
          BY <5>1 DEF Sessions!TypeOK
        <5> QED BY <2>1, <3>4, <5>2
      <4>2. row' \in [Ids -> Sessions!Row] /\ acked' \in [Ids -> SUBSET Sessions!Event]
        BY <2>2, <2>5, <3>1 DEF Sessions!TypeOK, Sessions!Row
      <4>3. /\ eventRow' \subseteq [id : Ids, event : Sessions!Event]
            /\ backend' \in {"memory", "database"} /\ created' \in 0..SessionEvents
        BY <2>1 DEF Sessions!TypeOK
      <4> QED BY <2>3, <3>4, <4>1, <4>2, <4>3 DEF Sessions!TypeOK, Object
    <3>6. Ordered'
      <4>1. Len(lists') <= Len(heap') /\ Len(heap') <= SessionObjects
        BY <1>0, <1>8, <3>4
      <4>2. \A d \in Users : tx'[d].at = "appending" => tx'[d] = tx[d] /\ held'[d] # 0
        BY <1>9, <2>3, <3>4
      <4> QED BY <1>5, <2>1, <4>1, <4>2
    <3>7. \A id \in Ids : acked'[id] \subseteq acked[id]
      BY <2>5 DEF Sessions!TypeOK
    <3> QED BY <1>6, <1>7, <2>1, <3>5, <3>6, <3>7
  <2> QED BY <1>13, <2>4, <2>5 DEF Sessions!DatabaseCreate
<1>14. ASSUME Sessions!DatabaseCommit(c) PROVE SessionInv'
  <2> DEFINE o == held[c]
             id == heap[o].id
             e == tx[c].event
             new == [id |-> id, event |-> e]
  <2>1. /\ tx[c].at = "appending" /\ eventRow' = eventRow \cup {new}
        /\ tx' = [tx EXCEPT ![c] = Sessions!Idle]
        /\ IF row[id] = Sessions!NoRow THEN UNCHANGED <<row, acked>>
           ELSE /\ row' = [row EXCEPT ![id].state = heap[o].state]
                /\ acked' = [acked EXCEPT ![id] = @ \cup {e}]
        /\ UNCHANGED <<backend, heap, lists, store, held, created>>
    BY <1>14 DEF Sessions!DatabaseCommit
  <2>2. e \in Sessions!Event /\ e.n <= created /\ o \in 1..Len(heap)
    BY <1>0, <1>2, <2>1
  <2>3. id \in Ids /\ heap[o].state \in Sessions!State
    BY <1>0, <2>2 DEF Object
  <2>4. new \in [id : Ids, event : Sessions!Event] /\ new.id = id /\ new.event = e
    BY <2>2, <2>3
  <2> HIDE DEF new
  <2>5. /\ tx' \in [Users -> Sessions!Transaction]
        /\ \A d \in Users : tx'[d].at = "appending" => tx'[d] = tx[d]
    BY <2>1 DEF Sessions!TypeOK, Sessions!Transaction, Sessions!Idle
  <2>6. Sessions!TypeOK'
    <3>1. acked' \in [Ids -> SUBSET Sessions!Event]
      <4>1. acked \in [Ids -> SUBSET Sessions!Event] /\ acked[id] \cup {e} \in SUBSET Sessions!Event
        BY <2>2, <2>3 DEF Sessions!TypeOK
      <4>2. acked' = acked \/ acked' = [acked EXCEPT ![id] = acked[id] \cup {e}]
        BY <2>1
      <4> QED BY <4>1, <4>2
    <3>2. row' \in [Ids -> Sessions!Row]
      <4>1. row \in [Ids -> Sessions!Row]
        BY DEF Sessions!TypeOK
      <4>2. CASE row[id] = Sessions!NoRow
        BY <2>1, <4>1, <4>2
      <4>3. CASE row[id] # Sessions!NoRow
        <5>1. row[id] \in [owner : Owners, state : Sessions!State]
          BY <2>3, <4>1, <4>3 DEF Sessions!Row
        <5>2. [row[id] EXCEPT !.state = heap[o].state] \in Sessions!Row
          BY <2>3, <5>1 DEF Sessions!Row
        <5> QED BY <2>1, <2>3, <4>1, <4>3, <5>2
      <4> QED BY <4>2, <4>3
    <3>3. eventRow' \subseteq [id : Ids, event : Sessions!Event]
      BY <2>1, <2>4 DEF Sessions!TypeOK
    <3> QED BY <1>4, <2>1, <2>5, <3>1, <3>2, <3>3
  <2>7. Ordered'
    <3>1. \A r \in eventRow' : r.event.n <= created'
      BY <1>1, <2>1, <2>2, <2>4
    <3>2. \A d \in Users : tx'[d].at = "appending" => tx'[d].event.n <= created' /\ held'[d] # 0
      BY <1>2, <2>1, <2>5
    <3>3. \A d \in Users : tx'[d].at = "appending" => tx'[d] = tx[d]
      BY <2>5
    <3>4. \A r \in eventRow : r.event.n = e.n => e = r.event
      BY <2>1 DEF Ordered
    <3>5. \A r, q \in eventRow' : r.event.n = q.event.n => r.event = q.event
      BY <2>1, <2>4, <3>4 DEF Ordered
    <3>6. \A r \in eventRow', d \in Users :
             tx'[d].at = "appending" /\ tx'[d].event.n = r.event.n => tx'[d].event = r.event
      BY <2>1, <2>4, <3>3 DEF Ordered
    <3>7. \A d, f \in Users : tx'[d].at = "appending" /\ tx'[f].at = "appending"
                           /\ tx'[d].event.n = tx'[f].event.n => tx'[d].event = tx'[f].event
      BY <3>3 DEF Ordered
    <3>8. Len(lists') <= Len(heap') /\ Len(heap') <= SessionObjects /\ backend' = "database"
      BY <1>8, <2>1
    <3> QED BY <3>1, <3>2, <3>5, <3>6, <3>7, <3>8 DEF Ordered
  <2>8. AckedIsStored'
    <3>1. ASSUME NEW i \in Ids PROVE acked'[i] \subseteq Stored(i)'
      <4>1. Stored(i) \subseteq Stored(i)'
        BY <2>1 DEF Stored, Rows
      <4>2. i = id => e \in Stored(i)'
        BY <2>1, <2>4 DEF Stored, Rows
      <4>3. acked'[i] = acked[i] \/ (i = id /\ acked'[i] = acked[i] \cup {e})
        BY <2>1, <2>3 DEF Sessions!TypeOK
      <4>4. acked[i] \subseteq Stored(i)'
        BY <1>3, <4>1, Zenon
      <4>5. CASE acked'[i] = acked[i]
        BY <4>4, <4>5
      <4>6. CASE i = id /\ acked'[i] = acked[i] \cup {e}
        <5> HIDE DEF id, e
        <5> QED BY <4>2, <4>4, <4>6
      <4> QED BY <4>3, <4>5, <4>6
    <3> QED BY <2>1, <3>1 DEF AckedIsStored
  <2> QED BY <1>6, <2>1, <2>6, <2>7, <2>8
<1>15. ASSUME Sessions!DatabaseFail(c) PROVE SessionInv'
  <2>1. /\ tx' = [tx EXCEPT ![c] = Sessions!Idle]
        /\ UNCHANGED <<backend, heap, lists, store, row, eventRow, held, acked, created>>
    BY <1>15 DEF Sessions!DatabaseFail
  <2>2. /\ tx' \in [Users -> Sessions!Transaction]
        /\ \A d \in Users : tx'[d].at = "appending" => tx'[d] = tx[d]
    BY <2>1 DEF Sessions!TypeOK, Sessions!Transaction, Sessions!Idle
  <2>3. Sessions!TypeOK'
    BY <1>4, <2>1, <2>2 DEF Sessions!TypeOK
  <2>4. Ordered'
    BY <1>5, <1>8, <1>9, <2>1, <2>2
  <2> QED BY <1>6, <1>7, <2>1, <2>3, <2>4
<1>16. ASSUME Sessions!DatabaseUpdateWrite(c) PROVE SessionInv'
  <2> DEFINE t == tx[c]
  <2>1. /\ t.at = "updating" /\ tx' = [tx EXCEPT ![c] = Sessions!Idle]
        /\ row' = IF row[t.id] = Sessions!NoRow THEN row ELSE [row EXCEPT ![t.id].state = t.state]
        /\ UNCHANGED <<backend, heap, lists, store, eventRow, held, acked, created>>
    BY <1>16 DEF Sessions!DatabaseUpdateWrite
  <2>2. t.id \in Ids /\ t.state \in Sessions!State
    BY <2>1, TransactionKinds
  <2>3. /\ tx' \in [Users -> Sessions!Transaction]
        /\ \A d \in Users : tx'[d].at = "appending" => tx'[d] = tx[d]
    BY <2>1 DEF Sessions!TypeOK, Sessions!Transaction, Sessions!Idle
  <2>4. row' \in [Ids -> Sessions!Row]
    <3>1. row \in [Ids -> Sessions!Row]
      BY DEF Sessions!TypeOK
    <3>2. CASE row[t.id] = Sessions!NoRow
      BY <2>1, <3>1, <3>2
    <3>3. CASE row[t.id] # Sessions!NoRow
      <4>1. row[t.id] \in [owner : Owners, state : Sessions!State]
        BY <2>2, <3>1, <3>3 DEF Sessions!Row
      <4>2. [row[t.id] EXCEPT !.state = t.state] \in Sessions!Row
        BY <2>2, <4>1 DEF Sessions!Row
      <4> QED BY <2>1, <2>2, <3>1, <3>3, <4>2
    <3> QED BY <3>2, <3>3
  <2>5. Sessions!TypeOK'
    BY <1>4, <2>1, <2>3, <2>4 DEF Sessions!TypeOK
  <2>6. Ordered'
    BY <1>5, <1>8, <1>9, <2>1, <2>3
  <2> QED BY <1>6, <1>7, <2>1, <2>5, <2>6
<1>17. ASSUME NEW id \in Ids, Sessions!DatabaseDelete(c, id) PROVE SessionInv'
  <2>1. /\ eventRow' = {r \in eventRow : r.id # id} /\ row' = [row EXCEPT ![id] = Sessions!NoRow]
        /\ acked' = [acked EXCEPT ![id] = {}]
        /\ UNCHANGED <<backend, heap, lists, store, held, tx, created>>
    BY <1>17 DEF Sessions!DatabaseDelete
  <2>2. Sessions!TypeOK'
    BY <1>4, <2>1 DEF Sessions!TypeOK, Sessions!Row
  <2>3. Ordered'
    BY <1>5, <1>8, <1>9, <2>1
  <2>4. AckedIsStored'
    <3>1. ASSUME NEW i \in Ids PROVE acked'[i] \subseteq Stored(i)'
      <4>1. CASE i = id
        BY <2>1, <4>1 DEF Sessions!TypeOK
      <4>2. CASE i # id
        <5>1. Rows(i)' = Rows(i)
          BY <2>1, <4>2 DEF Rows
        <5>2. Stored(i)' = Stored(i) /\ acked'[i] = acked[i]
          BY <2>1, <4>2, <5>1 DEF Stored, Sessions!TypeOK
        <5> QED BY <1>3, <5>2
      <4> QED BY <4>1, <4>2
    <3> QED BY <2>1, <3>1 DEF AckedIsStored
  <2> QED BY <1>6, <2>1, <2>2, <2>3, <2>4
<1>18. ASSUME NEW id \in Ids, NEW k \in Keys, Sessions!DatabaseUpdateRead(c, id, k) PROVE SessionInv'
  <2> DEFINE state == [row[id].state EXCEPT ![k] = 0]
             t == [at |-> "updating", id |-> id, state |-> state]
  <2>1. /\ row[id] # Sessions!NoRow /\ tx' = [tx EXCEPT ![c] = t]
        /\ UNCHANGED <<backend, heap, lists, store, row, eventRow, held, acked, created>>
    BY <1>18 DEF Sessions!DatabaseUpdateRead
  <2>2. state \in Sessions!State
    <3>1. row[id].state \in Sessions!State
      BY <2>1 DEF Sessions!TypeOK, Sessions!Row
    <3> QED BY <1>0, <3>1 DEF Sessions!State
  <2> HIDE DEF state
  <2>3. t \in Sessions!Transaction /\ t.at # "appending"
    BY <2>2 DEF Sessions!Transaction
  <2> HIDE DEF t
  <2>4. /\ tx' \in [Users -> Sessions!Transaction]
        /\ \A d \in Users : tx'[d].at = "appending" => tx'[d] = tx[d]
    BY <2>1, <2>3 DEF Sessions!TypeOK
  <2>5. Sessions!TypeOK'
    BY <1>4, <2>1, <2>4 DEF Sessions!TypeOK
  <2>6. Ordered'
    BY <1>5, <1>8, <1>9, <2>1, <2>4
  <2> QED BY <1>6, <1>7, <2>1, <2>5, <2>6
<1> QED BY <1>10, <1>11, <1>12, <1>13, <1>14, <1>15, <1>16, <1>17, <1>18

LEMMA SessionsStep ==
  ASSUME Sessions!SessionsAssumption, SessionInv, [Sessions!Next]_Sessions!vars PROVE SessionInv'
<1> USE DEF SessionInv
<1>1. CASE UNCHANGED Sessions!vars
  <2>1. UNCHANGED <<backend, heap, lists, store, row, eventRow, held, tx, acked, created>>
    BY <1>1 DEF Sessions!vars
  <2>2. Sessions!TypeOK'
    BY <2>1 DEF Sessions!TypeOK
  <2>3. Ordered'
    BY <2>1 DEF Ordered
  <2>4. ListIsShared' /\ AckedIsStored'
    BY <2>1 DEF ListIsShared, AckedIsStored, Stored, Rows
  <2> QED BY <2>2, <2>3, <2>4
<1>2. CASE Sessions!Next
  <2>1. backend \in {"memory", "database"} /\ (backend = "memory" => \A c \in Users : tx[c].at = "idle")
    BY DEF Sessions!TypeOK, Ordered, Sessions!Idle
  <2>2. CASE backend = "memory"
    <3>1. \/ \E id \in Ids : Sessions!MemoryDelete(id) \/ (\E k \in Keys : Sessions!MemoryUpdate(id, k))
          \/ \E c \in Users : \/ \E id \in Ids, owner \in Owners : Sessions!MemoryGetOrCreate(c, id, owner)
                             \/ \E e \in Sessions!Event : Sessions!MemoryAppend(c, e)
      BY <1>2, <2>1, <2>2 DEF Sessions!Next, Sessions!DatabaseGetRow, Sessions!DatabaseAppend, Sessions!DatabaseGetEvents, Sessions!DatabaseCreate,
         Sessions!DatabaseCommit, Sessions!DatabaseFail, Sessions!DatabaseUpdateWrite, Sessions!DatabaseDelete, Sessions!DatabaseUpdateRead
    <3> QED BY <2>2, <3>1, MemorySteps, Zenon
  <2>3. CASE backend = "database"
    <3>1. PICK c \in Users :
            \/ \E id \in Ids, owner \in Owners : Sessions!DatabaseGetRow(c, id, owner)
            \/ \E e \in Sessions!Event : Sessions!DatabaseAppend(c, e)
            \/ Sessions!DatabaseGetEvents(c) \/ Sessions!DatabaseCreate(c) \/ Sessions!DatabaseCommit(c) \/ Sessions!DatabaseFail(c)
            \/ Sessions!DatabaseUpdateWrite(c)
            \/ \E id \in Ids : Sessions!DatabaseDelete(c, id) \/ (\E k \in Keys : Sessions!DatabaseUpdateRead(c, id, k))
      BY <1>2, <2>3 DEF Sessions!Next, Sessions!MemoryDelete, Sessions!MemoryUpdate, Sessions!MemoryGetOrCreate, Sessions!MemoryAppend
    <3> QED BY <2>3, <3>1, DatabaseSteps, Zenon
  <2> QED BY <2>1, <2>2, <2>3
<1> QED BY <1>1, <1>2

LEMMA AckedIsLoaded ==
  ASSUME Sessions!SessionsAssumption, SessionInv PROVE Sessions!AcknowledgedIsLoaded
<1> SUFFICES ASSUME NEW id \in Ids PROVE acked[id] \subseteq Sessions!ToSet(Sessions!LoadedEvents(id))
  BY DEF Sessions!AcknowledgedIsLoaded
<1>1. CASE backend = "database"
  <2>1. acked[id] \subseteq Stored(id)
    BY <1>1 DEF SessionInv, AckedIsStored
  <2>2. Sessions!LoadedEvents(id) = Sessions!StoredEvents(id)
    BY <1>1 DEF Sessions!LoadedEvents
  <2>3. Sessions!ToSet(Sessions!StoredEvents(id)) = Stored(id)
    BY StoredAreListed DEF SessionInv
  <2> QED BY <2>1, <2>2, <2>3
<1>2. CASE backend # "database"
  <2>1. acked[id] # {} => store[id] # 0 /\ acked[id] \subseteq Sessions!ToSet(lists[heap[store[id]].list])
    BY <1>2 DEF SessionInv, AckedIsStored
  <2>2. CASE acked[id] = {}
    BY <2>2
  <2>3. CASE acked[id] # {}
    <3>1. Sessions!LoadedEvents(id) = lists[heap[store[id]].list]
      BY <1>2, <2>1, <2>3 DEF Sessions!LoadedEvents
    <3> QED BY <2>1, <2>3, <3>1
  <2> QED BY <2>2, <2>3
<1> QED BY <1>1, <1>2

LEMMA SessionsLift == MCSpec => Sessions!Spec
<1>1. MCInit => Sessions!Init
  BY DEF MCInit
<1>2. [MCNext]_allVars => [Sessions!Next]_Sessions!vars
  BY DEF MCNext, SessionsNext, ArtifactsNext, MemoryNext, McpNext, AttestationNext, ComposerNext,
         FileSystemNext, IdentityNext, allVars, sessionVars, Sessions!vars
<1> QED BY <1>1, <1>2, PTL DEF MCSpec, Sessions!Spec

\* Every event whose append_event has returned is in every later load of the
\* session: of the object the memory service keeps, whoever updated it, and of
\* the rows of the database, whatever other transactions did meanwhile.
THEOREM AcknowledgedEventsAreLoaded == MCSpec => []AcknowledgedIsLoaded
<1>0. Sessions!SessionsAssumption
  BY ServicesAssumption
<1>1. Sessions!Init => SessionInv
  BY <1>0, SessionsInit
<1>2. SessionInv /\ [Sessions!Next]_Sessions!vars => SessionInv'
  BY <1>0, SessionsStep
<1>3. SessionInv => AcknowledgedIsLoaded
  BY <1>0, AckedIsLoaded DEF AcknowledgedIsLoaded
<1> QED BY <1>1, <1>2, <1>3, SessionsLift, PTL DEF Sessions!Spec

(***************************************************************************)
(* Both session services keep the logs of SessionLog.                      *)
(***************************************************************************)
\* What get_session would return of a session, and where each service keeps it.
LogOf(id) == Sessions!ToSet(Sessions!LoadedEvents(id))
Listed(id) == IF store[id] = 0 THEN {} ELSE Sessions!ToSet(lists[heap[store[id]].list])
View(id) == IF backend = "database" THEN Stored(id) ELSE Listed(id)
SeenSo == \A id \in Ids : LogOf(id) = View(id)

\* No object but those of a stored session has its list.
ListsApart ==
  backend = "memory" =>
    \A o \in DOMAIN heap, id \in Ids :
      store[id] # 0 /\ heap[o].list = heap[store[id]].list => heap[o].live /\ heap[o].id = id

\* Open transactions are of different events.
NumbersApart ==
  \A c, d \in Users :
    c # d /\ tx[c].at = "appending" /\ tx[d].at = "appending" => tx[c].event.n # tx[d].event.n

\* Nothing is acknowledged of a session that has no row.
Unheard == backend = "database" => \A id \in Ids : row[id] = Sessions!NoRow => acked[id] = {}

LogInv == SessionInv /\ ListsApart /\ NumbersApart /\ Unheard

\* The events loaded are the rows of the database, or the list of the stored object.
LEMMA ViewIsLoaded == SessionInv => SeenSo
<1> SUFFICES ASSUME SessionInv, NEW id \in Ids PROVE LogOf(id) = View(id)
  BY DEF SeenSo
<1>1. CASE backend = "database"
  <2>1. Sessions!ToSet(Sessions!StoredEvents(id)) = Stored(id)
    BY ServicesAssumption, StoredAreListed DEF SessionInv
  <2> QED BY <1>1, <2>1 DEF LogOf, View, Sessions!LoadedEvents
<1>2. CASE backend # "database" /\ store[id] = 0
  <2>1. Sessions!ToSet(<<>>) = {}
    BY DEF Sessions!ToSet
  <2> QED BY <1>2, <2>1 DEF LogOf, View, Listed, Sessions!LoadedEvents
<1>3. CASE backend # "database" /\ store[id] # 0
  BY <1>3 DEF LogOf, View, Listed, Sessions!LoadedEvents
<1> QED BY <1>1, <1>2, <1>3

LEMMA ViewIsLoadedNext == SessionInv' => SeenSo'
BY ViewIsLoaded, PTL

\* How a step shows in the logs.
LEMMA AppendShows ==
  ASSUME NEW id \in Ids, NEW e \in Sessions!Event, e \notin PastEvents,
         \A i \in Ids : LogOf(i)' = IF i = id THEN LogOf(i) \cup {e} ELSE LogOf(i),
         acked' = acked \/ acked' = [acked EXCEPT ![id] = @ \cup {e}],
         PastEvents \cup {e} \subseteq PastEvents'
  PROVE  SessionLog!Next
<1> DEFINE v == [i \in Ids |-> Sessions!ToSet(Sessions!LoadedEvents(i))]
<1>1. v' = [v EXCEPT ![id] = v[id] \cup {e}]
  <2>1. \A i \in Ids : v[i] = LogOf(i)
    BY DEF LogOf
  <2>2. v' = [i \in Ids |-> LogOf(i)']
    BY DEF LogOf
  <2>3. v \in [Ids -> {v[i] : i \in Ids}] /\ DOMAIN v = Ids
    OBVIOUS
  <2> HIDE DEF v
  <2> QED BY <2>1, <2>2, <2>3
<1>2. SessionLog!Append(id, e)
  BY <1>1 DEF SessionLog!Append
<1> QED BY <1>2 DEF SessionLog!Next

LEMMA ClearShows ==
  ASSUME NEW id \in Ids, \A i \in Ids : LogOf(i)' = IF i = id THEN {} ELSE LogOf(i),
         acked' = [acked EXCEPT ![id] = {}], PastEvents' = PastEvents
  PROVE  SessionLog!Next
<1> DEFINE v == [i \in Ids |-> Sessions!ToSet(Sessions!LoadedEvents(i))]
<1>1. v' = [v EXCEPT ![id] = {}]
  <2>1. \A i \in Ids : v[i] = LogOf(i)
    BY DEF LogOf
  <2>2. v' = [i \in Ids |-> LogOf(i)']
    BY DEF LogOf
  <2>3. DOMAIN v = Ids
    OBVIOUS
  <2> HIDE DEF v
  <2> QED BY <2>1, <2>2, <2>3
<1>2. SessionLog!Clear(id)
  BY <1>1 DEF SessionLog!Clear
<1> QED BY <1>2 DEF SessionLog!Next

LEMMA NothingShows ==
  ASSUME \A i \in Ids : LogOf(i)' = LogOf(i), acked' = acked, PastEvents \subseteq PastEvents'
  PROVE  SessionLog!Next
<1> DEFINE v == [i \in Ids |-> Sessions!ToSet(Sessions!LoadedEvents(i))]
<1>1. v' = v
  BY DEF LogOf
<1> QED BY <1>1 DEF SessionLog!Next, SessionLog!Lose

\* Objects of a deleted session keep their list and are live no more.
LEMMA DeadIs ==
  ASSUME heap \in Seq(Object), NEW id
  PROVE  /\ DOMAIN Sessions!Dead(id) = 1..Len(heap)
         /\ \A o \in 1..Len(heap) :
              /\ Sessions!Dead(id)[o].id = heap[o].id /\ Sessions!Dead(id)[o].list = heap[o].list
              /\ Sessions!Dead(id)[o].live <=> heap[o].live /\ heap[o].id # id
<1>1. DOMAIN heap = 1..Len(heap) /\ \A o \in 1..Len(heap) : heap[o] \in Object
  BY ElementOfSeq
<1>2. DOMAIN Sessions!Dead(id) = 1..Len(heap)
  BY <1>1 DEF Sessions!Dead
<1>3. \A o \in 1..Len(heap) : Sessions!Dead(id)[o] = IF heap[o].id = id THEN [heap[o] EXCEPT !.live = FALSE] ELSE heap[o]
  BY <1>1 DEF Sessions!Dead
<1>4. \A o \in 1..Len(heap) : /\ Sessions!Dead(id)[o].id = heap[o].id /\ Sessions!Dead(id)[o].list = heap[o].list
                              /\ Sessions!Dead(id)[o].live <=> heap[o].live /\ heap[o].id # id
  BY <1>1, <1>3 DEF Object
<1> QED BY <1>2, <1>4

\* A sequence and one more element.
LEMMA AppendIs ==
  ASSUME NEW s, DOMAIN s = 1..Len(s), Len(s) \in Nat, NEW x
  PROVE  /\ DOMAIN Append(s, x) = 1..(Len(s) + 1) /\ Append(s, x)[Len(s) + 1] = x
         /\ \A i \in 1..Len(s) : Append(s, x)[i] = s[i]
OBVIOUS

\* append_event of the base class: one list grows by the event.
LEMMA EventIsListed ==
  ASSUME Sessions!SessionsAssumption, Sessions!TypeOK, NEW c \in Users, held[c] # 0, NEW e \in Sessions!Event, Sessions!ApplyEvent(c, e)
  PROVE  /\ held[c] \in 1..Len(heap) /\ DOMAIN heap' = 1..Len(heap)
         /\ \A i \in 1..Len(heap) : /\ heap'[i].id = heap[i].id /\ heap'[i].live = heap[i].live
                                    /\ heap'[i].list = heap[i].list
         /\ \A l \in 1..Len(lists) : Sessions!ToSet(lists'[l]) =
              IF l = heap[held[c]].list THEN Sessions!ToSet(lists[l]) \cup {e} ELSE Sessions!ToSet(lists[l])
<1>1. /\ heap' \in Seq(Object) /\ Len(heap') = Len(heap) /\ held[c] \in 1..Len(heap)
      /\ \A i \in 1..Len(heap) : /\ heap'[i].id = heap[i].id /\ heap'[i].live = heap[i].live
                                 /\ heap'[i].list = heap[i].list
  BY EventIsApplied
<1>2. DOMAIN heap' = 1..Len(heap)
  BY <1>1
<1> DEFINE k == heap[held[c]].list
<1>3. /\ k \in 1..Len(lists) /\ lists[k] \in Seq(Sessions!Event) /\ DOMAIN lists = 1..Len(lists)
  BY <1>1, SessionBounds
<1>4. lists' = [lists EXCEPT ![k] = Append(lists[k], e)]
  BY DEF Sessions!ApplyEvent
<1> HIDE DEF k
<1>5. Sessions!ToSet(Append(lists[k], e)) = Sessions!ToSet(lists[k]) \cup {e}
  <2>1. /\ DOMAIN lists[k] = 1..Len(lists[k]) /\ DOMAIN Append(lists[k], e) = 1..(Len(lists[k]) + 1)
        /\ Append(lists[k], e)[Len(lists[k]) + 1] = e /\ Len(lists[k]) \in Nat
        /\ \A i \in 1..Len(lists[k]) : Append(lists[k], e)[i] = lists[k][i]
    BY <1>3, AppendProperties
  <2>2. Sessions!ToSet(Append(lists[k], e)) \subseteq Sessions!ToSet(lists[k]) \cup {e}
    <3>1. \A i \in 1..(Len(lists[k]) + 1) : i \in 1..Len(lists[k]) \/ i = Len(lists[k]) + 1
      BY <2>1
    <3> QED BY <2>1, <3>1 DEF Sessions!ToSet
  <2>3. Sessions!ToSet(lists[k]) \subseteq Sessions!ToSet(Append(lists[k], e))
    <3>1. \A i \in 1..Len(lists[k]) : i \in 1..(Len(lists[k]) + 1)
      BY <2>1
    <3> QED BY <2>1, <3>1 DEF Sessions!ToSet
  <2>4. e \in Sessions!ToSet(Append(lists[k], e))
    <3>1. Len(lists[k]) + 1 \in DOMAIN Append(lists[k], e)
      BY <2>1
    <3> QED BY <2>1, <3>1, Zenon DEF Sessions!ToSet
  <2> QED BY <2>2, <2>3, <2>4
<1>6. \A l \in 1..Len(lists) : lists'[l] = IF l = k THEN Append(lists[k], e) ELSE lists[l]
  BY <1>3, <1>4
<1>7. \A l \in 1..Len(lists) : Sessions!ToSet(lists'[l]) =
        IF l = k THEN Sessions!ToSet(lists[l]) \cup {e} ELSE Sessions!ToSet(lists[l])
  BY <1>5, <1>6
<1> QED BY <1>1, <1>2, <1>7 DEF k

\* Every operation of the memory service appends to one log, clears one or changes
\* none; no list comes to be shared by two sessions.
LEMMA MemoryKeepsLogs ==
  ASSUME LogInv, SessionInv', SeenSo, SeenSo', backend = "memory",
         \/ \E id \in Ids : Sessions!MemoryDelete(id) \/ (\E k \in Keys : Sessions!MemoryUpdate(id, k))
         \/ \E c \in Users : \/ \E id \in Ids, owner \in Owners : Sessions!MemoryGetOrCreate(c, id, owner)
                             \/ \E e \in Sessions!Event : Sessions!MemoryAppend(c, e)
  PROVE  ListsApart' /\ SessionLog!Next
<1>0. Sessions!SessionsAssumption /\ Sessions!TypeOK /\ Ordered
  BY ServicesAssumption DEF LogInv, SessionInv
<1>1. /\ SessionEvents \in Nat /\ SessionObjects \in Nat /\ created \in 0..SessionEvents
      /\ heap \in Seq(Object) /\ Len(heap) \in Nat /\ DOMAIN heap = 1..Len(heap)
      /\ lists \in Seq(Seq(Sessions!Event)) /\ Len(lists) \in Nat /\ DOMAIN lists = 1..Len(lists)
      /\ \A o \in 1..Len(heap) : heap[o] \in Object /\ heap[o].list \in 1..Len(lists)
      /\ \A l \in 1..Len(lists) : lists[l] \in Seq(Sessions!Event)
      /\ \A id \in Ids : store[id] \in 0..Len(heap)
  BY <1>0, SessionBounds
<1>2. /\ \A o \in 1..Len(heap), id \in Ids :
           store[id] # 0 /\ heap[o].list = heap[store[id]].list => heap[o].live /\ heap[o].id = id
      /\ \A id \in Ids : store[id] # 0 => store[id] \in 1..Len(heap) /\ heap[store[id]].list \in 1..Len(lists)
      /\ \A id \in Ids : store[id] # 0 => heap[store[id]].id = id /\ heap[store[id]].live
      /\ \A o \in 1..Len(heap) : heap[o].live =>
           store[heap[o].id] # 0 /\ heap[o].list = heap[store[heap[o].id]].list
  <2>1. ListsApart /\ ListIsShared
    BY DEF LogInv, SessionInv
  <2>2. \A id \in Ids : store[id] # 0 => store[id] \in 1..Len(heap)
    BY <1>1
  <2>3. \A id \in Ids : store[id] # 0 => store[id] \in 1..Len(heap) /\ heap[store[id]].list \in 1..Len(lists)
    BY <1>1, <2>2
  <2> QED BY <1>1, <2>1, <2>3, Zenon DEF ListsApart, ListIsShared
<1>3. backend' = "memory" => \A i \in Ids : LogOf(i) = Listed(i) /\ LogOf(i)' = Listed(i)'
  BY DEF SeenSo, View
<1>4. ASSUME NEW id \in Ids, Sessions!MemoryDelete(id) PROVE ListsApart' /\ SessionLog!Next
  <2>1. /\ store' = [store EXCEPT ![id] = 0] /\ heap' = Sessions!Dead(id) /\ acked' = [acked EXCEPT ![id] = {}]
        /\ UNCHANGED <<backend, lists, held, created, row, eventRow, tx>>
    BY <1>4 DEF Sessions!MemoryDelete, Sessions!dbVars
  <2>2. /\ DOMAIN heap' = 1..Len(heap)
        /\ \A o \in 1..Len(heap) : /\ heap'[o].id = heap[o].id /\ heap'[o].list = heap[o].list
                                   /\ heap'[o].live <=> heap[o].live /\ heap[o].id # id
    BY <1>1, <2>1, DeadIs
  <2>3. ListsApart'
    <3>1. ASSUME NEW o \in 1..Len(heap), NEW i \in Ids, store'[i] # 0, heap'[o].list = heap'[store'[i]].list
          PROVE  heap'[o].live /\ heap'[o].id = i
      <4>1. i # id /\ store'[i] = store[i] /\ store[i] # 0
        BY <1>0, <2>1, <3>1 DEF Sessions!TypeOK
      <4>2. store[i] \in 1..Len(heap) /\ heap'[store[i]].list = heap[store[i]].list
        BY <1>2, <2>2, <4>1
      <4>4. heap[o].list = heap[store[i]].list
        <5>1. heap'[o].list = heap[o].list
          BY <2>2
        <5>2. heap'[store'[i]].list = heap'[store[i]].list
          BY <4>1, Zenon
        <5> QED BY <3>1, <4>2, <5>1, <5>2, Zenon
      <4>3. heap[o].live /\ heap[o].id = i
        BY <1>2, <4>1, <4>4
      <4> QED BY <2>2, <4>1, <4>3
    <3> QED BY <2>2, <3>1 DEF ListsApart
  <2>4. ASSUME NEW i \in Ids PROVE LogOf(i)' = IF i = id THEN {} ELSE LogOf(i)
    <3>1. store'[i] = IF i = id THEN 0 ELSE store[i]
      BY <1>0, <2>1 DEF Sessions!TypeOK
    <3>2. CASE i = id
      BY <1>3, <2>1, <3>1, <3>2 DEF Listed
    <3>3. CASE i # id /\ store[i] = 0
      BY <1>3, <2>1, <3>1, <3>3 DEF Listed
    <3>4. CASE i # id /\ store[i] # 0
      <4>1. heap'[store[i]].list = heap[store[i]].list
        BY <1>2, <2>2, <3>4
      <4> QED BY <1>3, <2>1, <3>1, <3>4, <4>1 DEF Listed
    <3> QED BY <3>2, <3>3, <3>4
  <2>5. PastEvents' = PastEvents
    BY <2>1 DEF PastEvents
  <2> QED BY <2>1, <2>3, <2>4, <2>5, ClearShows
<1>5. ASSUME NEW id \in Ids, NEW k \in Keys, Sessions!MemoryUpdate(id, k) PROVE ListsApart' /\ SessionLog!Next
  <2> DEFINE old == heap[store[id]]
             new == [old EXCEPT !.state[k] = 0]
             n == Len(heap) + 1
  <2>1. /\ store[id] # 0 /\ store[id] \in 1..Len(heap)
        /\ heap' = Append(heap, new) /\ store' = [store EXCEPT ![id] = n]
        /\ UNCHANGED <<backend, lists, held, acked, created, row, eventRow, tx>>
    BY <1>1, <1>5 DEF Sessions!MemoryUpdate, Sessions!dbVars
  <2>2. new.id = id /\ new.live /\ new.list = old.list
    BY <1>1, <1>2, <2>1 DEF Object
  <2> HIDE DEF new
  <2>3. DOMAIN heap' = 1..n /\ heap'[n] = new /\ n # 0 /\ \A o \in 1..Len(heap) : heap'[o] = heap[o]
    BY <1>1, <2>1, AppendIs
  <2>4. \A o \in 1..n : o \in 1..Len(heap) \/ o = n
    BY <1>1
  <2>5. store'[id] = n /\ \A i \in Ids : i # id => store'[i] = store[i]
    BY <1>0, <2>1 DEF Sessions!TypeOK
  <2>6. \A i \in Ids : /\ store'[i] # 0 => store[i] # 0 /\ heap'[store'[i]].list = heap[store[i]].list
                       /\ store[i] # 0 => store'[i] # 0
    BY <1>2, <2>1, <2>2, <2>3, <2>5
  <2>7. ListsApart'
    <3>1. ASSUME NEW o \in 1..n, NEW i \in Ids, store'[i] # 0, heap'[o].list = heap'[store'[i]].list
          PROVE  heap'[o].live /\ heap'[o].id = i
      <4>1. store[i] # 0 /\ heap'[o].list = heap[store[i]].list
        BY <2>6, <3>1
      <4>2. CASE o \in 1..Len(heap)
        BY <1>2, <2>3, <4>1, <4>2
      <4>3. CASE o = n
        <5>1. heap[store[id]].list = heap[store[i]].list
          BY <2>2, <2>3, <4>1, <4>3
        <5>2. heap[store[id]].id = i /\ heap[store[id]].id = id
          BY <1>2, <2>1, <4>1, <5>1
        <5> QED BY <2>2, <2>3, <4>3, <5>2
      <4> QED BY <2>4, <4>2, <4>3
    <3> QED BY <2>3, <3>1 DEF ListsApart
  <2>8. ASSUME NEW i \in Ids PROVE LogOf(i)' = LogOf(i)
    <3>1. CASE store[i] = 0
      <4>1. store'[i] = 0
        BY <2>6, <3>1
      <4> QED BY <1>3, <2>1, <3>1, <4>1 DEF Listed
    <3>2. CASE store[i] # 0
      <4>1. store'[i] # 0 /\ lists'[heap'[store'[i]].list] = lists[heap[store[i]].list]
        BY <2>1, <2>6, <3>2
      <4> QED BY <1>3, <2>1, <3>2, <4>1 DEF Listed
    <3> QED BY <3>1, <3>2
  <2>9. PastEvents' = PastEvents
    BY <2>1 DEF PastEvents
  <2> QED BY <2>1, <2>7, <2>8, <2>9, NothingShows
<1>6. ASSUME NEW c \in Users, NEW id \in Ids, NEW owner \in Owners, Sessions!MemoryGetOrCreate(c, id, owner)
      PROVE  ListsApart' /\ SessionLog!Next
  <2>1. UNCHANGED <<backend, created, row, eventRow, tx>>
    BY <1>6 DEF Sessions!MemoryGetOrCreate, Sessions!dbVars
  <2>2. PastEvents' = PastEvents
    BY <2>1 DEF PastEvents
  <2>3. CASE Sessions!MemoryGet(c, id)
    <3>1. UNCHANGED <<heap, lists, store, acked>>
      BY <2>3 DEF Sessions!MemoryGet
    <3>2. ListsApart'
      BY <2>1, <3>1 DEF ListsApart, LogInv
    <3>3. \A i \in Ids : LogOf(i)' = LogOf(i)
      BY <1>3, <2>1, <3>1 DEF Listed
    <3> QED BY <2>2, <3>1, <3>2, <3>3, NothingShows
  <2>4. CASE Sessions!MemoryCreate(c, id, owner)
    <3> DEFINE n == Len(heap) + 1
               m == Len(lists) + 1
               new == [id |-> id, owner |-> owner, state |-> Sessions!EmptyState, list |-> m, live |-> TRUE]
               dead == Sessions!Dead(id)
    <3>1. /\ store' = [store EXCEPT ![id] = n] /\ acked' = [acked EXCEPT ![id] = {}]
          /\ lists' = Append(lists, <<>>) /\ heap' = Append(dead, new)
      BY <2>4 DEF Sessions!MemoryCreate, Sessions!NewObject
    <3>2. /\ Len(dead) = Len(heap) /\ DOMAIN dead = 1..Len(heap)
          /\ \A o \in 1..Len(heap) : /\ dead[o].id = heap[o].id /\ dead[o].list = heap[o].list
                                     /\ dead[o].live <=> heap[o].live /\ heap[o].id # id
      BY <1>1, DeadIs
    <3> HIDE DEF dead
    <3>3. /\ DOMAIN heap' = 1..n /\ heap'[n].id = id /\ heap'[n].live /\ heap'[n].list = m
          /\ n # 0 /\ \A o \in 1..Len(heap) : heap'[o] = dead[o]
      BY <1>1, <3>1, <3>2, AppendIs
    <3>4. lists'[m] = <<>> /\ m \notin 1..Len(lists) /\ \A l \in 1..Len(lists) : lists'[l] = lists[l]
      BY <1>1, <3>1, AppendIs
    <3>5. store'[id] = n /\ \A i \in Ids : i # id => store'[i] = store[i]
      BY <1>0, <3>1 DEF Sessions!TypeOK
    <3>6. ASSUME NEW i \in Ids, i # id, store[i] # 0
          PROVE  heap'[store'[i]].list = heap[store[i]].list /\ heap[store[i]].list \in 1..Len(lists)
      BY <1>2, <3>2, <3>3, <3>5, <3>6
    <3>7. \A o \in 1..n : o \in 1..Len(heap) \/ o = n
      BY <1>1
    <3> HIDE DEF n, m, new
    <3>8. ListsApart'
      <4>1. ASSUME NEW o \in 1..n, NEW i \in Ids, store'[i] # 0, heap'[o].list = heap'[store'[i]].list
            PROVE  heap'[o].live /\ heap'[o].id = i
        <5>1. CASE i = id
          <6>1. heap'[o].list = m
            BY <3>3, <3>5, <4>1, <5>1
          <6>2. o \notin 1..Len(heap)
            BY <1>1, <3>2, <3>3, <3>4, <6>1, SMTT(30)
          <6> QED BY <3>3, <3>7, <5>1, <6>2
        <5>2. CASE i # id
          <6>1. store[i] # 0 /\ heap'[o].list = heap[store[i]].list /\ heap[store[i]].list \in 1..Len(lists)
            BY <3>5, <3>6, <4>1, <5>2
          <6>2. o \in 1..Len(heap)
            BY <3>3, <3>4, <3>7, <6>1
          <6>3. heap[o].live /\ heap[o].id = i
            BY <1>2, <3>2, <3>3, <6>1, <6>2
          <6> QED BY <3>2, <3>3, <5>2, <6>2, <6>3
        <5> QED BY <5>1, <5>2
      <4> QED BY <3>3, <4>1 DEF ListsApart
    <3>9. ASSUME NEW i \in Ids PROVE LogOf(i)' = IF i = id THEN {} ELSE LogOf(i)
      <4>1. CASE i = id
        <5>1. LogOf(i)' = Sessions!ToSet(<<>>)
          BY <1>3, <2>1, <3>3, <3>4, <3>5, <4>1 DEF Listed
        <5> QED BY <4>1, <5>1 DEF Sessions!ToSet
      <4>2. CASE i # id /\ store[i] = 0
        BY <1>3, <2>1, <3>5, <4>2 DEF Listed
      <4>3. CASE i # id /\ store[i] # 0
        <5>1. store'[i] = store[i] /\ heap'[store'[i]].list = heap[store[i]].list
              /\ lists'[heap[store[i]].list] = lists[heap[store[i]].list]
          BY <3>4, <3>5, <3>6, <4>3
        <5> QED BY <1>3, <2>1, <4>3, <5>1 DEF Listed
      <4> QED BY <4>1, <4>2, <4>3
    <3> QED BY <2>2, <3>1, <3>8, <3>9, ClearShows
  <2> QED BY <1>6, <2>3, <2>4 DEF Sessions!MemoryGetOrCreate
<1>7. ASSUME NEW c \in Users, NEW e \in Sessions!Event, Sessions!MemoryAppend(c, e) PROVE ListsApart' /\ SessionLog!Next
  <2> DEFINE o == held[c]
  <2>1. /\ o # 0 /\ Sessions!ApplyEvent(c, e) /\ UNCHANGED <<backend, store, held, row, eventRow, tx>>
        /\ created' = created + 1 /\ created < SessionEvents /\ e.n = created + 1
        /\ acked' = IF heap[o].live THEN [acked EXCEPT ![heap[o].id] = @ \cup {e}] ELSE acked
    BY <1>7 DEF Sessions!MemoryAppend, Sessions!NewEvent, Sessions!dbVars
  <2>2. /\ o \in 1..Len(heap) /\ DOMAIN heap' = 1..Len(heap)
        /\ \A i \in 1..Len(heap) : /\ heap'[i].id = heap[i].id /\ heap'[i].live = heap[i].live
                                   /\ heap'[i].list = heap[i].list
        /\ \A l \in 1..Len(lists) : Sessions!ToSet(lists'[l]) =
             IF l = heap[o].list THEN Sessions!ToSet(lists[l]) \cup {e} ELSE Sessions!ToSet(lists[l])
    BY <1>0, <2>1, EventIsListed
  <2> HIDE DEF o
  <2>3. \A i \in Ids : store'[i] = store[i] /\ (store[i] # 0 =>
          store[i] \in 1..Len(heap) /\ heap'[store[i]].list = heap[store[i]].list /\ heap[store[i]].list \in 1..Len(lists))
    BY <1>2, <2>1, <2>2
  <2>4. ListsApart'
    <3>1. ASSUME NEW p \in 1..Len(heap), NEW i \in Ids, store'[i] # 0, heap'[p].list = heap'[store'[i]].list
          PROVE  heap'[p].live /\ heap'[p].id = i
      BY <1>2, <2>2, <2>3, <3>1
    <3> QED BY <2>2, <3>1 DEF ListsApart
  <2>5. \A i \in Ids : store[i] # 0 => LogOf(i) = Sessions!ToSet(lists[heap[store[i]].list])
                                       /\ LogOf(i)' = Sessions!ToSet(lists'[heap[store[i]].list])
    BY <1>3, <2>1, <2>3 DEF Listed
  <2>6. \A i \in Ids : store[i] = 0 => LogOf(i) = {} /\ LogOf(i)' = {}
    BY <1>3, <2>1, <2>3 DEF Listed
  <2>7. e \notin PastEvents /\ PastEvents \cup {e} \subseteq PastEvents'
    <3>1. tx' = tx /\ \A d \in Users : tx[d].at # "appending"
      BY <1>0, <2>1 DEF Ordered, Sessions!Idle
    <3>2. \A f \in Sessions!Event : f.n \in Nat
      BY <1>1 DEF Sessions!Event
    <3> QED BY <1>1, <2>1, <3>1, <3>2 DEF PastEvents
  <2>8. CASE heap[o].live
    <3> DEFINE id == heap[o].id
    <3>1. id \in Ids /\ store[id] # 0 /\ heap[o].list = heap[store[id]].list
      BY <1>1, <1>2, <2>2, <2>8 DEF Object
    <3>2. ASSUME NEW i \in Ids PROVE LogOf(i)' = IF i = id THEN LogOf(i) \cup {e} ELSE LogOf(i)
      <4>1. CASE store[i] = 0
        BY <2>6, <3>1, <4>1
      <4>2. CASE store[i] # 0
        <5>1. heap[store[i]].list = heap[o].list <=> i = id
          BY <1>2, <2>2, <3>1, <4>2
        <5> DEFINE l == heap[store[i]].list
        <5>2. l \in 1..Len(lists) /\ LogOf(i) = Sessions!ToSet(lists[l]) /\ LogOf(i)' = Sessions!ToSet(lists'[l])
          BY <2>3, <2>5, <4>2
        <5> HIDE DEF l
        <5>3. Sessions!ToSet(lists'[l]) =
                IF l = heap[o].list THEN Sessions!ToSet(lists[l]) \cup {e} ELSE Sessions!ToSet(lists[l])
          BY <2>2, <5>2
        <5>4. l = heap[o].list <=> i = id
          BY <5>1 DEF l
        <5> QED BY <5>2, <5>3, <5>4
      <4> QED BY <4>1, <4>2
    <3>3. acked' = [acked EXCEPT ![id] = @ \cup {e}]
      BY <2>1, <2>8
    <3> HIDE DEF id
    <3> QED BY <2>4, <2>7, <3>1, <3>2, <3>3, AppendShows
  <2>9. CASE ~heap[o].live
    <3>1. ASSUME NEW i \in Ids PROVE LogOf(i)' = LogOf(i)
      <4>1. CASE store[i] = 0
        BY <2>6, <4>1
      <4>2. CASE store[i] # 0
        <5>1. heap[store[i]].list # heap[o].list
          BY <1>2, <2>2, <2>9, <4>2
        <5> DEFINE l == heap[store[i]].list
        <5>2. l \in 1..Len(lists) /\ LogOf(i) = Sessions!ToSet(lists[l]) /\ LogOf(i)' = Sessions!ToSet(lists'[l])
          BY <2>3, <2>5, <4>2
        <5> HIDE DEF l
        <5>3. Sessions!ToSet(lists'[l]) =
                IF l = heap[o].list THEN Sessions!ToSet(lists[l]) \cup {e} ELSE Sessions!ToSet(lists[l])
          BY <2>2, <5>2
        <5>4. l # heap[o].list
          BY <5>1 DEF l
        <5> QED BY <5>2, <5>3, <5>4
      <4> QED BY <4>1, <4>2
    <3> QED BY <2>1, <2>4, <2>7, <2>9, <3>1, NothingShows
  <2> QED BY <2>8, <2>9
<1> QED BY <1>4, <1>5, <1>6, <1>7

\* Every step of the database service, too: an append shows at its commit.
LEMMA DatabaseKeepsLogs ==
  ASSUME LogInv, SessionInv', SeenSo, SeenSo', backend = "database", NEW c \in Users,
         \/ \E id \in Ids, owner \in Owners : Sessions!DatabaseGetRow(c, id, owner)
         \/ \E e \in Sessions!Event : Sessions!DatabaseAppend(c, e)
         \/ Sessions!DatabaseGetEvents(c) \/ Sessions!DatabaseCreate(c) \/ Sessions!DatabaseCommit(c) \/ Sessions!DatabaseFail(c)
         \/ Sessions!DatabaseUpdateWrite(c)
         \/ \E id \in Ids : Sessions!DatabaseDelete(c, id) \/ (\E k \in Keys : Sessions!DatabaseUpdateRead(c, id, k))
  PROVE  NumbersApart' /\ Unheard' /\ SessionLog!Next
<1>0. Sessions!TypeOK /\ Ordered /\ NumbersApart
  BY DEF LogInv, SessionInv
<1>1. /\ \A id \in Ids : row[id] = Sessions!NoRow => acked[id] = {}
      /\ tx \in [Users -> Sessions!Transaction] /\ created \in Nat /\ row \in [Ids -> Sessions!Row]
      /\ acked \in [Ids -> SUBSET Sessions!Event]
      /\ \A d \in Users : tx[d].at = "appending" =>
           tx[d].event \in Sessions!Event /\ tx[d].event.n \in Nat /\ tx[d].event.n <= created
  BY <1>0, TransactionKinds DEF LogInv, Unheard, Sessions!TypeOK, Ordered, Sessions!Event
<1>2. \A e \in Sessions!Event : e.n \in Nat
  BY DEF Sessions!Event
<1>3. backend' = "database" => \A i \in Ids : LogOf(i) = Stored(i) /\ LogOf(i)' = Stored(i)'
  BY DEF SeenSo, View
\* A step that opens no transaction of an event.
<1>4. ASSUME created' = created, \A d \in Users : tx'[d].at = "appending" => tx'[d] = tx[d]
      PROVE  NumbersApart' /\ PastEvents \subseteq PastEvents'
  BY <1>0, <1>4 DEF NumbersApart, PastEvents
<1>5. ASSUME UNCHANGED <<backend, eventRow>> PROVE \A i \in Ids : LogOf(i)' = LogOf(i)
  BY <1>3, <1>5 DEF Stored, Rows
\* A step that changes nothing a load returns.
<1>6. ASSUME UNCHANGED <<backend, eventRow, acked, created>>,
             \A d \in Users : tx'[d].at = "appending" => tx'[d] = tx[d],
             \A i \in Ids : row'[i] = Sessions!NoRow => row[i] = Sessions!NoRow
      PROVE  NumbersApart' /\ Unheard' /\ SessionLog!Next
  <2>1. Unheard'
    BY <1>1, <1>6 DEF Unheard
  <2> QED BY <1>4, <1>5, <1>6, <2>1, NothingShows
<1>7. ASSUME NEW t, t.at # "appending", tx' = [tx EXCEPT ![c] = t]
      PROVE  \A d \in Users : tx'[d].at = "appending" => tx'[d] = tx[d]
  BY <1>1, <1>7
<1>8. Sessions!Idle.at # "appending"
  BY DEF Sessions!Idle
<1>10. ASSUME NEW id \in Ids, NEW owner \in Owners, Sessions!DatabaseGetRow(c, id, owner)
       PROVE  NumbersApart' /\ Unheard' /\ SessionLog!Next
  <2>1. \E t : t.at # "appending" /\ tx' = [tx EXCEPT ![c] = t]
    <3> DEFINE found == row[id] # Sessions!NoRow /\ row[id].owner = owner
               t == IF found THEN [at |-> "loading", id |-> id, row |-> row[id]]
                             ELSE [at |-> "creating", id |-> id, owner |-> owner]
    <3>1. tx' = [tx EXCEPT ![c] = t]
      BY <1>10 DEF Sessions!DatabaseGetRow
    <3>2. t.at # "appending"
      OBVIOUS
    <3> HIDE DEF t
    <3> QED BY <3>1, <3>2
  <2>2. UNCHANGED <<backend, row, eventRow, acked, created>>
    BY <1>10 DEF Sessions!DatabaseGetRow
  <2>3. \A d \in Users : tx'[d].at = "appending" => tx'[d] = tx[d]
    BY <1>7, <2>1
  <2> QED BY <1>6, <2>2, <2>3
<1>11. ASSUME NEW e \in Sessions!Event, Sessions!DatabaseAppend(c, e)
       PROVE  NumbersApart' /\ Unheard' /\ SessionLog!Next
  <2>1. /\ e.n = created + 1 /\ created' = created + 1
        /\ tx' = [tx EXCEPT ![c] = [at |-> "appending", event |-> e]]
        /\ UNCHANGED <<backend, row, eventRow, acked>>
    BY <1>11 DEF Sessions!DatabaseAppend, Sessions!NewEvent
  <2>2. tx'[c].event = e /\ \A d \in Users : d # c => tx'[d] = tx[d]
    BY <1>1, <2>1
  <2>3. NumbersApart'
    <3>1. \A d \in Users : d # c /\ tx[d].at = "appending" => tx[d].event.n # e.n
      BY <1>1, <2>1
    <3> QED BY <1>0, <2>2, <3>1 DEF NumbersApart
  <2>4. PastEvents \subseteq PastEvents'
    <3> SUFFICES ASSUME NEW f \in PastEvents PROVE f \in PastEvents'
      OBVIOUS
    <3>1. f \in Sessions!Event /\ f.n <= created /\ f.n \in Nat
      BY <1>2 DEF PastEvents
    <3>2. f.n <= created' /\ e.n # f.n
      BY <1>1, <2>1, <3>1
    <3>3. \A d \in Users : tx'[d].at = "appending" => tx'[d].event.n # f.n
      BY <2>2, <3>2 DEF PastEvents
    <3> QED BY <3>1, <3>2, <3>3 DEF PastEvents
  <2>5. Unheard'
    BY <1>1, <2>1 DEF Unheard
  <2> QED BY <1>5, <2>1, <2>3, <2>4, <2>5, NothingShows
<1>12. ASSUME Sessions!DatabaseGetEvents(c) PROVE NumbersApart' /\ Unheard' /\ SessionLog!Next
  <2>1. tx' = [tx EXCEPT ![c] = Sessions!Idle] /\ UNCHANGED <<backend, row, eventRow, acked, created>>
    BY <1>12 DEF Sessions!DatabaseGetEvents
  <2> QED BY <1>6, <1>7, <1>8, <2>1
<1>13. ASSUME Sessions!DatabaseCreate(c) PROVE NumbersApart' /\ Unheard' /\ SessionLog!Next
  <2> DEFINE id == tx[c].id
             new == [owner |-> tx[c].owner, state |-> Sessions!EmptyState]
  <2>1. /\ tx[c].at = "creating" /\ tx' = [tx EXCEPT ![c] = Sessions!Idle]
        /\ UNCHANGED <<backend, eventRow, created>>
        /\ \/ UNCHANGED <<row, acked>>
           \/ /\ row[id] = Sessions!NoRow /\ row' = [row EXCEPT ![id] = new]
              /\ acked' = [acked EXCEPT ![id] = {}]
    BY <1>13 DEF Sessions!DatabaseCreate
  <2>2. id \in Ids
    BY <1>0, <2>1, TransactionKinds
  <2> HIDE DEF id, new
  <2>3. acked' = acked
    BY <1>1, <2>1, <2>2
  <2>4. \A i \in Ids : row'[i] = Sessions!NoRow => row[i] = Sessions!NoRow
    BY <1>1, <2>1, <2>2
  <2> QED BY <1>6, <1>7, <1>8, <2>1, <2>3, <2>4
<1>14. ASSUME Sessions!DatabaseCommit(c) PROVE NumbersApart' /\ Unheard' /\ SessionLog!Next
  <2> DEFINE id == heap[held[c]].id
             state == heap[held[c]].state
             e == tx[c].event
             new == [id |-> id, event |-> e]
  <2>1. /\ tx[c].at = "appending" /\ eventRow' = eventRow \cup {new}
        /\ tx' = [tx EXCEPT ![c] = Sessions!Idle] /\ UNCHANGED <<backend, created>>
        /\ \/ row[id] = Sessions!NoRow /\ UNCHANGED <<row, acked>>
           \/ /\ row[id] # Sessions!NoRow /\ row' = [row EXCEPT ![id].state = state]
              /\ acked' = [acked EXCEPT ![id] = @ \cup {e}]
    BY <1>14 DEF Sessions!DatabaseCommit
  <2>2. id \in Ids
    <3>1. held[c] # 0 /\ held[c] \in 0..Len(heap) /\ Len(heap) \in Nat
      BY <1>0, <2>1 DEF Ordered, Sessions!TypeOK
    <3>2. held[c] \in 1..Len(heap)
      BY <3>1
    <3>3. heap[held[c]] \in Object
      BY <1>0, <3>2, ServicesAssumption, SessionBounds
    <3> QED BY <3>3 DEF Object
  <2>3. e \in Sessions!Event /\ e.n <= created
    BY <1>1, <2>1
  <2>4. new.id = id /\ new.event = e
    OBVIOUS
  <2> HIDE DEF id, state, e, new
  <2>5. ASSUME NEW i \in Ids PROVE LogOf(i)' = IF i = id THEN LogOf(i) \cup {e} ELSE LogOf(i)
    <3>1. Rows(i)' = IF i = id THEN Rows(i) \cup {new} ELSE Rows(i)
      BY <2>1, <2>4 DEF Rows
    <3>2. Stored(i)' = IF i = id THEN Stored(i) \cup {e} ELSE Stored(i)
      BY <2>4, <3>1 DEF Stored
    <3> QED BY <1>3, <2>1, <3>2
  <2>6. \A d \in Users : tx'[d].at = "appending" => tx'[d] = tx[d] /\ d # c
    BY <1>1, <1>8, <2>1
  <2>7. NumbersApart' /\ PastEvents \subseteq PastEvents'
    BY <1>4, <2>1, <2>6
  <2>8. e \notin PastEvents
    BY <2>1 DEF PastEvents, e
  <2>9. e \in PastEvents'
    <3>1. \A d \in Users : tx'[d].at = "appending" => tx'[d].event.n # e.n
      BY <1>0, <2>1, <2>6 DEF NumbersApart, e
    <3> QED BY <2>1, <2>3, <3>1 DEF PastEvents
  <2>10. Unheard'
    <3>1. ASSUME NEW i \in Ids, row'[i] = Sessions!NoRow PROVE acked'[i] = {}
      <4>1. CASE UNCHANGED <<row, acked>>
        BY <1>1, <3>1, <4>1
      <4>2. CASE row[id] # Sessions!NoRow /\ row' = [row EXCEPT ![id].state = state] /\ acked' = [acked EXCEPT ![id] = @ \cup {e}]
        <5>1. row'[id] # Sessions!NoRow
          <6>1. row[id] \in [owner : Owners, state : Sessions!State]
            BY <1>1, <2>2, <4>2 DEF Sessions!Row
          <6>2. row'[id] = [row[id] EXCEPT !.state = state]
            BY <1>1, <2>2, <4>2
          <6>3. DOMAIN row'[id] = {"owner", "state"}
            BY <6>1, <6>2
          <6>4. "state" \notin DOMAIN Sessions!NoRow
            BY DEF Sessions!NoRow
          <6> QED BY <6>3, <6>4
        <5>2. i # id /\ row'[i] = row[i] /\ acked'[i] = acked[i]
          BY <1>1, <2>2, <3>1, <4>2, <5>1
        <5> QED BY <1>1, <3>1, <5>2
      <4> QED BY <2>1, <4>1, <4>2
    <3> QED BY <3>1 DEF Unheard
  <2>11. acked' = acked \/ acked' = [acked EXCEPT ![id] = @ \cup {e}]
    BY <2>1
  <2> QED BY <2>2, <2>3, <2>5, <2>7, <2>8, <2>9, <2>10, <2>11, AppendShows
<1>15. ASSUME Sessions!DatabaseFail(c) PROVE NumbersApart' /\ Unheard' /\ SessionLog!Next
  <2>1. tx' = [tx EXCEPT ![c] = Sessions!Idle] /\ UNCHANGED <<backend, row, eventRow, acked, created>>
    BY <1>15 DEF Sessions!DatabaseFail
  <2> QED BY <1>6, <1>7, <1>8, <2>1
<1>16. ASSUME Sessions!DatabaseUpdateWrite(c) PROVE NumbersApart' /\ Unheard' /\ SessionLog!Next
  <2> DEFINE t == tx[c]
  <2>1. /\ t.at = "updating" /\ tx' = [tx EXCEPT ![c] = Sessions!Idle]
        /\ row' = IF row[t.id] = Sessions!NoRow THEN row ELSE [row EXCEPT ![t.id].state = t.state]
        /\ UNCHANGED <<backend, eventRow, acked, created>>
    BY <1>16 DEF Sessions!DatabaseUpdateWrite
  <2>2. t.id \in Ids
    BY <1>0, <2>1, TransactionKinds
  <2> HIDE DEF t
  <2>3. ASSUME NEW i \in Ids, row'[i] = Sessions!NoRow PROVE row[i] = Sessions!NoRow
    <3>1. CASE row[t.id] = Sessions!NoRow
      BY <2>1, <2>3, <3>1
    <3>2. CASE row[t.id] # Sessions!NoRow
      <4>1. row[t.id] \in [owner : Owners, state : Sessions!State]
        BY <1>1, <2>2, <3>2 DEF Sessions!Row
      <4>2. /\ row'[t.id] = [row[t.id] EXCEPT !.state = t.state]
            /\ \A j \in Ids : j # t.id => row'[j] = row[j]
        BY <1>1, <2>1, <2>2, <3>2
      <4>3. DOMAIN row'[t.id] = {"owner", "state"}
        BY <4>1, <4>2
      <4>4. "state" \notin DOMAIN Sessions!NoRow
        BY DEF Sessions!NoRow
      <4>5. row'[t.id] # Sessions!NoRow
        BY <4>3, <4>4
      <4> QED BY <2>3, <4>2, <4>5
    <3> QED BY <3>1, <3>2
  <2> QED BY <1>6, <1>7, <1>8, <2>1, <2>3
<1>17. ASSUME NEW id \in Ids, Sessions!DatabaseDelete(c, id) PROVE NumbersApart' /\ Unheard' /\ SessionLog!Next
  <2>1. /\ eventRow' = {r \in eventRow : r.id # id} /\ row' = [row EXCEPT ![id] = Sessions!NoRow]
        /\ acked' = [acked EXCEPT ![id] = {}] /\ UNCHANGED <<backend, tx, created>>
    BY <1>17 DEF Sessions!DatabaseDelete
  <2>2. ASSUME NEW i \in Ids PROVE LogOf(i)' = IF i = id THEN {} ELSE LogOf(i)
    <3>1. Rows(i)' = IF i = id THEN {} ELSE Rows(i)
      BY <2>1 DEF Rows
    <3>2. Stored(i)' = IF i = id THEN {} ELSE Stored(i)
      BY <3>1 DEF Stored
    <3> QED BY <1>3, <2>1, <3>2
  <2>3. PastEvents' = PastEvents /\ NumbersApart'
    BY <1>0, <2>1 DEF PastEvents, NumbersApart
  <2>4. Unheard'
    BY <1>1, <2>1 DEF Unheard
  <2> QED BY <2>1, <2>2, <2>3, <2>4, ClearShows
<1>18. ASSUME NEW id \in Ids, NEW k \in Keys, Sessions!DatabaseUpdateRead(c, id, k)
       PROVE  NumbersApart' /\ Unheard' /\ SessionLog!Next
  <2>1. PICK t : t.at # "appending" /\ tx' = [tx EXCEPT ![c] = t]
    BY <1>18 DEF Sessions!DatabaseUpdateRead
  <2>2. UNCHANGED <<backend, row, eventRow, acked, created>>
    BY <1>18 DEF Sessions!DatabaseUpdateRead
  <2> QED BY <1>6, <1>7, <2>1, <2>2
<1> QED BY <1>10, <1>11, <1>12, <1>13, <1>14, <1>15, <1>16, <1>17, <1>18

\* A step keeps the invariant, and is a step of SessionLog or a stutter.
LEMMA LogInvIsKept ==
  ASSUME LogInv, SessionInv', SeenSo, SeenSo', [Sessions!Next]_Sessions!vars
  PROVE  LogInv' /\ [SessionLog!Next]_SessionLog!vars
<1>1. CASE UNCHANGED Sessions!vars
  <2>1. UNCHANGED <<backend, heap, lists, store, row, eventRow, held, tx, acked, created>>
    BY <1>1 DEF Sessions!vars
  <2>2. ListsApart' /\ NumbersApart' /\ Unheard'
    BY <2>1 DEF LogInv, ListsApart, NumbersApart, Unheard
  <2>3. PastEvents' = PastEvents
    BY <2>1 DEF PastEvents
  <2>4. \A i \in Ids : LogOf(i)' = LogOf(i)
    BY <2>1 DEF SeenSo, View, Stored, Rows, Listed
  <2> QED BY <2>1, <2>2, <2>3, <2>4, NothingShows DEF LogInv
<1>2. CASE Sessions!Next
  <2>1. /\ backend \in {"memory", "database"} /\ backend' = backend
        /\ backend = "memory" => (\A c \in Users : tx[c].at = "idle") /\ tx' = tx
    <3>1. Sessions!TypeOK /\ Ordered
      BY DEF LogInv, SessionInv
    <3>2. backend' = backend
      BY <1>2 DEF Sessions!Next, Sessions!MemoryDelete, Sessions!MemoryUpdate, Sessions!MemoryGetOrCreate, Sessions!MemoryAppend,
         Sessions!DatabaseGetRow, Sessions!DatabaseAppend, Sessions!DatabaseGetEvents, Sessions!DatabaseCreate,
         Sessions!DatabaseCommit, Sessions!DatabaseFail, Sessions!DatabaseUpdateWrite, Sessions!DatabaseDelete, Sessions!DatabaseUpdateRead
    <3>3. backend = "memory" => \A c \in Users : tx[c].at = "idle"
      BY <3>1 DEF Ordered, Sessions!Idle
    <3>4. ASSUME backend = "memory" PROVE tx' = tx
      BY <1>2, <3>3, <3>4 DEF Sessions!Next, Sessions!dbVars, Sessions!MemoryDelete, Sessions!MemoryUpdate, Sessions!MemoryGetOrCreate, Sessions!MemoryAppend,
         Sessions!DatabaseGetRow, Sessions!DatabaseAppend, Sessions!DatabaseGetEvents, Sessions!DatabaseCreate,
         Sessions!DatabaseCommit, Sessions!DatabaseFail, Sessions!DatabaseUpdateWrite, Sessions!DatabaseDelete, Sessions!DatabaseUpdateRead
    <3> QED BY <3>1, <3>2, <3>3, <3>4 DEF Sessions!TypeOK
  <2>2. CASE backend = "memory"
    <3>1. \/ \E id \in Ids : Sessions!MemoryDelete(id) \/ (\E k \in Keys : Sessions!MemoryUpdate(id, k))
          \/ \E c \in Users : \/ \E id \in Ids, owner \in Owners : Sessions!MemoryGetOrCreate(c, id, owner)
                             \/ \E e \in Sessions!Event : Sessions!MemoryAppend(c, e)
      BY <1>2, <2>1, <2>2 DEF Sessions!Next, Sessions!DatabaseGetRow, Sessions!DatabaseAppend, Sessions!DatabaseGetEvents, Sessions!DatabaseCreate,
         Sessions!DatabaseCommit, Sessions!DatabaseFail, Sessions!DatabaseUpdateWrite, Sessions!DatabaseDelete, Sessions!DatabaseUpdateRead
    <3>2. ListsApart' /\ SessionLog!Next
      BY <2>2, <3>1, MemoryKeepsLogs, ZenonT(60)
    <3>3. NumbersApart' /\ Unheard'
      BY <2>1, <2>2 DEF NumbersApart, Unheard
    <3> QED BY <3>2, <3>3 DEF LogInv
  <2>3. CASE backend = "database"
    <3>1. PICK c \in Users :
            \/ \E id \in Ids, owner \in Owners : Sessions!DatabaseGetRow(c, id, owner)
            \/ \E e \in Sessions!Event : Sessions!DatabaseAppend(c, e)
            \/ Sessions!DatabaseGetEvents(c) \/ Sessions!DatabaseCreate(c) \/ Sessions!DatabaseCommit(c) \/ Sessions!DatabaseFail(c)
            \/ Sessions!DatabaseUpdateWrite(c)
            \/ \E id \in Ids : Sessions!DatabaseDelete(c, id) \/ (\E k \in Keys : Sessions!DatabaseUpdateRead(c, id, k))
      BY <1>2, <2>3 DEF Sessions!Next, Sessions!MemoryDelete, Sessions!MemoryUpdate, Sessions!MemoryGetOrCreate, Sessions!MemoryAppend
    <3>2. NumbersApart' /\ Unheard' /\ SessionLog!Next
      BY <2>3, <3>1, DatabaseKeepsLogs, ZenonT(60)
    <3>3. ListsApart'
      BY <2>1, <2>3 DEF ListsApart
    <3> QED BY <3>2, <3>3 DEF LogInv
  <2> QED BY <2>1, <2>2, <2>3
<1> QED BY <1>1, <1>2

\* At the start there are no sessions.
LEMMA LogsInit == Sessions!Init => LogInv /\ SessionLog!Init
<1> SUFFICES ASSUME Sessions!Init PROVE LogInv /\ SessionLog!Init
  OBVIOUS
<1>1. SessionInv
  BY ServicesAssumption, SessionsInit
<1>2. ListsApart /\ NumbersApart /\ Unheard
  BY DEF Sessions!Init, ListsApart, NumbersApart, Unheard, Sessions!Idle
<1>3. SeenSo
  BY <1>1, ViewIsLoaded
<1>4. \A i \in Ids : LogOf(i) = {}
  BY <1>3 DEF Sessions!Init, SeenSo, View, Stored, Rows, Listed
<1>5. PastEvents = {}
  <2>1. \A e \in Sessions!Event : e.n \in Nat \ {0}
    BY DEF Sessions!Event
  <2> QED BY <2>1 DEF Sessions!Init, PastEvents
<1>6. SessionLog!Init
  BY <1>4, <1>5 DEF SessionLog!Init, Sessions!Init, LogOf
<1> QED BY <1>1, <1>2, <1>6 DEF LogInv

\* Both session services keep the promise of the base class, for any number of
\* callers, sessions, objects and events: an append puts its event into what one
\* session loads, once, whichever object it went through; an acknowledged event
\* stays there until the session is deleted or replaced; nothing else changes.
THEOREM SessionLogsAreKept == MCSpec => KeepsSessionLogs
<1>1. Sessions!Init => SessionLog!Init /\ LogInv
  BY LogsInit
<1>2. SessionInv /\ [Sessions!Next]_Sessions!vars => SessionInv'
  BY ServicesAssumption, SessionsStep
<1>3. SessionInv => SeenSo
  BY ViewIsLoaded
<1>4. SessionInv' => SeenSo'
  BY ViewIsLoadedNext
<1>5. LogInv => SessionInv
  BY DEF LogInv
<1>6. LogInv /\ [Sessions!Next]_Sessions!vars => LogInv' /\ [SessionLog!Next]_SessionLog!vars
  BY <1>2, <1>3, <1>4, <1>5, LogInvIsKept
<1> QED BY <1>1, <1>6, SessionsLift, PTL DEF Sessions!Spec, KeepsSessionLogs, SessionLog!Spec

\* What follows of the promise: whatever is in a log is past, so that no later
\* append can put it into a second one.
LogsArePast == \A id \in Ids : LogOf(id) \subseteq PastEvents

\* A step of SessionLog keeps the logs apart as long as all that is loaded is past.
LEMMA LogsStayApart ==
  ASSUME LogsArePast, SessionLog!Isolated, [SessionLog!Next]_SessionLog!vars
  PROVE  LogsArePast' /\ SessionLog!Isolated'
<1> DEFINE v == [i \in Ids |-> Sessions!ToSet(Sessions!LoadedEvents(i))]
<1>1. \A i \in Ids : v[i] = LogOf(i) /\ v'[i] = LogOf(i)'
  BY DEF LogOf
<1>2. DOMAIN v = Ids
  OBVIOUS
<1>3. \A i, j \in Ids : i # j => LogOf(i) \cap LogOf(j) = {}
  BY <1>1 DEF SessionLog!Isolated
<1>4. ASSUME \A i, j \in Ids : i # j => LogOf(i)' \cap LogOf(j)' = {} PROVE SessionLog!Isolated'
  BY <1>1, <1>4 DEF SessionLog!Isolated
<1>5. ASSUME PastEvents \subseteq PastEvents', \A i \in Ids : LogOf(i)' \subseteq LogOf(i)
      PROVE  LogsArePast' /\ SessionLog!Isolated'
  BY <1>3, <1>4, <1>5 DEF LogsArePast
<1>6. CASE SessionLog!Lose \/ UNCHANGED SessionLog!vars
  <2>1. PastEvents \subseteq PastEvents' /\ v' = v
    BY <1>6 DEF SessionLog!Lose, SessionLog!vars
  <2> HIDE DEF v
  <2> QED BY <1>1, <1>5, <2>1
<1>7. ASSUME NEW id \in Ids, SessionLog!Clear(id) PROVE LogsArePast' /\ SessionLog!Isolated'
  <2>1. PastEvents' = PastEvents /\ v' = [v EXCEPT ![id] = {}]
    BY <1>7 DEF SessionLog!Clear
  <2> HIDE DEF v
  <2>2. \A i \in Ids : LogOf(i)' \subseteq LogOf(i)
    BY <1>1, <1>2, <2>1
  <2> QED BY <1>5, <2>1, <2>2
<1>8. ASSUME NEW id \in Ids, NEW e \in Sessions!Event, SessionLog!Append(id, e)
      PROVE  LogsArePast' /\ SessionLog!Isolated'
  <2>1. e \notin PastEvents /\ PastEvents \cup {e} \subseteq PastEvents' /\ v' = [v EXCEPT ![id] = v[id] \cup {e}]
    BY <1>8 DEF SessionLog!Append
  <2> HIDE DEF v
  <2>2. \A i \in Ids : LogOf(i)' = IF i = id THEN LogOf(i) \cup {e} ELSE LogOf(i)
    BY <1>1, <1>2, <2>1
  <2>3. \A i \in Ids : e \notin LogOf(i)
    BY <2>1 DEF LogsArePast
  <2>4. LogsArePast'
    BY <2>1, <2>2 DEF LogsArePast
  <2>5. \A i, j \in Ids : i # j => LogOf(i)' \cap LogOf(j)' = {}
    BY <1>3, <2>2, <2>3
  <2> QED BY <1>4, <2>4, <2>5
<1> QED BY <1>6, <1>7, <1>8 DEF SessionLog!Next

\* No event shows up in two sessions: loads of different sessions have no event
\* in common, whatever objects, copies and rows the services keep them in.
THEOREM SessionsAreApart == MCSpec => []SessionLog!Isolated
<1>1. SessionLog!Init => LogsArePast /\ SessionLog!Isolated
  <2> SUFFICES ASSUME SessionLog!Init PROVE LogsArePast /\ SessionLog!Isolated
    OBVIOUS
  <2>1. \A i \in Ids : LogOf(i) = {}
    <3> DEFINE v == [i \in Ids |-> Sessions!ToSet(Sessions!LoadedEvents(i))]
    <3>1. v = [i \in Ids |-> {}] /\ \A i \in Ids : v[i] = LogOf(i)
      BY DEF SessionLog!Init, LogOf
    <3> HIDE DEF v
    <3> QED BY <3>1
  <2> QED BY <2>1 DEF LogsArePast, SessionLog!Isolated, LogOf
<1>2. LogsArePast /\ SessionLog!Isolated /\ [SessionLog!Next]_SessionLog!vars => LogsArePast' /\ SessionLog!Isolated'
  BY LogsStayApart
<1> QED BY <1>1, <1>2, SessionLogsAreKept, PTL DEF KeepsSessionLogs, SessionLog!Spec

(***************************************************************************)
(* Artifacts.                                                              *)
(***************************************************************************)
\* Every save got a version below its number, and a file is there once.
Numbered ==
  /\ \A p \in Artifacts!Paths : Len(versions[p]) <= begun
  /\ \A f \in payload : f.version < f.save /\ f.save <= begun
  /\ \A w \in Savers : saving[w] # Artifacts!None =>
       saving[w].version < saving[w].save /\ saving[w].save <= begun
  /\ \A f, g \in payload : f.path = g.path /\ f.version = g.version => f = g
  /\ \A f, g \in sidecar : f.path = g.path /\ f.version = g.version => f = g
  /\ artifactBackend = "memory" => saving = [w \in Savers |-> Artifacts!None]

\* A save that is alone is the only one of its path; its version is above all
\* others until it has written its bytes, and its bytes stay.
AloneIsFirst ==
  \A w \in Savers : saving[w] # Artifacts!None /\ saving[w].alone =>
    /\ \A v \in Savers : saving[v] # Artifacts!None /\ saving[v].path = saving[w].path => v = w
    /\ \A k \in kept : k.path = saving[w].path /\ k.alone => k.version < saving[w].version
    /\ saving[w].at = "written" => Artifacts!File(saving[w]) \in payload

\* A save that was kept alone is there, and no save under way has its version.
KeptIsThere ==
  \A k \in kept : k.alone =>
    IF artifactBackend = "memory"
      THEN k.version < Len(versions[k.path]) /\ versions[k.path][k.version + 1] = k.save
      ELSE /\ Artifacts!File(k) \in payload /\ Artifacts!File(k) \in sidecar /\ k.path \in dirs
           /\ \A w \in Savers : saving[w] # Artifacts!None /\ saving[w].path = k.path =>
                saving[w].version > k.version

ArtifactInv == Artifacts!TypeOK /\ Numbered /\ AloneIsFirst /\ KeptIsThere

LEMMA ArtifactsInit ==
  ASSUME Artifacts!ArtifactsAssumption, Artifacts!Init PROVE ArtifactInv
<1>1. Artifacts!TypeOK
  <2>1. versions \in [Artifacts!Paths -> Seq(1..MaxSaves)] /\ saving \in [Savers -> {Artifacts!None} \cup Artifacts!Task]
    BY DEF Artifacts!Init
  <2>2. begun \in 0..MaxSaves
    BY DEF Artifacts!Init, Artifacts!ArtifactsAssumption
  <2> QED BY <2>1, <2>2 DEF Artifacts!Init, Artifacts!TypeOK
<1>2. Numbered
  BY DEF Artifacts!Init, Numbered
<1>3. AloneIsFirst /\ KeptIsThere
  BY DEF Artifacts!Init, AloneIsFirst, KeptIsThere
<1> QED BY <1>1, <1>2, <1>3 DEF ArtifactInv

\* The next version is above every one that is there, and below the number of
\* the save it is chosen for.
LEMMA NextVersionIsAbove ==
  ASSUME Artifacts!ArtifactsAssumption, Artifacts!TypeOK, Numbered, NEW p \in Artifacts!Paths, artifactBackend = "files"
  PROVE  /\ Artifacts!NextVersion(p) \in 0..begun
         /\ \A f \in payload : f.path = p => f.version < Artifacts!NextVersion(p)
<1>1. MaxSaves \in Nat /\ begun \in Nat
  BY DEF Artifacts!ArtifactsAssumption, Artifacts!TypeOK
<1>2. Artifacts!Versions(p) \in SUBSET (0..MaxSaves)
  BY DEF Artifacts!Versions, Artifacts!TypeOK, Artifacts!Entry
<1>3. CASE Artifacts!Versions(p) = {}
  <2>1. Artifacts!NextVersion(p) = 0
    BY <1>3 DEF Artifacts!NextVersion
  <2>2. \A f \in payload : f.path # p
    BY <1>3 DEF Artifacts!Versions
  <2> QED BY <1>1, <2>1, <2>2
<1>4. CASE Artifacts!Versions(p) # {}
  <2>1. Artifacts!Max(Artifacts!Versions(p)) \in Artifacts!Versions(p) /\ \A k \in Artifacts!Versions(p) : k <= Artifacts!Max(Artifacts!Versions(p))
    BY <1>1, <1>2, <1>4, MaxIsThere
  <2>2. PICK f \in payload : f.path = p /\ f.version = Artifacts!Max(Artifacts!Versions(p))
    BY <2>1 DEF Artifacts!Versions
  <2>3. f.version \in 0..MaxSaves /\ f.save \in 1..MaxSaves /\ f.version < f.save /\ f.save <= begun
    BY DEF Artifacts!TypeOK, Artifacts!Entry, Numbered
  <2>4. Artifacts!NextVersion(p) = f.version + 1
    BY <1>4, <2>2 DEF Artifacts!NextVersion
  <2>5. ASSUME NEW g \in payload, g.path = p PROVE g.version < Artifacts!NextVersion(p)
    <3>1. g.version \in Artifacts!Versions(p) /\ g.version \in 0..MaxSaves
      BY <2>5 DEF Artifacts!Versions, Artifacts!TypeOK, Artifacts!Entry
    <3> QED BY <2>1, <2>2, <2>3, <2>4, <3>1
  <2> QED BY <1>1, <2>3, <2>4, <2>5
<1> QED BY <1>3, <1>4

\* What overwriting a file keeps.
LEMMA WrittenKeeps ==
  ASSUME NEW entries, NEW f,
         \A g, h \in entries : g.path = h.path /\ g.version = h.version => g = h
  PROVE  /\ f \in Artifacts!Written(entries, f)
         /\ \A g, h \in Artifacts!Written(entries, f) : g.path = h.path /\ g.version = h.version => g = h
         /\ \A g \in entries : g.path # f.path \/ g.version # f.version => g \in Artifacts!Written(entries, f)
         /\ \A g \in Artifacts!Written(entries, f) : g = f \/ g \in entries
  BY DEF Artifacts!Written

LEMMA SaveInMemory ==
  ASSUME Artifacts!ArtifactsAssumption, ArtifactInv, artifactBackend = "memory",
         NEW p \in Artifacts!Paths, Artifacts!MemorySave(p) \/ Artifacts!MemoryDelete(p)
  PROVE  ArtifactInv'
<1> USE DEF ArtifactInv
<1>1. MaxSaves \in Nat /\ begun \in 0..MaxSaves /\ Len(versions[p]) \in Nat /\ Len(versions[p]) <= begun
      /\ versions[p] \in Seq(1..MaxSaves)
  BY DEF Artifacts!ArtifactsAssumption, Artifacts!TypeOK, Numbered
<1>2. ASSUME Artifacts!MemorySave(p) PROVE ArtifactInv'
  <2>1. begun' = begun + 1 /\ begun' \in 1..MaxSaves
    BY <1>1, <1>2 DEF Artifacts!MemorySave, Artifacts!Begin
  <2> DEFINE new == [path |-> p, version |-> Len(versions[p]), save |-> begun', alone |-> TRUE]
  <2>2. kept' = kept \cup {new} /\ new \in [path : Artifacts!Paths, version : 0..MaxSaves, save : 1..MaxSaves, alone : BOOLEAN]
    BY <1>1, <1>2, <2>1 DEF Artifacts!MemorySave
  <2>3. /\ versions' \in [Artifacts!Paths -> Seq(1..MaxSaves)]
        /\ versions'[p] = Append(versions[p], begun')
        /\ \A q \in Artifacts!Paths : q # p => versions'[q] = versions[q]
    BY <1>1, <1>2, <2>1 DEF Artifacts!MemorySave, Artifacts!TypeOK
  <2>4. UNCHANGED <<artifactBackend, dirs, payload, sidecar, saving>>
    BY <1>2 DEF Artifacts!MemorySave
  <2>5. Artifacts!TypeOK'
    <3>1. begun' \in 0..MaxSaves
      BY <1>1, <2>1
    <3> HIDE DEF new
    <3> QED BY <2>2, <2>3, <2>4, <3>1 DEF Artifacts!TypeOK
  <2>6. Numbered'
    <3>1. ASSUME NEW q \in Artifacts!Paths PROVE Len(versions'[q]) <= begun'
      <4>1. CASE q = p
        <5>1. Len(versions'[p]) = Len(versions[p]) + 1
          BY <1>1, <2>1, <2>3
        <5> QED BY <1>1, <2>1, <4>1, <5>1
      <4>2. CASE q # p
        <5>1. Len(versions[q]) <= begun /\ Len(versions[q]) \in Nat
          BY DEF Numbered, Artifacts!TypeOK
        <5> QED BY <1>1, <2>1, <2>3, <4>2, <5>1
      <4> QED BY <4>1, <4>2
    <3>2. \A f \in payload : f.save <= begun'
      BY <1>1, <2>1 DEF Numbered, Artifacts!TypeOK, Artifacts!Entry
    <3> QED BY <2>4, <3>1, <3>2 DEF Numbered
  <2>7. AloneIsFirst'
    BY <2>4 DEF AloneIsFirst, Numbered
  <2>8. ASSUME NEW k \in kept', k.alone
        PROVE  k.version < Len(versions'[k.path]) /\ versions'[k.path][k.version + 1] = k.save
    <3>1. CASE k = new
      <4>1. /\ Len(Append(versions[p], begun')) = Len(versions[p]) + 1
            /\ Append(versions[p], begun')[Len(versions[p]) + 1] = begun'
        BY <1>1, <2>1, AppendProperties
      <4> QED BY <1>1, <2>3, <3>1, <4>1
    <3>2. CASE k \in kept
      <4>1. /\ k.path \in Artifacts!Paths /\ k.version \in 0..MaxSaves /\ versions[k.path] \in Seq(1..MaxSaves)
            /\ k.version < Len(versions[k.path]) /\ versions[k.path][k.version + 1] = k.save
        BY <2>8, <3>2 DEF Artifacts!TypeOK, KeptIsThere
      <4>2. CASE k.path # p
        BY <2>3, <4>1, <4>2
      <4>3. CASE k.path = p
        <5>1. /\ Len(Append(versions[p], begun')) = Len(versions[p]) + 1
              /\ \A i \in 1..Len(versions[p]) : Append(versions[p], begun')[i] = versions[p][i]
          BY <1>1, <2>1, AppendProperties
        <5>2. k.version + 1 \in 1..Len(versions[p]) /\ k.version < Len(versions[p]) + 1
          BY <1>1, <4>1, <4>3
        <5> QED BY <2>3, <4>1, <4>3, <5>1, <5>2
      <4> QED BY <4>2, <4>3
    <3> QED BY <2>2, <2>8, <3>1, <3>2
  <2>9. KeptIsThere'
    BY <2>4, <2>8 DEF KeptIsThere
  <2> QED BY <2>5, <2>6, <2>7, <2>9
<1>3. ASSUME Artifacts!MemoryDelete(p) PROVE ArtifactInv'
  <2>1. /\ versions' \in [Artifacts!Paths -> Seq(1..MaxSaves)]
        /\ versions'[p] = <<>>
        /\ \A q \in Artifacts!Paths : q # p => versions'[q] = versions[q]
    BY <1>3 DEF Artifacts!MemoryDelete, Artifacts!TypeOK
  <2>2. UNCHANGED <<artifactBackend, dirs, payload, sidecar, saving, begun>> /\ kept' = {k \in kept : k.path # p}
    BY <1>3 DEF Artifacts!MemoryDelete
  <2>3. Artifacts!TypeOK'
    BY <2>1, <2>2 DEF Artifacts!TypeOK
  <2>4. Numbered'
    BY <1>1, <2>1, <2>2 DEF Numbered
  <2>5. AloneIsFirst'
    BY <2>2 DEF AloneIsFirst, Numbered
  <2>6. KeptIsThere'
    BY <2>1, <2>2 DEF KeptIsThere, Artifacts!TypeOK
  <2> QED BY <2>3, <2>4, <2>5, <2>6
<1> QED BY <1>2, <1>3

LEMMA SaveToFiles ==
  ASSUME Artifacts!ArtifactsAssumption, ArtifactInv, artifactBackend = "files",
         \/ \E p \in Artifacts!Paths : Artifacts!FilesDelete(p)
         \/ \E w \in Savers : Artifacts!WritePayload(w) \/ Artifacts!WriteSidecar(w) \/ Artifacts!SaveFails(w)
                               \/ (\E p \in Artifacts!Paths : Artifacts!Choose(w, p))
  PROVE  ArtifactInv'
<1> USE DEF ArtifactInv
<1>0. MaxSaves \in Nat /\ begun \in 0..MaxSaves
  BY DEF Artifacts!ArtifactsAssumption, Artifacts!TypeOK
<1>1. ASSUME NEW p \in Artifacts!Paths
      PROVE  /\ Artifacts!Disturb(p) \in [Savers -> {Artifacts!None} \cup Artifacts!Task]
             /\ \A w \in Savers :
                  /\ Artifacts!Disturb(p)[w] = Artifacts!None <=> saving[w] = Artifacts!None
                  /\ saving[w] # Artifacts!None /\ saving[w].path # p => Artifacts!Disturb(p)[w] = saving[w]
                  /\ saving[w] # Artifacts!None =>
                       /\ Artifacts!Disturb(p)[w].path = saving[w].path
                       /\ Artifacts!Disturb(p)[w].version = saving[w].version
                       /\ Artifacts!Disturb(p)[w].save = saving[w].save
                       /\ Artifacts!Disturb(p)[w].alone => saving[w].path # p
  BY ZenonT(60) DEF Artifacts!Disturb, Artifacts!Saving, Artifacts!TypeOK, Artifacts!Task, Artifacts!None
<1>2. ASSUME NEW w \in Savers, NEW p \in Artifacts!Paths, Artifacts!Choose(w, p) PROVE ArtifactInv'
  <2> DEFINE new == [at |-> "chosen", path |-> p, version |-> Artifacts!NextVersion(p), save |-> begun',
                     alone |-> Artifacts!Saving(p) = {}]
  <2>1. /\ begun' = begun + 1 /\ begun' \in 1..MaxSaves
        /\ UNCHANGED <<artifactBackend, versions, payload, sidecar, kept>> /\ dirs' = dirs \cup {p}
    BY <1>0, <1>2 DEF Artifacts!Choose, Artifacts!Begin
  <2>2. /\ Artifacts!NextVersion(p) \in 0..begun
        /\ \A f \in payload : f.path = p => f.version < Artifacts!NextVersion(p)
    BY NextVersionIsAbove
  <2>3. new \in Artifacts!Task /\ new # Artifacts!None
    BY <1>0, <2>1, <2>2 DEF Artifacts!Task, Artifacts!None
  <2>4. /\ saving' \in [Savers -> {Artifacts!None} \cup Artifacts!Task] /\ saving'[w] = new
        /\ \A v \in Savers \ {w} : saving'[v] = Artifacts!Disturb(p)[v]
    BY <1>1, <1>2, <2>3 DEF Artifacts!Choose
  <2> HIDE DEF new
  <2>5. new.path = p /\ new.version = Artifacts!NextVersion(p) /\ new.save = begun' /\ new.at = "chosen"
        /\ (new.alone => Artifacts!Saving(p) = {})
    BY DEF new
  <2>6. Artifacts!TypeOK'
    BY <2>1, <2>4 DEF Artifacts!TypeOK
  <2>7. Numbered'
    <3>1. ASSUME NEW v \in Savers, saving'[v] # Artifacts!None
          PROVE  saving'[v].version < saving'[v].save /\ saving'[v].save <= begun'
      <4>1. CASE v = w
        BY <1>0, <2>1, <2>2, <2>4, <2>5, <4>1
      <4>2. CASE v # w
        <5>1. /\ saving[v] # Artifacts!None /\ saving'[v].version = saving[v].version
              /\ saving'[v].save = saving[v].save
          BY <1>1, <2>4, <3>1, <4>2
        <5>2. saving[v].version < saving[v].save /\ saving[v].save <= begun /\ saving[v].save \in Nat
          BY <5>1 DEF Numbered, Artifacts!TypeOK, Artifacts!Task
        <5> QED BY <1>0, <2>1, <5>1, <5>2
      <4> QED BY <4>1, <4>2
    <3>2. \A q \in Artifacts!Paths : Len(versions[q]) <= begun'
      BY <1>0, <2>1 DEF Numbered, Artifacts!TypeOK
    <3>3. \A f \in payload : f.save <= begun'
      BY <1>0, <2>1 DEF Numbered, Artifacts!TypeOK, Artifacts!Entry
    <3> QED BY <2>1, <3>1, <3>2, <3>3 DEF Numbered
  <2>8. ASSUME NEW k \in kept, k.alone, k.path = p PROVE k.version < Artifacts!NextVersion(p)
    BY <2>2, <2>8 DEF KeptIsThere, Artifacts!File
  <2>9. AloneIsFirst'
    <3> SUFFICES ASSUME NEW v \in Savers, saving'[v] # Artifacts!None, saving'[v].alone
                 PROVE  /\ \A u \in Savers : saving'[u] # Artifacts!None /\ saving'[u].path = saving'[v].path => u = v
                        /\ \A k \in kept' : k.path = saving'[v].path /\ k.alone => k.version < saving'[v].version
                        /\ saving'[v].at = "written" => Artifacts!File(saving'[v]) \in payload'
      BY DEF AloneIsFirst
    <3>1. CASE v = w
      <4>1. \A u \in Savers : saving[u] # Artifacts!None => saving[u].path # p
        BY <2>4, <2>5, <3>1 DEF Artifacts!Saving
      <4>2. \A u \in Savers : saving'[u] # Artifacts!None /\ saving'[u].path = p => u = w
        BY <1>1, <2>4, <4>1
      <4> QED BY <2>1, <2>4, <2>5, <2>8, <3>1, <4>2
    <3>2. CASE v # w
      <4>1. saving'[v] = saving[v] /\ saving[v].path # p /\ saving[v] # Artifacts!None /\ saving[v].alone
        BY <1>1, <2>4, <3>2
      <4>2. \A u \in Savers \ {w} : saving'[u] # Artifacts!None => saving[u] # Artifacts!None /\ saving'[u].path = saving[u].path
        BY <1>1, <2>4
      <4> QED BY <2>1, <2>4, <2>5, <4>1, <4>2 DEF AloneIsFirst
    <3> QED BY <3>1, <3>2
  <2>10. KeptIsThere'
    <3> SUFFICES ASSUME NEW k \in kept, k.alone
                 PROVE  /\ Artifacts!File(k) \in payload /\ Artifacts!File(k) \in sidecar /\ k.path \in dirs'
                        /\ \A v \in Savers : saving'[v] # Artifacts!None /\ saving'[v].path = k.path =>
                             saving'[v].version > k.version
      BY <2>1 DEF KeptIsThere
    <3>1. Artifacts!File(k) \in payload /\ Artifacts!File(k) \in sidecar /\ k.path \in dirs'
      BY <2>1 DEF KeptIsThere
    <3>2. ASSUME NEW v \in Savers, saving'[v] # Artifacts!None, saving'[v].path = k.path
          PROVE  saving'[v].version > k.version
      <4>1. k.version \in 0..MaxSaves /\ Artifacts!NextVersion(p) \in Nat
        BY <1>0, <2>2 DEF Artifacts!TypeOK
      <4>2. CASE v = w
        BY <2>4, <2>5, <2>8, <3>2, <4>1, <4>2
      <4>3. CASE v # w
        BY <1>1, <2>4, <3>2, <4>3 DEF KeptIsThere
      <4> QED BY <4>2, <4>3
    <3> QED BY <3>1, <3>2
  <2> QED BY <2>6, <2>7, <2>9, <2>10
<1>3. ASSUME NEW w \in Savers, Artifacts!WritePayload(w) PROVE ArtifactInv'
  <2> DEFINE f == Artifacts!File(saving[w])
  <2>1. /\ saving[w] \in Artifacts!Task /\ saving[w].at = "chosen" /\ saving[w] # Artifacts!None
        /\ payload' = Artifacts!Written(payload, f)
        /\ UNCHANGED <<artifactBackend, versions, dirs, sidecar, begun, kept>>
    BY <1>3 DEF Artifacts!WritePayload, Artifacts!TypeOK
  <2>2. f \in Artifacts!Entry /\ f.path = saving[w].path /\ f.version = saving[w].version /\ f.save = saving[w].save
    BY <2>1 DEF Artifacts!File, Artifacts!Entry, Artifacts!Task
  <2>3. /\ saving' \in [Savers -> {Artifacts!None} \cup Artifacts!Task]
        /\ \A v \in Savers \ {w} : saving'[v] = saving[v]
        /\ saving'[w] = [saving[w] EXCEPT !.at = "written"] /\ saving'[w] # Artifacts!None
        /\ saving'[w].path = saving[w].path /\ saving'[w].version = saving[w].version
        /\ saving'[w].save = saving[w].save /\ saving'[w].alone = saving[w].alone
    BY <1>3, <2>1 DEF Artifacts!WritePayload, Artifacts!TypeOK, Artifacts!Task, Artifacts!None
  <2>4. saving[w].version < saving[w].save /\ saving[w].save <= begun
    BY <2>1 DEF Numbered
  <2> HIDE DEF f
  <2>5. /\ f \in payload'
        /\ \A g, h \in payload' : g.path = h.path /\ g.version = h.version => g = h
        /\ \A g \in payload : g.path # f.path \/ g.version # f.version => g \in payload'
        /\ \A g \in payload' : g = f \/ g \in payload
    BY <2>1, WrittenKeeps DEF Numbered
  <2>6. Artifacts!TypeOK'
    BY <2>1, <2>2, <2>3, <2>5 DEF Artifacts!TypeOK
  <2>7. Numbered'
    BY <2>1, <2>2, <2>3, <2>4, <2>5 DEF Numbered
  <2>8. \A v \in Savers : /\ saving'[v] # Artifacts!None <=> saving[v] # Artifacts!None
                          /\ saving[v] # Artifacts!None => /\ saving'[v].path = saving[v].path
                                                           /\ saving'[v].version = saving[v].version
                                                           /\ saving'[v].save = saving[v].save
                                                           /\ saving'[v].alone = saving[v].alone
    BY <2>1, <2>3
  <2>9. AloneIsFirst'
    <3> SUFFICES ASSUME NEW v \in Savers, saving[v] # Artifacts!None, saving[v].alone
                 PROVE  saving'[v].at = "written" => Artifacts!File(saving'[v]) \in payload'
      BY <2>1, <2>8 DEF AloneIsFirst
    <3>1. CASE v = w
      BY <2>3, <2>5, <3>1 DEF Artifacts!File, f
    <3>2. CASE v # w
      <4>1. saving'[v] = saving[v] /\ saving[v].path # f.path
        BY <2>1, <2>2, <2>3, <3>2 DEF AloneIsFirst
      <4>2. saving[v].at = "written" => Artifacts!File(saving[v]) \in payload
        BY DEF AloneIsFirst
      <4>3. Artifacts!File(saving[v]).path = saving[v].path
        BY DEF Artifacts!File
      <4> QED BY <2>5, <4>1, <4>2, <4>3
    <3> QED BY <3>1, <3>2
  <2>10. KeptIsThere'
    <3>1. ASSUME NEW k \in kept, k.alone PROVE Artifacts!File(k) \in payload'
      <4>1. Artifacts!File(k) \in payload /\ (k.path = f.path => k.version < f.version)
        BY <2>1, <2>2, <3>1 DEF KeptIsThere
      <4>2. Artifacts!File(k).path = k.path /\ Artifacts!File(k).version = k.version
        BY DEF Artifacts!File
      <4>3. k.version \in Nat /\ f.version \in Nat
        BY <2>2 DEF Artifacts!TypeOK, Artifacts!Entry
      <4> QED BY <2>5, <4>1, <4>2, <4>3
    <3> QED BY <2>1, <2>8, <3>1 DEF KeptIsThere
  <2> QED BY <2>6, <2>7, <2>9, <2>10
<1>4. ASSUME NEW w \in Savers, Artifacts!WriteSidecar(w) PROVE ArtifactInv'
  <2> DEFINE f == Artifacts!File(saving[w])
             new == [path |-> saving[w].path, version |-> saving[w].version,
                     save |-> saving[w].save, alone |-> saving[w].alone]
  <2>1. /\ saving[w] \in Artifacts!Task /\ saving[w].at = "written" /\ saving[w] # Artifacts!None
        /\ saving[w].path \in dirs
        /\ sidecar' = Artifacts!Written(sidecar, f)
        /\ UNCHANGED <<artifactBackend, versions, dirs, payload, begun>>
        /\ saving' = [saving EXCEPT ![w] = Artifacts!None]
    BY <1>4 DEF Artifacts!WriteSidecar, Artifacts!TypeOK
  <2>2. f \in Artifacts!Entry /\ f.path = saving[w].path /\ f.version = saving[w].version /\ f.save = saving[w].save
    BY <2>1 DEF Artifacts!File, Artifacts!Entry, Artifacts!Task
  <2>3. /\ saving' \in [Savers -> {Artifacts!None} \cup Artifacts!Task]
        /\ \A v \in Savers : saving'[v] # Artifacts!None => saving'[v] = saving[v] /\ v # w
    BY <2>1 DEF Artifacts!TypeOK
  <2>4. /\ new \in [path : Artifacts!Paths, version : 0..MaxSaves, save : 1..MaxSaves, alone : BOOLEAN]
        /\ Artifacts!File(new) = f /\ new.path = f.path /\ new.version = f.version
        /\ \A k \in kept' : k \in kept \/ k = new
    BY <1>4, <2>1, <2>2 DEF Artifacts!WriteSidecar, Artifacts!Task, Artifacts!File
  <2>5. new.alone => saving[w].alone
    OBVIOUS
  <2> HIDE DEF new, f
  <2>6. /\ f \in sidecar'
        /\ \A g, h \in sidecar' : g.path = h.path /\ g.version = h.version => g = h
        /\ \A g \in sidecar : g.path # f.path \/ g.version # f.version => g \in sidecar'
        /\ \A g \in sidecar' : g = f \/ g \in sidecar
    BY <2>1, WrittenKeeps DEF Numbered
  <2>7. Artifacts!TypeOK'
    BY <2>1, <2>2, <2>3, <2>4, <2>6 DEF Artifacts!TypeOK
  <2>8. Numbered'
    BY <2>1, <2>3, <2>6 DEF Numbered
  <2>9. AloneIsFirst'
    <3>1. ASSUME NEW v \in Savers, saving'[v] # Artifacts!None, saving'[v].alone
          PROVE  saving'[v] = saving[v] /\ saving[v].path # new.path
      BY <2>1, <2>2, <2>3, <2>4, <3>1 DEF AloneIsFirst
    <3> QED BY <2>1, <2>3, <2>4, <3>1 DEF AloneIsFirst
  <2>10. ASSUME NEW k \in kept', k.alone
         PROVE  /\ Artifacts!File(k) \in payload' /\ Artifacts!File(k) \in sidecar' /\ k.path \in dirs'
                /\ \A v \in Savers : saving'[v] # Artifacts!None /\ saving'[v].path = k.path =>
                     saving'[v].version > k.version
    <3>1. CASE k = new
      <4>1. saving[w].alone /\ f \in payload
        BY <2>1, <2>5, <2>10, <3>1 DEF AloneIsFirst, f
      <4>2. \A v \in Savers : saving'[v] # Artifacts!None => saving'[v].path # new.path
        BY <2>1, <2>2, <2>3, <2>4, <4>1 DEF AloneIsFirst
      <4> QED BY <2>1, <2>2, <2>4, <2>6, <3>1, <4>1, <4>2
    <3>2. CASE k \in kept
      <4>1. /\ Artifacts!File(k) \in payload /\ Artifacts!File(k) \in sidecar /\ k.path \in dirs
            /\ (k.path = f.path => k.version < f.version)
            /\ \A v \in Savers : saving[v] # Artifacts!None /\ saving[v].path = k.path =>
                 saving[v].version > k.version
        BY <2>1, <2>2, <2>10, <3>2 DEF KeptIsThere
      <4>2. Artifacts!File(k).path = k.path /\ Artifacts!File(k).version = k.version
        BY DEF Artifacts!File
      <4>3. k.version \in Nat /\ f.version \in Nat
        BY <2>2, <3>2 DEF Artifacts!TypeOK, Artifacts!Entry
      <4> QED BY <2>1, <2>3, <2>6, <4>1, <4>2, <4>3
    <3> QED BY <2>4, <3>1, <3>2
  <2>11. KeptIsThere'
    BY <2>1, <2>10 DEF KeptIsThere
  <2> QED BY <2>7, <2>8, <2>9, <2>11
<1>5. ASSUME NEW w \in Savers, Artifacts!SaveFails(w) PROVE ArtifactInv'
  <2>1. /\ saving' \in [Savers -> {Artifacts!None} \cup Artifacts!Task]
        /\ \A v \in Savers : saving'[v] # Artifacts!None => saving'[v] = saving[v]
        /\ UNCHANGED <<artifactBackend, versions, dirs, payload, sidecar, begun, kept>>
    BY <1>5 DEF Artifacts!SaveFails, Artifacts!TypeOK
  <2>2. Artifacts!TypeOK'
    BY <2>1 DEF Artifacts!TypeOK
  <2>3. Numbered' /\ AloneIsFirst' /\ KeptIsThere'
    BY <2>1 DEF Numbered, AloneIsFirst, KeptIsThere
  <2> QED BY <2>2, <2>3
<1>6. ASSUME NEW p \in Artifacts!Paths, Artifacts!FilesDelete(p) PROVE ArtifactInv'
  <2>1. /\ saving' = Artifacts!Disturb(p) /\ kept' = {k \in kept : k.path # p}
        /\ payload' = {f \in payload : f.path # p} /\ sidecar' = {f \in sidecar : f.path # p}
        /\ dirs' = dirs \ {p} /\ UNCHANGED <<artifactBackend, versions, begun>>
    BY <1>6 DEF Artifacts!FilesDelete
  <2>2. Artifacts!TypeOK'
    BY <1>1, <2>1 DEF Artifacts!TypeOK
  <2>3. Numbered'
    BY <1>1, <2>1 DEF Numbered
  <2>4. AloneIsFirst'
    <3>1. ASSUME NEW v \in Savers, saving'[v] # Artifacts!None, saving'[v].alone
          PROVE  saving[v] # Artifacts!None /\ saving'[v] = saving[v] /\ saving[v].path # p
      BY <1>1, <2>1, <3>1
    <3>2. ASSUME NEW v \in Savers, saving'[v] # Artifacts!None
          PROVE  saving[v] # Artifacts!None /\ saving'[v].path = saving[v].path
      BY <1>1, <2>1, <3>2
    <3>3. \A v \in Savers : Artifacts!File(saving[v]).path = saving[v].path
      BY DEF Artifacts!File
    <3> QED BY <2>1, <3>1, <3>2, <3>3 DEF AloneIsFirst
  <2>5. KeptIsThere'
    <3>1. \A v \in Savers : saving'[v] # Artifacts!None =>
            /\ saving[v] # Artifacts!None /\ saving'[v].path = saving[v].path
            /\ saving'[v].version = saving[v].version
      BY <1>1, <2>1
    <3>2. \A k \in kept : Artifacts!File(k).path = k.path
      BY DEF Artifacts!File
    <3> QED BY <2>1, <3>1, <3>2 DEF KeptIsThere
  <2> QED BY <2>2, <2>3, <2>4, <2>5
<1> QED BY <1>2, <1>3, <1>4, <1>5, <1>6

LEMMA ArtifactsStep ==
  ASSUME Artifacts!ArtifactsAssumption, ArtifactInv, [Artifacts!Next]_Artifacts!vars PROVE ArtifactInv'
<1>1. artifactBackend \in {"memory", "files"}
  BY DEF ArtifactInv, Artifacts!TypeOK
<1>2. CASE UNCHANGED Artifacts!vars
  BY <1>2 DEF Artifacts!vars, ArtifactInv, Artifacts!TypeOK, Numbered, AloneIsFirst, KeptIsThere
<1>3. CASE Artifacts!Crash
  <2>1. Artifacts!TypeOK'
    BY <1>3 DEF Artifacts!Crash, ArtifactInv, Artifacts!TypeOK
  <2>2. Numbered'
    <3>1. \A p \in Artifacts!Paths : versions'[p] = <<>> /\ begun' \in Nat
      BY <1>3 DEF Artifacts!Crash, ArtifactInv, Artifacts!TypeOK
    <3> QED BY <1>3, <3>1 DEF Artifacts!Crash, ArtifactInv, Numbered
  <2>3. AloneIsFirst'
    BY <1>3 DEF Artifacts!Crash, AloneIsFirst
  <2>4. KeptIsThere'
    BY <1>3 DEF Artifacts!Crash, ArtifactInv, KeptIsThere
  <2> QED BY <2>1, <2>2, <2>3, <2>4 DEF ArtifactInv
<1>4. CASE artifactBackend = "memory"
  <2>1. Artifacts!Next => Artifacts!Crash \/ \E p \in Artifacts!Paths : Artifacts!MemorySave(p) \/ Artifacts!MemoryDelete(p)
    BY <1>4 DEF Artifacts!Next, Artifacts!FilesDelete, Artifacts!WritePayload, Artifacts!WriteSidecar, Artifacts!SaveFails, Artifacts!Choose, ArtifactInv, Numbered
  <2> QED BY <1>2, <1>3, <1>4, <2>1, SaveInMemory
<1>5. CASE artifactBackend = "files"
  <2>1. Artifacts!Next => \/ Artifacts!Crash \/ \E p \in Artifacts!Paths : Artifacts!FilesDelete(p)
                          \/ \E w \in Savers : Artifacts!WritePayload(w) \/ Artifacts!WriteSidecar(w) \/ Artifacts!SaveFails(w)
                                                \/ (\E p \in Artifacts!Paths : Artifacts!Choose(w, p))
    BY <1>5 DEF Artifacts!Next, Artifacts!MemorySave, Artifacts!MemoryDelete
  <2> QED BY <1>2, <1>3, <1>5, <2>1, SaveToFiles
<1> QED BY <1>1, <1>4, <1>5

LEMMA KeptIsReturned ==
  ASSUME Artifacts!ArtifactsAssumption, ArtifactInv PROVE Artifacts!IsolatedSaveIsKept
<1> SUFFICES ASSUME NEW k \in kept, k.alone
             PROVE  /\ Artifacts!Load(k.path, k.version) = {k.save}
                    /\ Artifacts!VersionInfo(k.path, k.version) = {k.save}
                    /\ \A s \in SessionIds : k.path[1] \in {s, UserScope} => k.path[2] \in Artifacts!Listed(s)
  BY DEF Artifacts!IsolatedSaveIsKept
<1>1. /\ k.path \in Artifacts!Paths /\ k.version \in Nat /\ artifactBackend \in {"memory", "files"}
      /\ k.path = <<k.path[1], k.path[2]>> /\ k.path[2] \in Files
  BY DEF ArtifactInv, Artifacts!TypeOK, Artifacts!Paths
<1>2. CASE artifactBackend = "memory"
  <2>1. /\ k.version < Len(versions[k.path]) /\ versions[k.path][k.version + 1] = k.save
        /\ Len(versions[k.path]) \in Nat
    BY <1>1, <1>2 DEF ArtifactInv, Artifacts!TypeOK, KeptIsThere
  <2>2. k.version \in Artifacts!Versions(k.path) /\ versions[k.path] # <<>>
    BY <1>1, <1>2, <2>1 DEF Artifacts!Versions
  <2>3. Artifacts!Load(k.path, k.version) = {k.save}
    BY <1>2, <2>1, <2>2 DEF Artifacts!Load
  <2>4. Artifacts!VersionInfo(k.path, k.version) = {k.save}
    BY <1>2, <2>3 DEF Artifacts!VersionInfo
  <2>5. ASSUME NEW s \in SessionIds, k.path[1] \in {s, UserScope} PROVE k.path[2] \in Artifacts!Listed(s)
    BY <1>1, <1>2, <2>2, <2>5 DEF Artifacts!Listed
  <2> QED BY <2>3, <2>4, <2>5
<1>3. CASE artifactBackend = "files"
  <2>1. Artifacts!File(k) \in payload /\ Artifacts!File(k) \in sidecar /\ k.path \in dirs
    BY <1>3 DEF ArtifactInv, KeptIsThere
  <2>2. Artifacts!File(k).path = k.path /\ Artifacts!File(k).version = k.version /\ Artifacts!File(k).save = k.save
    BY DEF Artifacts!File
  <2>3. {f \in payload : f.path = k.path /\ f.version = k.version} = {Artifacts!File(k)}
    BY <2>1, <2>2 DEF ArtifactInv, Numbered
  <2>4. {f \in sidecar : f.path = k.path /\ f.version = k.version} = {Artifacts!File(k)}
    BY <2>1, <2>2 DEF ArtifactInv, Numbered
  <2>5. k.version \in Artifacts!Versions(k.path)
    BY <1>3, <2>1, <2>2 DEF Artifacts!Versions
  <2>6. Artifacts!Load(k.path, k.version) = {k.save}
    BY <1>3, <2>2, <2>3, <2>5 DEF Artifacts!Load
  <2>7. Artifacts!VersionInfo(k.path, k.version) = {k.save}
    BY <1>3, <2>2, <2>4 DEF Artifacts!VersionInfo
  <2>8. ASSUME NEW s \in SessionIds, k.path[1] \in {s, UserScope} PROVE k.path[2] \in Artifacts!Listed(s)
    BY <1>1, <1>3, <2>1, <2>8 DEF Artifacts!Listed
  <2> QED BY <2>6, <2>7, <2>8
<1> QED BY <1>1, <1>2, <1>3

LEMMA ArtifactsLift == MCSpec => Artifacts!Spec
<1>1. MCInit => Artifacts!Init
  BY DEF MCInit
<1>2. [MCNext]_allVars => [Artifacts!Next]_Artifacts!vars
  BY DEF MCNext, SessionsNext, ArtifactsNext, MemoryNext, McpNext, AttestationNext, ComposerNext,
         FileSystemNext, IdentityNext, allVars, artifactVars, Artifacts!vars
<1> QED BY <1>1, <1>2, PTL DEF MCSpec, Artifacts!Spec

\* save_artifact: a save of a path that no other save overlapped stays, under
\* the version it returned, what every load of that version returns.
THEOREM IsolatedSavesAreKept == MCSpec => []IsolatedSaveIsKept
<1>0. Artifacts!ArtifactsAssumption
  BY ServicesAssumption
<1>1. Artifacts!Init => ArtifactInv
  BY <1>0, ArtifactsInit
<1>2. ArtifactInv /\ [Artifacts!Next]_Artifacts!vars => ArtifactInv'
  BY <1>0, ArtifactsStep
<1>3. ArtifactInv => IsolatedSaveIsKept
  BY <1>0, KeptIsReturned DEF IsolatedSaveIsKept
<1> QED BY <1>1, <1>2, <1>3, ArtifactsLift, PTL DEF Artifacts!Spec

(***************************************************************************)
(* File memory.                                                            *)
(***************************************************************************)
\* No two files are equally old.
Dated ==
  /\ \A f \in files : f.mtime <= opsBegun
  /\ \A f, g \in files : f.mtime = g.mtime => f = g

\* An operation that is alone is the only one; what it scanned is still there.
\* One that is not alone leaves the directory disturbed.
AloneSeesAll ==
  /\ \A p \in Memory!Busy : op[p].alone => Memory!Busy = {p}
  /\ \A p \in Memory!Busy : op[p].alone /\ op[p].at = "scanned" => op[p].headers = Memory!Scan
  /\ \A p \in Memory!Busy : ~op[p].alone => disturbed

IndexIsScan == Memory!Busy = {} /\ ~disturbed => index = Memory!Index(Memory!Scan)

MemoryInv == Memory!TypeOK /\ Dated /\ AloneSeesAll /\ IndexIsScan

\* scan_memory_files: every file, once, newest first.
LEMMA ScanIsSorted ==
  ASSUME Memory!FileMemoryAssumption, Memory!TypeOK, Dated
  PROVE  /\ Cardinality(files) \in Nat
         /\ Memory!Scan \in [1..Cardinality(files) -> files]
         /\ \A j, k \in 1..Cardinality(files) : j < k => Memory!Scan[j].mtime > Memory!Scan[k].mtime
         /\ \A f \in files : \E k \in 1..Cardinality(files) : Memory!Scan[k] = f
<1> DEFINE key == [f \in files |-> f.mtime]
<1>1. MaxOps \in Nat /\ \A f \in files : f.mtime \in 1..MaxOps
  BY DEF Memory!FileMemoryAssumption, Memory!TypeOK, Memory!Header
<1>2. IsFiniteSet(files) /\ Cardinality(files) \in Nat
  <2>1. key \in [files -> 1..MaxOps]
    BY <1>1
  <2>2. \A f, g \in files : key[f] = key[g] => f = g
    BY DEF Dated
  <2>3. key \in Injection(files, 1..MaxOps)
    BY <2>1, <2>2 DEF Injection, IsInjective
  <2>4. IsFiniteSet(1..MaxOps)
    BY <1>1, FS_Interval
  <2> HIDE DEF key
  <2> QED BY <2>3, <2>4, FS_Injection, FS_CardinalityType
<1>3. \E s \in [1..Cardinality(files) -> files] :
        \A j, k \in DOMAIN s : j < k => s[j].mtime > s[k].mtime
  <2>1. key \in [files -> Nat] /\ \A f, g \in files : key[f] = key[g] => f = g
    BY <1>1 DEF Dated
  <2>2. PICK s \in [1..Cardinality(files) -> files] :
          \A j, k \in 1..Cardinality(files) : j < k => key[s[j]] > key[s[k]]
    <3> HIDE DEF key
    <3> QED BY <1>2, <2>1, SortedExists
  <2> QED BY <2>2
<1>4. /\ Memory!Scan \in [1..Cardinality(files) -> files]
      /\ \A j, k \in 1..Cardinality(files) : j < k => Memory!Scan[j].mtime > Memory!Scan[k].mtime
  BY <1>3, SameCardinality DEF Memory!Scan
<1>5. Memory!Scan \in Surjection(1..Cardinality(files), files)
  <2>1. \A j, k \in 1..Cardinality(files) : Memory!Scan[j] = Memory!Scan[k] => j = k
    <3> SUFFICES ASSUME NEW j \in 1..Cardinality(files), NEW k \in 1..Cardinality(files),
                        j < k, Memory!Scan[j] = Memory!Scan[k]
                 PROVE  FALSE
      BY <1>2
    <3>1. Memory!Scan[j].mtime > Memory!Scan[k].mtime /\ Memory!Scan[k].mtime \in Nat
      BY <1>1, <1>4
    <3> QED BY <3>1
  <2>2. Memory!Scan \in Injection(1..Cardinality(files), files)
    BY <1>4, <2>1 DEF Injection, IsInjective
  <2>3. Cardinality(1..Cardinality(files)) = Cardinality(files)
    BY <1>2, FS_Interval
  <2> QED BY <1>2, <2>2, <2>3, FS_Injection
<1>6. \A f \in files : \E k \in 1..Cardinality(files) : Memory!Scan[k] = f
  BY <1>4, <1>5 DEF Surjection
<1> QED BY <1>2, <1>4, <1>6

\* update_memory_index: the first entries, up to the cap.
LEMMA IndexOfHeaders ==
  ASSUME Memory!FileMemoryAssumption, NEW S, NEW headers \in Seq(S)
  PROVE  /\ Memory!Index(headers) \in Seq(S)
         /\ Len(Memory!Index(headers)) = Memory!Min({IndexCap, Len(headers)})
         /\ Len(Memory!Index(headers)) <= IndexCap /\ Len(Memory!Index(headers)) <= Len(headers)
         /\ \A k \in 1..Len(Memory!Index(headers)) : Memory!Index(headers)[k] = headers[k]
<1> DEFINE n == Memory!Min({IndexCap, Len(headers)})
<1>1. IndexCap \in Nat /\ Len(headers) \in Nat
  BY DEF Memory!FileMemoryAssumption
<1>2. n \in {IndexCap, Len(headers)} /\ n <= IndexCap /\ n <= Len(headers)
  <2>1. \E m \in {IndexCap, Len(headers)} : \A k \in {IndexCap, Len(headers)} : m <= k
    BY <1>1
  <2> QED BY <2>1 DEF Memory!Min
<1>3. n \in Nat
  BY <1>1, <1>2
<1> HIDE DEF n
<1>4. \A i \in 1..n : headers[i] \in S
  BY <1>1, <1>2, <1>3, ElementOfSeq
<1>5. /\ SubSeq(headers, 1, n) \in Seq(S)
      /\ Len(SubSeq(headers, 1, n)) = IF 1 <= n THEN n - 1 + 1 ELSE 0
      /\ \A i \in 1..(n - 1 + 1) : SubSeq(headers, 1, n)[i] = headers[1 + i - 1]
  BY <1>3, <1>4, SubSeqProperties
<1>6. Memory!Index(headers) = SubSeq(headers, 1, n)
  BY DEF Memory!Index, n
<1>7. Len(Memory!Index(headers)) = n
  BY <1>3, <1>5, <1>6
<1>8. \A k \in 1..n : 1 + k - 1 = k /\ k \in 1..(n - 1 + 1)
  BY <1>3
<1>9. \A k \in 1..n : Memory!Index(headers)[k] = headers[k]
  BY <1>5, <1>6, <1>8
<1> QED BY <1>2, <1>5, <1>6, <1>7, <1>9 DEF n

LEMMA MemoryInit ==
  ASSUME Memory!FileMemoryAssumption, Memory!Init PROVE MemoryInv
<1>1. Memory!TypeOK
  <2>1. op \in [Procs -> {Memory!None} \cup Memory!Operation] /\ index \in Seq(Memory!Header) /\ Len(index) = 0
    BY DEF Memory!Init
  <2>2. opsBegun \in 0..MaxOps /\ 0 <= IndexCap
    BY DEF Memory!Init, Memory!FileMemoryAssumption
  <2>3. disturbed \in BOOLEAN
    BY Zenon DEF Memory!Init
  <2> QED BY <2>1, <2>2, <2>3 DEF Memory!Init, Memory!TypeOK
<1>2. Dated /\ AloneSeesAll
  BY DEF Memory!Init, Dated, AloneSeesAll, Memory!Busy
<1>3. index = Memory!Index(Memory!Scan)
  <2>1. Dated /\ files = {}
    BY <1>2 DEF Memory!Init
  <2>2. Memory!Scan \in [1..Cardinality(files) -> files] /\ Cardinality(files) = 0
    BY <1>1, <2>1, ScanIsSorted, FS_EmptySet
  <2>3. Memory!Scan \in Seq(Memory!Header) /\ Len(Memory!Scan) = 0
    BY <2>1, <2>2
  <2>4. Memory!Index(Memory!Scan) \in Seq(Memory!Header) /\ Len(Memory!Index(Memory!Scan)) <= 0 /\ Len(Memory!Index(Memory!Scan)) \in Nat
    <3>1. Memory!Index(Memory!Scan) \in Seq(Memory!Header) /\ Len(Memory!Index(Memory!Scan)) <= Len(Memory!Scan)
      BY <2>3, IndexOfHeaders
    <3> QED BY <2>3, <3>1
  <2> QED BY <2>4 DEF Memory!Init
<1> QED BY <1>1, <1>2, <1>3 DEF MemoryInv, IndexIsScan

LEMMA MemoryStep ==
  ASSUME Memory!FileMemoryAssumption, MemoryInv, [Memory!Next]_Memory!vars PROVE MemoryInv'
<1> USE DEF MemoryInv
<1>0. /\ MaxOps \in Nat /\ opsBegun \in 0..MaxOps
      /\ \A p \in Procs : op[p] \in {Memory!None} \cup Memory!Operation
      /\ \A p \in Procs : op[p] # Memory!None => op[p].alone \in BOOLEAN /\ op[p].headers \in Seq(Memory!Header)
      /\ Memory!Scan \in Seq(Memory!Header)
  <2>1. MaxOps \in Nat /\ opsBegun \in 0..MaxOps
    BY DEF Memory!FileMemoryAssumption, Memory!TypeOK
  <2>2. \A p \in Procs : op[p] \in {Memory!None} \cup Memory!Operation
    BY DEF Memory!TypeOK
  <2>3. \A p \in Procs : op[p] # Memory!None => op[p].alone \in BOOLEAN /\ op[p].headers \in Seq(Memory!Header)
    BY <2>2 DEF Memory!Operation
  <2>4. Memory!Scan \in Seq(Memory!Header)
    <3>1. Memory!Scan \in [1..Cardinality(files) -> files] /\ Cardinality(files) \in Nat
      BY ScanIsSorted
    <3>2. Memory!Scan \in Seq(files)
      BY <3>1, SeqDef
    <3> QED BY <3>2, SeqMonotonic DEF Memory!TypeOK
  <2> QED BY <2>1, <2>2, <2>3, <2>4
<1>1. ASSUME NEW p \in Procs, NEW place \in {"found", "changed"}, NEW headers \in Seq(Memory!Header),
             Memory!Begin(p, place, headers)
      PROVE  /\ opsBegun' = opsBegun + 1 /\ opsBegun' \in 1..MaxOps
             /\ op' \in [Procs -> {Memory!None} \cup Memory!Operation]
             /\ index' = index /\ disturbed' \in BOOLEAN
             /\ AloneSeesAll' /\ IndexIsScan'
  <2> DEFINE new == [at |-> place, headers |-> headers, alone |-> Memory!Busy = {}]
  <2>1. new \in Memory!Operation /\ new # Memory!None /\ new.at # "scanned"
    BY DEF Memory!Operation, Memory!None
  <2>2. \A q \in Procs : op[q] # Memory!None =>
          /\ [op[q] EXCEPT !.alone = FALSE] \in Memory!Operation /\ [op[q] EXCEPT !.alone = FALSE] # Memory!None
          /\ ~[op[q] EXCEPT !.alone = FALSE].alone
    BY <1>0 DEF Memory!Operation, Memory!None
  <2>3. /\ op' = [q \in Procs |-> IF q = p THEN new
                    ELSE IF q \in Memory!Busy THEN [op[q] EXCEPT !.alone = FALSE] ELSE op[q]]
        /\ op[p] = Memory!None
        /\ opsBegun' = opsBegun + 1 /\ index' = index
        /\ disturbed' = (disturbed \/ Memory!Busy # {})
    BY <1>1 DEF Memory!Begin
  <2>4. opsBegun' \in 1..MaxOps
    BY <1>0, <1>1 DEF Memory!Begin
  <2>5. new.alone <=> Memory!Busy = {}
    OBVIOUS
  <2> HIDE DEF new
  <2>6. op' \in [Procs -> {Memory!None} \cup Memory!Operation]
    BY <1>0, <2>1, <2>2, <2>3 DEF Memory!Busy
  <2>7. Memory!Busy' = Memory!Busy \cup {p} /\ p \notin Memory!Busy
    BY <2>1, <2>2, <2>3 DEF Memory!Busy
  <2>8. \A q \in Memory!Busy : ~op'[q].alone
    BY <2>2, <2>3, <2>7 DEF Memory!Busy
  <2>9. op'[p] = new
    BY <2>3
  <2>10. AloneSeesAll'
    BY <2>1, <2>3, <2>5, <2>7, <2>8, <2>9 DEF AloneSeesAll
  <2>11. disturbed' \in BOOLEAN
    BY <2>3, Zenon
  <2> QED BY <2>3, <2>4, <2>6, <2>7, <2>10, <2>11 DEF IndexIsScan
<1>2. ASSUME NEW p \in Procs, NEW name \in Names, NEW type \in Types, Memory!Save(p, type, name)
      PROVE  MemoryInv'
  <2> DEFINE new == [type |-> type, slug |-> SlugOf[name], name |-> name, mtime |-> opsBegun']
             path == <<type, SlugOf[name]>>
  <2>1. PICK none \in Seq(Memory!Header) : Memory!Begin(p, "changed", none)
    <3>1. <<>> \in Seq(Memory!Header)
      OBVIOUS
    <3>2. Memory!Begin(p, "changed", <<>>)
      BY <1>2 DEF Memory!Save
    <3> QED BY <3>1, <3>2, Zenon
  <2>2. /\ opsBegun' = opsBegun + 1 /\ opsBegun' \in 1..MaxOps /\ op' \in [Procs -> {Memory!None} \cup Memory!Operation]
        /\ index' = index /\ disturbed' \in BOOLEAN /\ AloneSeesAll' /\ IndexIsScan'
    BY <1>1, <2>1
  <2>3. new \in Memory!Header /\ new.mtime = opsBegun'
    BY <2>2 DEF Memory!Header, Memory!FileMemoryAssumption
  <2>4. \A f \in files' : f \in files \/ f = new
    BY <1>2 DEF Memory!Save
  <2> HIDE DEF new
  <2>5. Memory!TypeOK'
    BY <2>2, <2>3, <2>4 DEF Memory!TypeOK
  <2>6. \A f \in files : f.mtime < opsBegun'
    BY <1>0, <2>2 DEF Dated, Memory!TypeOK, Memory!Header
  <2>7. Dated'
    <3>1. \A f \in files : f.mtime \in Nat
      BY DEF Memory!TypeOK, Memory!Header
    <3>2. \A f \in files' : f.mtime <= opsBegun'
      BY <1>0, <2>2, <2>3, <2>4, <2>6, <3>1
    <3>3. ASSUME NEW f \in files', NEW g \in files', f.mtime = g.mtime PROVE f = g
      BY <1>0, <2>2, <2>3, <2>4, <2>6, <3>1, <3>3 DEF Dated
    <3> QED BY <3>2, <3>3 DEF Dated
  <2> QED BY <2>2, <2>5, <2>7
<1>3. ASSUME NEW p \in Procs, NEW key \in Names \cup (Types \X Slugs), Memory!FindToDelete(p, key)
      PROVE  MemoryInv'
  <2>1. PICK f \in files : Memory!Begin(p, "found", <<f>>)
    BY <1>3 DEF Memory!FindToDelete, Memory!Matching
  <2>2. PICK found \in Seq(Memory!Header) : Memory!Begin(p, "found", found)
    <3>1. <<f>> \in Seq(Memory!Header)
      BY DEF Memory!TypeOK
    <3> QED BY <2>1, <3>1
  <2>3. /\ opsBegun' = opsBegun + 1 /\ opsBegun' \in 1..MaxOps /\ op' \in [Procs -> {Memory!None} \cup Memory!Operation]
        /\ index' = index /\ disturbed' \in BOOLEAN /\ AloneSeesAll' /\ IndexIsScan'
    BY <1>1, <2>2
  <2>4. files' = files
    BY <1>3 DEF Memory!FindToDelete
  <2>5. Memory!TypeOK'
    BY <2>3, <2>4 DEF Memory!TypeOK
  <2>6. Dated'
    <3>1. \A g \in files : g.mtime <= opsBegun /\ g.mtime \in Nat
      BY DEF Dated, Memory!TypeOK, Memory!Header
    <3> QED BY <1>0, <2>3, <2>4, <3>1 DEF Dated
  <2> QED BY <2>3, <2>5, <2>6
<1>4. ASSUME NEW p \in Procs, Memory!Unlink(p) PROVE MemoryInv'
  <2>1. /\ op[p] # Memory!None /\ files' \subseteq files /\ UNCHANGED <<index, opsBegun, disturbed>>
        /\ op' \in [Procs -> {Memory!None} \cup Memory!Operation]
        /\ op'[p] # Memory!None /\ op'[p].at = "changed" /\ op'[p].alone = op[p].alone
        /\ \A q \in Procs \ {p} : op'[q] = op[q]
    <3>1. op[p] \in Memory!Operation /\ op[p] # Memory!None
      BY <1>0, <1>4 DEF Memory!Unlink, Memory!None
    <3> DEFINE new == [at |-> "changed", headers |-> <<>>, alone |-> op[p].alone]
    <3>2. new \in Memory!Operation /\ new # Memory!None /\ new.at = "changed" /\ new.alone = op[p].alone
      BY <3>1 DEF Memory!Operation, Memory!None
    <3>3. op' = [op EXCEPT ![p] = new]
      BY <1>4 DEF Memory!Unlink
    <3> HIDE DEF new
    <3> QED BY <1>4, <3>1, <3>2, <3>3 DEF Memory!Unlink, Memory!TypeOK
  <2>2. Memory!Busy' = Memory!Busy /\ p \in Memory!Busy
    BY <2>1 DEF Memory!Busy
  <2>3. Memory!TypeOK' /\ Dated'
    BY <2>1 DEF Memory!TypeOK, Dated
  <2>4. AloneSeesAll'
    BY <2>1, <2>2 DEF AloneSeesAll, Memory!Busy
  <2> QED BY <2>2, <2>3, <2>4 DEF IndexIsScan
<1>5. ASSUME NEW p \in Procs, Memory!ScanFiles(p) PROVE MemoryInv'
  <2>1. /\ op[p] # Memory!None /\ UNCHANGED <<files, index, opsBegun, disturbed>>
        /\ op' \in [Procs -> {Memory!None} \cup Memory!Operation]
        /\ op'[p] # Memory!None /\ op'[p].alone = op[p].alone /\ op'[p].headers = Memory!Scan
        /\ \A q \in Procs \ {p} : op'[q] = op[q]
    <3> DEFINE new == [op[p] EXCEPT !.at = "scanned", !.headers = Memory!Scan]
    <3>1. op[p] \in Memory!Operation /\ op[p] # Memory!None
      BY <1>0, <1>5 DEF Memory!ScanFiles, Memory!None
    <3>2. new \in Memory!Operation /\ new # Memory!None /\ new.alone = op[p].alone /\ new.headers = Memory!Scan
      BY <1>0, <3>1 DEF Memory!Operation, Memory!None
    <3>3. op' = [op EXCEPT ![p] = new]
      BY <1>5, <3>1 DEF Memory!ScanFiles, Memory!TypeOK, Memory!Operation
    <3> HIDE DEF new
    <3> QED BY <1>5, <3>1, <3>2, <3>3 DEF Memory!ScanFiles, Memory!TypeOK
  <2>2. Memory!Busy' = Memory!Busy /\ p \in Memory!Busy
    BY <2>1 DEF Memory!Busy
  <2>3. Memory!TypeOK' /\ Dated' /\ Memory!Scan' = Memory!Scan
    BY <2>1 DEF Memory!TypeOK, Dated, Memory!Scan
  <2>4. AloneSeesAll'
    BY <2>1, <2>2, <2>3 DEF AloneSeesAll, Memory!Busy
  <2> QED BY <2>2, <2>3, <2>4 DEF IndexIsScan
<1>6. ASSUME NEW p \in Procs, Memory!WriteIndex(p) PROVE MemoryInv'
  <2>1. /\ op[p] \in Memory!Operation /\ op[p] # Memory!None /\ op[p].at = "scanned"
        /\ op' = [op EXCEPT ![p] = Memory!None] /\ UNCHANGED <<files, opsBegun>>
        /\ index' = Memory!Index(op[p].headers) /\ disturbed' = (disturbed /\ ~op[p].alone)
    BY <1>0, <1>6 DEF Memory!WriteIndex, Memory!None
  <2>2. index' \in Seq(Memory!Header) /\ Len(index') <= IndexCap
    BY <1>0, <2>1, IndexOfHeaders
  <2>3. Memory!TypeOK'
    <3>1. disturbed' \in BOOLEAN
      BY <2>1, Zenon
    <3>2. op' \in [Procs -> {Memory!None} \cup Memory!Operation]
      BY <2>1 DEF Memory!TypeOK
    <3> QED BY <2>1, <2>2, <3>1, <3>2 DEF Memory!TypeOK
  <2>4. Dated' /\ Memory!Scan' = Memory!Scan
    BY <2>1 DEF Dated, Memory!Scan
  <2>5. Memory!Busy' = Memory!Busy \ {p} /\ p \in Memory!Busy /\ \A q \in Memory!Busy' : op'[q] = op[q]
    BY <2>1 DEF Memory!Busy, Memory!TypeOK
  <2>6. AloneSeesAll'
    <3>1. ASSUME NEW q \in Memory!Busy', op[q].alone PROVE FALSE
      BY <2>5, <3>1 DEF AloneSeesAll
    <3>2. Memory!Busy' # {} => ~op[p].alone
      BY <2>5 DEF AloneSeesAll
    <3> QED BY <2>1, <2>5, <3>1, <3>2 DEF AloneSeesAll
  <2>7. IndexIsScan'
    <3> SUFFICES ASSUME ~disturbed' PROVE index' = Memory!Index(Memory!Scan)
      BY <2>4 DEF IndexIsScan, Memory!Index
    <3>1. op[p].alone
      BY <1>0, <2>1, <2>5 DEF AloneSeesAll
    <3> QED BY <2>1, <2>5, <3>1 DEF AloneSeesAll
  <2> QED BY <2>3, <2>4, <2>6, <2>7
<1>7. ASSUME NEW p \in Procs, Memory!Crash(p) PROVE MemoryInv'
  <2>1. /\ op' = [op EXCEPT ![p] = Memory!None] /\ UNCHANGED <<files, index, opsBegun>> /\ disturbed'
        /\ disturbed' \in BOOLEAN
    BY <1>7 DEF Memory!Crash
  <2>2. Memory!TypeOK' /\ Dated' /\ Memory!Scan' = Memory!Scan
    BY <2>1 DEF Memory!TypeOK, Dated, Memory!Scan
  <2>3. \A q \in Memory!Busy' : q \in Memory!Busy /\ op'[q] = op[q] /\ q # p
    BY <2>1 DEF Memory!Busy, Memory!TypeOK
  <2>4. AloneSeesAll'
    <3>1. \A q \in Memory!Busy' : op[q].alone => Memory!Busy' = {q}
      BY <2>3 DEF AloneSeesAll
    <3> QED BY <2>1, <2>2, <2>3, <3>1 DEF AloneSeesAll
  <2> QED BY <2>1, <2>2, <2>4 DEF IndexIsScan
<1>8. CASE UNCHANGED Memory!vars
  <2>1. Memory!Scan' = Memory!Scan /\ Memory!Busy' = Memory!Busy
    BY <1>8 DEF Memory!vars, Memory!Scan, Memory!Busy
  <2> QED BY <1>8, <2>1 DEF Memory!vars, Memory!TypeOK, Dated, AloneSeesAll, IndexIsScan, Memory!Index
<1> QED BY <1>2, <1>3, <1>4, <1>5, <1>6, <1>7, <1>8 DEF Memory!Next

LEMMA ScanHeals ==
  ASSUME Memory!FileMemoryAssumption, MemoryInv PROVE Memory!IndexHeals
<1> SUFFICES ASSUME Memory!Busy = {}, ~disturbed
             PROVE  /\ Memory!ToSet(index) \subseteq files /\ Len(index) = Memory!Min({IndexCap, Cardinality(files)})
                    /\ \A k \in DOMAIN index : \A f \in files :
                         f.mtime > index[k].mtime => \E j \in 1..(k - 1) : index[j] = f
  BY SameCardinality DEF Memory!IndexHeals
<1>1. index = Memory!Index(Memory!Scan) /\ index \in Seq(Memory!Header)
  BY DEF MemoryInv, IndexIsScan, Memory!TypeOK
<1>2. /\ Cardinality(files) \in Nat /\ Memory!Scan \in [1..Cardinality(files) -> files]
      /\ \A j, k \in 1..Cardinality(files) : j < k => Memory!Scan[j].mtime > Memory!Scan[k].mtime
      /\ \A f \in files : \E k \in 1..Cardinality(files) : Memory!Scan[k] = f
  BY ScanIsSorted DEF MemoryInv
<1>3. Memory!Scan \in Seq(files) /\ Len(Memory!Scan) = Cardinality(files)
  BY <1>2, SeqDef
<1>4. /\ index \in Seq(files) /\ Len(index) = Memory!Min({IndexCap, Cardinality(files)})
      /\ Len(index) <= Cardinality(files) /\ \A k \in 1..Len(index) : index[k] = Memory!Scan[k]
  BY <1>1, <1>3, IndexOfHeaders
<1>5. Memory!ToSet(index) \subseteq files
  BY <1>4 DEF Memory!ToSet
<1>6. ASSUME NEW k \in 1..Len(index), NEW f \in files, f.mtime > index[k].mtime
      PROVE  \E j \in 1..(k - 1) : index[j] = f
  <2>1. PICK j \in 1..Cardinality(files) : Memory!Scan[j] = f
    BY <1>2
  <2>2. k \in 1..Cardinality(files) /\ index[k] = Memory!Scan[k] /\ Len(index) \in Nat
    <3>1. Len(index) \in Nat /\ Len(index) <= Cardinality(files)
      BY <1>1, <1>4
    <3>2. k \in 1..Cardinality(files)
      BY <1>2, <3>1
    <3> QED BY <1>4, <3>1, <3>2
  <2>3. f.mtime \in Nat /\ Memory!Scan[k].mtime \in Nat
    <3>1. \A g \in files : g.mtime \in Nat
      BY DEF MemoryInv, Memory!TypeOK, Memory!Header
    <3> QED BY <1>2, <2>2, <3>1
  <2>4. ~(k < j) /\ j # k
    BY <1>2, <1>6, <2>1, <2>2, <2>3
  <2>5. j \in 1..(k - 1) /\ j \in 1..Len(index)
    BY <2>2, <2>4
  <2> QED BY <1>4, <2>1, <2>5
<1>7. DOMAIN index = 1..Len(index)
  BY <1>1
<1> QED BY <1>4, <1>5, <1>6, <1>7

LEMMA MemoryLift == MCSpec => Memory!Spec
<1>1. MCInit => Memory!Init
  BY DEF MCInit
<1>2. [MCNext]_allVars => [Memory!Next]_Memory!vars
  BY DEF MCNext, SessionsNext, ArtifactsNext, MemoryNext, McpNext, AttestationNext, ComposerNext,
         FileSystemNext, IdentityNext, allVars, memoryVars, Memory!vars
<1> QED BY <1>1, <1>2, PTL DEF MCSpec, Memory!Spec

\* update_memory_index: after an operation that was alone the index lists
\* exactly the newest files, whatever operations were cut off before it.
THEOREM TheIndexHeals == MCSpec => []IndexHeals
<1>0. Memory!FileMemoryAssumption
  BY ServicesAssumption
<1>1. Memory!Init => MemoryInv
  BY <1>0, MemoryInit
<1>2. MemoryInv /\ [Memory!Next]_Memory!vars => MemoryInv'
  BY <1>0, MemoryStep
<1>3. MemoryInv => IndexHeals
  BY <1>0, ScanHeals DEF IndexHeals
<1> QED BY <1>1, <1>2, <1>3, MemoryLift, PTL DEF Memory!Spec

(***************************************************************************)
(* MCP connections.  _session_depth counts the `async with` blocks         *)
(* somebody is in, so that it reaches zero only when nobody is in one.     *)
(***************************************************************************)
ConnState == {"unused", "connecting", "open", "failed", "closed"}
Place == [at : {"ready", "entering", "opening", "calling", "callingOwn"},
          conn : 0..MaxSessions]

McpTypes ==
  /\ session \in 0..MaxSessions
  /\ conn \in [Conns -> ConnState]
  /\ nesting \in [Callers -> 0..MaxDepth]
  /\ at \in [Callers -> Place]
  /\ joined \in [Callers -> 0..MaxSessions]

\* The blocks that are open: the n-th one of caller b[1], for b[2] = n.
Blocks == {b \in Callers \X (1..MaxDepth) : b[2] <= nesting[b[1]]}

DepthCountsBlocks == IsFiniteSet(Blocks) /\ Cardinality(Blocks) = depth

\* The FastMCP client of a call of its own is never the shared one, and who
\* waits for a handshake has room for one block more.
OwnIsOwn ==
  /\ session # 0 => conn[session] # "unused"
  /\ \A c \in Callers : at[c].at = "entering" => at[c].conn \in Conns /\ nesting[c] < MaxDepth
  /\ \A c \in Callers : at[c].at \in {"opening", "callingOwn"} =>
       at[c].conn \in Conns /\ at[c].conn # session /\ conn[at[c].conn] # "unused"

JoinedIsInside == \A c \in Callers : joined[c] # 0 => nesting[c] > 0

McpInv == McpTypes /\ DepthCountsBlocks /\ OwnIsOwn /\ JoinedIsInside /\ InsideKeepsItsSession

LEMMA McpInit == ASSUME McpAssumption, Init PROVE McpInv
<1>1. McpTypes
  BY DEF McpAssumption, Init, McpTypes, Place, ConnState, Ready, Conns
<1>2. Blocks = {}
  BY DEF Init, Blocks
<1>3. DepthCountsBlocks
  BY <1>2, FS_EmptySet DEF Init, DepthCountsBlocks
<1>4. OwnIsOwn /\ JoinedIsInside /\ InsideKeepsItsSession
  BY DEF Init, OwnIsOwn, JoinedIsInside, InsideKeepsItsSession, Ready
<1> QED BY <1>1, <1>3, <1>4 DEF McpInv

\* One block more, one block less.
LEMMA InCounts ==
  ASSUME McpAssumption, McpInv, NEW c \in Callers, nesting[c] < MaxDepth,
         nesting' = [nesting EXCEPT ![c] = @ + 1], depth' = depth + 1
  PROVE  DepthCountsBlocks'
<1> DEFINE b == <<c, nesting[c] + 1>>
<1>1. nesting[c] \in 0..MaxDepth /\ MaxDepth \in Nat
  BY DEF McpInv, McpTypes, McpAssumption
<1>2. b \in Callers \X (1..MaxDepth) /\ b \notin Blocks
  BY <1>1 DEF Blocks
<1>3. \A d \in Callers, n \in 1..MaxDepth :
        n <= nesting'[d] <=> n <= nesting[d] \/ (d = c /\ n = nesting[c] + 1)
  BY <1>1 DEF McpInv, McpTypes
<1>4. Blocks' = Blocks \cup {b}
  BY <1>2, <1>3 DEF Blocks
<1> QED BY <1>2, <1>4, FS_AddElement DEF McpInv, DepthCountsBlocks

LEMMA OutCounts ==
  ASSUME McpAssumption, McpInv, NEW c \in Callers, nesting[c] > 0,
         nesting' = [nesting EXCEPT ![c] = @ - 1], depth' = depth - 1
  PROVE  DepthCountsBlocks'
<1> DEFINE b == <<c, nesting[c]>>
<1>1. nesting[c] \in 0..MaxDepth /\ MaxDepth \in Nat
  BY DEF McpInv, McpTypes, McpAssumption
<1>2. b \in Blocks
  BY <1>1 DEF Blocks
<1>3. \A d \in Callers, n \in 1..MaxDepth :
        n <= nesting'[d] <=> n <= nesting[d] /\ ~(d = c /\ n = nesting[c])
  BY <1>1 DEF McpInv, McpTypes
<1>4. Blocks' = Blocks \ {b}
  BY <1>2, <1>3 DEF Blocks
<1> QED BY <1>2, <1>4, FS_RemoveElement DEF McpInv, DepthCountsBlocks

LEMMA GoInIsInside ==
  ASSUME McpAssumption, McpInv, NEW c \in Callers, nesting[c] < MaxDepth, GoIn(c),
         session' = session, conn' \in [Conns -> ConnState],
         \A s \in Conns : conn[s] = "open" => conn'[s] = "open"
  PROVE  /\ nesting' \in [Callers -> 0..MaxDepth] /\ joined' \in [Callers -> 0..MaxSessions]
         /\ DepthCountsBlocks' /\ JoinedIsInside' /\ InsideKeepsItsSession'
<1>1. nesting[c] \in 0..MaxDepth /\ MaxDepth \in Nat /\ 0 \in 0..MaxSessions
  BY DEF McpInv, McpTypes, McpAssumption
<1>2. nesting' \in [Callers -> 0..MaxDepth]
  BY <1>1 DEF GoIn, McpInv, McpTypes
<1>3. joined' \in [Callers -> 0..MaxSessions]
  BY <1>1 DEF GoIn, McpInv, McpTypes
<1>4. DepthCountsBlocks'
  BY InCounts DEF GoIn
<1>5. JoinedIsInside'
  BY <1>1 DEF GoIn, McpInv, McpTypes, JoinedIsInside
<1>6. ASSUME NEW d \in Callers, joined'[d] # 0
      PROVE  session = joined'[d] /\ conn'[joined'[d]] = "open"
  <2>1. CASE joined'[d] = joined[d]
    <3>1. session = joined[d] /\ conn[joined[d]] = "open" /\ joined[d] \in Conns
      BY <1>6, <2>1 DEF McpInv, InsideKeepsItsSession, McpTypes, Conns, McpAssumption
    <3> QED BY <2>1, <3>1
  <2>2. CASE joined'[d] # joined[d]
    BY <1>6, <2>2 DEF GoIn, McpInv, McpTypes
  <2> QED BY <2>1, <2>2
<1>7. InsideKeepsItsSession'
  BY <1>6 DEF InsideKeepsItsSession
<1> QED BY <1>2, <1>3, <1>4, <1>5, <1>7

LEMMA EnterSharedIsInside ==
  ASSUME McpAssumption, McpInv, NEW c \in Callers, EnterShared(c) PROVE McpInv'
<1>1. nesting[c] < MaxDepth /\ GoIn(c) /\ session' = session /\ conn' = conn /\ at' = at
  BY DEF EnterShared
<1>2. /\ nesting' \in [Callers -> 0..MaxDepth] /\ joined' \in [Callers -> 0..MaxSessions]
      /\ DepthCountsBlocks' /\ JoinedIsInside' /\ InsideKeepsItsSession'
  BY <1>1, GoInIsInside DEF McpInv, McpTypes
<1>3. McpTypes'
  BY <1>1, <1>2 DEF McpInv, McpTypes
<1>4. at[c].at # "entering"
  BY DEF EnterShared, Ready
<1>5. \A d \in Callers \ {c} : nesting'[d] = nesting[d]
  BY <1>1 DEF GoIn, McpInv, McpTypes
<1>6. OwnIsOwn'
  BY <1>1, <1>4, <1>5 DEF McpInv, OwnIsOwn
<1> QED BY <1>2, <1>3, <1>6 DEF McpInv

LEMMA EnteredIsInside ==
  ASSUME McpAssumption, McpInv, NEW c \in Callers, Entered(c) PROVE McpInv'
<1> DEFINE s == at[c].conn
<1>1. /\ s \in Conns /\ nesting[c] < MaxDepth /\ conn[s] = "connecting" /\ GoIn(c)
      /\ conn' = [conn EXCEPT ![s] = "open"] /\ at' = [at EXCEPT ![c] = Ready]
      /\ session' = session
  BY DEF Entered, McpInv, OwnIsOwn
<1>2. /\ conn' \in [Conns -> ConnState]
      /\ \A r \in Conns : conn'[r] = IF r = s THEN "open" ELSE conn[r]
  BY <1>1 DEF McpInv, McpTypes, ConnState
<1>3. /\ nesting' \in [Callers -> 0..MaxDepth] /\ joined' \in [Callers -> 0..MaxSessions]
      /\ DepthCountsBlocks' /\ JoinedIsInside' /\ InsideKeepsItsSession'
  BY <1>1, <1>2, GoInIsInside
<1>4. Ready \in Place
  BY DEF Ready, Place, McpAssumption
<1>5. McpTypes'
  BY <1>1, <1>2, <1>3, <1>4 DEF McpInv, McpTypes
<1>6. /\ \A d \in Callers \ {c} : nesting'[d] = nesting[d] /\ at'[d] = at[d]
      /\ at'[c].at = "ready"
  BY <1>1 DEF GoIn, McpInv, McpTypes, Ready
<1>7. session' # 0 => conn'[session'] # "unused"
  BY <1>1, <1>2 DEF McpInv, McpTypes, OwnIsOwn, Conns, McpAssumption
<1>8. OwnIsOwn'
  BY <1>1, <1>2, <1>6, <1>7 DEF McpInv, OwnIsOwn
<1> QED BY <1>3, <1>5, <1>8 DEF McpInv

\* What a step that opens and closes no block has to leave alone.
LEMMA SameBlocksAreInside ==
  ASSUME McpInv, UNCHANGED <<depth, nesting, joined>>,
         McpTypes', OwnIsOwn',
         \A c \in Callers : joined[c] # 0 =>
           session' = session /\ conn'[joined[c]] = "open"
  PROVE  McpInv'
BY DEF McpInv, DepthCountsBlocks, Blocks, JoinedIsInside, InsideKeepsItsSession

LEMMA EnterFirstIsInside ==
  ASSUME McpAssumption, McpInv, NEW c \in Callers, NEW s \in Conns, EnterFirst(c, s)
  PROVE  McpInv'
<1> DEFINE r == [at |-> "entering", conn |-> s]
<1>1. /\ session = 0 /\ session' = s /\ at' = [at EXCEPT ![c] = r] /\ nesting[c] < MaxDepth
      /\ conn[s] = "unused" /\ conn' = [conn EXCEPT ![s] = "connecting"]
      /\ UNCHANGED <<depth, nesting, joined>> /\ s # 0 /\ s \in 0..MaxSessions
  BY DEF EnterFirst, MakeClient, Conns, McpAssumption
<1>2. r \in Place
  BY <1>1 DEF Place
<1>3. McpTypes'
  BY <1>1, <1>2 DEF McpInv, McpTypes, ConnState
<1>4. /\ \A q \in Conns : conn'[q] = IF q = s THEN "connecting" ELSE conn[q]
      /\ \A d \in Callers : at'[d] = IF d = c THEN r ELSE at[d]
  BY <1>1 DEF McpInv, McpTypes
<1>5. OwnIsOwn'
  BY <1>1, <1>4 DEF McpInv, OwnIsOwn
<1>6. \A d \in Callers : joined[d] = 0
  BY <1>1 DEF McpInv, InsideKeepsItsSession
<1> QED BY <1>1, <1>3, <1>5, <1>6, SameBlocksAreInside

LEMMA EnterFailsIsInside ==
  ASSUME McpAssumption, McpInv, NEW c \in Callers, EnterFails(c) PROVE McpInv'
<1> DEFINE s == at[c].conn
<1>1. /\ s \in Conns /\ conn[s] \in {"connecting", "closed"} /\ at' = [at EXCEPT ![c] = Ready]
      /\ conn' = [conn EXCEPT ![s] = IF @ = "connecting" THEN "failed" ELSE @]
      /\ UNCHANGED <<session, depth, nesting, joined>>
  BY DEF EnterFails, McpInv, OwnIsOwn
<1>2. Ready \in Place /\ Ready.at = "ready"
  BY DEF Ready, Place, McpAssumption
<1>3. /\ conn' \in [Conns -> ConnState] /\ conn'[s] \in {"failed", "closed"}
      /\ \A q \in Conns \ {s} : conn'[q] = conn[q]
  BY <1>1 DEF McpInv, McpTypes, ConnState
<1>4. McpTypes'
  BY <1>1, <1>2, <1>3 DEF McpInv, McpTypes
<1>5. \A d \in Callers : at'[d] = IF d = c THEN Ready ELSE at[d]
  BY <1>1 DEF McpInv, McpTypes
<1>6. session # 0 => session \in Conns
  BY DEF McpInv, McpTypes, Conns, McpAssumption
<1>7. OwnIsOwn'
  BY <1>1, <1>2, <1>3, <1>5, <1>6 DEF McpInv, OwnIsOwn
<1>8. \A d \in Callers : joined[d] # 0 => conn'[joined[d]] = "open"
  BY <1>1, <1>3, <1>6 DEF McpInv, InsideKeepsItsSession
<1> QED BY <1>1, <1>4, <1>7, <1>8, SameBlocksAreInside

LEMMA CallIsInside ==
  ASSUME McpAssumption, McpInv, NEW c \in Callers,
         CallShared(c) \/ \E s \in Conns : CallOwn(c, s)
  PROVE  McpInv'
<1>1. CASE CallShared(c)
  <2> DEFINE r == [at |-> "calling", conn |-> session]
  <2>1. at' = [at EXCEPT ![c] = r] /\ UNCHANGED <<session, depth, conn, nesting, joined>>
    BY <1>1 DEF CallShared
  <2>2. r \in Place
    BY DEF Place, McpInv, McpTypes
  <2>3. McpTypes' /\ OwnIsOwn'
    BY <2>1, <2>2 DEF McpInv, McpTypes, OwnIsOwn
  <2> QED BY <2>1, <2>3, SameBlocksAreInside DEF McpInv, InsideKeepsItsSession
<1>2. ASSUME NEW s \in Conns, CallOwn(c, s) PROVE McpInv'
  <2> DEFINE r == [at |-> "opening", conn |-> s]
  <2>1. /\ session = 0 /\ at' = [at EXCEPT ![c] = r] /\ conn[s] = "unused"
        /\ conn' = [conn EXCEPT ![s] = "connecting"]
        /\ UNCHANGED <<session, depth, nesting, joined>> /\ s # 0 /\ s \in 0..MaxSessions
    BY <1>2 DEF CallOwn, MakeClient, Conns, McpAssumption
  <2>2. r \in Place
    BY <2>1 DEF Place
  <2>3. McpTypes'
    BY <2>1, <2>2 DEF McpInv, McpTypes, ConnState
  <2>4. /\ \A q \in Conns : conn'[q] = IF q = s THEN "connecting" ELSE conn[q]
        /\ \A d \in Callers : at'[d] = IF d = c THEN r ELSE at[d]
    BY <2>1 DEF McpInv, McpTypes
  <2>5. OwnIsOwn'
    BY <2>1, <2>4 DEF McpInv, OwnIsOwn
  <2>6. \A d \in Callers : joined[d] = 0
    BY <2>1 DEF McpInv, InsideKeepsItsSession
  <2> QED BY <2>1, <2>3, <2>5, <2>6, SameBlocksAreInside
<1> QED BY <1>1, <1>2

\* The end of a handshake or of a call on a session of its own.
LEMMA OwnIsInside ==
  ASSUME McpAssumption, McpInv, NEW c \in Callers, at[c].at \in {"opening", "callingOwn"},
         NEW state \in {"open", "failed", "closed"}, NEW r \in Place,
         r.at \in {"ready", "callingOwn"}, r.at = "callingOwn" => r.conn = at[c].conn,
         conn' = [conn EXCEPT ![at[c].conn] = state], at' = [at EXCEPT ![c] = r],
         UNCHANGED <<session, depth, nesting, joined>>
  PROVE  McpInv'
<1> DEFINE s == at[c].conn
<1>1. s \in Conns /\ s # session
  BY DEF McpInv, OwnIsOwn
<1>2. /\ conn' \in [Conns -> ConnState] /\ conn'[s] = state
      /\ \A q \in Conns \ {s} : conn'[q] = conn[q]
  BY <1>1 DEF McpInv, McpTypes, ConnState
<1>3. at' \in [Callers -> Place] /\ \A d \in Callers : at'[d] = IF d = c THEN r ELSE at[d]
  BY DEF McpInv, McpTypes
<1>4. McpTypes'
  BY <1>2, <1>3 DEF McpInv, McpTypes
<1>5. session # 0 => session \in Conns
  BY DEF McpInv, McpTypes, Conns, McpAssumption
<1>6. OwnIsOwn'
  BY <1>1, <1>2, <1>3, <1>5 DEF McpInv, OwnIsOwn
<1>7. \A d \in Callers : joined[d] # 0 => conn'[joined[d]] = "open"
  BY <1>1, <1>2, <1>5 DEF McpInv, InsideKeepsItsSession
<1> QED BY <1>4, <1>6, <1>7, SameBlocksAreInside

LEMMA OwnOpenedIsInside ==
  ASSUME McpAssumption, McpInv, NEW c \in Callers, OwnOpened(c) PROVE McpInv'
<1>1. at[c] \in Place /\ Ready \in Place /\ Ready.at = "ready"
  BY DEF McpInv, McpTypes, Ready, Place, McpAssumption
<1>2. CASE /\ conn' = [conn EXCEPT ![at[c].conn] = "open"]
           /\ at' = [at EXCEPT ![c].at = "callingOwn"]
  <2> DEFINE r == [at[c] EXCEPT !.at = "callingOwn"]
  <2>1. r \in Place /\ r.at = "callingOwn" /\ r.conn = at[c].conn
    BY <1>1 DEF Place
  <2>2. at' = [at EXCEPT ![c] = r]
    BY <1>2
  <2> HIDE DEF r
  <2> QED BY <1>2, <2>1, <2>2, OwnIsInside DEF OwnOpened
<1>3. CASE /\ conn' = [conn EXCEPT ![at[c].conn] = "failed"]
           /\ at' = [at EXCEPT ![c] = Ready]
  BY <1>1, <1>3, OwnIsInside DEF OwnOpened
<1> QED BY <1>2, <1>3 DEF OwnOpened

LEMMA AnsweredIsInside ==
  ASSUME McpAssumption, McpInv, NEW c \in Callers, Answered(c) PROVE McpInv'
<1>1. Ready \in Place /\ Ready.at = "ready"
  BY DEF Ready, Place, McpAssumption
<1>2. CASE at[c].at = "callingOwn"
  BY <1>1, <1>2, OwnIsInside DEF Answered
<1>3. CASE at[c].at = "calling"
  <2>1. conn' = conn /\ at' = [at EXCEPT ![c] = Ready]
        /\ UNCHANGED <<session, depth, nesting, joined>>
    BY <1>3 DEF Answered
  <2>2. McpTypes' /\ OwnIsOwn'
    BY <1>1, <2>1 DEF McpInv, McpTypes, OwnIsOwn
  <2> QED BY <2>1, <2>2, SameBlocksAreInside DEF McpInv, InsideKeepsItsSession
<1> QED BY <1>2, <1>3 DEF Answered

LEMMA ExitIsInside ==
  ASSUME McpAssumption, McpInv, NEW c \in Callers, Exit(c) PROVE McpInv'
<1>1. /\ nesting[c] > 0 /\ nesting' = [nesting EXCEPT ![c] = @ - 1] /\ depth' = depth - 1
      /\ joined' = [joined EXCEPT ![c] = IF nesting[c] = 1 THEN 0 ELSE @] /\ at' = at
      /\ at[c].at = "ready"
  BY DEF Exit, Ready
<1>2. nesting[c] \in 0..MaxDepth /\ MaxDepth \in Nat /\ 0 \in 0..MaxSessions
  BY DEF McpInv, McpTypes, McpAssumption
<1>3. /\ nesting' \in [Callers -> 0..MaxDepth] /\ joined' \in [Callers -> 0..MaxSessions]
      /\ \A d \in Callers : d # c => nesting'[d] = nesting[d] /\ joined'[d] = joined[d]
      /\ nesting'[c] = nesting[c] - 1
  BY <1>1, <1>2 DEF McpInv, McpTypes
<1>4. DepthCountsBlocks'
  BY <1>1, OutCounts
<1>5. JoinedIsInside'
  BY <1>1, <1>2, <1>3 DEF McpInv, McpTypes, JoinedIsInside
<1>6. CASE depth' = 0 /\ session # 0
  <2>1. session \in Conns
    BY <1>6 DEF McpInv, McpTypes, Conns, McpAssumption
  <2>2. /\ session' = 0
        /\ conn' = [conn EXCEPT ![session] = IF @ = "failed" THEN @ ELSE "closed"]
    BY <1>6 DEF Exit
  <2>3. /\ conn' \in [Conns -> ConnState] /\ conn'[session] # "unused"
        /\ \A q \in Conns \ {session} : conn'[q] = conn[q]
    BY <2>1, <2>2 DEF McpInv, McpTypes, ConnState
  <2>4. McpTypes'
    BY <1>1, <1>2, <1>3, <2>2, <2>3 DEF McpInv, McpTypes
  <2>5. OwnIsOwn'
    BY <1>1, <1>3, <2>2, <2>3 DEF McpInv, OwnIsOwn, Conns
  <2>6. ASSUME NEW d \in Callers PROVE nesting'[d] = 0
    <3>1. Blocks' = {}
      BY <1>4, <1>6, FS_EmptySet DEF DepthCountsBlocks
    <3>2. nesting'[d] > 0 => <<d, nesting'[d]>> \in Blocks'
      BY <1>2, <1>3 DEF Blocks
    <3> QED BY <1>2, <1>3, <3>1, <3>2
  <2>7. InsideKeepsItsSession'
    BY <1>5, <2>6 DEF JoinedIsInside, InsideKeepsItsSession
  <2> QED BY <1>4, <1>5, <2>4, <2>5, <2>7 DEF McpInv
<1>7. CASE ~(depth' = 0 /\ session # 0)
  <2>1. session' = session /\ conn' = conn
    BY <1>7 DEF Exit
  <2>2. McpTypes'
    BY <1>1, <1>3, <2>1 DEF McpInv, McpTypes
  <2>3. OwnIsOwn'
    BY <1>1, <1>3, <2>1 DEF McpInv, OwnIsOwn
  <2>4. \A d \in Callers : joined'[d] # 0 => joined'[d] = joined[d]
    BY <1>1, <1>3 DEF McpInv, McpTypes
  <2>5. InsideKeepsItsSession'
    BY <2>1, <2>4 DEF McpInv, InsideKeepsItsSession
  <2> QED BY <1>4, <1>5, <2>2, <2>3, <2>5 DEF McpInv
<1> QED BY <1>6, <1>7

LEMMA McpStep == ASSUME McpAssumption, McpInv, [Next]_vars PROVE McpInv'
<1>1. CASE UNCHANGED vars
  BY <1>1 DEF vars, McpInv, McpTypes, DepthCountsBlocks, Blocks, OwnIsOwn, JoinedIsInside,
              InsideKeepsItsSession
<1> QED
  BY <1>1, EnterSharedIsInside, EnteredIsInside, EnterFirstIsInside, EnterFailsIsInside,
     CallIsInside, OwnOpenedIsInside, AnsweredIsInside, ExitIsInside DEF Next

LEMMA InsideIsTyped == ASSUME McpInv PROVE TypeOK
BY FS_CardinalityType
   DEF McpInv, McpTypes, TypeOK, DepthCountsBlocks, ConnState, Place

LEMMA McpLift == MCSpec => Spec
<1>1. MCInit => Init
  BY DEF MCInit
<1>2. [MCNext]_allVars => [Next]_vars
  BY DEF MCNext, SessionsNext, ArtifactsNext, MemoryNext, McpNext, AttestationNext, ComposerNext,
         FileSystemNext, IdentityNext, allVars, mcpVars, vars
<1> QED BY <1>1, <1>2, PTL DEF MCSpec, Spec

\* MCPClient.__aenter__, __aexit__ and _SessionContext: a caller that entered on
\* an open session has that session, open, for all its calls until it leaves,
\* however many others enter, fail to enter, call or leave meanwhile.
THEOREM SessionIsKept == MCSpec => []InsideKeepsItsSession
<1>0. McpAssumption
  BY ServicesAssumption
<1>1. Init => McpInv
  BY <1>0, McpInit
<1>2. McpInv /\ [Next]_vars => McpInv'
  BY <1>0, McpStep
<1>3. McpInv => InsideKeepsItsSession
  BY DEF McpInv
<1> QED BY <1>1, <1>2, <1>3, McpLift, PTL DEF Spec

LEMMA McpTyped == MCSpec => []TypeOK
<1>0. McpAssumption
  BY ServicesAssumption
<1>1. Init => McpInv
  BY <1>0, McpInit
<1>2. McpInv /\ [Next]_vars => McpInv'
  BY <1>0, McpStep
<1>3. McpInv => TypeOK
  BY InsideIsTyped
<1> QED BY <1>1, <1>2, <1>3, McpLift, PTL DEF Spec

(***************************************************************************)
(* The attestation log.                                                    *)
(***************************************************************************)
\* The event a process is busy with is its own, and has no claim yet.
Fresh ==
  /\ \A p \in Auditors : doing[p].at \in {"append", "claim"} =>
       /\ doing[p].n \in 1..audited
       /\ \A c \in claims : c.id # doing[p].n
       /\ \A q \in Auditors : doing[q].at \in {"append", "claim"} /\ doing[q].n = doing[p].n => q = p
  /\ \A c \in claims : c.id <= audited
  /\ \A p \in Auditors : doing[p].at \in {"revoke", "unlink"} => doing[p].n \in issued
  /\ tears <= crashes

\* A line without an end is there, and as long as one process at a time appends,
\* it has the hash of the last line that can be read.
Linked ==
  /\ ~ended["audit"] => log # <<>>
  /\ ~raced =>
       /\ \A p, q \in Auditors : doing[p].at = "append" /\ doing[q].at = "append" => p = q
       /\ \A p \in Auditors : doing[p].at = "append" => doing[p].prev = Attestation!LastHash(log)

\* The claims that are gone without a record, or will be once a process goes on.
AtRisk ==
  {id \in issued :
     /\ id \notin revoked
     /\ \/ [id |-> id, whole |-> TRUE] \notin claims
        \/ \E p \in Auditors : doing[p].at = "unlink" /\ doing[p].n = id}

\* Each of them has a torn write of its own, and a log that waits for the next
\* record to be lost has one more.
Accounted == Cardinality(AtRisk) + (IF ended["revocations"] THEN 0 ELSE 1) <= tears

AttestationInv == Attestation!TypeOK /\ Fresh /\ Linked /\ Attestation!ReadableIsChained /\ Accounted

\* What the last hash is after a line that can be read, and that it stays when
\* only the end of the log that cannot be read changes.
LEMMA LastOfAppended ==
  ASSUME NEW lines \in Seq([n : Nat, prev : Nat]), NEW line \in [n : Nat, prev : Nat]
  PROVE  /\ line.n # 0 => /\ Attestation!Readable(Append(lines, line)) = Attestation!Readable(lines) \cup {Len(lines) + 1}
                          /\ Attestation!LastHash(Append(lines, line)) = line.n
         /\ line.n = 0 => /\ Attestation!Readable(Append(lines, line)) = Attestation!Readable(lines)
                          /\ Attestation!LastHash(Append(lines, line)) = Attestation!LastHash(lines)
<1> DEFINE after == Append(lines, line)
<1>1. /\ Attestation!Readable(lines) \subseteq 1..Len(lines)
      /\ \A k \in 1..Len(lines) : after[k] = lines[k]
      /\ after[Len(lines) + 1] = line /\ Len(after) = Len(lines) + 1
      /\ DOMAIN after = 1..(Len(lines) + 1) /\ Len(lines) \in Nat
      /\ after \in Seq([n : Nat, prev : Nat])
  BY DEF Attestation!Readable
<1> HIDE DEF after
<1>2. ASSUME line.n # 0
      PROVE  /\ Attestation!Readable(after) = Attestation!Readable(lines) \cup {Len(lines) + 1}
             /\ Attestation!LastHash(after) = line.n
  <2>1. Attestation!Readable(after) = Attestation!Readable(lines) \cup {Len(lines) + 1}
    BY <1>1, <1>2 DEF Attestation!Readable, after
  <2>2. /\ Attestation!Readable(after) \subseteq 0..(Len(lines) + 1) /\ Attestation!Readable(after) # {}
        /\ Len(lines) + 1 \in Nat
    BY <1>1, <2>1
  <2>3. /\ Attestation!Max(Attestation!Readable(after)) \in Attestation!Readable(after)
        /\ \A k \in Attestation!Readable(after) : k <= Attestation!Max(Attestation!Readable(after))
    BY <2>2, MaxIsThere
  <2>4. Attestation!Max(Attestation!Readable(after)) = Len(lines) + 1
    <3>1. Len(lines) + 1 <= Attestation!Max(Attestation!Readable(after)) /\ Len(lines) \in Nat
      <4>1. Len(lines) + 1 \in Attestation!Readable(after)
        BY <2>1
      <4> QED BY <2>3, <4>1
    <3>2. Attestation!Max(Attestation!Readable(after)) \in 1..(Len(lines) + 1)
      BY <1>1, <2>1, <2>3
    <3> QED BY <3>1, <3>2
  <2> QED BY <1>1, <2>1, <2>2, <2>4 DEF Attestation!LastHash
<1>3. ASSUME line.n = 0
      PROVE  Attestation!Readable(after) = Attestation!Readable(lines) /\ Attestation!LastHash(after) = Attestation!LastHash(lines)
  <2>1. Attestation!Readable(after) = Attestation!Readable(lines)
    BY <1>1, <1>3 DEF Attestation!Readable, after
  <2>2. CASE Attestation!Readable(lines) = {}
    BY <2>1, <2>2 DEF Attestation!LastHash
  <2>3. CASE Attestation!Readable(lines) # {}
    <3>1. Attestation!Max(Attestation!Readable(lines)) \in Attestation!Readable(lines)
      <4>1. Attestation!Readable(lines) \in SUBSET (0..Len(lines)) /\ Len(lines) \in Nat
        BY <1>1
      <4> QED BY <2>3, <4>1, MaxIsThere
    <3> QED BY <1>1, <2>1, <2>3, <3>1 DEF Attestation!LastHash
  <2> QED BY <2>1, <2>2, <2>3
<1> QED BY <1>2, <1>3 DEF after

\* A line is linked or the log's end made unreadable: the chain holds.
LEMMA ExtendedStaysChained ==
  ASSUME NEW lines \in Seq([n : Nat, prev : Nat]), Attestation!Verifies(lines, Attestation!Readable(lines))
  PROVE  /\ \A line \in [n : Nat, prev : Nat] :
              (line.n # 0 => line.prev = Attestation!LastHash(lines)) =>
                Attestation!Verifies(Append(lines, line), Attestation!Readable(Append(lines, line)))
         /\ lines # <<>> =>
              LET torn == [lines EXCEPT ![Len(lines)].n = 0]
              IN Attestation!Verifies(torn, Attestation!Readable(torn)) /\ torn \in Seq([n : Nat, prev : Nat]) /\ torn # <<>>
<1>0. Attestation!Readable(lines) \subseteq 1..Len(lines)
  BY DEF Attestation!Readable
<1>1. ASSUME NEW line \in [n : Nat, prev : Nat], line.n # 0 => line.prev = Attestation!LastHash(lines)
      PROVE  Attestation!Verifies(Append(lines, line), Attestation!Readable(Append(lines, line)))
  <2> DEFINE after == Append(lines, line)
  <2>1. /\ \A k \in 1..Len(lines) : after[k] = lines[k]
        /\ after[Len(lines) + 1] = line
    OBVIOUS
  <2>2. Attestation!Readable(after) \subseteq Attestation!Readable(lines) \cup {Len(lines) + 1}
    BY LastOfAppended
  <2>3. Attestation!Readable(lines) \subseteq Attestation!Readable(after)
    BY LastOfAppended
  <2>4. ASSUME NEW k \in Attestation!Readable(after), k # Len(lines) + 1
        PROVE  LET before == {j \in Attestation!Readable(after) : j < k}
               IN after[k].n # 0 /\ after[k].prev = IF before = {} THEN 0 ELSE after[Attestation!Max(before)].n
    <3> DEFINE before == {j \in Attestation!Readable(after) : j < k}
    <3>1. before = {j \in Attestation!Readable(lines) : j < k} /\ k \in Attestation!Readable(lines)
      BY <1>0, <2>2, <2>3, <2>4
    <3>2. lines[k].n # 0 /\ lines[k].prev = IF before = {} THEN 0 ELSE lines[Attestation!Max(before)].n
      BY <3>1 DEF Attestation!Verifies
    <3>3. before # {} => Attestation!Max(before) \in before
      <4>1. before \in SUBSET (0..Len(lines)) /\ Len(lines) \in Nat
        BY <1>0, <3>1
      <4> HIDE DEF before
      <4> QED BY <4>1, MaxIsThere
    <3> QED BY <1>0, <2>1, <3>1, <3>2, <3>3
  <2>5. ASSUME NEW k \in Attestation!Readable(after), k = Len(lines) + 1
        PROVE  LET before == {j \in Attestation!Readable(after) : j < k}
               IN after[k].n # 0 /\ after[k].prev = IF before = {} THEN 0 ELSE after[Attestation!Max(before)].n
    <3> DEFINE before == {j \in Attestation!Readable(after) : j < k}
    <3>1. before = Attestation!Readable(lines)
      BY <1>0, <2>2, <2>3, <2>5
    <3>2. after[k] = line /\ line.n # 0
      BY <2>1, <2>5 DEF Attestation!Readable
    <3>3. before # {} => Attestation!Max(before) \in before
      <4>1. before \in SUBSET (0..Len(lines)) /\ Len(lines) \in Nat
        BY <1>0, <3>1
      <4> HIDE DEF before
      <4> QED BY <4>1, MaxIsThere
    <3> QED BY <1>0, <1>1, <2>1, <3>1, <3>2, <3>3 DEF Attestation!LastHash
  <2> QED BY <2>4, <2>5 DEF Attestation!Verifies
<1>2. ASSUME lines # <<>>
      PROVE  LET torn == [lines EXCEPT ![Len(lines)].n = 0]
             IN Attestation!Verifies(torn, Attestation!Readable(torn)) /\ torn \in Seq([n : Nat, prev : Nat]) /\ torn # <<>>
  <2> DEFINE torn == [lines EXCEPT ![Len(lines)].n = 0]
  <2>1. /\ torn \in Seq([n : Nat, prev : Nat]) /\ Len(torn) = Len(lines)
        /\ Len(lines) \in 1..Len(lines)
        /\ \A k \in 1..Len(lines) : k # Len(lines) => torn[k] = lines[k]
        /\ torn[Len(lines)].n = 0
    <3>1. Len(lines) \in 1..Len(lines) /\ DOMAIN torn = 1..Len(lines) /\ Len(lines) \in Nat
      BY <1>2
    <3>2. ASSUME NEW k \in 1..Len(lines) PROVE torn[k] \in [n : Nat, prev : Nat]
      <4>1. lines[k] \in [n : Nat, prev : Nat]
        BY ElementOfSeq
      <4> QED BY <4>1
    <3>3. torn \in [1..Len(lines) -> [n : Nat, prev : Nat]]
      BY <3>1, <3>2
    <3>4. torn \in Seq([n : Nat, prev : Nat])
      BY <3>1, <3>3
    <3>5. Len(torn) = Len(lines)
      BY <3>1, <3>4
    <3> QED BY <3>1, <3>4, <3>5
  <2> HIDE DEF torn
  <2>2. Attestation!Readable(torn) = Attestation!Readable(lines) \ {Len(lines)}
    BY <2>1, SMTT(30) DEF Attestation!Readable
  <2>3. ASSUME NEW k \in Attestation!Readable(torn)
        PROVE  LET before == {j \in Attestation!Readable(torn) : j < k}
               IN torn[k].n # 0 /\ torn[k].prev = IF before = {} THEN 0 ELSE torn[Attestation!Max(before)].n
    <3> DEFINE before == {j \in Attestation!Readable(torn) : j < k}
    <3>1. before = {j \in Attestation!Readable(lines) : j < k} /\ k \in Attestation!Readable(lines) /\ k # Len(lines)
      <4>1. k \in Attestation!Readable(lines) /\ k # Len(lines) /\ k \in 1..Len(lines) /\ Len(lines) \in Nat
        BY <1>0, <2>2, <2>3
      <4> QED BY <1>0, <2>2, <4>1
    <3>2. lines[k].n # 0 /\ lines[k].prev = IF before = {} THEN 0 ELSE lines[Attestation!Max(before)].n
      BY <3>1 DEF Attestation!Verifies
    <3>3. before # {} => Attestation!Max(before) \in before
      <4>1. before \in SUBSET (0..Len(lines)) /\ Len(lines) \in Nat
        BY <1>0, <3>1
      <4> HIDE DEF before
      <4> QED BY <4>1, MaxIsThere
    <3>4. before # {} => torn[Attestation!Max(before)] = lines[Attestation!Max(before)]
      <4>1. before # {} => Attestation!Max(before) \in 1..Len(lines) /\ Attestation!Max(before) # Len(lines)
        BY <1>0, <3>1, <3>3
      <4> HIDE DEF before
      <4> QED BY <2>1, <4>1
    <3>5. torn[k] = lines[k]
      BY <1>0, <2>1, <3>1
    <3> QED BY <3>2, <3>4, <3>5
  <2>4. torn # <<>>
    BY <2>1
  <2> QED BY <2>1, <2>3, <2>4 DEF Attestation!Verifies, torn
<1> QED BY <1>1, <1>2

LEMMA AttestationBounds ==
  ASSUME Attestation!AttestationAssumption
  PROVE  /\ AuditedEvents \in Nat /\ MaxCrashes \in Nat
         /\ Attestation!TypeOK => /\ AtRisk \subseteq 1..AuditedEvents /\ tears \in Nat
                                  /\ IsFiniteSet(AtRisk) /\ Cardinality(AtRisk) \in Nat
<1>1. AuditedEvents \in Nat /\ MaxCrashes \in Nat
  BY DEF Attestation!AttestationAssumption
<1> SUFFICES ASSUME Attestation!TypeOK
             PROVE  /\ AtRisk \subseteq 1..AuditedEvents /\ tears \in Nat
                    /\ IsFiniteSet(AtRisk) /\ Cardinality(AtRisk) \in Nat
  BY <1>1
<1>2. AtRisk \subseteq 1..AuditedEvents
  BY DEF AtRisk, Attestation!TypeOK
<1>3. tears \in Nat
  BY <1>1 DEF Attestation!TypeOK
<1>4. IsFiniteSet(AtRisk)
  <2>1. IsFiniteSet(1..AuditedEvents)
    BY <1>1, FS_Interval
  <2> QED BY <1>2, <2>1, FS_Subset
<1> QED BY <1>2, <1>3, <1>4, FS_CardinalityType

LEMMA AttestationInit ==
  ASSUME Attestation!AttestationAssumption, Attestation!Init PROVE AttestationInv
<1> USE DEF Attestation!AttestationAssumption
<1>1. Attestation!TypeOK
  <2>1. /\ doing \in [Auditors -> [at : {"idle", "append", "claim", "revoke", "unlink"},
                                n : Attestation!Entries, prev : Attestation!Entries]]
        /\ ended \in [{"audit", "revocations"} -> BOOLEAN]
    BY DEF Attestation!Init, Attestation!Entries, Attestation!Idle
  <2>2. audited \in Attestation!Entries /\ {tears, crashes} \subseteq 0..MaxCrashes
    BY DEF Attestation!Init, Attestation!Entries
  <2>3. log \in Seq([n : Attestation!Entries, prev : Attestation!Entries])
    BY DEF Attestation!Init
  <2>5. raced \in BOOLEAN
    BY Zenon DEF Attestation!Init
  <2>4. /\ claims = {} /\ revoked = {} /\ issued = {}
    BY DEF Attestation!Init
  <2> QED BY <2>1, <2>2, <2>3, <2>4, <2>5 DEF Attestation!TypeOK
<1>2. Fresh /\ Linked
  BY DEF Attestation!Init, Fresh, Linked, Attestation!Idle
<1>3. Attestation!ReadableIsChained
  BY DEF Attestation!Init, Attestation!ReadableIsChained, Attestation!Verifies, Attestation!Readable
<1>4. AtRisk = {}
  BY DEF Attestation!Init, AtRisk
<1>5. Accounted
  BY <1>4, FS_EmptySet DEF Attestation!Init, Accounted
<1> QED BY <1>1, <1>2, <1>3, <1>5 DEF AttestationInv

LEMMA AttestationTypes ==
  ASSUME Attestation!AttestationAssumption, Attestation!TypeOK, Fresh, Linked, [Attestation!Next]_Attestation!vars
  PROVE  Attestation!TypeOK' /\ Fresh' /\ (~ended["audit"] => log # <<>>)'
<1> USE DEF Attestation!AttestationAssumption, Attestation!Entries, Attestation!Idle
<1> DEFINE Goal == Attestation!TypeOK' /\ Fresh' /\ (~ended["audit"] => log # <<>>)'
<1>0. ASSUME NEW line \in [n : Attestation!Entries, prev : Attestation!Entries], log' = Attestation!Extended(line)
      PROVE  log' \in Seq([n : Attestation!Entries, prev : Attestation!Entries]) /\ log' # <<>>
  <2>1. CASE ended["audit"]
    BY <1>0, <2>1, SMTT(30) DEF Attestation!Extended, Attestation!TypeOK
  <2>2. CASE ~ended["audit"]
    <3>1. log \in Seq([n : Attestation!Entries, prev : Attestation!Entries]) /\ log # <<>>
      BY <2>2 DEF Linked, Attestation!TypeOK
    <3>2. Len(log) \in 1..Len(log) /\ log[Len(log)] \in [n : Attestation!Entries, prev : Attestation!Entries]
      <4>1. Len(log) \in 1..Len(log)
        BY <3>1
      <4> QED BY <3>1, <4>1, ElementOfSeq
    <3>3. [log EXCEPT ![Len(log)].n = 0] = [log EXCEPT ![Len(log)] = [log[Len(log)] EXCEPT !.n = 0]]
      BY <3>2
    <3>4. [log[Len(log)] EXCEPT !.n = 0] \in [n : Attestation!Entries, prev : Attestation!Entries]
      BY <3>2
    <3>5. log' \in Seq([n : Attestation!Entries, prev : Attestation!Entries]) /\ Len(log') = Len(log)
      BY <1>0, <2>2, <3>1, <3>2, <3>3, <3>4, ExceptSeq DEF Attestation!Extended
    <3> QED BY <3>1, <3>2, <3>5
  <2> QED BY <2>1, <2>2
<1>5a. ASSUME NEW p \in Auditors, Attestation!Audited(p)
      PROVE  /\ doing' \in [Auditors -> [at : {"idle", "append", "claim", "revoke", "unlink"},
                                      n : Attestation!Entries, prev : Attestation!Entries]]
             /\ \A q \in Auditors : q # p => doing'[q] = doing[q]
             /\ \/ doing'[p] = Attestation!Idle
                \/ doing'[p].at = "claim" /\ doing'[p].n = doing[p].n
  <2>1. PICK place \in {"claim", "idle"} :
          doing' = [doing EXCEPT ![p] = IF place = "idle" THEN Attestation!Idle ELSE [@ EXCEPT !.at = place]]
    BY <1>5a DEF Attestation!Audited
  <2>2. CASE place = "idle"
    BY <2>1, <2>2 DEF Attestation!TypeOK
  <2>3. CASE place = "claim"
    <3>1. doing' = [doing EXCEPT ![p] = [doing[p] EXCEPT !.at = "claim"]]
      BY <2>1, <2>3
    <3>2. [doing[p] EXCEPT !.at = "claim"] \in
            [at : {"idle", "append", "claim", "revoke", "unlink"}, n : Attestation!Entries, prev : Attestation!Entries]
      BY DEF Attestation!TypeOK
    <3> QED BY <3>1, <3>2 DEF Attestation!TypeOK
  <2> QED BY <2>2, <2>3
<1>1. ASSUME NEW p \in Auditors, Attestation!ReadHash(p) PROVE Goal
  <2>1. Attestation!LastHash(log) \in Attestation!Entries
    <3>0. 0 \in Attestation!Entries
      OBVIOUS
    <3>1. CASE Attestation!Readable(log) # {}
      <4>1. Attestation!Readable(log) \in SUBSET (0..Len(log)) /\ Len(log) \in Nat /\ log \in Seq([n : Attestation!Entries, prev : Attestation!Entries])
        BY DEF Attestation!Readable, Attestation!TypeOK
      <4>2. Attestation!Max(Attestation!Readable(log)) \in Attestation!Readable(log)
        BY <3>1, <4>1, MaxIsThere
      <4>3. Attestation!Max(Attestation!Readable(log)) \in 1..Len(log)
        BY <4>1, <4>2 DEF Attestation!Readable
      <4>4. log[Attestation!Max(Attestation!Readable(log))] \in [n : Attestation!Entries, prev : Attestation!Entries]
        BY <4>1, <4>3, ElementOfSeq
      <4> QED BY <3>1, <4>4 DEF Attestation!LastHash
    <3> QED BY <3>0, <3>1 DEF Attestation!LastHash
  <2>2. Attestation!TypeOK'
    BY <1>1, <2>1 DEF Attestation!ReadHash, Attestation!TypeOK
  <2>3. Fresh'
    BY <1>1 DEF Attestation!ReadHash, Attestation!TypeOK, Fresh
  <2> QED BY <1>1, <2>2, <2>3 DEF Attestation!ReadHash, Linked
<1>2. ASSUME NEW p \in Auditors, Attestation!WriteLine(p) PROVE Goal
  <2>1. log' \in Seq([n : Attestation!Entries, prev : Attestation!Entries]) /\ log' # <<>>
    BY <1>0, <1>2 DEF Attestation!WriteLine, Attestation!Line, Attestation!TypeOK
  <2>2. Attestation!TypeOK'
    <3>1. /\ doing' \in [Auditors -> [at : {"idle", "append", "claim", "revoke", "unlink"},
                                   n : Attestation!Entries, prev : Attestation!Entries]]
          /\ ended' \in [{"audit", "revocations"} -> BOOLEAN]
      BY <1>2, <1>5a DEF Attestation!WriteLine, Attestation!TypeOK
    <3> QED BY <1>2, <2>1, <3>1 DEF Attestation!WriteLine, Attestation!TypeOK
  <2>3. Fresh'
    BY <1>2 DEF Attestation!WriteLine, Attestation!Audited, Attestation!TypeOK, Fresh
  <2> QED BY <2>1, <2>2, <2>3
<1>3. ASSUME NEW p \in Auditors, Attestation!IssueClaim(p) PROVE Goal
  <2>1. Attestation!TypeOK'
    <3> DEFINE new == [id |-> doing[p].n, whole |-> TRUE]
    <3>1. doing[p].n \in 1..AuditedEvents /\ \A c \in claims : c.id # new.id
      BY <1>3 DEF Attestation!IssueClaim, Attestation!TypeOK, Fresh
    <3>2. claims' = claims \cup {new} /\ new \in [id : 1..AuditedEvents, whole : BOOLEAN]
      BY <1>3, <3>1 DEF Attestation!IssueClaim
    <3>3. \A c, d \in claims' : c.id = d.id => c = d
      BY <3>1, <3>2 DEF Attestation!TypeOK
    <3>4. doing' \in [Auditors -> [at : {"idle", "append", "claim", "revoke", "unlink"},
                                n : Attestation!Entries, prev : Attestation!Entries]]
      BY <1>3 DEF Attestation!IssueClaim, Attestation!TypeOK
    <3>5. issued' \subseteq 1..AuditedEvents /\ claims' \subseteq [id : 1..AuditedEvents, whole : BOOLEAN]
      BY <1>3, <3>1, <3>2 DEF Attestation!IssueClaim, Attestation!TypeOK
    <3> QED BY <1>3, <3>3, <3>4, <3>5 DEF Attestation!IssueClaim, Attestation!TypeOK
  <2>2. Fresh'
    BY <1>3, SMTT(30) DEF Attestation!IssueClaim, Attestation!TypeOK, Fresh
  <2> QED BY <1>3, <2>1, <2>2 DEF Attestation!IssueClaim, Linked
<1>4. ASSUME NEW p \in Auditors, Attestation!Record(p) PROVE Goal
  <2>1. Attestation!TypeOK' /\ ended'["audit"] = ended["audit"]
    BY <1>4, ZenonT(60) DEF Attestation!Record, Attestation!TypeOK, Fresh
  <2>2. Fresh'
    BY <1>4 DEF Attestation!Record, Attestation!TypeOK, Fresh
  <2> QED BY <1>4, <2>1, <2>2 DEF Attestation!Record, Linked
<1>5. ASSUME NEW p \in Auditors, Attestation!Unlink(p) PROVE Goal
  BY <1>5, SMTT(30) DEF Attestation!Unlink, Attestation!TypeOK, Fresh, Linked
<1>6. ASSUME NEW p \in Auditors, Attestation!Torn(p)
      PROVE  /\ log' \in Seq([n : Attestation!Entries, prev : Attestation!Entries])
             /\ ended' \in [{"audit", "revocations"} -> BOOLEAN]
             /\ tears' \in {tears, tears + 1}
             /\ ~ended'["audit"] => log' # <<>>
  <2>1. [n |-> 0, prev |-> 0] \in [n : Attestation!Entries, prev : Attestation!Entries] /\ Attestation!Line(p) \in [n : Attestation!Entries, prev : Attestation!Entries]
    BY DEF Attestation!TypeOK, Attestation!Line
  <2> QED BY <1>0, <1>6, <2>1 DEF Attestation!Torn, Attestation!TypeOK, Linked
<1>7. ASSUME NEW p \in Auditors, Attestation!WriteFails(p) PROVE Goal
  <2>1. /\ doing' \in [Auditors -> [at : {"idle", "append", "claim", "revoke", "unlink"},
                                 n : Attestation!Entries, prev : Attestation!Entries]]
        /\ \A q \in Auditors : q # p => doing'[q] = doing[q]
        /\ doing'[p] = Attestation!Idle \/ /\ doing'[p].at = "claim" /\ doing'[p].n = doing[p].n
                                           /\ doing[p].at = "append"
    <3>1. CASE doing[p].at = "append"
      BY <1>7, <1>5a, <3>1 DEF Attestation!WriteFails
    <3>2. CASE doing[p].at # "append"
      <4>1. doing' = [doing EXCEPT ![p] = Attestation!Idle]
        BY <1>7, <3>2 DEF Attestation!WriteFails
      <4> QED BY <4>1 DEF Attestation!TypeOK
    <3> QED BY <3>1, <3>2
  <2>2. crashes' \in 0..MaxCrashes /\ tears' <= crashes' /\ tears' \in 0..MaxCrashes
    <3>1. /\ MaxCrashes \in Nat /\ crashes \in 0..MaxCrashes /\ tears \in 0..MaxCrashes
          /\ tears <= crashes /\ crashes < MaxCrashes /\ crashes' = crashes + 1
      BY <1>7 DEF Attestation!WriteFails, Attestation!TypeOK, Fresh
    <3>2. tears' \in {tears, tears + 1}
      BY <1>6, <1>7 DEF Attestation!WriteFails
    <3> QED BY <3>1, <3>2
  <2>3. Attestation!Torn(p)
    BY <1>7 DEF Attestation!WriteFails
  <2>4. UNCHANGED <<claims, revoked, audited, issued, raced>>
    BY <1>7 DEF Attestation!WriteFails
  <2>5. Attestation!TypeOK'
    BY <1>6, <2>1, <2>2, <2>3, <2>4 DEF Attestation!TypeOK
  <2>6. Fresh'
    <3>1. \A q \in Auditors : doing'[q].at \in {"append", "claim"} =>
            doing[q].at \in {"append", "claim"} /\ doing'[q].n = doing[q].n
      BY <2>1
    <3>2. \A q \in Auditors : doing'[q].at \in {"revoke", "unlink"} => doing'[q] = doing[q]
      BY <2>1
    <3> QED BY <2>2, <2>4, <3>1, <3>2 DEF Fresh
  <2> QED BY <1>6, <2>3, <2>5, <2>6
<1>8. ASSUME NEW p \in Auditors, Attestation!Crash(p) PROVE Goal
  <2>1. /\ doing' \in [Auditors -> [at : {"idle", "append", "claim", "revoke", "unlink"},
                                 n : Attestation!Entries, prev : Attestation!Entries]]
        /\ \A q \in Auditors : q # p => doing'[q] = doing[q]
        /\ doing'[p] = Attestation!Idle
    BY <1>8 DEF Attestation!Crash, Attestation!TypeOK
  <2>2. crashes' \in 0..MaxCrashes /\ tears' <= crashes' /\ tears' \in 0..MaxCrashes
    <3>1. /\ MaxCrashes \in Nat /\ crashes \in 0..MaxCrashes /\ tears \in 0..MaxCrashes
          /\ tears <= crashes /\ crashes < MaxCrashes /\ crashes' = crashes + 1
      BY <1>8 DEF Attestation!Crash, Attestation!TypeOK, Fresh
    <3>2. tears' \in {tears, tears + 1}
      BY <1>6, <1>8 DEF Attestation!Crash
    <3> QED BY <3>1, <3>2
  <2>3. Attestation!Torn(p) /\ UNCHANGED <<revoked, audited, issued, raced>>
    BY <1>8 DEF Attestation!Crash
  <2>4. /\ claims' \subseteq [id : 1..AuditedEvents, whole : BOOLEAN]
        /\ \A c, d \in claims' : c.id = d.id => c = d
        /\ \A c \in claims' : c \in claims \/ (doing[p].at = "claim" /\ c.id = doing[p].n)
    <3>1. CASE UNCHANGED claims
      BY <3>1 DEF Attestation!TypeOK
    <3>2. ASSUME doing[p].at = "claim", claims' = claims \cup {[id |-> doing[p].n, whole |-> FALSE]}
          PROVE  <2>4!:
      <4> DEFINE new == [id |-> doing[p].n, whole |-> FALSE]
      <4>1. doing[p].n \in 1..AuditedEvents /\ \A c \in claims : c.id # new.id
        BY <3>2 DEF Attestation!TypeOK, Fresh
      <4>2. new \in [id : 1..AuditedEvents, whole : BOOLEAN] /\ new.id = doing[p].n
        BY <4>1
      <4> QED BY <3>2, <4>1, <4>2 DEF Attestation!TypeOK
    <3> QED BY <1>8, <3>1, <3>2 DEF Attestation!Crash
  <2>5. Attestation!TypeOK'
    BY <1>6, <2>1, <2>2, <2>3, <2>4 DEF Attestation!TypeOK
  <2>6. Fresh'
    <3>1. \A q \in Auditors : doing'[q].at # "idle" => q # p /\ doing'[q] = doing[q]
      BY <2>1
    <3>2. \A q \in Auditors : q # p /\ doing[q].at \in {"append", "claim"} =>
            \A c \in claims' : c.id # doing[q].n
      BY <2>4 DEF Fresh
    <3>3. \A c \in claims' : c.id <= audited
      BY <2>4 DEF Fresh, Attestation!TypeOK
    <3>4. \A q \in Auditors : doing'[q].at \in {"append", "claim"} => 
         /\ doing'[q].n \in 1..audited
         /\ \A r \in Auditors : doing'[r].at \in {"append", "claim"} /\ doing'[r].n = doing'[q].n => r = q
      BY <3>1 DEF Fresh
    <3>5. \A q \in Auditors : doing'[q].at \in {"revoke", "unlink"} => doing'[q].n \in issued
      BY <3>1 DEF Fresh
    <3> QED BY <2>2, <2>3, <3>1, <3>2, <3>3, <3>4, <3>5 DEF Fresh
  <2> QED BY <1>6, <2>3, <2>5, <2>6
<1>9. ASSUME NEW p \in Auditors, NEW id \in 1..AuditedEvents, Attestation!Revoke(p, id) PROVE Goal
  BY <1>9 DEF Attestation!Revoke, Attestation!TypeOK, Fresh, Linked
<1>10. CASE UNCHANGED Attestation!vars
  BY <1>10 DEF Attestation!vars, Attestation!TypeOK, Fresh, Linked
<1> QED BY <1>1, <1>2, <1>3, <1>4, <1>5, <1>7, <1>8, <1>9, <1>10 DEF Attestation!Next

LEMMA AttestationChained ==
  ASSUME Attestation!AttestationAssumption, Attestation!TypeOK, Fresh, Linked, Attestation!ReadableIsChained, [Attestation!Next]_Attestation!vars
  PROVE  Linked' /\ Attestation!ReadableIsChained'
<1> DEFINE AnyLine == [n : Nat, prev : Nat]
           Chained == Attestation!Verifies(log, Attestation!Readable(log))
<1>1. log \in Seq(AnyLine)
  <2>1. [n : Attestation!Entries, prev : Attestation!Entries] \subseteq AnyLine
    BY DEF Attestation!Entries
  <2> QED BY <2>1, SeqMonotonic DEF Attestation!TypeOK
<1>2. ~raced' => ~raced
  BY DEF Attestation!Next, Attestation!ReadHash, Attestation!WriteLine, Attestation!IssueClaim, Attestation!Record, Attestation!Unlink, Attestation!WriteFails, Attestation!Crash, Attestation!Revoke, Attestation!vars
<1>3. (~ended["audit"] => log # <<>>)'
  BY AttestationTypes
<1>4. ASSUME ~raced'
      PROVE  Chained /\ \A p, q \in Auditors : doing[p].at = "append" /\ doing[q].at = "append" => p = q
  BY <1>2, <1>4 DEF Linked, Attestation!ReadableIsChained
<1> DEFINE Goal == ~raced' =>
             /\ Chained'
             /\ \A p, q \in Auditors : doing'[p].at = "append" /\ doing'[q].at = "append" => p = q
             /\ \A p \in Auditors : doing'[p].at = "append" => doing'[p].prev = Attestation!LastHash(log')
<1>5. ASSUME log' = log, \A p \in Auditors : doing'[p].at = "append" => doing'[p] = doing[p]
      PROVE  Goal
  BY <1>2, <1>4, <1>5 DEF Linked
<1>6. ASSUME NEW p \in Auditors, doing[p].at = "append", NEW line \in AnyLine,
             line.n # 0 => line.prev = doing[p].prev, log' = Attestation!Extended(line),
             doing'[p].at # "append", \A q \in Auditors \ {p} : doing'[q] = doing[q]
      PROVE  Goal
  <2> SUFFICES ASSUME ~raced' PROVE Goal
    OBVIOUS
  <2>1. \A q \in Auditors : doing'[q].at # "append"
    BY <1>4, <1>6
  <2>2. doing[p].prev = Attestation!LastHash(log)
    BY <1>2, <1>6 DEF Linked
  <2>3. CASE ended["audit"]
    BY <1>1, <1>4, <1>6, <2>1, <2>2, <2>3, ExtendedStaysChained DEF Attestation!Extended
  <2>4. CASE ~ended["audit"]
    BY <1>1, <1>4, <1>6, <2>1, <2>4, ExtendedStaysChained DEF Attestation!Extended, Linked
  <2> QED BY <2>3, <2>4
<1>7. ASSUME NEW p \in Auditors
      PROVE  Attestation!Line(p) \in AnyLine /\ [n |-> 0, prev |-> 0] \in AnyLine /\ Attestation!Line(p).prev = doing[p].prev
  BY DEF Attestation!Line, Attestation!TypeOK, Attestation!Entries, Attestation!AttestationAssumption
<1>8. ASSUME NEW p \in Auditors, Attestation!ReadHash(p) PROVE Goal
  <2> SUFFICES ASSUME ~raced' PROVE Goal
    OBVIOUS
  <2>1. \A q \in Auditors : doing[q].at # "append"
    BY <1>8 DEF Attestation!ReadHash
  <2>2. /\ \A q \in Auditors \ {p} : doing'[q] = doing[q]
        /\ doing'[p].prev = Attestation!LastHash(log) /\ log' = log
    BY <1>8 DEF Attestation!ReadHash, Attestation!TypeOK
  <2>3. Chained'
    BY <1>4, <2>2
  <2> QED BY <2>1, <2>2, <2>3
<1>9. ASSUME NEW p \in Auditors, Attestation!Audited(p)
      PROVE  doing'[p].at # "append" /\ \A q \in Auditors \ {p} : doing'[q] = doing[q]
  BY <1>9 DEF Attestation!Audited, Attestation!Idle, Attestation!TypeOK
<1>10. ASSUME NEW p \in Auditors, Attestation!WriteLine(p) PROVE Goal
  BY <1>6, <1>7, <1>9, <1>10 DEF Attestation!WriteLine
<1>11. ASSUME NEW p \in Auditors, Attestation!Torn(p), doing'[p].at # "append",
              \A q \in Auditors \ {p} : doing'[q] = doing[q]
       PROVE  Goal
  <2>1. CASE log' = log
    BY <1>5, <1>11, <2>1
  <2>2. CASE log' # log
    BY <1>6, <1>7, <1>11, <2>2 DEF Attestation!Torn
  <2> QED BY <2>1, <2>2
<1>12. ASSUME NEW p \in Auditors, Attestation!WriteFails(p) PROVE Goal
  <2>1. doing'[p].at # "append" /\ \A q \in Auditors \ {p} : doing'[q] = doing[q]
    BY <1>9, <1>12 DEF Attestation!WriteFails, Attestation!Idle, Attestation!TypeOK
  <2> QED BY <1>11, <1>12, <2>1 DEF Attestation!WriteFails
<1>13. ASSUME NEW p \in Auditors, Attestation!Crash(p) PROVE Goal
  <2>1. doing'[p].at # "append" /\ \A q \in Auditors \ {p} : doing'[q] = doing[q]
    BY <1>13 DEF Attestation!Crash, Attestation!Idle, Attestation!TypeOK
  <2> QED BY <1>11, <1>13, <2>1 DEF Attestation!Crash
<1>14. ASSUME NEW p \in Auditors,
              Attestation!IssueClaim(p) \/ Attestation!Record(p) \/ Attestation!Unlink(p) \/ \E id \in 1..AuditedEvents : Attestation!Revoke(p, id)
       PROVE  Goal
  <2>1. log' = log /\ \A q \in Auditors : doing'[q].at = "append" => doing'[q] = doing[q]
    BY <1>14 DEF Attestation!IssueClaim, Attestation!Record, Attestation!Unlink, Attestation!Revoke, Attestation!Idle, Attestation!TypeOK
  <2> QED BY <1>5, <2>1
<1>15. ASSUME UNCHANGED Attestation!vars PROVE Goal
  BY <1>5, <1>15 DEF Attestation!vars
<1> HIDE DEF Goal
<1>16. Goal
  <2>1. ASSUME Attestation!Next PROVE Goal
    <3>1. PICK p \in Auditors :
            \/ Attestation!ReadHash(p) \/ Attestation!WriteLine(p) \/ Attestation!WriteFails(p) \/ Attestation!Crash(p)
            \/ Attestation!IssueClaim(p) \/ Attestation!Record(p) \/ Attestation!Unlink(p)
            \/ \E id \in 1..AuditedEvents : Attestation!Revoke(p, id)
      BY <2>1 DEF Attestation!Next
    <3> QED BY <1>8, <1>10, <1>12, <1>13, <1>14, <3>1
  <2> QED BY <1>15, <2>1
<1> QED BY <1>3, <1>16 DEF Goal, Linked, Attestation!ReadableIsChained

\* What is at risk changes by at most the one claim whose record is lost.
LEMMA AttestationAccounted ==
  ASSUME Attestation!AttestationAssumption, Attestation!TypeOK, Fresh, Accounted, [Attestation!Next]_Attestation!vars
  PROVE  Accounted'
<1> DEFINE Late == IF ended["revocations"] THEN 0 ELSE 1
<1>1. IsFiniteSet(AtRisk) /\ Cardinality(AtRisk) \in Nat /\ tears \in Nat
  BY AttestationBounds
<1>2. ASSUME AtRisk' \subseteq AtRisk, tears' - Late' >= tears - Late, tears' \in Nat
      PROVE  Accounted'
  <2>1. Cardinality(AtRisk') <= Cardinality(AtRisk) /\ Cardinality(AtRisk') \in Nat
    BY <1>1, <1>2, FS_Subset, FS_CardinalityType
  <2>2. Late \in {0, 1} /\ Late' \in {0, 1}
    OBVIOUS
  <2>5. tears' - Late' >= tears - Late /\ tears' \in Nat
    BY <1>2
  <2> HIDE DEF Late
  <2>3. Cardinality(AtRisk) + Late <= tears
    BY DEF Accounted, Late
  <2>4. Cardinality(AtRisk') + Late' <= tears'
    <3>1. \A a, b, t, u \in Nat, l, m \in {0, 1} :
            b <= a /\ u - m >= t - l /\ a + l <= t => b + m <= u
      OBVIOUS
    <3> QED BY <1>1, <2>1, <2>2, <2>3, <2>5, <3>1, Zenon
  <2> QED BY <2>4 DEF Accounted, Late
<1>3. ASSUME NEW p \in Auditors, Attestation!Record(p) PROVE Accounted'
  <2>1. CASE ended["revocations"]
    <3>1. AtRisk' \subseteq AtRisk
      BY <1>3, <2>1 DEF Attestation!Record, AtRisk, Attestation!TypeOK
    <3>2. tears' = tears /\ ended'["revocations"]
      BY <1>3 DEF Attestation!Record, Attestation!TypeOK
    <3> QED BY <1>1, <1>2, <2>1, <3>1, <3>2
  <2>2. CASE ~ended["revocations"]
    <3>1. AtRisk' \subseteq AtRisk \cup {doing[p].n}
      BY <1>3, <2>2 DEF Attestation!Record, AtRisk, Attestation!TypeOK
    <3>2. tears' = tears /\ ended'["revocations"]
      BY <1>3 DEF Attestation!Record, Attestation!TypeOK
    <3>3. /\ IsFiniteSet(AtRisk \cup {doing[p].n})
          /\ Cardinality(AtRisk \cup {doing[p].n}) <= Cardinality(AtRisk) + 1
      BY <1>1, FS_AddElement
    <3>4. Cardinality(AtRisk') <= Cardinality(AtRisk) + 1 /\ Cardinality(AtRisk') \in Nat
      BY <1>1, <3>1, <3>3, FS_Subset, FS_CardinalityType
    <3> QED BY <1>1, <2>2, <3>2, <3>4 DEF Accounted
  <2> QED BY <2>1, <2>2
<1>4. ASSUME NEW p \in Auditors, Attestation!Torn(p), UNCHANGED <<revoked, issued>>, claims \subseteq claims',
             \A q \in Auditors : doing'[q].at = "unlink" => doing'[q] = doing[q]
      PROVE  Accounted'
  <2>1. AtRisk' \subseteq AtRisk
    BY <1>4 DEF AtRisk
  <2>2. tears' \in Nat /\ tears' - Late' >= tears - Late
    BY <1>1, <1>4 DEF Attestation!Torn, Attestation!TypeOK
  <2> QED BY <1>2, <2>1, <2>2
<1>5. ASSUME NEW p \in Auditors, Attestation!IssueClaim(p) PROVE Accounted'
  <2>1. \A q \in Auditors : doing'[q].at = "unlink" => doing'[q] = doing[q]
    BY <1>5 DEF Attestation!IssueClaim, Attestation!Idle, Attestation!TypeOK
  <2>2. AtRisk' \subseteq AtRisk
    BY <1>5, <2>1, ZenonT(60) DEF Attestation!IssueClaim, AtRisk, Fresh
  <2> QED BY <1>1, <1>2, <1>5, <2>2 DEF Attestation!IssueClaim
<1>6. ASSUME NEW p \in Auditors, Attestation!Unlink(p) PROVE Accounted'
  <2>1. \A q \in Auditors : doing'[q].at = "unlink" => doing'[q] = doing[q]
    BY <1>6 DEF Attestation!Unlink, Attestation!Idle, Attestation!TypeOK
  <2>2. AtRisk' \subseteq AtRisk
    BY <1>6, <2>1 DEF Attestation!Unlink, AtRisk
  <2> QED BY <1>1, <1>2, <2>2, <1>6 DEF Attestation!Unlink
<1>7. ASSUME NEW p \in Auditors, Attestation!ReadHash(p) \/ Attestation!WriteLine(p) \/ \E id \in 1..AuditedEvents : Attestation!Revoke(p, id)
      PROVE  Accounted'
  <2>1. \A q \in Auditors : doing'[q].at = "unlink" => doing'[q] = doing[q]
    BY <1>7 DEF Attestation!ReadHash, Attestation!WriteLine, Attestation!Revoke, Attestation!Audited, Attestation!Idle, Attestation!TypeOK
  <2>2. UNCHANGED <<claims, revoked, issued, tears>> /\ ended'["revocations"] = ended["revocations"]
    BY <1>7 DEF Attestation!ReadHash, Attestation!WriteLine, Attestation!Revoke, Attestation!TypeOK
  <2>3. AtRisk' \subseteq AtRisk
    BY <2>1, <2>2 DEF AtRisk
  <2> QED BY <1>1, <1>2, <2>2, <2>3
<1>8. ASSUME NEW p \in Auditors, Attestation!WriteFails(p) PROVE Accounted'
  <2>1. \A q \in Auditors : doing'[q].at = "unlink" => doing'[q] = doing[q]
    BY <1>8 DEF Attestation!WriteFails, Attestation!Audited, Attestation!Idle, Attestation!TypeOK
  <2> QED BY <1>4, <1>8, <2>1 DEF Attestation!WriteFails
<1>9. ASSUME NEW p \in Auditors, Attestation!Crash(p) PROVE Accounted'
  <2>1. \A q \in Auditors : doing'[q].at = "unlink" => doing'[q] = doing[q]
    BY <1>9 DEF Attestation!Crash, Attestation!Idle, Attestation!TypeOK
  <2> QED BY <1>4, <1>9, <2>1 DEF Attestation!Crash
<1>10. CASE UNCHANGED Attestation!vars
  <2>1. AtRisk' = AtRisk
    BY <1>10 DEF Attestation!vars, AtRisk
  <2> QED BY <1>10, <2>1 DEF Attestation!vars, Accounted
<1> QED BY <1>3, <1>5, <1>6, <1>7, <1>8, <1>9, <1>10 DEF Attestation!Next

LEMMA AttestationStep ==
  ASSUME Attestation!AttestationAssumption, AttestationInv, [Attestation!Next]_Attestation!vars PROVE AttestationInv'
<1> QED BY AttestationTypes, AttestationChained, AttestationAccounted DEF AttestationInv

LEMMA AttestationSafe ==
  ASSUME Attestation!AttestationAssumption, AttestationInv PROVE Attestation!NoClaimVanishes
<1> DEFINE gone == {id \in issued : [id |-> id, whole |-> TRUE] \notin claims /\ id \notin revoked}
<1>1. gone \subseteq AtRisk
  BY DEF AtRisk
<1>3. IsFiniteSet(AtRisk) /\ Cardinality(AtRisk) \in Nat /\ tears \in Nat
  BY AttestationBounds DEF AttestationInv
<1>4. Cardinality(gone) <= Cardinality(AtRisk) /\ Cardinality(gone) \in Nat
  BY <1>1, <1>3, FS_Subset, FS_CardinalityType
<1>5. Cardinality(gone) <= tears
  BY <1>3, <1>4 DEF AttestationInv, Accounted
<1> QED BY <1>5, SameCardinality DEF Attestation!NoClaimVanishes

LEMMA AttestationLift == MCSpec => Attestation!Spec
<1>1. MCInit => Attestation!Init
  BY DEF MCInit
<1>2. [MCNext]_allVars => [Attestation!Next]_Attestation!vars
  BY DEF MCNext, SessionsNext, ArtifactsNext, MemoryNext, McpNext, AttestationNext, ComposerNext,
         FileSystemNext, IdentityNext, allVars, attestationVars, Attestation!vars
<1> QED BY <1>1, <1>2, PTL DEF MCSpec, Attestation!Spec

\* append_audit: as long as no two appends overlapped, the lines that can be
\* read are chained, each to the one that can be read before it.
THEOREM TheLogIsChained == MCSpec => []ReadableIsChained
<1>0. Attestation!AttestationAssumption
  BY ServicesAssumption
<1>1. Attestation!Init => AttestationInv
  BY <1>0, AttestationInit
<1>2. AttestationInv /\ [Attestation!Next]_Attestation!vars => AttestationInv'
  BY <1>0, AttestationStep
<1>3. AttestationInv => ReadableIsChained
  BY <1>0 DEF ReadableIsChained, AttestationInv
<1> QED BY <1>1, <1>2, <1>3, AttestationLift, PTL DEF Attestation!Spec

\* revoke: an issued claim is on disk, or revoked on record, but for one claim
\* per torn write.
THEOREM ClaimsDoNotVanish == MCSpec => []NoClaimVanishes
<1>0. Attestation!AttestationAssumption
  BY ServicesAssumption
<1>1. Attestation!Init => AttestationInv
  BY <1>0, AttestationInit
<1>2. AttestationInv /\ [Attestation!Next]_Attestation!vars => AttestationInv'
  BY <1>0, AttestationStep
<1>3. AttestationInv => NoClaimVanishes
  BY <1>0, AttestationSafe DEF NoClaimVanishes
<1> QED BY <1>1, <1>2, <1>3, AttestationLift, PTL DEF Attestation!Spec

(***************************************************************************)
(* The signing identity.                                                   *)
(***************************************************************************)
\* A program that has made a key and not yet written all of it.
Making(p) == program[p].pc \in {"made", "writing"}

\* As long as every program could read what was there, a program that makes a
\* key is alone, and it found no file: so no program runs with another key, and
\* none was published.
OneKey ==
  /\ \A p, q \in Programs : Making(p) /\ Making(q) => p = q
  /\ \A p \in Programs : program[p].pc = "made" => file.state = "absent"
  /\ \A p \in Programs : program[p].pc = "writing" => file.state = "torn"
  /\ file.state # "whole" => document = 0
  /\ document \in {0, file.key}
  /\ \A p \in Programs : program[p].pc = "on" =>
       file.state = "whole" /\ program[p].key = file.key

IdentityInv == Identity!TypeOK /\ (~unsettled => OneKey)

LEMMA IdentityInit ==
  ASSUME Identity!IdentityAssumption, Identity!Init PROVE IdentityInv
<1>1. Identity!TypeOK
  <2>1. 0 \in 0..MaxKeys /\ 1 \in 0..MaxKeys /\ 0 \in 0..MaxDeaths
    BY DEF Identity!IdentityAssumption
  <2>2. /\ file \in [state : {"absent", "torn", "whole"}, key : 0..MaxKeys, lock : Identity!Locks]
        /\ keys = file.key
    BY <2>1 DEF Identity!Init, Identity!NoFile, Identity!Whole, Identity!Locks
  <2>3. keys \in 0..MaxKeys
    BY <2>2
  <2>4. program \in [Programs -> [pc : {"off", "made", "writing", "on"}, password : Identity!Locks,
                                  method : {"key", "web"}, key : 0..MaxKeys]]
    BY <2>1 DEF Identity!Init, Identity!Off, Identity!Locks
  <2> QED BY <2>1, <2>2, <2>3, <2>4 DEF Identity!Init, Identity!TypeOK
<1>2. OneKey
  BY DEF Identity!Init, OneKey, Making, Identity!NoFile, Identity!Whole, Identity!Off
<1> QED BY <1>1, <1>2 DEF IdentityInv

LEMMA IdentityTypes ==
  ASSUME Identity!IdentityAssumption, Identity!TypeOK, [Identity!Next]_Identity!vars PROVE Identity!TypeOK'
<1> USE DEF Identity!TypeOK, Identity!IdentityAssumption, Identity!Locks
<1>1. ASSUME NEW p \in Programs, NEW password \in Identity!Locks, NEW method \in {"key", "web"},
             Identity!Start(p, password, method)
      PROVE  Identity!TypeOK'
  <2>1. CASE Identity!Opens(password)
    BY <1>1, <2>1 DEF Identity!Start
  <2>2. CASE ~Identity!Opens(password)
    <3>1. keys + 1 \in 0..MaxKeys
      BY <1>1, <2>2 DEF Identity!Start
    <3> QED BY <1>1, <2>2, <3>1 DEF Identity!Start
  <2> QED BY <2>1, <2>2
<1>2. ASSUME NEW p \in Programs, Identity!Truncate(p) PROVE Identity!TypeOK'
  BY <1>2 DEF Identity!Truncate, Identity!Torn, Identity!NoFile
<1>3. ASSUME NEW p \in Programs, Identity!Write(p) PROVE Identity!TypeOK'
  BY <1>3 DEF Identity!Write, Identity!Whole
<1>4. ASSUME NEW p \in Programs, Identity!Die(p) PROVE Identity!TypeOK'
  BY <1>4 DEF Identity!Die, Identity!Off
<1>5. ASSUME NEW p \in Programs, Identity!End(p) PROVE Identity!TypeOK'
  BY <1>5 DEF Identity!End, Identity!Off
<1>6. ASSUME Identity!Publish PROVE Identity!TypeOK'
  BY <1>6 DEF Identity!Publish
<1>7. CASE UNCHANGED Identity!vars
  BY <1>7 DEF Identity!vars
<1> QED BY <1>1, <1>2, <1>3, <1>4, <1>5, <1>6, <1>7 DEF Identity!Next

LEMMA OneKeyStays ==
  ASSUME Identity!TypeOK, OneKey, ~unsettled', ~unsettled, [Identity!Next]_Identity!vars PROVE OneKey'
<1> USE DEF OneKey, Making
<1>1. ASSUME NEW p \in Programs, NEW password \in Identity!Locks, NEW method \in {"key", "web"},
             Identity!Start(p, password, method)
      PROVE  OneKey'
  <2>1. \A q \in Programs : ~Making(q)
    BY <1>1 DEF Identity!Start
  <2>2. CASE Identity!Opens(password)
    BY <1>1, <2>1, <2>2 DEF Identity!Start, Identity!Opens, Identity!TypeOK
  <2>3. CASE ~Identity!Opens(password)
    <3>1. file.state = "absent"
      BY <1>1, <2>3 DEF Identity!Start, Identity!Opens, Identity!TypeOK
    <3>2. \A q \in Programs : program[q].pc # "on"
      BY <3>1
    <3> QED BY <1>1, <2>1, <2>3, <3>1, <3>2 DEF Identity!Start, Identity!TypeOK
  <2> QED BY <2>2, <2>3
<1>2. ASSUME NEW p \in Programs, Identity!Truncate(p) PROVE OneKey'
  BY <1>2 DEF Identity!Truncate, Identity!Torn, Identity!NoFile, Identity!TypeOK
<1>3. ASSUME NEW p \in Programs, Identity!Write(p) PROVE OneKey'
  BY <1>3 DEF Identity!Write, Identity!Whole, Identity!TypeOK
<1>4. ASSUME NEW p \in Programs, Identity!Die(p) PROVE OneKey'
  BY <1>4 DEF Identity!Die, Identity!Off, Identity!TypeOK
<1>5. ASSUME NEW p \in Programs, Identity!End(p) PROVE OneKey'
  BY <1>5 DEF Identity!End, Identity!Off, Identity!TypeOK
<1>6. ASSUME Identity!Publish PROVE OneKey'
  BY <1>6 DEF Identity!Publish, Identity!TypeOK
<1>7. CASE UNCHANGED Identity!vars
  BY <1>7 DEF Identity!vars
<1> QED BY <1>1, <1>2, <1>3, <1>4, <1>5, <1>6, <1>7 DEF Identity!Next

LEMMA IdentityStep ==
  ASSUME Identity!IdentityAssumption, IdentityInv, [Identity!Next]_Identity!vars PROVE IdentityInv'
<1>1. Identity!TypeOK'
  BY IdentityTypes DEF IdentityInv
<1>2. unsettled => unsettled'
  BY DEF IdentityInv, Identity!TypeOK, Identity!Next, Identity!Start, Identity!Truncate, Identity!Write, Identity!Die, Identity!End, Identity!Publish, Identity!vars
<1>3. ASSUME ~unsettled' PROVE OneKey'
  BY <1>2, <1>3, OneKeyStays DEF IdentityInv
<1> QED BY <1>1, <1>3 DEF IdentityInv

LEMMA OneKeyIsShared ==
  ASSUME IdentityInv PROVE Identity!IdentityIsShared
<1> SUFFICES ASSUME ~unsettled, NEW p \in Programs, program[p].pc = "on"
             PROVE  /\ file = Identity!Whole(program[p].key, file.lock)
                    /\ Identity!Resolved(Identity!Did(p)) \subseteq {program[p].key}
  BY DEF Identity!IdentityIsShared
<1>1. file.state = "whole" /\ program[p].key = file.key /\ document \in {0, file.key}
  BY DEF IdentityInv, OneKey
<1>2. file = Identity!Whole(program[p].key, file.lock)
  BY <1>1 DEF IdentityInv, Identity!TypeOK, Identity!Whole
<1>3. Identity!Resolved(Identity!Did(p)) \subseteq {program[p].key}
  BY <1>1 DEF Identity!Resolved, Identity!KeyResolver, Identity!WebResolver, Identity!Did
<1> QED BY <1>2, <1>3

LEMMA IdentityLift == MCSpec => Identity!Spec
<1>1. MCInit => Identity!Init
  BY DEF MCInit
<1>2. [MCNext]_allVars => [Identity!Next]_Identity!vars
  BY DEF MCNext, SessionsNext, ArtifactsNext, MemoryNext, McpNext, AttestationNext, ComposerNext,
         FileSystemNext, IdentityNext, allVars, identityVars, Identity!vars
<1> QED BY <1>1, <1>2, PTL DEF MCSpec, Identity!Spec

\* load_or_create_signing_key, DidKeyResolver and DidWebResolver: as long as no
\* program met a file it could not read, all programs sign with the key of the
\* file, and whoever resolves the DID on an event finds that key, or none.
THEOREM SharedIdentity == MCSpec => []IdentityIsShared
<1>0. Identity!IdentityAssumption
  BY ServicesAssumption
<1>1. Identity!Init => IdentityInv
  BY <1>0, IdentityInit
<1>2. IdentityInv /\ [Identity!Next]_Identity!vars => IdentityInv'
  BY <1>0, IdentityStep
<1>3. IdentityInv => IdentityIsShared
  BY <1>0, OneKeyIsShared DEF IdentityIsShared
<1> QED BY <1>1, <1>2, <1>3, IdentityLift, PTL DEF Identity!Spec

=============================================================================
