---------------------------- MODULE OrderedStream ----------------------------
(***************************************************************************)
(* What gather_with_event_queue promises the tool loop that iterates it    *)
(* (docstring of src/orxhestra/concurrency.py): queue items in real time,  *)
(* in the order they were pushed, followed by one result per coroutine in  *)
(* the original order.  Module EventGather is shown to implement this.     *)
(***************************************************************************)
EXTENDS Naturals, Sequences

CONSTANTS N,       \* number of coroutines, numbered in the caller's order
          Item     \* what a coroutine may push

VARIABLES live,       \* the coroutines still running
          pushed,     \* every item pushed so far, oldest first
          delivered,  \* the items the consumer has received, oldest first
          emitted,    \* how many results the consumer has received
          status      \* "open", "complete" or "broken"

vars == <<live, pushed, delivered, emitted, status>>

Init == /\ live = 1..N
        /\ pushed = <<>>
        /\ delivered = <<>>
        /\ emitted = 0
        /\ status = "open"

\* A running coroutine pushes an item, whether or not anybody still listens.
Push(item) ==
  /\ live # {}
  /\ pushed' = Append(pushed, item)
  /\ UNCHANGED <<live, delivered, emitted, status>>

\* A coroutine returns or raises.
Leave(i) ==
  /\ i \in live
  /\ live' = live \ {i}
  /\ UNCHANGED <<pushed, delivered, emitted, status>>

\* The consumer receives the oldest item it has not received yet.
Deliver ==
  /\ status = "open" /\ emitted = 0
  /\ Len(delivered) < Len(pushed)
  /\ delivered' = Append(delivered, pushed[Len(delivered) + 1])
  /\ UNCHANGED <<live, pushed, emitted, status>>

\* The consumer receives the next result, once nothing is left to deliver.
Result ==
  /\ status = "open" /\ live = {} /\ delivered = pushed /\ emitted < N
  /\ emitted' = emitted + 1
  /\ UNCHANGED <<live, pushed, delivered, status>>

Complete ==
  /\ status = "open" /\ emitted = N
  /\ status' = "complete"
  /\ UNCHANGED <<live, pushed, delivered, emitted>>

\* A coroutine's exception is re-raised, or the consumer goes away.
Break ==
  /\ status = "open"
  /\ status' = "broken"
  /\ UNCHANGED <<live, pushed, delivered, emitted>>

Next == \/ \E item \in Item : Push(item)
        \/ \E i \in 1..N : Leave(i)
        \/ Deliver \/ Result \/ Complete \/ Break

Spec == Init /\ [][Next]_vars
=============================================================================
