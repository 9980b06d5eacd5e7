----------------------------- MODULE TaskStore -----------------------------
(***************************************************************************)
(* Clients of one InMemoryTaskStore: handlers that put, get and delete     *)
(* tasks, and one client that pages through list() with the cursor it was  *)
(* given, other calls happening between two of its pages.                  *)
(*                                                                         *)
(* Task objects are shared by reference, so put() of a stored task only    *)
(* changes the order; a handler changes a task's state just before it.     *)
(***************************************************************************)
EXTENDS TaskStoreOps

CONSTANTS Task,      \* task ids
          MaxTasks,  \* max_tasks, the capacity
          Limit      \* the limit argument of list()

\* What the instances ASSUME.
TaskStoreAssumption == MaxTasks \in Nat \ {0} /\ Limit \in Nat

VARIABLES
  store,    \* the OrderedDict, least recently used first
  open,     \* the tasks whose state is not terminal
  made,     \* the tasks created so far
  pager     \* the paging client

\* pager.filter   "all", or "open" for list(state=...)
\* pager.cursor   offset decoded from next_cursor
\* pager.seen     tasks on the pages received so far
\* pager.steady   history: stored, matching and unused since the first page
\* pager.shrunk   history: a listed task stopped matching or was deleted
vars == <<store, open, made, pager>>

Filter == {"all", "open"}

Matching(f, o, t) == f = "all" \/ t \in o

Idle == [pc |-> "idle", filter |-> "all", cursor |-> 0, seen |-> {},
         steady |-> {}, shrunk |-> FALSE]

Init == /\ store = <<>>
        /\ open = {}
        /\ made = {}
        /\ pager = Idle

\* What a call that used t and left store s and open tasks o means for the
\* pages still to come.
Observe(t, s, o) ==
  LET matching == {u \in Keys(s) : Matching(pager.filter, o, u)}
      left == {u \in Keys(store) \ matching : Matching(pager.filter, open, u)}
      evicted == IF Keys(store) \subseteq Keys(s) THEN {} ELSE {store[1]}
  IN pager' = IF pager.pc # "paging" THEN pager
              ELSE [pager EXCEPT
                      !.steady = (@ \cap matching) \ {t},
                      !.shrunk = @ \/ \E u \in left : u \notin evicted]

\* _create_task: put() of a task never stored before.
Create(t) ==
  /\ t \notin made
  /\ made' = made \cup {t}
  /\ open' = open \cup {t}
  /\ store' = Put(store, t, MaxTasks)
  /\ Observe(t, store', open')

\* _update_task_status: the running handler holds the task object, stored or
\* evicted, and puts it back.
Update(t) ==
  /\ t \in open
  /\ open' \in {open, open \ {t}}
  /\ store' = Put(store, t, MaxTasks)
  /\ Observe(t, store', open')
  /\ UNCHANGED made

Lookup(t) ==
  /\ t \in made
  /\ store' = Get(store, t)
  /\ IF t \in Keys(store)
       THEN Observe(t, store', open)
       ELSE UNCHANGED pager
  /\ UNCHANGED <<open, made>>

Remove(t) ==
  /\ t \in Keys(store)
  /\ store' = Delete(store, t)
  /\ IF pager.pc = "paging"
       THEN pager' = [pager EXCEPT
              !.steady = @ \ {t},
              !.shrunk = @ \/ Matching(pager.filter, open, t)]
       ELSE UNCHANGED pager
  /\ UNCHANGED <<open, made>>

\* list(): one page from `cursor`; a page that reaches the end has no
\* next_cursor and is the client's last.
PageAfter(p) ==
  LET matching == {t \in Task : Matching(p.filter, open, t)}
  IN [p EXCEPT !.pc = IF LastPage(store, matching, p.cursor, Limit) THEN "finished" ELSE "paging",
               !.cursor = PageEnd(p.cursor, Limit),
               !.seen = @ \cup Page(store, matching, p.cursor, Limit)]

FirstPage(f) ==
  /\ pager.pc = "idle"
  /\ LET matching == {t \in Keys(store) : Matching(f, open, t)}
     IN pager' = PageAfter([Idle EXCEPT !.filter = f, !.steady = matching])
  /\ UNCHANGED <<store, open, made>>

NextPage ==
  /\ pager.pc = "paging"
  /\ pager' = PageAfter(pager)
  /\ UNCHANGED <<store, open, made>>

Next == \/ \E t \in Task : Create(t) \/ Update(t) \/ Lookup(t) \/ Remove(t)
        \/ \E f \in Filter : FirstPage(f)
        \/ NextPage

Spec == Init /\ [][Next]_vars

-----------------------------------------------------------------------------
TypeOK ==
  /\ store \in Seq(Task)
  /\ made \subseteq Task
  /\ open \subseteq made
  /\ Keys(store) \subseteq made
  /\ pager \in [pc : {"idle", "paging", "finished"}, filter : Filter, cursor : Nat,
                seen : SUBSET Task, steady : SUBSET Task, shrunk : BOOLEAN]

\* A client that follows next_cursor to the end has seen every task that was
\* stored throughout and that nobody used meanwhile: other calls only push
\* such a task towards later pages, as long as no listed task is deleted or
\* stops matching the filter.
UnusedTaskIsListed ==
  pager.pc = "finished" /\ ~pager.shrunk => pager.steady \subseteq pager.seen

=============================================================================
