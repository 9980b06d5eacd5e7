------------------------- MODULE PushNotifications -------------------------
(***************************************************************************)
(* Webhooks of one A2A task (src/orxhestra/a2a/notifications.py): the SSE  *)
(* producer of _stream_task dispatches every event it yields, one          *)
(* background POST per registered config, while clients register and       *)
(* delete configs.                                                         *)
(*                                                                         *)
(* Events are numbered in the order _stream_task emits them; the last one  *)
(* is the completed status.  What a receiver does with a POST is external: *)
(* it answers 2xx, refuses (a 4xx other than 408), fails in a way that is  *)
(* retried after it saw the request, or is never reached.                  *)
(***************************************************************************)
EXTENDS Naturals, FiniteSets

CONSTANTS Config,      \* push-notification configs a client may register
          BadUrl,      \* those whose URL _validate_url rejects
          MaxRetries,  \* max_retries of the dispatcher
          LastEvent    \* bound: how many events the task's stream emits

\* What the instances ASSUME.
PushAssumption ==
  /\ BadUrl \subseteq Config
  /\ MaxRetries \in Nat
  /\ LastEvent \in Nat \ {0}

Event == 1..LastEvent

\* The posts of each event to each config.
Posts == Config \X Event

VARIABLES
  configs,   \* the push store's bucket of the task
  event,     \* how many events the stream has emitted
  client,    \* whether the client still reads the SSE response
  post,      \* the background task of each (config, event)
  attempt    \* its local `attempt`

vars == <<configs, event, client, post, attempt>>

Init == /\ configs = {}
        /\ event = 0
        /\ client = "reading"
        /\ post = [p \in Posts |-> "none"]
        /\ attempt = [p \in Posts |-> 0]
-----------------------------------------------------------------------------
\* CreateTaskPushNotificationConfig; the URL is not checked here.
Register(c) ==
  /\ c \notin configs
  /\ configs' = configs \cup {c}
  /\ UNCHANGED <<event, client, post, attempt>>

\* DeleteTaskPushNotificationConfig; posts under way are not recalled.
Unregister(c) ==
  /\ c \in configs
  /\ configs' = configs \ {c}
  /\ UNCHANGED <<event, client, post, attempt>>

\* The stream emits its next event: dispatch() lists the configs and starts
\* one background task per config with an acceptable URL, and the stream goes
\* on without waiting for any of them.
Emit ==
  /\ client = "reading" /\ event < LastEvent
  /\ event' = event + 1
  /\ post' = [p \in Posts |->
               IF p[2] = event' /\ p[1] \in configs \ BadUrl THEN "trying" ELSE post[p]]
  /\ UNCHANGED <<configs, client, attempt>>

\* The SSE connection drops: the server stops the generator that emits.
Disconnect ==
  /\ client = "reading" /\ event < LastEvent
  /\ client' = "gone"
  /\ UNCHANGED <<configs, event, post, attempt>>

\* The receiver sees the request and answers 2xx, or 4xx but 408: the post
\* ends.
Answered(p) ==
  /\ post[p] = "trying"
  /\ post' = [post EXCEPT ![p] = "ended"]
  /\ UNCHANGED <<configs, event, client, attempt>>

\* A 5xx, a 408, a timeout or a connection error, before or after the receiver
\* saw the request: one attempt more, after a delay, or the retries are
\* exhausted.
Failed(p) ==
  /\ post[p] = "trying"
  /\ attempt' = [attempt EXCEPT ![p] = @ + 1]
  /\ post' = [post EXCEPT ![p] = IF attempt'[p] <= MaxRetries THEN "waiting" ELSE "exhausted"]
  /\ UNCHANGED <<configs, event, client>>

\* The delay of 0.5 s, doubled each time, is over.
Retry(p) ==
  /\ post[p] = "waiting"
  /\ post' = [post EXCEPT ![p] = "trying"]
  /\ UNCHANGED <<configs, event, client, attempt>>
-----------------------------------------------------------------------------
Post(p) == Answered(p) \/ Failed(p) \/ Retry(p)

Next == \/ \E c \in Config : Register(c) \/ Unregister(c)
        \/ Emit \/ Disconnect
        \/ \E p \in Posts : Post(p)

Spec == Init /\ [][Next]_vars

\* Only the stream is fair: a receiver may leave every request hanging.
FairSpec == Spec /\ WF_vars(Emit)
-----------------------------------------------------------------------------
TypeOK ==
  /\ configs \subseteq Config
  /\ event \in 0..LastEvent
  /\ client \in {"reading", "gone"}
  /\ post \in [Posts -> {"none", "trying", "waiting", "ended", "exhausted"}]
  /\ attempt \in [Posts -> 0..(MaxRetries + 1)]

\* docs/integrations/a2a.mdx:90-92: webhooks are for a client that cannot hold
\* the SSE connection for the task's lifetime, so a config that stays
\* registered is told the end of the task.
ToldTheEnd ==
  \A c \in Config \ BadUrl : c \in configs ~> (event = LastEvent \/ c \notin configs)
=============================================================================
