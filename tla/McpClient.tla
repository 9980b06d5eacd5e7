----------------------------- MODULE McpClient -----------------------------
(***************************************************************************)
(* MCPClient: one session shared by everybody inside `async with client`,  *)
(* counted by _session_depth, and a session of its own for every call made *)
(* while there is none (_SessionContext).  The adapters' tools make such   *)
(* calls from concurrent tasks.                                            *)
(*                                                                         *)
(* The FastMCP client and the server are external: a handshake may fail,   *)
(* closing a session ends a handshake or a call that is using it.          *)
(***************************************************************************)
EXTENDS Naturals

CONSTANTS Callers,
          MaxSessions,   \* FastMCP clients made in a behaviour
          MaxDepth       \* nesting of `async with` in one caller

\* What the instances ASSUME.
McpAssumption == MaxSessions \in Nat /\ MaxDepth \in Nat \ {0}

VARIABLES
  session,   \* MCPClient._session, 0 if None
  depth,     \* MCPClient._session_depth
  conn,      \* state of each FastMCP client made
  nesting,   \* `async with` blocks each caller is in
  at,        \* what each caller awaits: [at, conn]
  joined     \* history: the open session a caller entered, 0 if it was not open

vars == <<session, depth, conn, nesting, at, joined>>

Conns == 1..MaxSessions
Ready == [at |-> "ready", conn |-> 0]

TypeOK ==
  /\ session \in 0..MaxSessions /\ depth \in Nat
  /\ conn \in [Conns -> {"unused", "connecting", "open", "failed", "closed"}]
  /\ nesting \in [Callers -> 0..MaxDepth]
  /\ at \in [Callers -> [at : {"ready", "entering", "opening", "calling", "callingOwn"},
                         conn : 0..MaxSessions]]
  /\ joined \in [Callers -> 0..MaxSessions]

Init ==
  /\ session = 0 /\ depth = 0
  /\ conn = [s \in Conns |-> "unused"]
  /\ nesting = [c \in Callers |-> 0]
  /\ at = [c \in Callers |-> Ready]
  /\ joined = [c \in Callers |-> 0]

\* _make_client, and the start of its handshake.
MakeClient(s) ==
  /\ conn[s] = "unused" /\ \A r \in Conns : r < s => conn[r] # "unused"
  /\ conn' = [conn EXCEPT ![s] = "connecting"]

\* c is one block further in; remember the session it can rely on.
GoIn(c) ==
  /\ depth' = depth + 1
  /\ nesting' = [nesting EXCEPT ![c] = @ + 1]
  /\ joined' = [joined EXCEPT ![c] =
       IF nesting[c] > 0 THEN @ ELSE IF session # 0 /\ conn'[session] = "open" THEN session ELSE 0]

\* __aenter__ when there is a session, perhaps one that is still connecting.
EnterShared(c) ==
  /\ at[c] = Ready /\ nesting[c] < MaxDepth /\ session # 0
  /\ UNCHANGED <<session, conn, at>>
  /\ GoIn(c)

\* __aenter__ when there is none, up to its await.
EnterFirst(c, s) ==
  /\ at[c] = Ready /\ nesting[c] < MaxDepth /\ session = 0
  /\ MakeClient(s) /\ session' = s
  /\ at' = [at EXCEPT ![c] = [at |-> "entering", conn |-> s]]
  /\ UNCHANGED <<depth, nesting, joined>>

\* The handshake succeeds and __aenter__ goes on.
Entered(c) ==
  /\ at[c].at = "entering" /\ conn[at[c].conn] = "connecting"
  /\ conn' = [conn EXCEPT ![at[c].conn] = "open"]
  /\ at' = [at EXCEPT ![c] = Ready]
  /\ GoIn(c)
  /\ UNCHANGED session

\* The handshake fails, or somebody closed the session: __aenter__ raises, and
\* _session stays as it is.
EnterFails(c) ==
  /\ at[c].at = "entering" /\ conn[at[c].conn] \in {"connecting", "closed"}
  /\ conn' = [conn EXCEPT ![at[c].conn] = IF @ = "connecting" THEN "failed" ELSE @]
  /\ at' = [at EXCEPT ![c] = Ready]
  /\ UNCHANGED <<session, depth, nesting, joined>>

\* The outermost block of any caller closes the session (mutant).
ExitEager(c) ==
  /\ at[c] = Ready /\ nesting[c] > 0
  /\ nesting' = [nesting EXCEPT ![c] = @ - 1]
  /\ depth' = depth - 1
  /\ joined' = [joined EXCEPT ![c] = IF nesting[c] = 1 THEN 0 ELSE @]
  /\ IF nesting[c] = 1 /\ session # 0
       THEN session' = 0 /\ conn' = [conn EXCEPT ![session] = "closed"]
       ELSE UNCHANGED <<session, conn>>
  /\ UNCHANGED at

\* __aexit__: the last one out closes the session.
Exit(c) ==
  /\ at[c] = Ready /\ nesting[c] > 0
  /\ nesting' = [nesting EXCEPT ![c] = @ - 1]
  /\ joined' = [joined EXCEPT ![c] = IF nesting[c] = 1 THEN 0 ELSE @]
  /\ depth' = depth - 1
  /\ IF depth' = 0 /\ session # 0
       THEN /\ session' = 0
            /\ conn' = [conn EXCEPT ![session] = IF @ = "failed" THEN @ ELSE "closed"]
       ELSE UNCHANGED <<session, conn>>
  /\ UNCHANGED at

\* list_tools, call_tool and the others on the shared session.
CallShared(c) ==
  /\ at[c] = Ready /\ session # 0
  /\ at' = [at EXCEPT ![c] = [at |-> "calling", conn |-> session]]
  /\ UNCHANGED <<session, depth, conn, nesting, joined>>

\* ... and on a session of their own.
CallOwn(c, s) ==
  /\ at[c] = Ready /\ session = 0
  /\ MakeClient(s)
  /\ at' = [at EXCEPT ![c] = [at |-> "opening", conn |-> s]]
  /\ UNCHANGED <<session, depth, nesting, joined>>

OwnOpened(c) ==
  /\ at[c].at = "opening"
  /\ \/ /\ conn' = [conn EXCEPT ![at[c].conn] = "open"]
        /\ at' = [at EXCEPT ![c].at = "callingOwn"]
     \/ /\ conn' = [conn EXCEPT ![at[c].conn] = "failed"]
        /\ at' = [at EXCEPT ![c] = Ready]
  /\ UNCHANGED <<session, depth, nesting, joined>>

\* The call returns or raises; a session of its own is closed either way.
Answered(c) ==
  /\ at[c].at \in {"calling", "callingOwn"}
  /\ conn' = IF at[c].at = "callingOwn" THEN [conn EXCEPT ![at[c].conn] = "closed"] ELSE conn
  /\ at' = [at EXCEPT ![c] = Ready]
  /\ UNCHANGED <<session, depth, nesting, joined>>

Next ==
  \E c \in Callers :
    \/ EnterShared(c) \/ Entered(c) \/ EnterFails(c) \/ Exit(c)
    \/ CallShared(c) \/ OwnOpened(c) \/ Answered(c)
    \/ \E s \in Conns : EnterFirst(c, s) \/ CallOwn(c, s)

Spec == Init /\ [][Next]_vars

\* A caller that entered on an open session has that session, open, for all
\* its calls until it leaves, whoever else enters, fails to enter or leaves.
InsideKeepsItsSession ==
  \A c \in Callers : joined[c] # 0 => session = joined[c] /\ conn[joined[c]] = "open"

============================================================================
