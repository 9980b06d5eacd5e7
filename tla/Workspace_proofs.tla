-------------------------- MODULE Workspace_proofs --------------------------
(***************************************************************************)
(* The Composer, for every YAML file, and the two backends of the          *)
(* workspace's files, for any paths, texts and lengths; and with what is   *)
(* proved of the other services, the types of all of them.                 *)
(***************************************************************************)
EXTENDS Services_proofs

(***************************************************************************)
(* The Composer.                                                           *)
(***************************************************************************)
\* What the file says of every name: its references in order, whether it can
\* be built, and where it may hand over to.
RefsOf == [n \in References |-> IF Composer!Known(n) THEN Composer!Refs(n) ELSE <<>>]
SoundNames == {n \in References : Composer!Sound(n)}
HandsTo == [n \in References |-> IF n \in DOMAIN spec
                             THEN IF spec[n].type = "llm" THEN Composer!ToSet(Composer!Transfers(n)) ELSE {}
                             ELSE {}]
HoldsOf(sb) == [n \in References |-> IF n \in AgentNames THEN Composer!ToSet(sb[n]) ELSE {}]

BuildFrame == [name : AgentNames, next : Nat \ {0}]
AfterBuild == {"built", "signing", "runner", "server", "unattested"}

\* Who has been built was sound and needed, has everything it refers to, and
\* is not among what it refers to or holds, at any depth.
BuiltRight(g, needed, sound, routes, as, sb) ==
  /\ as \subseteq sound /\ as \subseteq needed
  /\ \A n \in as :
       /\ g[n] \subseteq as /\ Composer!ToSet(sb[n]) \subseteq as /\ routes[n] \subseteq Composer!ToSet(sb[n])
       /\ n \notin Composer!Reached({n}, g) /\ n \notin Composer!Reached({n}, HoldsOf(sb))

\* Who is being built was reached from whoever stands before it, and has the
\* references before its next one.
StackRight(g, rows, needed, as, b) ==
  \A i \in 1..Len(b) :
    /\ b[i].name \notin as /\ b[i].name \in needed
    /\ b[i].next <= Len(rows[b[i].name]) + 1
    /\ \A j \in 1..(b[i].next - 1) : rows[b[i].name][j] \in as
    /\ \A k \in (i + 1)..Len(b) :
         b[k].name # b[i].name /\ b[k].name \in Composer!Reached({b[i].name}, g)

\* The identity has been given to agents of the tree, and what it has not been
\* given to yet is on the stack.
SignedRight(h, todos, sg, checks) ==
  LET all == {Main} \cup Composer!Reached({Main}, h) IN
  /\ sg \subseteq all /\ Composer!ToSet(todos) \subseteq all
  /\ \A n \in sg : h[n] \subseteq sg \cup Composer!ToSet(todos)
  /\ Main \in sg \cup Composer!ToSet(todos) \/ (todos = <<>> /\ sg = {} /\ ~checks)

ComposerTypes ==
  /\ spec \in LoadedFiles /\ agents \in SUBSET AgentNames
  /\ building \in Seq(BuildFrame) /\ subs \in [AgentNames -> Seq(AgentNames)]
  /\ result \in {"loading", "building", "circular", "rejected", "invalid"} \cup AfterBuild
  /\ todo \in Seq(AgentNames) /\ signed \in SUBSET AgentNames /\ verifies \in BOOLEAN

ComposerInv ==
  /\ ComposerTypes
  /\ BuiltRight(Composer!Refers, Composer!Needed, SoundNames, HandsTo, agents, subs)
  /\ StackRight(Composer!Refers, RefsOf, Composer!Needed, agents, building)
  /\ \A k \in 1..Len(building) : Composer!Known(building[k].name)
  /\ result = "circular" => \E n \in Composer!Needed : n \in Composer!Reached({n}, Composer!Refers)
  /\ result = "invalid" => \E n \in Composer!Needed : ~Composer!Sound(n)
  /\ result \in AfterBuild => Main \in agents
  /\ result \in {"signing", "runner"} => SignedRight(Composer!Holds, todo, signed, verifies)
  /\ result \notin {"signing", "runner"} => todo = <<>> /\ signed = {} /\ ~verifies
  /\ result = "runner" => todo = <<>>

\* Reached.

LEMMA ReachedIsClosed ==
  ASSUME NEW S \in SUBSET References, NEW g \in [References -> SUBSET References]
  PROVE  /\ Composer!Reached(S, g) \in SUBSET References
         /\ \A m \in S \cup Composer!Reached(S, g) : g[m] \subseteq Composer!Reached(S, g)
<1>1. ASSUME NEW m \in S \cup Composer!Reached(S, g), NEW x \in g[m] PROVE x \in Composer!Reached(S, g)
  <2>1. m \in References /\ x \in References
    BY <1>1 DEF Composer!Reached
  <2>2. ASSUME NEW T \in SUBSET References, \A k \in S \cup T : g[k] \subseteq T PROVE x \in T
    <3>1. m \in S \cup T
      BY <1>1, <2>2 DEF Composer!Reached
    <3> QED BY <1>1, <2>2, <3>1
  <2> QED BY <2>1, <2>2 DEF Composer!Reached
<1> QED BY <1>1 DEF Composer!Reached

LEMMA ReachedIsLeast ==
  ASSUME NEW S \in SUBSET References, NEW g, NEW T \in SUBSET References,
         \A m \in S \cup T : g[m] \subseteq T
  PROVE  Composer!Reached(S, g) \subseteq T
BY DEF Composer!Reached

\* An agent that is built after all it refers to is not among what it reaches,
\* and does not change what those reach that were built before.
LEMMA StaysAcyclic ==
  ASSUME NEW g \in [References -> SUBSET References], NEW as \in SUBSET References, NEW n \in References, n \notin as,
         NEW h \in [References -> SUBSET References], \A m \in as : h[m] = g[m] /\ g[m] \subseteq as,
         h[n] \subseteq as, \A m \in as : m \notin Composer!Reached({m}, g)
  PROVE  \A m \in as \cup {n} : m \notin Composer!Reached({m}, h)
<1>1. n \notin Composer!Reached({n}, h)
  <2>1. \A m \in {n} \cup as : h[m] \subseteq as
    OBVIOUS
  <2>2. Composer!Reached({n}, h) \subseteq as
    BY <2>1, ReachedIsLeast, ZenonT(60)
  <2> QED BY <2>2
<1>2. ASSUME NEW m \in as PROVE m \notin Composer!Reached({m}, h)
  <2>0. {m} \in SUBSET References
    OBVIOUS
  <2>1. /\ Composer!Reached({m}, g) \in SUBSET References
        /\ \A k \in {m} \cup Composer!Reached({m}, g) : g[k] \subseteq Composer!Reached({m}, g)
    BY <2>0, ReachedIsClosed, ZenonT(60)
  <2> DEFINE T == Composer!Reached({m}, g) \cap as
  <2>2. \A k \in {m} \cup T : h[k] \subseteq T
    BY <2>1
  <2>3. T \in SUBSET References
    OBVIOUS
  <2> HIDE DEF T
  <2>4. Composer!Reached({m}, h) \subseteq T
    BY <2>2, <2>3, ReachedIsLeast, ZenonT(60)
  <2> QED BY <2>4 DEF T
<1> QED BY <1>1, <1>2

\* One step further.
LEMMA ReachedGrows ==
  ASSUME NEW g \in [References -> SUBSET References], NEW a \in References, NEW m \in References,
         m = a \/ m \in Composer!Reached({a}, g), NEW x \in g[m]
  PROVE  x \in Composer!Reached({a}, g)
<1>1. \A k \in {a} \cup Composer!Reached({a}, g) : g[k] \subseteq Composer!Reached({a}, g)
  BY ReachedIsClosed
<1> QED BY <1>1

\* What a file says.

LEMMA FileIs ==
  ASSUME Composer!ComposerAssumption, spec \in LoadedFiles
  PROVE  /\ Composer!Refers \in [References -> SUBSET References] /\ RefsOf \in [References -> Seq(References)]
         /\ Main \in References /\ Composer!Needed \in SUBSET References
         /\ \A n \in References : Composer!Refers[n] = Composer!ToSet(RefsOf[n])
         /\ \A n \in References : Composer!Known(n) =>
              /\ n \in AgentNames /\ n \in DOMAIN spec /\ RefsOf[n] = Composer!Refs(n) /\ Composer!Refs(n) \in Seq(References)
              /\ spec[n].tools \in Seq([kind : {"agent", "transfer", "both"}, agent : References])
              /\ Composer!Children(n) \in Seq(References)
<1>1. ASSUME NEW n \in References, Composer!Known(n)
      PROVE  /\ n \in AgentNames /\ n \in DOMAIN spec /\ Composer!Refs(n) \in Seq(References)
             /\ spec[n].tools \in Seq([kind : {"agent", "transfer", "both"}, agent : References])
             /\ Composer!Children(n) \in Seq(References)
  <2>1. n \in DOMAIN spec
    BY <1>1 DEF Composer!Known
  <2>2. /\ n \in AgentNames /\ spec[n].agents \in Seq(References)
        /\ spec[n].tools \in Seq([kind : {"agent", "transfer", "both"}, agent : References])
    BY <2>1 DEF Composer!ComposerAssumption
  <2>3. Composer!Children(n) \in Seq(References)
    BY <2>2 DEF Composer!Children
  <2>4. Composer!Targets(spec[n].tools) \in Seq(References)
    <3> DEFINE t == spec[n].tools
    <3>1. /\ Len(t) \in Nat /\ DOMAIN t = 1..Len(t)
          /\ \A k \in 1..Len(t) : t[k] \in [kind : {"agent", "transfer", "both"}, agent : References]
      BY <2>2, ElementsOf
    <3> HIDE DEF t
    <3>2. \A k \in 1..Len(t) : t[k].agent \in References
      BY <3>1
    <3>3. [k \in 1..Len(t) |-> t[k].agent] \in Seq(References)
      BY <3>1, <3>2
    <3> QED BY <3>1, <3>3 DEF Composer!Targets, t
  <2> QED BY <2>1, <2>2, <2>3, <2>4 DEF Composer!Refs
<1>2. ASSUME NEW n \in References PROVE Composer!ToSet(RefsOf[n]) = Composer!Refers[n] /\ RefsOf[n] \in Seq(References)
  <2>1. CASE Composer!Known(n)
    BY <1>1, <2>1 DEF RefsOf, Composer!Refers
  <2>2. CASE ~Composer!Known(n)
    <3>1. Composer!ToSet(<<>>) = {}
      BY DEF Composer!ToSet
    <3> QED BY <2>2, <3>1 DEF RefsOf, Composer!Refers
  <2> QED BY <2>1, <2>2
<1>3. ASSUME NEW n \in References PROVE Composer!Refers[n] \in SUBSET References
  <2>1. /\ DOMAIN RefsOf[n] = 1..Len(RefsOf[n]) /\ \A i \in 1..Len(RefsOf[n]) : RefsOf[n][i] \in References
    BY <1>2, ElementsOf
  <2> QED BY <1>2, <2>1 DEF Composer!ToSet
<1>4. Composer!Refers \in [References -> SUBSET References] /\ RefsOf \in [References -> Seq(References)] /\ Main \in References
  BY <1>2, <1>3 DEF Composer!Refers, RefsOf, Composer!ComposerAssumption
<1>5. Composer!Needed \in SUBSET References
  BY <1>4 DEF Composer!Needed, Composer!Reached
<1> QED BY <1>1, <1>2, <1>4, <1>5 DEF RefsOf

LEMMA SpecIsKept ==
  ASSUME spec' = spec
  PROVE  /\ Composer!Refers' = Composer!Refers /\ RefsOf' = RefsOf /\ HandsTo' = HandsTo /\ SoundNames' = SoundNames
         /\ Composer!Needed' = Composer!Needed /\ \A n : (Composer!Sound(n)' <=> Composer!Sound(n)) /\ (Composer!Known(n)' <=> Composer!Known(n))
<1>1. \A n : Composer!Known(n)' <=> Composer!Known(n)
  BY DEF Composer!Known
<1>2. \A n : Composer!Refs(n)' = Composer!Refs(n) /\ Composer!Transfers(n)' = Composer!Transfers(n)
  BY DEF Composer!Refs, Composer!Children, Composer!Transfers
<1>3. Composer!Refers' = Composer!Refers /\ RefsOf' = RefsOf /\ HandsTo' = HandsTo
  BY <1>1, <1>2 DEF Composer!Refers, RefsOf, HandsTo
<1>4. \A n : Composer!Sound(n)' <=> Composer!Sound(n)
  BY <1>1 DEF Composer!Sound
<1>5. SoundNames' = SoundNames
  BY <1>4 DEF SoundNames
<1> QED BY <1>1, <1>3, <1>4, <1>5 DEF Composer!Needed

LEMMA HoldsIs ==
  ASSUME Composer!ComposerAssumption, NEW sb \in [AgentNames -> Seq(AgentNames)]
  PROVE  /\ HoldsOf(sb) \in [References -> SUBSET References]
         /\ \A n \in AgentNames : HoldsOf(sb)[n] = Composer!ToSet(sb[n])
<1>1. ASSUME NEW n \in AgentNames PROVE Composer!ToSet(sb[n]) \in SUBSET AgentNames
  <2>1. DOMAIN sb[n] = 1..Len(sb[n]) /\ \A i \in 1..Len(sb[n]) : sb[n][i] \in AgentNames
    BY ElementsOf
  <2> QED BY <2>1 DEF Composer!ToSet
<1> QED BY <1>1 DEF HoldsOf, Composer!ComposerAssumption

LEMMA Beginning ==
  ASSUME NEW T, NEW s \in Seq(T), NEW m \in 0..Len(s)
  PROVE  /\ SubSeq(s, 1, m) \in Seq(T) /\ Len(SubSeq(s, 1, m)) = m
         /\ \A k \in 1..m : SubSeq(s, 1, m)[k] = s[k]
OBVIOUS

LEMMA LastIs ==
  ASSUME NEW T, NEW s \in Seq(T), s # <<>>
  PROVE  /\ Len(s) \in Nat /\ Len(s) > 0 /\ Composer!Last(s) = s[Len(s)] /\ Composer!Last(s) \in T
         /\ Composer!Front(s) \in Seq(T) /\ Len(Composer!Front(s)) = Len(s) - 1
         /\ \A i \in 1..(Len(s) - 1) : Composer!Front(s)[i] = s[i]
<1>1. Len(s) \in Nat /\ Len(s) > 0 /\ \A i \in 1..Len(s) : s[i] \in T
  BY ElementsOf
<1>2. Composer!Last(s) = s[Len(s)] /\ Composer!Last(s) \in T
  BY <1>1 DEF Composer!Last
<1>4. Len(s) - 1 \in 0..Len(s)
  BY <1>1
<1>3. /\ SubSeq(s, 1, Len(s) - 1) \in Seq(T) /\ Len(SubSeq(s, 1, Len(s) - 1)) = Len(s) - 1
      /\ \A i \in 1..(Len(s) - 1) : SubSeq(s, 1, Len(s) - 1)[i] = s[i]
  BY <1>4, Beginning
<1> QED BY <1>1, <1>2, <1>3 DEF Composer!Front

LEMMA Narrow ==
  ASSUME NEW T, NEW s \in Seq(T), NEW A, \A i \in 1..Len(s) : s[i] \in A
  PROVE  s \in Seq(A) /\ Composer!ToSet(s) \subseteq A
<1>1. Len(s) \in Nat /\ DOMAIN s = 1..Len(s)
  BY ElementsOf
<1>2. s = [i \in 1..Len(s) |-> s[i]]
  OBVIOUS
<1>3. [i \in 1..Len(s) |-> s[i]] \in Seq(A)
  BY <1>1
<1>4. s \in Seq(A)
  BY <1>2, <1>3
<1> QED BY <1>1, <1>4 DEF Composer!ToSet

LEMMA JoinedAre ==
  ASSUME NEW T, NEW a \in Seq(T), NEW b \in Seq(T)
  PROVE  a \o b \in Seq(T) /\ Composer!ToSet(a \o b) = Composer!ToSet(a) \cup Composer!ToSet(b)
<1> DEFINE c == a \o b
<1>1. /\ c \in Seq(T) /\ Len(c) = Len(a) + Len(b) /\ Len(a) \in Nat /\ Len(b) \in Nat
      /\ DOMAIN a = 1..Len(a) /\ DOMAIN b = 1..Len(b) /\ DOMAIN c = 1..Len(c)
      /\ \A i \in 1..Len(a) : c[i] = a[i]
      /\ \A i \in 1..Len(b) : c[Len(a) + i] = b[i]
  OBVIOUS
<1> HIDE DEF c
<1>2. ASSUME NEW i \in DOMAIN c PROVE c[i] \in Composer!ToSet(a) \cup Composer!ToSet(b)
  <2>1. CASE i <= Len(a)
    BY <1>1, <1>2, <2>1 DEF Composer!ToSet
  <2>2. CASE i > Len(a)
    <3>1. i - Len(a) \in 1..Len(b) /\ i = Len(a) + (i - Len(a))
      BY <1>1, <1>2, <2>2
    <3>2. c[i] = b[i - Len(a)]
      BY <1>1, <3>1
    <3> QED BY <1>1, <3>1, <3>2 DEF Composer!ToSet
  <2> QED BY <1>1, <1>2, <2>1, <2>2
<1>3. ASSUME NEW i \in DOMAIN a PROVE a[i] \in Composer!ToSet(c)
  <2>1. i \in DOMAIN c /\ c[i] = a[i]
    BY <1>1, <1>3
  <2> QED BY <2>1 DEF Composer!ToSet
<1>4. ASSUME NEW i \in DOMAIN b PROVE b[i] \in Composer!ToSet(c)
  <2>1. Len(a) + i \in DOMAIN c /\ c[Len(a) + i] = b[i]
    BY <1>1, <1>4
  <2> QED BY <2>1 DEF Composer!ToSet
<1>5. Composer!ToSet(c) = Composer!ToSet(a) \cup Composer!ToSet(b)
  BY <1>2, <1>3, <1>4 DEF Composer!ToSet
<1> QED BY <1>1, <1>5 DEF c

\* A selection has exactly the selected elements.
LEMMA SelectionIs ==
  ASSUME NEW T, NEW S, NEW s \in Seq(T)
  PROVE  Select(s, S) \in Seq(T \cap S) /\ Composer!ToSet(Select(s, S)) = Composer!ToSet(s) \cap S
<1> DEFINE K == Places(s, S)
           z == Select(s, S)
<1>1. /\ z \in Seq(T \cap S) /\ K \in SUBSET (1..Len(s)) /\ Len(s) \in Nat
      /\ Cardinality(K) \in Nat /\ Len(z) = Cardinality(K) /\ DOMAIN s = 1..Len(s)
  <2>1. DOMAIN s = 1..Len(s)
    BY ElementsOf
  <2>2. /\ Select(s, S) \in Seq(T \cap S) /\ Places(s, S) \in SUBSET (1..Len(s)) /\ Len(s) \in Nat
        /\ Cardinality(Places(s, S)) \in Nat /\ Len(Select(s, S)) = Cardinality(Places(s, S))
    BY SelectType
  <2> QED BY <2>1, <2>2
<1>2. /\ \A i \in 1..Cardinality(K) : Nth(K, i) \in K
      /\ \A k \in K : Rank(K, k) \in 1..Cardinality(K) /\ Nth(K, Rank(K, k)) = k
  BY <1>1, InOrderIs
<1>3. DOMAIN z = 1..Cardinality(K) /\ \A i \in 1..Cardinality(K) : z[i] = s[Nth(K, i)]
  BY DEF Select
<1>4. \A k \in K : k \in DOMAIN s /\ s[k] \in S
  BY DEF Places
<1>5. \A k \in DOMAIN s : s[k] \in S => k \in K
  BY DEF Places
<1> HIDE DEF K, z
<1>6. ASSUME NEW x \in Composer!ToSet(z) PROVE x \in Composer!ToSet(s) \cap S
  <2>1. PICK i \in 1..Cardinality(K) : x = z[i]
    BY <1>3, <1>6 DEF Composer!ToSet
  <2>2. x = s[Nth(K, i)] /\ Nth(K, i) \in K
    BY <1>2, <1>3, <2>1
  <2> QED BY <1>4, <2>2 DEF Composer!ToSet
<1>7. ASSUME NEW x \in Composer!ToSet(s), x \in S PROVE x \in Composer!ToSet(z)
  <2>1. PICK k \in DOMAIN s : x = s[k]
    BY <1>7 DEF Composer!ToSet
  <2>2. k \in K
    BY <1>5, <1>7, <2>1
  <2>3. Rank(K, k) \in DOMAIN z /\ z[Rank(K, k)] = x
    BY <1>2, <1>3, <2>1, <2>2
  <2> QED BY <2>3 DEF Composer!ToSet
<1> QED BY <1>1, <1>6, <1>7 DEF z

LEMMA SelectedAre ==
  ASSUME NEW T, NEW S, NEW s \in Seq(T)
  PROVE  /\ Composer!Select(s, S) \in Seq(T \cap S)
         /\ Composer!ToSet(Composer!Select(s, S)) = Composer!ToSet(s) \cap S
<1>1. ASSUME NEW K PROVE Composer!Cardinality(K) = Cardinality(K)
  BY Zenon DEF Composer!Cardinality, Cardinality
<1>2. ASSUME NEW K, NEW k PROVE Composer!Rank(K, k) = Rank(K, k)
  BY <1>1 DEF Composer!Rank, Rank
<1>3. ASSUME NEW K, NEW i PROVE Composer!Nth(K, i) = Nth(K, i)
  BY <1>2 DEF Composer!Nth, Nth
<1>4. Composer!Select(s, S) = Select(s, S)
  BY <1>1, <1>3 DEF Composer!Select, Select, Composer!Places, Places
<1>5. Select(s, S) \in Seq(T \cap S) /\ Composer!ToSet(Select(s, S)) = Composer!ToSet(s) \cap S
  BY SelectionIs
<1> QED BY Zenon, <1>4, <1>5


LEMMA TargetsAre ==
  ASSUME NEW K, NEW t \in Seq([kind : K, agent : References])
  PROVE  /\ Composer!Targets(t) \in Seq(References) /\ Composer!ToSet(Composer!Targets(t)) = {x.agent : x \in Composer!ToSet(t)}
<1>1. /\ Len(t) \in Nat /\ DOMAIN t = 1..Len(t)
      /\ \A k \in 1..Len(t) : t[k] \in [kind : K, agent : References]
  BY ElementsOf
<1>2. \A k \in 1..Len(t) : t[k].agent \in References
  BY <1>1
<1>3. Composer!Targets(t) = [k \in 1..Len(t) |-> t[k].agent]
  BY <1>1 DEF Composer!Targets
<1>4. [k \in 1..Len(t) |-> t[k].agent] \in Seq(References)
  BY <1>1, <1>2
<1>5. Composer!ToSet(Composer!Targets(t)) = {x.agent : x \in Composer!ToSet(t)}
  BY <1>1, <1>3 DEF Composer!ToSet
<1> QED BY <1>3, <1>4, <1>5

LEMMA TransfersAre ==
  ASSUME Composer!ComposerAssumption, spec \in LoadedFiles, NEW n \in References, Composer!Known(n)
  PROVE  /\ Composer!Transfers(n) \in Seq(References)
         /\ spec[n].type = "llm" => Composer!ToSet(Composer!Transfers(n)) \subseteq Composer!ToSet(Composer!Refs(n))
<1> DEFINE t == spec[n].tools
           R == [kind : {"agent", "transfer", "both"}, agent : References]
           z == Composer!OfKind(t, "transfer")
<1>1. t \in Seq(R)
  BY FileIs
<1>2. z \in Seq(R) /\ Composer!ToSet(z) \subseteq Composer!ToSet(t)
  <2> DEFINE S == {x \in Composer!ToSet(t) : x.kind = "transfer"}
  <2>1. Composer!Select(t, S) \in Seq(R \cap S) /\ Composer!ToSet(Composer!Select(t, S)) = Composer!ToSet(t) \cap S
    BY <1>1, SelectedAre
  <2>2. z = Composer!Select(t, S)
    BY DEF Composer!OfKind
  <2> HIDE DEF z, S, t, R
  <2> QED BY <2>1, <2>2
<1> HIDE DEF z, t
<1>3. /\ Composer!Targets(z) \in Seq(References) /\ Composer!ToSet(Composer!Targets(z)) = {x.agent : x \in Composer!ToSet(z)}
      /\ Composer!ToSet(Composer!Targets(t)) = {x.agent : x \in Composer!ToSet(t)}
  BY <1>1, <1>2, TargetsAre
<1>4. spec[n].type = "llm" => Composer!Refs(n) = Composer!Targets(t)
  BY DEF Composer!Refs, t
<1> QED BY <1>2, <1>3, <1>4 DEF Composer!Transfers, z, t

\* The steps.  A step that leaves the tree and the stack needs little.

LEMMA TreeIsKept ==
  ASSUME ComposerInv, UNCHANGED <<spec, agents, subs>>
  PROVE  /\ BuiltRight(Composer!Refers, Composer!Needed, SoundNames, HandsTo, agents, subs)'
         /\ Composer!Refers' = Composer!Refers /\ RefsOf' = RefsOf /\ Composer!Needed' = Composer!Needed /\ Composer!Holds' = Composer!Holds
         /\ \A n : (Composer!Sound(n)' <=> Composer!Sound(n)) /\ (Composer!Known(n)' <=> Composer!Known(n))
         /\ Composer!Holds = HoldsOf(subs)
<1>1. /\ Composer!Refers' = Composer!Refers /\ RefsOf' = RefsOf /\ HandsTo' = HandsTo /\ SoundNames' = SoundNames
      /\ Composer!Needed' = Composer!Needed /\ \A n : (Composer!Sound(n)' <=> Composer!Sound(n)) /\ (Composer!Known(n)' <=> Composer!Known(n))
  BY SpecIsKept
<1>2. BuiltRight(Composer!Refers', Composer!Needed', SoundNames', HandsTo', agents', subs')
  BY <1>1 DEF ComposerInv
<1>3. Composer!Holds' = Composer!Holds /\ Composer!Holds = HoldsOf(subs)
  BY DEF Composer!Holds, HoldsOf
<1> QED BY <1>1, <1>2, <1>3

LEMMA EmptyStack == ASSUME NEW g, NEW rows, NEW nd, NEW as PROVE StackRight(g, rows, nd, as, <<>>)
BY DEF StackRight

\* An error, or a result of the build, ends it.
LEMMA StackIsDropped ==
  ASSUME ComposerInv, UNCHANGED <<spec, agents, subs>>, building' = <<>>
  PROVE  /\ StackRight(Composer!Refers, RefsOf, Composer!Needed, agents, building)'
         /\ (\A k \in 1..Len(building) : Composer!Known(building[k].name))'
         /\ building' \in Seq(BuildFrame)
BY EmptyStack

LEMMA RaiseIs ==
  ASSUME ComposerInv, NEW e \in Composer!Errors, Composer!Raise(e),
         result \in {"loading", "building", "built"},
         e = "circular" => \E n \in Composer!Needed : n \in Composer!Reached({n}, Composer!Refers),
         e = "invalid" => \E n \in Composer!Needed : ~Composer!Sound(n),
         e = "unattested" => Main \in agents
  PROVE  ComposerInv'
<1>1. /\ UNCHANGED <<spec, agents, subs, todo, signed, verifies>> /\ building' = <<>> /\ result' = e
  BY DEF Composer!Raise
<1>2. ComposerTypes'
  BY <1>1, StackIsDropped DEF ComposerInv, ComposerTypes, Composer!Errors, AfterBuild
<1>3. e \in {"circular", "rejected", "invalid", "unattested"}
  BY DEF Composer!Errors
<1>4. todo' = <<>> /\ signed' = {} /\ ~verifies'
  BY <1>1 DEF ComposerInv
<1>5. result' \in AfterBuild => Main \in agents'
  BY <1>1, <1>3 DEF AfterBuild
<1>7. result' \notin {"signing", "runner"}
  BY <1>1, <1>3
<1>6. /\ result' = "circular" => \E n \in Composer!Needed' : n \in Composer!Reached({n}, Composer!Refers')
      /\ result' = "invalid" => \E n \in Composer!Needed' : ~Composer!Sound(n)'
  BY <1>1, TreeIsKept
<1> QED BY <1>1, <1>2, <1>4, <1>5, <1>6, <1>7, TreeIsKept, StackIsDropped DEF ComposerInv

LEMMA LoadIs == ASSUME ComposerInv, Composer!Load PROVE ComposerInv'
<1>1. CASE Composer!Raise("rejected")
  BY <1>1, RaiseIs DEF Composer!Load, Composer!Errors
<1>2. CASE result' = "building" /\ UNCHANGED <<spec, agents, building, subs, todo, signed, verifies>>
  <2>1. ComposerTypes'
    BY <1>2 DEF ComposerInv, ComposerTypes
  <2>2. /\ StackRight(Composer!Refers, RefsOf, Composer!Needed, agents, building)'
        /\ (\A k \in 1..Len(building) : Composer!Known(building[k].name))'
    BY <1>2, TreeIsKept DEF ComposerInv
  <2>3. todo' = <<>> /\ signed' = {} /\ ~verifies'
    BY <1>2 DEF ComposerInv, Composer!Load
  <2> QED BY <1>2, <2>1, <2>2, <2>3, TreeIsKept DEF ComposerInv, AfterBuild
<1> QED BY <1>1, <1>2 DEF Composer!Load

\* The stack: the next reference of the last one is there, is pushed, or was
\* the last of all.
LEMMA FrameMoves ==
  ASSUME NEW y \in BuildFrame
  PROVE  LET x == [y EXCEPT !.next = @ + 1]
         IN x \in BuildFrame /\ x.name = y.name /\ x.next = y.next + 1
BY DEF BuildFrame

LEMMA OneMore ==
  ASSUME NEW T, NEW s \in Seq(T), NEW x \in T
  PROVE  /\ s \o <<x>> \in Seq(T) /\ Len(s \o <<x>>) = Len(s) + 1 /\ (s \o <<x>>)[Len(s) + 1] = x
         /\ \A i \in 1..Len(s) : (s \o <<x>>)[i] = s[i]
OBVIOUS

LEMMA StackMoves ==
  ASSUME NEW name, NEW next, NEW c, building \in Seq(BuildFrame),
         building # <<>>, StackRight(Composer!Refers, RefsOf, Composer!Needed, agents, building),
         name = Composer!Last(building).name, next = Composer!Last(building).next,
         Len(RefsOf[name]) \in Nat, next <= Len(RefsOf[name]), RefsOf[name][next] \in agents,
         c = Composer!Front(building) \o <<[Composer!Last(building) EXCEPT !.next = @ + 1]>>
  PROVE  /\ c \in Seq(BuildFrame) /\ StackRight(Composer!Refers, RefsOf, Composer!Needed, agents, c) /\ Len(c) = Len(building)
         /\ \A k \in 1..Len(building) : c[k].name = building[k].name
<1> DEFINE x == [Composer!Last(building) EXCEPT !.next = @ + 1]
<1>1. /\ Len(building) \in Nat /\ Len(building) > 0 /\ Composer!Last(building) = building[Len(building)] /\ Composer!Last(building) \in BuildFrame
      /\ Composer!Front(building) \in Seq(BuildFrame) /\ Len(Composer!Front(building)) = Len(building) - 1
      /\ \A i \in 1..(Len(building) - 1) : Composer!Front(building)[i] = building[i]
  BY LastIs
<1>2. x \in BuildFrame /\ x.name = name /\ x.next = next + 1
  BY <1>1, FrameMoves
<1>7. c = Composer!Front(building) \o <<x>>
  OBVIOUS
<1> HIDE DEF x
<1>3. /\ c \in Seq(BuildFrame) /\ Len(c) = Len(building) /\ c[Len(building)] = x
      /\ \A i \in 1..(Len(building) - 1) : c[i] = building[i]
  <2> DEFINE f == Composer!Front(building)
  <2>1. f \in Seq(BuildFrame) /\ Len(f) = Len(building) - 1 /\ \A i \in 1..Len(f) : f[i] = building[i]
    BY <1>1
  <2> HIDE DEF f
  <2>2. /\ f \o <<x>> \in Seq(BuildFrame) /\ Len(f \o <<x>>) = Len(f) + 1 /\ (f \o <<x>>)[Len(f) + 1] = x
        /\ \A i \in 1..Len(f) : (f \o <<x>>)[i] = f[i]
    BY <1>2, <2>1, OneMore
  <2>3. c = f \o <<x>>
    BY <1>7 DEF f
  <2>4. Len(f) + 1 = Len(building)
    BY <1>1, <2>1
  <2>5. c \in Seq(BuildFrame) /\ Len(c) = Len(building) /\ c[Len(building)] = x
    BY <2>2, <2>3, <2>4
  <2>6. \A i \in 1..(Len(building) - 1) : c[i] = building[i]
    BY <2>1, <2>2, <2>3
  <2> QED BY <2>5, <2>6
<1>4. ASSUME NEW k \in 1..Len(building) PROVE c[k].name = building[k].name
  <2>1. CASE k = Len(building)
    BY <1>1, <1>2, <1>3, <2>1
  <2>2. CASE k # Len(building)
    <3>1. k \in 1..(Len(building) - 1)
      BY <1>1, <2>2
    <3> QED BY <1>3, <3>1
  <2> QED BY <2>1, <2>2
<1>5. ASSUME NEW i \in 1..Len(building)
      PROVE  /\ c[i].name \notin agents /\ c[i].name \in Composer!Needed
             /\ c[i].next <= Len(RefsOf[c[i].name]) + 1
             /\ \A j \in 1..(c[i].next - 1) : RefsOf[c[i].name][j] \in agents
             /\ \A k \in (i + 1)..Len(building) :
                  c[k].name # c[i].name /\ c[k].name \in Composer!Reached({c[i].name}, Composer!Refers)
  <2>4. \A k \in (i + 1)..Len(building) : k \in 1..Len(building)
    BY <1>1
  <2>1. c[i].name = building[i].name /\ \A k \in (i + 1)..Len(building) : c[k].name = building[k].name
    BY <1>4, <2>4
  <2>2. /\ building[i].name \notin agents /\ building[i].name \in Composer!Needed
        /\ \A k \in (i + 1)..Len(building) :
             building[k].name # building[i].name /\ building[k].name \in Composer!Reached({building[i].name}, Composer!Refers)
    BY DEF StackRight
  <2>3. c[i].next <= Len(RefsOf[c[i].name]) + 1 /\ \A j \in 1..(c[i].next - 1) : RefsOf[c[i].name][j] \in agents
    <3>1. CASE i = Len(building)
      <4>1. c[i].name = name /\ c[i].next = next + 1 /\ next \in Nat /\ next # 0
        BY <1>1, <1>2, <1>3, <3>1 DEF BuildFrame
      <4>2. \A j \in 1..(next - 1) : RefsOf[name][j] \in agents
        BY <1>1, <3>1 DEF StackRight
      <4>3. ASSUME NEW j \in 1..next PROVE RefsOf[name][j] \in agents
        <5>1. j = next \/ j \in 1..(next - 1)
          BY <4>1
        <5> QED BY <4>2, <5>1
      <4>5. \A L \in Nat : next <= L => next + 1 <= L + 1 /\ (next + 1) - 1 = next
        BY <4>1
      <4>4. c[i].next - 1 = next /\ c[i].next <= Len(RefsOf[name]) + 1
        BY <4>1, <4>5
      <4> QED BY <4>1, <4>3, <4>4
    <3>2. CASE i # Len(building)
      <4>1. c[i] = building[i]
        BY <1>1, <1>3, <3>2
      <4> QED BY <4>1 DEF StackRight
    <3> QED BY <3>1, <3>2
  <2> QED BY <2>1, <2>2, <2>3
<1>6. StackRight(Composer!Refers, RefsOf, Composer!Needed, agents, c)
  BY <1>3, <1>5 DEF StackRight
<1> QED BY <1>3, <1>4, <1>6

LEMMA StackGrows ==
  ASSUME NEW n \in AgentNames, NEW c, building \in Seq(BuildFrame),
         StackRight(Composer!Refers, RefsOf, Composer!Needed, agents, building), n \notin agents, n \in Composer!Needed, Len(RefsOf[n]) \in Nat,
         \A i \in 1..Len(building) : building[i].name # n /\ n \in Composer!Reached({building[i].name}, Composer!Refers),
         c = Append(building, [name |-> n, next |-> 1])
  PROVE  /\ c \in Seq(BuildFrame) /\ StackRight(Composer!Refers, RefsOf, Composer!Needed, agents, c) /\ Len(c) = Len(building) + 1
         /\ Len(building) \in Nat /\ c[Len(c)].name = n /\ \A k \in 1..Len(building) : c[k].name = building[k].name
<1> DEFINE x == [name |-> n, next |-> 1]
<1>1. x \in BuildFrame /\ x.name = n /\ x.next = 1
  BY DEF BuildFrame
<1>5. c = Append(building, x)
  OBVIOUS
<1> HIDE DEF x
<1>2. /\ c \in Seq(BuildFrame) /\ Len(building) \in Nat /\ Len(c) = Len(building) + 1 /\ c[Len(building) + 1] = x
      /\ \A i \in 1..Len(building) : c[i] = building[i]
  BY <1>1, <1>5
<1>3. ASSUME NEW i \in 1..Len(c)
      PROVE  /\ c[i].name \notin agents /\ c[i].name \in Composer!Needed
             /\ c[i].next <= Len(RefsOf[c[i].name]) + 1
             /\ \A j \in 1..(c[i].next - 1) : RefsOf[c[i].name][j] \in agents
             /\ \A k \in (i + 1)..Len(c) :
                  c[k].name # c[i].name /\ c[k].name \in Composer!Reached({c[i].name}, Composer!Refers)
  <2>1. CASE i = Len(c)
    <3>1. c[i].name = n /\ c[i].next = 1 /\ 1..(1 - 1) = {} /\ (i + 1)..Len(c) = {}
      BY <1>1, <1>2, <2>1
    <3>2. 1 <= Len(RefsOf[n]) + 1
      OBVIOUS
    <3>3. \A j \in 1..(c[i].next - 1) : RefsOf[c[i].name][j] \in agents
      BY <3>1
    <3> QED BY <3>1, <3>2, <3>3
  <2>2. CASE i # Len(c)
    <3>1. i \in 1..Len(building) /\ c[i] = building[i]
      BY <1>2, <2>2
    <3>2. ASSUME NEW k \in (i + 1)..Len(c)
          PROVE  c[k].name # c[i].name /\ c[k].name \in Composer!Reached({c[i].name}, Composer!Refers)
      <4>1. CASE k = Len(c)
        BY <1>1, <1>2, <3>1, <4>1
      <4>2. CASE k # Len(c)
        <5>1. k \in (i + 1)..Len(building) /\ k \in 1..Len(building)
          BY <1>2, <3>1, <4>2
        <5>2. c[k] = building[k]
          BY <1>2, <5>1
        <5> QED BY <3>1, <5>1, <5>2 DEF StackRight
      <4> QED BY <4>1, <4>2
    <3>3. /\ building[i].name \notin agents /\ building[i].name \in Composer!Needed
          /\ building[i].next <= Len(RefsOf[building[i].name]) + 1
          /\ \A j \in 1..(building[i].next - 1) : RefsOf[building[i].name][j] \in agents
      BY <3>1 DEF StackRight
    <3>4. \A k \in (i + 1)..Len(c) :
            c[k].name # c[i].name /\ c[k].name \in Composer!Reached({c[i].name}, Composer!Refers)
      BY <3>2
    <3> QED BY <3>1, <3>3, <3>4
  <2> QED BY <2>1, <2>2
<1>4. StackRight(Composer!Refers, RefsOf, Composer!Needed, agents, c)
  BY <1>3 DEF StackRight
<1> QED BY <1>1, <1>2, <1>4

LEMMA StackShrinks ==
  ASSUME NEW g, NEW rows, NEW nd, NEW as, NEW b \in Seq(BuildFrame), b # <<>>,
         StackRight(g, rows, nd, as, b)
  PROVE  /\ Composer!Front(b) \in Seq(BuildFrame) /\ StackRight(g, rows, nd, as \cup {Composer!Last(b).name}, Composer!Front(b))
         /\ Len(Composer!Front(b)) = Len(b) - 1 /\ Len(b) \in Nat
         /\ \A k \in 1..Len(Composer!Front(b)) : Composer!Front(b)[k] = b[k]
<1> DEFINE c == Composer!Front(b)
<1>1. /\ Len(b) \in Nat /\ Len(b) > 0 /\ Composer!Last(b) = b[Len(b)]
      /\ c \in Seq(BuildFrame) /\ Len(c) = Len(b) - 1
      /\ \A i \in 1..(Len(b) - 1) : c[i] = b[i]
  BY LastIs
<1> HIDE DEF c
<1>2. ASSUME NEW i \in 1..Len(c)
      PROVE  /\ c[i].name \notin as \cup {Composer!Last(b).name} /\ c[i].name \in nd
             /\ c[i].next <= Len(rows[c[i].name]) + 1
             /\ \A j \in 1..(c[i].next - 1) : rows[c[i].name][j] \in as
             /\ \A k \in (i + 1)..Len(c) :
                  c[k].name # c[i].name /\ c[k].name \in Composer!Reached({c[i].name}, g)
  <2>1. i \in 1..Len(b) /\ c[i] = b[i] /\ Len(b) \in (i + 1)..Len(b)
    BY <1>1
  <2>2. \A k \in (i + 1)..Len(c) : c[k] = b[k] /\ k \in (i + 1)..Len(b)
    BY <1>1
  <2>3. b[Len(b)].name # b[i].name
    BY <2>1 DEF StackRight
  <2>4. /\ b[i].name \notin as /\ b[i].name \in nd
        /\ b[i].next <= Len(rows[b[i].name]) + 1
        /\ \A j \in 1..(b[i].next - 1) : rows[b[i].name][j] \in as
    BY <2>1 DEF StackRight
  <2>5. \A k \in (i + 1)..Len(b) : b[k].name # b[i].name /\ b[k].name \in Composer!Reached({b[i].name}, g)
    BY <2>1 DEF StackRight
  <2>6. c[i].name \notin as \cup {Composer!Last(b).name}
    BY <1>1, <2>1, <2>3, <2>4
  <2>7. \A k \in (i + 1)..Len(c) : c[k].name # c[i].name /\ c[k].name \in Composer!Reached({c[i].name}, g)
    BY <2>1, <2>2, <2>5
  <2> QED BY <2>1, <2>4, <2>6, <2>7
<1>3. StackRight(g, rows, nd, as \cup {Composer!Last(b).name}, c)
  BY <1>2 DEF StackRight
<1> QED BY <1>1, <1>3 DEF c

LEMMA TopIs ==
  ASSUME Composer!ComposerAssumption, ComposerInv, building # <<>>
  PROVE  /\ Composer!Top \in BuildFrame /\ Composer!Top.name \in AgentNames /\ Composer!Top.name \in References /\ Composer!Top.next \in Nat \ {0}
         /\ Composer!Known(Composer!Top.name) /\ Composer!Top.name \notin agents /\ Composer!Top.name \in Composer!Needed
         /\ RefsOf[Composer!Top.name] = Composer!Refs(Composer!Top.name) /\ Composer!Refs(Composer!Top.name) \in Seq(References)
         /\ Composer!Refers[Composer!Top.name] = Composer!ToSet(Composer!Refs(Composer!Top.name)) /\ Len(Composer!Refs(Composer!Top.name)) \in Nat
         /\ Composer!Top.next <= Len(Composer!Refs(Composer!Top.name)) + 1
         /\ \A j \in 1..(Composer!Top.next - 1) : Composer!Refs(Composer!Top.name)[j] \in agents
         /\ \A i \in 1..Len(building) :
              Composer!Top.name = building[i].name \/ Composer!Top.name \in Composer!Reached({building[i].name}, Composer!Refers)
<1> DEFINE m == Len(building)
<1>1. building \in Seq(BuildFrame) /\ spec \in LoadedFiles
  BY DEF ComposerInv, ComposerTypes
<1>2. m \in 1..m /\ m \in Nat /\ Composer!Top = building[m] /\ Composer!Top \in BuildFrame
  BY <1>1, LastIs DEF Composer!Top
<1>3. Composer!Top.name \in AgentNames /\ Composer!Top.name \in References /\ Composer!Top.next \in Nat \ {0}
  BY <1>2 DEF BuildFrame, Composer!ComposerAssumption
<1>4. /\ Composer!Top.name \notin agents /\ Composer!Top.name \in Composer!Needed /\ Composer!Known(Composer!Top.name)
      /\ Composer!Top.next <= Len(RefsOf[Composer!Top.name]) + 1
      /\ \A j \in 1..(Composer!Top.next - 1) : RefsOf[Composer!Top.name][j] \in agents
  BY <1>2 DEF ComposerInv, StackRight
<1>5. /\ RefsOf[Composer!Top.name] = Composer!Refs(Composer!Top.name) /\ Composer!Refs(Composer!Top.name) \in Seq(References)
      /\ Composer!Refers[Composer!Top.name] = Composer!ToSet(Composer!Refs(Composer!Top.name))
  BY <1>1, <1>3, <1>4, FileIs
<1>6. Len(Composer!Refs(Composer!Top.name)) \in Nat
  BY <1>5, ElementsOf
<1>7. ASSUME NEW i \in 1..m
      PROVE  Composer!Top.name = building[i].name \/ Composer!Top.name \in Composer!Reached({building[i].name}, Composer!Refers)
  <2>1. i = m \/ m \in (i + 1)..m
    BY <1>2
  <2> QED BY <1>2, <2>1 DEF ComposerInv, StackRight
<1> QED BY <1>2, <1>3, <1>4, <1>5, <1>6, <1>7

LEMMA WantedIs ==
  ASSUME Composer!ComposerAssumption, ComposerInv, NEW n \in References, Composer!Wants(n)
  PROVE  /\ n \in Composer!Needed /\ result = "building"
         /\ \A i \in 1..Len(building) : n \in Composer!Reached({building[i].name}, Composer!Refers)
<1>1. building \in Seq(BuildFrame) /\ spec \in LoadedFiles /\ result = "building"
  BY DEF ComposerInv, ComposerTypes, Composer!Wants
<1>2. CASE building = <<>>
  BY <1>1, <1>2 DEF Composer!Wants, Composer!Needed
<1>3. CASE building # <<>>
  <2>1. /\ Composer!Top.next <= Len(Composer!Refs(Composer!Top.name)) /\ n = Composer!Refs(Composer!Top.name)[Composer!Top.next]
    BY <1>3 DEF Composer!Wants
  <2>2. n \in Composer!Refers[Composer!Top.name]
    <3>1. Composer!Top.next \in DOMAIN Composer!Refs(Composer!Top.name)
      BY <1>3, <2>1, TopIs, ElementsOf
    <3> QED BY <1>3, <2>1, <3>1, TopIs DEF Composer!ToSet
  <2>3. Composer!Refers \in [References -> SUBSET References] /\ Main \in References
    BY <1>1, FileIs
  <2>4. Composer!Top.name = Main \/ Composer!Top.name \in Composer!Reached({Main}, Composer!Refers)
    BY <1>3, TopIs DEF Composer!Needed
  <2>5. n \in Composer!Reached({Main}, Composer!Refers)
    BY <1>3, <2>2, <2>3, <2>4, TopIs, ReachedGrows
  <2>6. ASSUME NEW i \in 1..Len(building) PROVE n \in Composer!Reached({building[i].name}, Composer!Refers)
    <3>3. building[i] \in BuildFrame
      BY <1>1, ElementsOf
    <3>1. building[i].name \in References
      BY <3>3 DEF BuildFrame, Composer!ComposerAssumption
    <3>2. Composer!Top.name = building[i].name \/ Composer!Top.name \in Composer!Reached({building[i].name}, Composer!Refers)
      BY <1>3, TopIs
    <3> QED BY <1>3, <2>2, <2>3, <3>1, <3>2, TopIs, ReachedGrows
  <2> QED BY <1>1, <2>5, <2>6 DEF Composer!Needed
<1> QED BY <1>2, <1>3

\* A step of the build that leaves the tree.
LEMMA BuildGoesOn ==
  ASSUME ComposerInv, result = "building", UNCHANGED <<spec, agents, subs, result, todo, signed, verifies>>,
         building' \in Seq(BuildFrame), StackRight(Composer!Refers, RefsOf, Composer!Needed, agents, building'),
         \A k \in 1..Len(building') : Composer!Known(building'[k].name)
  PROVE  ComposerInv'
<1>1. ComposerTypes'
  BY DEF ComposerInv, ComposerTypes
<1>2. StackRight(Composer!Refers, RefsOf, Composer!Needed, agents, building)'
  BY TreeIsKept
<1>3. (\A k \in 1..Len(building) : Composer!Known(building[k].name))'
  BY TreeIsKept
<1>4. todo' = <<>> /\ signed' = {} /\ ~verifies' /\ result' = "building"
  BY DEF ComposerInv
<1> QED BY <1>1, <1>2, <1>3, <1>4, TreeIsKept DEF ComposerInv, AfterBuild

LEMMA CachedIs == ASSUME Composer!ComposerAssumption, ComposerInv, NEW n \in References, Composer!Cached(n) PROVE ComposerInv'
<1>1. UNCHANGED <<spec, agents, subs, todo, signed, verifies>> /\ n \in agents /\ Composer!Wants(n) /\ result = "building"
  BY DEF Composer!Cached, Composer!Wants
<1>2. CASE building = <<>>
  <2>1. n = Main /\ result' = "built" /\ building' = <<>>
    BY <1>1, <1>2 DEF Composer!Cached, Composer!Wants
  <2>2. ComposerTypes'
    BY <1>1, <2>1, StackIsDropped DEF ComposerInv, ComposerTypes, AfterBuild
  <2>3. todo' = <<>> /\ signed' = {} /\ ~verifies'
    BY <1>1 DEF ComposerInv
  <2> QED BY <1>1, <2>1, <2>2, <2>3, TreeIsKept, StackIsDropped DEF ComposerInv
<1>3. CASE building # <<>>
  <2> DEFINE c == Composer!Front(building) \o <<[Composer!Top EXCEPT !.next = @ + 1]>>
  <2>1. building' = c /\ result' = result
    BY <1>3 DEF Composer!Cached
  <2>2. Composer!Top.next <= Len(Composer!Refs(Composer!Top.name)) /\ Composer!Refs(Composer!Top.name)[Composer!Top.next] \in agents
    BY <1>1, <1>3 DEF Composer!Wants
  <2>3. /\ building \in Seq(BuildFrame) /\ StackRight(Composer!Refers, RefsOf, Composer!Needed, agents, building)
        /\ \A k \in 1..Len(building) : Composer!Known(building[k].name)
    BY DEF ComposerInv, ComposerTypes
  <2>4. /\ c \in Seq(BuildFrame) /\ StackRight(Composer!Refers, RefsOf, Composer!Needed, agents, c) /\ Len(c) = Len(building)
        /\ \A k \in 1..Len(building) : c[k].name = building[k].name
    <3>1. /\ RefsOf[Composer!Top.name] = Composer!Refs(Composer!Top.name) /\ Len(RefsOf[Composer!Top.name]) \in Nat
      BY <1>3, TopIs
    <3>2. Composer!Top.next <= Len(RefsOf[Composer!Top.name]) /\ RefsOf[Composer!Top.name][Composer!Top.next] \in agents
      BY <2>2, <3>1
    <3>3. Composer!Top = Composer!Last(building)
      BY DEF Composer!Top
    <3>4. c = Composer!Front(building) \o <<[Composer!Last(building) EXCEPT !.next = @ + 1]>>
      BY <3>3
    <3> HIDE DEF c
    <3>5. /\ building \in Seq(BuildFrame) /\ building # <<>>
          /\ StackRight(Composer!Refers, RefsOf, Composer!Needed, agents, building)
          /\ Len(RefsOf[Composer!Last(building).name]) \in Nat
          /\ Composer!Last(building).next <= Len(RefsOf[Composer!Last(building).name])
          /\ RefsOf[Composer!Last(building).name][Composer!Last(building).next] \in agents
      BY <1>3, <2>3, <3>1, <3>2, <3>3
    <3> QED BY <3>4, <3>5, StackMoves
  <2> HIDE DEF c
  <2>5. \A k \in 1..Len(c) : Composer!Known(c[k].name)
    BY <2>3, <2>4
  <2> QED BY <1>1, <2>1, <2>4, <2>5, BuildGoesOn
<1> QED BY <1>2, <1>3

LEMMA DescendIs == ASSUME Composer!ComposerAssumption, ComposerInv, NEW n \in References, Composer!Descend(n) PROVE ComposerInv'
<1>1. Composer!Wants(n) /\ n \notin agents /\ result = "building"
  BY DEF Composer!Descend, Composer!Wants
<1>2. n \in Composer!Needed /\ \A i \in 1..Len(building) : n \in Composer!Reached({building[i].name}, Composer!Refers)
  BY <1>1, WantedIs
<1>3. building \in Seq(BuildFrame) /\ Len(building) \in Nat /\ DOMAIN building = 1..Len(building) /\ spec \in LoadedFiles
  BY ElementsOf DEF ComposerInv, ComposerTypes
<1>4. CASE n \in Composer!BeingBuilt
  <2>1. n \in Composer!Reached({n}, Composer!Refers)
    BY <1>2, <1>3, <1>4 DEF Composer!BeingBuilt
  <2>2. Composer!Raise("circular")
    BY <1>4 DEF Composer!Descend
  <2> QED BY <1>1, <1>2, <2>1, <2>2, RaiseIs DEF Composer!Errors
<1>5. CASE n \notin Composer!BeingBuilt /\ ~Composer!Known(n)
  <2>1. ~Composer!Sound(n)
    BY <1>5 DEF Composer!Sound
  <2>2. Composer!Raise("invalid")
    BY <1>5 DEF Composer!Descend
  <2> QED BY <1>1, <1>2, <2>1, <2>2, RaiseIs DEF Composer!Errors
<1>6. CASE n \notin Composer!BeingBuilt /\ Composer!Known(n)
  <2> DEFINE c == Append(building, [name |-> n, next |-> 1])
  <2>1. building' = c /\ UNCHANGED <<spec, agents, subs, result, todo, signed, verifies>>
    BY <1>6 DEF Composer!Descend
  <2>2. n \in AgentNames /\ Len(RefsOf[n]) \in Nat
    BY <1>3, <1>6, FileIs, ElementsOf
  <2>3. \A i \in 1..Len(building) : building[i].name # n
    BY <1>3, <1>6 DEF Composer!BeingBuilt
  <2>4. /\ StackRight(Composer!Refers, RefsOf, Composer!Needed, agents, building)
        /\ \A k \in 1..Len(building) : Composer!Known(building[k].name)
    BY DEF ComposerInv
  <2>5. /\ c \in Seq(BuildFrame) /\ StackRight(Composer!Refers, RefsOf, Composer!Needed, agents, c) /\ Len(c) = Len(building) + 1
        /\ c[Len(c)].name = n /\ \A k \in 1..Len(building) : c[k].name = building[k].name
    <3>1. c = Append(building, [name |-> n, next |-> 1])
      OBVIOUS
    <3> HIDE DEF c
    <3>2. \A i \in 1..Len(building) : building[i].name # n /\ n \in Composer!Reached({building[i].name}, Composer!Refers)
      BY <1>2, <2>3
    <3>3. /\ building \in Seq(BuildFrame) /\ n \in AgentNames /\ n \notin agents /\ n \in Composer!Needed
          /\ Len(RefsOf[n]) \in Nat /\ StackRight(Composer!Refers, RefsOf, Composer!Needed, agents, building)
      BY <1>1, <1>2, <1>3, <2>2, <2>4
    <3> QED BY <3>1, <3>2, <3>3, StackGrows, ZenonT(60)
  <2> HIDE DEF c
  <2>6. \A k \in 1..Len(c) : Composer!Known(c[k].name)
    <3>1. \A k \in 1..Len(c) : k = Len(c) \/ k \in 1..Len(building)
      BY <1>3, <2>5
    <3> QED BY <1>6, <2>4, <2>5, <3>1
  <2> QED BY <1>1, <2>1, <2>5, <2>6, BuildGoesOn
<1> QED BY <1>4, <1>5, <1>6

LEMMA ConstructIs == ASSUME Composer!ComposerAssumption, ComposerInv, Composer!Construct PROVE ComposerInv'
<1> DEFINE n == Composer!Top.name
           more == Composer!Children(n) \o Composer!Select(Composer!Transfers(n), agents)
<1>1. building # <<>> /\ result = "building" /\ Composer!Top.next > Len(Composer!Refs(n))
  BY DEF Composer!Construct
<1>2. /\ spec \in LoadedFiles /\ agents \in SUBSET AgentNames /\ subs \in [AgentNames -> Seq(AgentNames)]
      /\ building \in Seq(BuildFrame) /\ AgentNames \subseteq References /\ todo = <<>> /\ signed = {} /\ ~verifies
  BY <1>1 DEF ComposerInv, ComposerTypes, Composer!ComposerAssumption
<1>3. /\ n \in AgentNames /\ n \in References /\ Composer!Known(n) /\ n \notin agents /\ n \in Composer!Needed
      /\ Composer!Refs(n) \in Seq(References) /\ Composer!Refers[n] = Composer!ToSet(Composer!Refs(n)) /\ Len(Composer!Refs(n)) \in Nat
      /\ Composer!Top.next \in Nat /\ Composer!Top.next <= Len(Composer!Refs(n)) + 1
      /\ \A j \in 1..(Composer!Top.next - 1) : Composer!Refs(n)[j] \in agents
  BY <1>1, TopIs
<1>4. Composer!Refers[n] \subseteq agents
  <2>1. Composer!Top.next - 1 = Len(Composer!Refs(n))
    BY <1>1, <1>3
  <2>2. \A j \in 1..Len(Composer!Refs(n)) : Composer!Refs(n)[j] \in agents
    BY <1>3, <2>1
  <2> QED BY <1>3, <2>2, Narrow
<1>5. n \in DOMAIN spec /\ spec[n].fault # "early" /\ spec[n].fault \in {"none", "early", "late"}
  BY <1>2, <1>3 DEF Composer!Known, Composer!ComposerAssumption
<1>6. CASE spec[n].fault = "late"
  <2>1. ~Composer!Sound(n)
    BY <1>6 DEF Composer!Sound
  <2>2. Composer!Raise("invalid")
    BY <1>6 DEF Composer!Construct
  <2> QED BY <1>1, <1>3, <2>1, <2>2, RaiseIs DEF Composer!Errors
<1>7. CASE spec[n].fault # "late"
  <2>1. /\ subs' = [subs EXCEPT ![n] = more] /\ agents' = agents \cup {n}
        /\ building' = Composer!Front(building) /\ UNCHANGED <<spec, result, todo, signed, verifies>>
    BY <1>7 DEF Composer!Construct
  <2>2. Composer!Children(n) \in Seq(agents) /\ Composer!ToSet(Composer!Children(n)) \subseteq agents
    <3>1. CASE spec[n].type = "composite"
      <4>1. Composer!Children(n) = Composer!Refs(n) /\ \A j \in 1..Len(Composer!Refs(n)) : Composer!Refs(n)[j] \in agents
        <5>1. \A j \in 1..Len(Composer!Refs(n)) : j \in 1..(Composer!Top.next - 1)
          BY <1>1, <1>3
        <5> QED BY <1>3, <3>1, <5>1 DEF Composer!Refs
      <4> QED BY <1>3, <4>1, Narrow
    <3>2. CASE spec[n].type # "composite"
      <4>1. Composer!Children(n) = <<>>
        BY <3>2 DEF Composer!Children
      <4> QED BY <4>1 DEF Composer!ToSet
    <3> QED BY <3>1, <3>2
  <2>3. /\ Composer!Transfers(n) \in Seq(References)
        /\ spec[n].type = "llm" => Composer!ToSet(Composer!Transfers(n)) \subseteq Composer!ToSet(Composer!Refs(n))
    BY <1>2, <1>3, TransfersAre
  <2>4. /\ Composer!Select(Composer!Transfers(n), agents) \in Seq(References \cap agents)
        /\ Composer!ToSet(Composer!Select(Composer!Transfers(n), agents)) = Composer!ToSet(Composer!Transfers(n)) \cap agents
    BY <2>3, SelectedAre
  <2>5. References \cap agents = agents
    BY <1>2
  <2>6. /\ more \in Seq(agents)
        /\ Composer!ToSet(more) = Composer!ToSet(Composer!Children(n)) \cup (Composer!ToSet(Composer!Transfers(n)) \cap agents)
    BY <2>2, <2>4, <2>5, JoinedAre
  <2>7. more \in Seq(AgentNames) /\ Composer!ToSet(more) \subseteq agents
    <3>1. \A k \in 1..Len(more) : more[k] \in agents
      BY <2>6, ElementsOf
    <3>2. \A k \in 1..Len(more) : more[k] \in AgentNames
      BY <1>2, <3>1
    <3> HIDE DEF more
    <3>3. more \in Seq(AgentNames)
      BY <2>6, <3>2, Narrow
    <3> QED BY <2>2, <2>6, <3>3
  <2>8. HandsTo[n] \subseteq Composer!ToSet(more)
    <3>1. CASE spec[n].type = "llm"
      BY <1>3, <1>4, <1>5, <2>3, <2>6, <3>1 DEF HandsTo
    <3>2. CASE spec[n].type # "llm"
      BY <1>3, <1>5, <3>2 DEF HandsTo
    <3> QED BY <3>1, <3>2
  <2> HIDE DEF n, more
  <2>9. n \in SoundNames
    BY <1>3, <1>5, <1>7 DEF SoundNames, Composer!Sound
  <2>10. /\ subs' \in [AgentNames -> Seq(AgentNames)] /\ subs'[n] = more
         /\ \A m \in agents : subs'[m] = subs[m]
    BY <1>2, <1>3, <2>1, <2>7
  <2>11. BuiltRight(Composer!Refers, Composer!Needed, SoundNames, HandsTo, agents, subs)
    BY DEF ComposerInv
  <2> DEFINE g == Composer!Refers
             h == HoldsOf(subs)
             k == HoldsOf(subs')
             as == agents
  <2>12. g \in [References -> SUBSET References] /\ as \in SUBSET References
    BY <1>2, FileIs
  <2>13. /\ h \in [References -> SUBSET References] /\ k \in [References -> SUBSET References]
         /\ k[n] = Composer!ToSet(more) /\ \A m \in as : k[m] = h[m] /\ h[m] = Composer!ToSet(subs[m])
    BY <1>2, <1>3, <2>10, HoldsIs
  <2>14. \A m \in as : /\ g[m] \subseteq as /\ h[m] \subseteq as
                       /\ m \notin Composer!Reached({m}, g) /\ m \notin Composer!Reached({m}, h)
    BY <2>11, <2>13 DEF BuiltRight
  <2>15. g[n] \subseteq as /\ k[n] \subseteq as
    BY <1>4, <2>7, <2>13 DEF n
  <2>16. as = agents
    OBVIOUS
  <2> HIDE DEF g, h, k, as
  <2>17. \A m \in as \cup {n} : m \notin Composer!Reached({m}, g)
    <3>1. \A m \in as : g[m] = g[m] /\ g[m] \subseteq as
      BY <2>14
    <3>2. \A m \in as : m \notin Composer!Reached({m}, g)
      BY <2>14
    <3> QED BY <1>3, <2>12, <2>15, <2>16, <3>1, <3>2, StaysAcyclic DEF n
  <2>18. \A m \in as \cup {n} : m \notin Composer!Reached({m}, k)
    <3>1. \A m \in as : k[m] = h[m] /\ h[m] \subseteq as
      BY <2>13, <2>14
    <3>2. \A m \in as : m \notin Composer!Reached({m}, h)
      BY <2>14
    <3>3. /\ h \in [References -> SUBSET References] /\ k \in [References -> SUBSET References] /\ as \in SUBSET References
          /\ n \in References /\ n \notin as /\ k[n] \subseteq as
      BY <1>3, <2>12, <2>13, <2>15, <2>16 DEF n
    <3> QED BY <3>1, <3>2, <3>3, StaysAcyclic, ZenonT(60)
  <2>19. BuiltRight(Composer!Refers, Composer!Needed, SoundNames, HandsTo, agents', subs')
    <3>1. agents' \subseteq SoundNames /\ agents' \subseteq Composer!Needed
      BY <1>3, <2>1, <2>9, <2>11 DEF BuiltRight, n
    <3>2. ASSUME NEW m \in agents'
          PROVE  /\ Composer!Refers[m] \subseteq agents' /\ Composer!ToSet(subs'[m]) \subseteq agents'
                 /\ HandsTo[m] \subseteq Composer!ToSet(subs'[m])
      <4>1. CASE m = n
        BY <2>1, <2>7, <2>8, <2>10, <2>15, <2>16, <4>1 DEF g
      <4>2. CASE m \in agents
        BY <2>1, <2>10, <2>11, <4>2 DEF BuiltRight
      <4> QED BY <2>1, <4>1, <4>2
    <3>3. \A m \in agents' : m \notin Composer!Reached({m}, Composer!Refers) /\ m \notin Composer!Reached({m}, HoldsOf(subs'))
      BY <2>1, <2>16, <2>17, <2>18 DEF g, k
    <3> QED BY <3>1, <3>2, <3>3 DEF BuiltRight
  <2>20. /\ building' \in Seq(BuildFrame) /\ StackRight(Composer!Refers, RefsOf, Composer!Needed, agents', building')
         /\ \A i \in 1..Len(building') : Composer!Known(building'[i].name)
    <3>1. StackRight(Composer!Refers, RefsOf, Composer!Needed, agents, building) /\ \A i \in 1..Len(building) : Composer!Known(building[i].name)
      BY DEF ComposerInv
    <3>2. /\ Composer!Front(building) \in Seq(BuildFrame)
          /\ StackRight(Composer!Refers, RefsOf, Composer!Needed, agents \cup {Composer!Last(building).name}, Composer!Front(building))
          /\ Len(Composer!Front(building)) = Len(building) - 1 /\ Len(building) \in Nat
          /\ \A i \in 1..Len(Composer!Front(building)) : Composer!Front(building)[i] = building[i]
      BY <1>1, <1>2, <3>1, StackShrinks
    <3>3. n = Composer!Last(building).name
      BY DEF n, Composer!Top
    <3>4. \A i \in 1..Len(building') : building'[i] = building[i] /\ i \in 1..Len(building)
      BY <2>1, <3>2
    <3> QED BY <2>1, <3>1, <3>2, <3>3, <3>4
  <2>21. /\ Composer!Refers' = Composer!Refers /\ RefsOf' = RefsOf /\ HandsTo' = HandsTo /\ SoundNames' = SoundNames
         /\ Composer!Needed' = Composer!Needed /\ \A i : (Composer!Sound(i)' <=> Composer!Sound(i)) /\ (Composer!Known(i)' <=> Composer!Known(i))
    BY <2>1, SpecIsKept
  <2>22. ComposerTypes'
    BY <1>2, <1>3, <2>1, <2>10, <2>20 DEF ComposerInv, ComposerTypes, n
  <2>23. /\ BuiltRight(Composer!Refers, Composer!Needed, SoundNames, HandsTo, agents, subs)'
         /\ StackRight(Composer!Refers, RefsOf, Composer!Needed, agents, building)'
    BY <2>19, <2>20, <2>21
  <2>24. (\A i \in 1..Len(building) : Composer!Known(building[i].name))'
    BY <2>20, <2>21
  <2>25. result' = "building" /\ todo' = <<>> /\ signed' = {} /\ ~verifies'
    BY <1>1, <1>2, <2>1
  <2> QED BY <2>22, <2>23, <2>24, <2>25 DEF ComposerInv, AfterBuild
<1> QED BY <1>6, <1>7

LEMMA BuildServerIs == ASSUME ComposerInv, Composer!BuildServer PROVE ComposerInv'
<1>1. result = "built" /\ result' = "server" /\ UNCHANGED <<spec, agents, building, subs, todo, signed, verifies>>
  BY DEF Composer!BuildServer
<1>2. ComposerTypes'
  BY <1>1 DEF ComposerInv, ComposerTypes, AfterBuild
<1>3. /\ StackRight(Composer!Refers, RefsOf, Composer!Needed, agents, building)'
      /\ (\A k \in 1..Len(building) : Composer!Known(building[k].name))'
  BY <1>1, TreeIsKept DEF ComposerInv
<1>4. todo' = <<>> /\ signed' = {} /\ ~verifies' /\ Main \in agents'
  BY <1>1 DEF ComposerInv, AfterBuild
<1> QED BY <1>1, <1>2, <1>3, <1>4, TreeIsKept DEF ComposerInv

\* The identity.

\* What a tree hangs on is within every set of agents that is closed.
LEMMA TreeIs ==
  ASSUME Composer!ComposerAssumption, ComposerInv, Main \in agents
  PROVE  /\ Composer!Holds \in [References -> SUBSET References] /\ Composer!Routable \subseteq agents /\ Composer!Needed = agents
         /\ Main \in Composer!Routable /\ Main \in References /\ Composer!Routable \in SUBSET References
         /\ \A n \in Composer!Routable : Composer!Holds[n] \subseteq Composer!Routable /\ Composer!Holds[n] = Composer!ToSet(subs[n])
<1>1. /\ Composer!Holds = HoldsOf(subs) /\ subs \in [AgentNames -> Seq(AgentNames)] /\ agents \in SUBSET AgentNames
      /\ agents \in SUBSET References /\ Main \in References /\ spec \in LoadedFiles
  BY DEF Composer!Holds, HoldsOf, ComposerInv, ComposerTypes, Composer!ComposerAssumption
<1>2. Composer!Holds \in [References -> SUBSET References] /\ \A n \in agents : Composer!Holds[n] = Composer!ToSet(subs[n])
  BY <1>1, HoldsIs
<1>3. Composer!Refers \in [References -> SUBSET References]
  BY <1>1, FileIs
<1>4. /\ agents \subseteq Composer!Needed /\ \A n \in agents : Composer!Refers[n] \subseteq agents /\ Composer!Holds[n] \subseteq agents
  BY <1>2 DEF ComposerInv, BuiltRight
<1>5. Composer!Reached({Main}, Composer!Holds) \subseteq agents
  BY <1>1, <1>4, ReachedIsLeast
<1>6. Composer!Reached({Main}, Composer!Refers) \subseteq agents
  BY <1>1, <1>4, ReachedIsLeast
<1>7. \A m \in {Main} \cup Composer!Reached({Main}, Composer!Holds) : Composer!Holds[m] \subseteq Composer!Reached({Main}, Composer!Holds)
  BY <1>1, <1>2, ReachedIsClosed
<1> QED BY <1>1, <1>2, <1>4, <1>5, <1>6, <1>7 DEF Composer!Routable, Composer!Needed

\* The runner is made, with the main agent to begin with or without identity.
LEMMA BuildRunnerIs == ASSUME Composer!ComposerAssumption, ComposerInv, Composer!BuildRunner PROVE ComposerInv'
<1>1. PICK identity \in BOOLEAN, trust \in BOOLEAN, localLog \in BOOLEAN :
        IF Composer!Unattested(identity, localLog) THEN Composer!Raise("unattested")
        ELSE /\ result' = "signing"
             /\ verifies' = Composer!Verifies(identity, trust)
             /\ todo' = IF identity THEN <<Main>> ELSE <<>>
             /\ UNCHANGED <<spec, agents, building, subs, signed>>
  BY DEF Composer!BuildRunner
<1>2. result = "built" /\ Main \in agents /\ signed = {} /\ Main \in AgentNames
  BY DEF Composer!BuildRunner, ComposerInv, ComposerTypes, AfterBuild
<1>3. CASE Composer!Unattested(identity, localLog)
  BY <1>1, <1>2, <1>3, RaiseIs DEF Composer!Errors
<1>4. CASE ~Composer!Unattested(identity, localLog)
  <2>1. /\ result' = "signing" /\ verifies' = Composer!Verifies(identity, trust)
        /\ todo' = IF identity THEN <<Main>> ELSE <<>>
        /\ UNCHANGED <<spec, agents, building, subs, signed>>
    BY <1>1, <1>4
  <2>2. verifies' \in BOOLEAN /\ (verifies' => identity)
    BY <2>1 DEF Composer!Verifies
  <2>3. /\ todo' \in Seq(AgentNames)
        /\ identity => Composer!ToSet(todo') = {Main}
        /\ ~identity => todo' = <<>> /\ Composer!ToSet(todo') = {}
    <3>1. <<Main>> \in Seq(AgentNames) /\ Composer!ToSet(<<Main>>) = {Main} /\ Composer!ToSet(<<>>) = {}
      BY <1>2 DEF Composer!ToSet
    <3> QED BY <2>1, <3>1
  <2>4. ComposerTypes'
    BY <1>2, <2>1, <2>2, <2>3 DEF ComposerInv, ComposerTypes, AfterBuild
  <2>5. SignedRight(Composer!Holds, todo', signed', verifies')
    BY <1>2, <2>1, <2>2, <2>3 DEF SignedRight
  <2>6. SignedRight(Composer!Holds, todo, signed, verifies)'
    BY <2>1, <2>5, TreeIsKept
  <2>7. /\ StackRight(Composer!Refers, RefsOf, Composer!Needed, agents, building)'
        /\ (\A k \in 1..Len(building) : Composer!Known(building[k].name))'
    BY <2>1, TreeIsKept DEF ComposerInv
  <2> QED BY <1>2, <2>1, <2>4, <2>6, <2>7, TreeIsKept DEF ComposerInv
<1> QED BY <1>3, <1>4

LEMMA StampIs == ASSUME Composer!ComposerAssumption, ComposerInv, Composer!Stamp PROVE ComposerInv'
<1> DEFINE n == Composer!Last(todo)
           more == IF n \in signed THEN <<>> ELSE subs[n]
<1>1. /\ result = "signing" /\ todo # <<>> /\ todo' = Composer!Front(todo) \o more /\ signed' = signed \cup {n}
      /\ UNCHANGED <<spec, agents, building, subs, result, verifies>>
  BY DEF Composer!Stamp
<1>2. /\ Main \in agents /\ todo \in Seq(AgentNames) /\ signed \in SUBSET AgentNames
      /\ subs \in [AgentNames -> Seq(AgentNames)]
      /\ SignedRight(Composer!Holds, todo, signed, verifies)
  BY <1>1 DEF ComposerInv, ComposerTypes, AfterBuild
<1>3. /\ Composer!Holds \in [References -> SUBSET References] /\ Main \in Composer!Routable
      /\ \A m \in Composer!Routable : Composer!Holds[m] \subseteq Composer!Routable /\ Composer!Holds[m] = Composer!ToSet(subs[m])
  BY <1>2, TreeIs
<1>4. /\ Len(todo) \in Nat /\ Len(todo) > 0 /\ n = todo[Len(todo)] /\ n \in AgentNames
      /\ Composer!Front(todo) \in Seq(AgentNames) /\ Len(Composer!Front(todo)) = Len(todo) - 1
      /\ \A i \in 1..(Len(todo) - 1) : Composer!Front(todo)[i] = todo[i]
  BY <1>1, <1>2, LastIs
<1>5. Composer!ToSet(todo) = Composer!ToSet(Composer!Front(todo)) \cup {n}
  <2>1. DOMAIN todo = 1..Len(todo) /\ DOMAIN Composer!Front(todo) = 1..(Len(todo) - 1)
    BY <1>2, <1>4, ElementsOf
  <2>2. \A i \in 1..Len(todo) : i = Len(todo) \/ i \in 1..(Len(todo) - 1)
    BY <1>4
  <2>3. \A i \in 1..(Len(todo) - 1) : i \in 1..Len(todo)
    BY <1>4
  <2>4. Len(todo) \in 1..Len(todo)
    BY <1>4
  <2> QED BY <1>4, <2>1, <2>2, <2>3, <2>4 DEF Composer!ToSet
<1>6. /\ more \in Seq(AgentNames) /\ n \in Composer!Routable
      /\ n \in signed => Composer!ToSet(more) = {}
      /\ n \notin signed => Composer!ToSet(more) = Composer!Holds[n]
  <2>1. n \in Composer!Routable
    BY <1>2, <1>5 DEF SignedRight, Composer!Routable
  <2>2. Composer!ToSet(<<>>) = {}
    BY DEF Composer!ToSet
  <2> QED BY <1>2, <1>3, <1>4, <2>1, <2>2
<1> HIDE DEF n, more
<1>7. todo' \in Seq(AgentNames) /\ Composer!ToSet(todo') = Composer!ToSet(Composer!Front(todo)) \cup Composer!ToSet(more)
  BY <1>1, <1>4, <1>6, JoinedAre
<1>8. SignedRight(Composer!Holds, todo', signed', verifies')
  <2>1. /\ signed \subseteq Composer!Routable /\ Composer!ToSet(todo) \subseteq Composer!Routable
        /\ \A m \in signed : Composer!Holds[m] \subseteq signed \cup Composer!ToSet(todo)
        /\ Main \in signed \cup Composer!ToSet(todo)
    BY <1>1, <1>2 DEF SignedRight, Composer!Routable
  <2>2. signed' \subseteq Composer!Routable /\ Composer!ToSet(todo') \subseteq Composer!Routable
    BY <1>1, <1>3, <1>5, <1>6, <1>7, <2>1
  <2>3. signed \cup Composer!ToSet(todo) \subseteq signed' \cup Composer!ToSet(todo')
    BY <1>1, <1>5, <1>7
  <2>4. \A m \in signed' : Composer!Holds[m] \subseteq signed' \cup Composer!ToSet(todo')
    <3>1. n \in signed \/ Composer!Holds[n] \subseteq Composer!ToSet(todo')
      BY <1>6, <1>7
    <3> QED BY <1>1, <2>1, <2>3, <3>1
  <2> QED BY <2>1, <2>2, <2>3, <2>4 DEF SignedRight, Composer!Routable
<1>9. SignedRight(Composer!Holds, todo, signed, verifies)'
  BY <1>1, <1>8, TreeIsKept
<1>10. ComposerTypes'
  BY <1>1, <1>2, <1>4, <1>7 DEF ComposerInv, ComposerTypes
<1>11. /\ StackRight(Composer!Refers, RefsOf, Composer!Needed, agents, building)'
       /\ (\A k \in 1..Len(building) : Composer!Known(building[k].name))'
  BY <1>1, TreeIsKept DEF ComposerInv
<1> QED BY <1>1, <1>2, <1>9, <1>10, <1>11, TreeIsKept DEF ComposerInv

LEMMA StampedIs == ASSUME ComposerInv, Composer!Stamped PROVE ComposerInv'
<1>1. /\ result = "signing" /\ todo = <<>> /\ result' = "runner"
      /\ UNCHANGED <<spec, agents, building, subs, todo, signed, verifies>>
  BY DEF Composer!Stamped
<1>2. ComposerTypes'
  BY <1>1 DEF ComposerInv, ComposerTypes, AfterBuild
<1>3. /\ StackRight(Composer!Refers, RefsOf, Composer!Needed, agents, building)'
      /\ (\A k \in 1..Len(building) : Composer!Known(building[k].name))'
  BY <1>1, TreeIsKept DEF ComposerInv
<1>4. Main \in agents' /\ SignedRight(Composer!Holds, todo, signed, verifies)
  BY <1>1 DEF ComposerInv, AfterBuild
<1>5. SignedRight(Composer!Holds, todo, signed, verifies)'
  BY <1>1, <1>4, TreeIsKept
<1> QED BY <1>1, <1>2, <1>3, <1>4, <1>5, TreeIsKept DEF ComposerInv

LEMMA ComposerInit == ASSUME Composer!ComposerAssumption, Composer!Init PROVE ComposerInv
<1>1. /\ spec \in LoadedFiles /\ agents = {} /\ building = <<>> /\ subs = [n \in AgentNames |-> <<>>]
      /\ result = "loading" /\ todo = <<>> /\ signed = {} /\ verifies = FALSE
  BY DEF Composer!Init
<1>2. ComposerTypes
  <2>1. <<>> \in Seq(AgentNames) /\ <<>> \in Seq(BuildFrame)
    OBVIOUS
  <2>2. subs \in [AgentNames -> Seq(AgentNames)]
    BY <1>1, <2>1
  <2> QED BY <1>1, <2>1, <2>2 DEF ComposerTypes
<1>3. BuiltRight(Composer!Refers, Composer!Needed, SoundNames, HandsTo, agents, subs)
  BY <1>1 DEF BuiltRight
<1>4. StackRight(Composer!Refers, RefsOf, Composer!Needed, agents, building) /\ \A k \in 1..Len(building) : Composer!Known(building[k].name)
  BY <1>1, EmptyStack
<1> QED BY <1>1, <1>2, <1>3, <1>4 DEF ComposerInv, AfterBuild

LEMMA ComposerStep == ASSUME Composer!ComposerAssumption, ComposerInv, [Composer!Next]_Composer!vars PROVE ComposerInv'
<1>1. CASE UNCHANGED Composer!vars
  <2>1. ComposerTypes'
    BY <1>1 DEF Composer!vars, ComposerInv, ComposerTypes
  <2>2. UNCHANGED <<spec, agents, building, subs, result, todo, signed, verifies>>
    BY <1>1 DEF Composer!vars
  <2>3. /\ StackRight(Composer!Refers, RefsOf, Composer!Needed, agents, building)'
        /\ (\A k \in 1..Len(building) : Composer!Known(building[k].name))'
    BY <2>2, TreeIsKept DEF ComposerInv
  <2>4. (result \in {"signing", "runner"} => SignedRight(Composer!Holds, todo, signed, verifies))'
    BY <2>2, TreeIsKept DEF ComposerInv
  <2>5. /\ result' = "circular" => \E n \in Composer!Needed' : n \in Composer!Reached({n}, Composer!Refers')
        /\ result' = "invalid" => \E n \in Composer!Needed' : ~Composer!Sound(n)'
    BY <2>2, TreeIsKept DEF ComposerInv
  <2>6. /\ result' \in AfterBuild => Main \in agents'
        /\ result' \notin {"signing", "runner"} => todo' = <<>> /\ signed' = {} /\ ~verifies'
        /\ result' = "runner" => todo' = <<>>
    BY <2>2 DEF ComposerInv
  <2> QED BY <2>1, <2>2, <2>3, <2>4, <2>5, <2>6, TreeIsKept DEF ComposerInv
<1>2. CASE Composer!Load \/ Composer!BuildServer \/ Composer!Construct \/ Composer!BuildRunner \/ Composer!Stamp \/ Composer!Stamped
  BY <1>2, LoadIs, BuildServerIs, ConstructIs, BuildRunnerIs, StampIs, StampedIs
<1>3. CASE \E n \in References : Composer!Cached(n) \/ Composer!Descend(n)
  BY <1>3, CachedIs, DescendIs
<1> QED BY <1>1, <1>2, <1>3 DEF Composer!Next

LEMMA BuildSafe == ASSUME Composer!ComposerAssumption, ComposerInv PROVE Composer!BuildIsExact
<1>1. ASSUME result \in AfterBuild
      PROVE  /\ ~\E n \in Composer!Needed : n \in Composer!Reached({n}, Composer!Refers)
             /\ \A n \in Composer!Needed : Composer!Sound(n)
             /\ agents = Composer!Needed
             /\ \A n \in agents : n \notin Composer!Reached({n}, Composer!Holds)
             /\ \A n \in Composer!Routable : spec[n].type = "llm" => Composer!ToSet(Composer!Transfers(n)) \subseteq Composer!Routable
  <2>1. Main \in agents /\ agents \in SUBSET AgentNames /\ agents \in SUBSET References
    BY <1>1 DEF ComposerInv, ComposerTypes, Composer!ComposerAssumption
  <2>2. /\ Composer!Routable \subseteq agents /\ Composer!Needed = agents
        /\ \A n \in Composer!Routable : Composer!Holds[n] \subseteq Composer!Routable /\ Composer!Holds[n] = Composer!ToSet(subs[n])
    BY <2>1, TreeIs
  <2>3. Composer!Holds = HoldsOf(subs)
    BY DEF Composer!Holds, HoldsOf
  <2>4. /\ \A n \in agents : n \in SoundNames /\ n \notin Composer!Reached({n}, Composer!Refers) /\ n \notin Composer!Reached({n}, Composer!Holds)
        /\ \A n \in agents : HandsTo[n] \subseteq Composer!ToSet(subs[n])
    BY <2>3 DEF ComposerInv, BuiltRight
  <2>5. ASSUME NEW n \in Composer!Routable, spec[n].type = "llm" PROVE Composer!ToSet(Composer!Transfers(n)) \subseteq Composer!Routable
    <3>1. n \in agents /\ n \in References /\ Composer!Sound(n)
      BY <2>1, <2>2, <2>4 DEF SoundNames
    <3>2. n \in DOMAIN spec
      BY <3>1 DEF Composer!Sound, Composer!Known
    <3>3. HandsTo[n] = Composer!ToSet(Composer!Transfers(n))
      BY <2>5, <3>1, <3>2 DEF HandsTo
    <3> QED BY <2>2, <2>4, <3>1, <3>3
  <2> QED BY <2>2, <2>4, <2>5 DEF SoundNames
<1>2. ASSUME result = "runner" PROVE signed \in {{}, Composer!Routable} /\ (verifies => signed # {})
  <2>1. Main \in agents /\ todo = <<>> /\ SignedRight(Composer!Holds, todo, signed, verifies)
    BY <1>2 DEF ComposerInv, AfterBuild
  <2>2. Composer!ToSet(todo) = {}
    BY <2>1 DEF Composer!ToSet
  <2>3. signed \subseteq Composer!Routable /\ Composer!Routable \in SUBSET References /\ Composer!Routable = {Main} \cup Composer!Reached({Main}, Composer!Holds)
    BY <2>1, TreeIs DEF SignedRight, Composer!Routable
  <2>4. CASE Main \in signed
    <3>1. \A m \in {Main} \cup signed : Composer!Holds[m] \subseteq signed
      BY <2>1, <2>2, <2>4 DEF SignedRight
    <3>2. {Main} \in SUBSET References /\ signed \in SUBSET References
      BY <2>3
    <3>3. Composer!Reached({Main}, Composer!Holds) \subseteq signed
      BY <3>1, <3>2, ReachedIsLeast
    <3> QED BY <2>3, <2>4, <3>3
  <2>5. CASE Main \notin signed
    BY <2>1, <2>2, <2>5 DEF SignedRight
  <2> QED BY <2>4, <2>5
<1>3. /\ result = "circular" => \E n \in Composer!Needed : n \in Composer!Reached({n}, Composer!Refers)
      /\ result = "invalid" => \E n \in Composer!Needed : ~Composer!Sound(n)
  BY DEF ComposerInv
<1> QED BY <1>1, <1>2, <1>3 DEF Composer!BuildIsExact, AfterBuild

LEMMA BuildTyped == ASSUME Composer!ComposerAssumption, ComposerInv PROVE Composer!TypeOK
<1>1. building \in Seq(BuildFrame) /\ BuildFrame \subseteq [name : AgentNames, next : Nat]
  BY DEF ComposerInv, ComposerTypes, BuildFrame
<1>2. building \in Seq([name : AgentNames, next : Nat])
  <2>1. \A k \in 1..Len(building) : building[k] \in [name : AgentNames, next : Nat]
    BY <1>1, ElementsOf
  <2> QED BY <1>1, <2>1, Narrow
<1> QED BY <1>2 DEF ComposerInv, ComposerTypes, Composer!TypeOK, Composer!Errors, AfterBuild

LEMMA ComposerLift == MCSpec => Composer!Spec
<1>1. MCInit => Composer!Init
  BY DEF MCInit
<1>2. [MCNext]_allVars => [Composer!Next]_Composer!vars
  BY DEF MCNext, SessionsNext, ArtifactsNext, MemoryNext, McpNext, AttestationNext, ComposerNext,
         FileSystemNext, IdentityNext, allVars, composerVars, Composer!vars
<1> QED BY <1>1, <1>2, PTL DEF MCSpec, Composer!Spec

\* _build_agent, _build_runner and _propagate_identity, for every YAML file: a
\* build succeeds only when what the main agent needs is defined, free of faults
\* and of cycles, builds that and nothing else, ends in a tree without a cycle
\* where every transfer target can be found, and signs all of it or none.
THEOREM BuildsAreExact == MCSpec => []BuildIsExact
<1>0. Composer!ComposerAssumption
  BY ServicesAssumption
<1>1. Composer!Init => ComposerInv
  BY <1>0, ComposerInit
<1>2. ComposerInv /\ [Composer!Next]_Composer!vars => ComposerInv'
  BY <1>0, ComposerStep
<1>3. ComposerInv => BuildIsExact
  BY <1>0, BuildSafe DEF BuildIsExact
<1> QED BY <1>1, <1>2, <1>3, ComposerLift, PTL DEF Composer!Spec

(***************************************************************************)
(* The filesystem backends.                                                *)
(***************************************************************************)
\* All paths there could be, and those of the workspace: what is written to,
\* and what is above.
Routes == Seq(STRING \cup {Up})
Workspace == UNION {{q} \cup FileSystem!Parents(q) : q \in FileSystem!Paths}

\* What is above something on the disk is a directory.
Grown(d) ==
  /\ <<>> \notin DOMAIN d
  /\ \A r \in DOMAIN d : \A q \in FileSystem!Parents(r) : q \in DOMAIN d /\ d[q] = Dir

\* The dictionary has the files of the disk and only directories of it; what
\* it does not have is above a file.
Alike(d, f, ds) ==
  /\ DOMAIN f = {q \in DOMAIN d : d[q] # Dir} /\ \A q \in DOMAIN f : f[q] = d[q]
  /\ ds \subseteq {q \in DOMAIN d : d[q] = Dir}
  /\ \A q \in DOMAIN d : q \in DOMAIN f \cup ds \/ \E r \in DOMAIN f : FileSystem!IsStrictPrefix(q, r)

FilesTypes ==
  /\ disk \in [DOMAIN disk -> FileSystem!Texts \cup {Dir}] /\ DOMAIN disk \subseteq Workspace
  /\ texts \in [DOMAIN texts -> FileSystem!Texts] /\ DOMAIN texts \subseteq FileSystem!Paths
  /\ folders \subseteq FileSystem!Paths /\ apart \in BOOLEAN
  /\ answers[1].ok \in BOOLEAN /\ answers[2].ok \in BOOLEAN

FilesInv ==
  /\ FilesTypes
  /\ ~apart => answers[1] = answers[2] /\ Grown(disk) /\ Alike(disk, texts, folders)

\* Paths.

LEMMA SameSequence ==
  ASSUME NEW T, NEW s \in Seq(T), NEW t \in Seq(T), Len(s) = Len(t),
         \A k \in 1..Len(s) : s[k] = t[k]
  PROVE  s = t
OBVIOUS

LEMMA PrefixIs ==
  ASSUME NEW T, NEW q \in Seq(T), NEW r \in Seq(T)
  PROVE  /\ FileSystem!IsStrictPrefix(q, r) <=> Len(q) < Len(r) /\ \A i \in 1..Len(q) : q[i] = r[i]
         /\ Len(q) \in Nat /\ Len(r) \in Nat
<1>1. Len(q) \in Nat /\ Len(r) \in Nat
  OBVIOUS
<1>2. SubSeq(q, 1, Len(q)) = q
  <2>1. Len(q) \in 0..Len(q)
    BY <1>1
  <2>2. /\ SubSeq(q, 1, Len(q)) \in Seq(T) /\ Len(SubSeq(q, 1, Len(q))) = Len(q)
        /\ \A k \in 1..Len(q) : SubSeq(q, 1, Len(q))[k] = q[k]
    BY <2>1, Beginning
  <2> QED BY <2>2, SameSequence
<1>3. ASSUME Len(q) <= Len(r)
      PROVE  (q = SubSeq(r, 1, Len(q))) <=> \A i \in 1..Len(q) : q[i] = r[i]
  <2>1. Len(q) \in 0..Len(r)
    BY <1>1, <1>3
  <2>2. /\ SubSeq(r, 1, Len(q)) \in Seq(T) /\ Len(SubSeq(r, 1, Len(q))) = Len(q)
        /\ \A k \in 1..Len(q) : SubSeq(r, 1, Len(q))[k] = r[k]
    BY <2>1, Beginning
  <2>3. ASSUME q = SubSeq(r, 1, Len(q)) PROVE \A i \in 1..Len(q) : q[i] = r[i]
    BY <2>2, <2>3
  <2>4. ASSUME \A i \in 1..Len(q) : q[i] = r[i] PROVE q = SubSeq(r, 1, Len(q))
    BY <2>2, <2>4, SameSequence
  <2> QED BY <2>3, <2>4
<1>4. FileSystem!IsPrefix(q, r) <=> Len(q) <= Len(r) /\ \A i \in 1..Len(q) : q[i] = r[i]
  BY <1>2, <1>3 DEF FileSystem!IsPrefix
<1>5. ASSUME Len(q) = Len(r), \A i \in 1..Len(q) : q[i] = r[i] PROVE q = r
  BY <1>5, SameSequence
<1>6. q = r => ~(Len(q) < Len(r))
  BY <1>1
<1>7. Len(q) <= Len(r) <=> Len(q) < Len(r) \/ Len(q) = Len(r)
  BY <1>1
<1> QED BY <1>1, <1>4, <1>5, <1>6, <1>7 DEF FileSystem!IsStrictPrefix

LEMMA PrefixesOfPrefixes ==
  ASSUME NEW T, NEW p \in Seq(T), NEW q \in Seq(T), NEW r \in Seq(T),
         FileSystem!IsStrictPrefix(p, q), FileSystem!IsStrictPrefix(q, r)
  PROVE  FileSystem!IsStrictPrefix(p, r)
<1>1. /\ Len(p) < Len(q) /\ \A i \in 1..Len(p) : p[i] = q[i]
      /\ Len(q) < Len(r) /\ \A i \in 1..Len(q) : q[i] = r[i]
      /\ Len(p) \in Nat /\ Len(q) \in Nat /\ Len(r) \in Nat
  BY PrefixIs
<1>2. Len(p) < Len(r)
  BY <1>1
<1>3. ASSUME NEW i \in 1..Len(p) PROVE p[i] = r[i]
  <2>1. i \in 1..Len(q)
    BY <1>1
  <2> QED BY <1>1, <2>1
<1> QED BY <1>2, <1>3, PrefixIs

LEMMA ParentsAre ==
  ASSUME NEW T, NEW r \in Seq(T)
  PROVE  /\ \A q \in FileSystem!Parents(r) : q \in Seq(T) /\ Len(q) \in 1..(Len(r) - 1) /\ FileSystem!IsStrictPrefix(q, r)
         /\ \A q \in Seq(T) : q # <<>> /\ FileSystem!IsStrictPrefix(q, r) => q \in FileSystem!Parents(r)
         /\ \A n \in 1..(Len(r) - 1) : SubSeq(r, 1, n) \in FileSystem!Parents(r)
<1>1. Len(r) \in Nat
  OBVIOUS
<1>2. ASSUME NEW q \in FileSystem!Parents(r)
      PROVE  q \in Seq(T) /\ Len(q) \in 1..(Len(r) - 1) /\ FileSystem!IsStrictPrefix(q, r)
  <2>1. PICK n \in 1..(Len(r) - 1) : q = SubSeq(r, 1, n)
    BY DEF FileSystem!Parents
  <2>2. n \in 0..Len(r) /\ n < Len(r)
    BY <1>1
  <2>3. q \in Seq(T) /\ Len(q) = n /\ \A k \in 1..n : q[k] = r[k]
    BY <2>1, <2>2, Beginning
  <2>4. FileSystem!IsStrictPrefix(q, r)
    BY <2>2, <2>3, PrefixIs
  <2> QED BY <2>3, <2>4
<1>3. ASSUME NEW q \in Seq(T), q # <<>>, FileSystem!IsStrictPrefix(q, r) PROVE q \in FileSystem!Parents(r)
  <2>1. Len(q) < Len(r) /\ (\A i \in 1..Len(q) : q[i] = r[i]) /\ Len(q) \in Nat /\ Len(q) # 0
    BY <1>3, PrefixIs
  <2>2. Len(q) \in 1..(Len(r) - 1) /\ Len(q) \in 0..Len(r)
    BY <1>1, <2>1
  <2>3. /\ SubSeq(r, 1, Len(q)) \in Seq(T) /\ Len(SubSeq(r, 1, Len(q))) = Len(q)
        /\ \A k \in 1..Len(q) : SubSeq(r, 1, Len(q))[k] = r[k]
    BY <2>2, Beginning
  <2>4. q = SubSeq(r, 1, Len(q))
    BY <2>1, <2>3, SameSequence
  <2> QED BY <2>2, <2>4 DEF FileSystem!Parents
<1>4. \A n \in 1..(Len(r) - 1) : SubSeq(r, 1, n) \in FileSystem!Parents(r)
  BY DEF FileSystem!Parents
<1> QED BY <1>2, <1>3, <1>4

\* The instance counts as this module does.
LEMMA SamePlaces ==
  ASSUME NEW K
  PROVE  FileSystem!Cardinality(K) = Cardinality(K) /\ \A i : FileSystem!Nth(K, i) = Nth(K, i)
<1>1. ASSUME NEW S PROVE FileSystem!Cardinality(S) = Cardinality(S)
  BY Zenon DEF FileSystem!Cardinality, Cardinality
<1>2. ASSUME NEW k PROVE FileSystem!Rank(K, k) = Rank(K, k)
  BY <1>1 DEF FileSystem!Rank, Rank
<1>3. ASSUME NEW i PROVE FileSystem!Nth(K, i) = Nth(K, i)
  BY <1>2 DEF FileSystem!Nth, Nth
<1> QED BY <1>1, <1>3

LEMMA NormalIs == ASSUME NEW p \in Routes PROVE FileSystem!Normal(p) \in Routes
<1> DEFINE K == {i \in DOMAIN p : \A j \in i..Len(p) : 2 * FileSystem!Ups(p, i, j) <= j - i}
           S == STRING \cup {Up}
<1>1. Len(p) \in Nat /\ DOMAIN p = 1..Len(p) /\ \A i \in 1..Len(p) : p[i] \in S
  BY ElementsOf DEF Routes
<1>2. K \in SUBSET (1..Len(p))
  BY <1>1
<1>5. FileSystem!Normal(p) = [k \in 1..FileSystem!Cardinality(K) |-> p[FileSystem!Nth(K, k)]]
  BY DEF FileSystem!Normal
<1> HIDE DEF K, S
<1>3. FileSystem!Cardinality(K) \in Nat /\ \A i \in 1..FileSystem!Cardinality(K) : FileSystem!Nth(K, i) \in K
  <2>1. Cardinality(K) \in Nat /\ \A i \in 1..Cardinality(K) : Nth(K, i) \in K
    BY <1>1, <1>2, NthIsThere
  <2> QED BY <2>1, SamePlaces
<1>4. \A i \in 1..FileSystem!Cardinality(K) : p[FileSystem!Nth(K, i)] \in S
  BY <1>1, <1>2, <1>3
<1>6. [k \in 1..FileSystem!Cardinality(K) |-> p[FileSystem!Nth(K, k)]] \in Seq(S)
  BY <1>3, <1>4
<1> QED BY <1>5, <1>6 DEF Routes, S

LEMMA PathsAre ==
  ASSUME FileSystem!FileSystemAssumption
  PROVE  /\ \A p \in SpelledPaths : FileSystem!Normal(p) \in FileSystem!Paths
         /\ FileSystem!Paths \subseteq Routes /\ FileSystem!Paths \subseteq Workspace /\ Workspace \subseteq Routes
         /\ \A q \in Workspace : FileSystem!Parents(q) \subseteq Workspace
         /\ \A text \in FileSystem!Texts : text \in Seq(Lines) /\ text # Dir
<1>1. /\ \A p \in SpelledPaths : FileSystem!Normal(p) \in FileSystem!Paths
      /\ FileSystem!Paths \subseteq Routes
  BY NormalIs DEF FileSystem!Paths, FileSystem!FileSystemAssumption, Routes
<1>2. FileSystem!Paths \subseteq Workspace
  BY DEF Workspace
<1>3. Workspace \subseteq Routes
  BY <1>1, ParentsAre DEF Workspace, Routes
<1>4. ASSUME NEW q \in Workspace, NEW r \in FileSystem!Parents(q) PROVE r \in Workspace
  <2>1. PICK s \in FileSystem!Paths : q = s \/ q \in FileSystem!Parents(s)
    BY DEF Workspace
  <2>2. CASE q = s
    BY <2>1, <2>2, <1>4 DEF Workspace
  <2>3. CASE q \in FileSystem!Parents(s)
    <3>1. s \in Routes /\ q \in Routes /\ FileSystem!IsStrictPrefix(q, s)
      BY <1>1, <2>3, ParentsAre DEF Routes
    <3>2. r \in Routes /\ FileSystem!IsStrictPrefix(r, q) /\ Len(r) \in 1..(Len(q) - 1)
      BY <3>1, <1>4, ParentsAre DEF Routes
    <3>3. FileSystem!IsStrictPrefix(r, s)
      BY <3>1, <3>2, PrefixesOfPrefixes DEF Routes
    <3>4. r # <<>>
      BY <3>1, <3>2 DEF Routes
    <3>5. r \in FileSystem!Parents(s)
      BY <3>1, <3>2, <3>3, <3>4, ParentsAre DEF Routes
    <3> QED BY <3>5 DEF Workspace
  <2> QED BY <2>1, <2>2, <2>3
<1>5. ASSUME NEW text \in FileSystem!Texts PROVE text \in Seq(Lines) /\ text # Dir
  BY DEF FileSystem!Texts, FileSystem!SeqOf, FileSystem!FileSystemAssumption
<1> QED BY <1>1, <1>2, <1>3, <1>4, <1>5

\* Calls that only look.

LEMMA TryIs == ASSUME NEW ok, NEW shown
  PROVE  /\ FileSystem!Try(ok, shown).ok \in BOOLEAN /\ FileSystem!Done(shown).ok \in BOOLEAN
         /\ (ok => FileSystem!Try(ok, shown) = FileSystem!Done(shown)) /\ (~ok => FileSystem!Try(ok, shown) = FileSystem!Failed)
BY DEF FileSystem!Try, FileSystem!Done, FileSystem!Failed

LEMMA AnswersAre ==
  ASSUME NEW a, NEW b, NEW differs \in BOOLEAN, FileSystem!Answer(a, b, differs), ~apart,
         a.ok \in BOOLEAN, b.ok \in BOOLEAN
  PROVE  /\ apart' = differs /\ answers' = <<a, b>>
         /\ answers'[1].ok \in BOOLEAN /\ answers'[2].ok \in BOOLEAN
         /\ answers'[1] = a /\ answers'[2] = b
BY DEF FileSystem!Answer

LEMMA LookIs ==
  ASSUME FilesInv, ~apart, NEW a, NEW b, NEW differs \in BOOLEAN, FileSystem!Answer(a, b, differs),
         a.ok \in BOOLEAN, b.ok \in BOOLEAN, ~differs => a = b, UNCHANGED <<disk, texts, folders>>
  PROVE  FilesInv'
<1>1. /\ apart' = differs /\ answers'[1].ok \in BOOLEAN /\ answers'[2].ok \in BOOLEAN
      /\ answers'[1] = a /\ answers'[2] = b
  BY AnswersAre
<1>2. FilesTypes'
  BY <1>1 DEF FilesInv, FilesTypes
<1>3. Grown(disk') /\ Alike(disk', texts', folders')
  BY DEF FilesInv
<1> QED BY <1>1, <1>2, <1>3 DEF FilesInv

LEMMA SameTexts ==
  ASSUME FilesInv, ~apart, NEW p, ~FileSystem!Escapes(p)
  PROVE  FileSystem!DiskText(p) = FileSystem!MemoryText(p)
<1>1. Alike(disk, texts, folders)
  BY DEF FilesInv
<1>2. CASE FileSystem!Normal(p) \in DOMAIN texts
  <2>1. /\ FileSystem!Normal(p) \in DOMAIN disk /\ disk[FileSystem!Normal(p)] # Dir
        /\ texts[FileSystem!Normal(p)] = disk[FileSystem!Normal(p)]
    BY <1>1, <1>2 DEF Alike
  <2> QED BY <1>2, <2>1 DEF FileSystem!DiskText, FileSystem!MemoryText
<1>3. CASE FileSystem!Normal(p) \notin DOMAIN texts
  <2>1. FileSystem!Normal(p) \in DOMAIN disk => disk[FileSystem!Normal(p)] = Dir
    BY <1>1, <1>3 DEF Alike
  <2> QED BY <1>3, <2>1 DEF FileSystem!DiskText, FileSystem!MemoryText
<1> QED BY <1>2, <1>3

LEMMA ReadIs ==
  ASSUME FilesInv, ~apart, NEW p, NEW offset, NEW limit, FileSystem!Read(p, offset, limit)
  PROVE  FilesInv'
<1> DEFINE a == FileSystem!Try(FileSystem!DiskText(p) # {}, FileSystem!Page(FileSystem!DiskText(p), offset, limit))
           b == FileSystem!Try(FileSystem!MemoryText(p) # {}, FileSystem!Page(FileSystem!MemoryText(p), offset, limit))
<1>1. FileSystem!Answer(a, b, FileSystem!Escapes(p)) /\ UNCHANGED <<disk, texts, folders>>
  BY DEF FileSystem!Read
<1>2. a.ok \in BOOLEAN /\ b.ok \in BOOLEAN
  BY TryIs
<1>3. ~FileSystem!Escapes(p) => a = b
  BY SameTexts
<1>4. FileSystem!Escapes(p) \in BOOLEAN
  BY DEF FileSystem!Escapes
<1> HIDE DEF a, b
<1> QED BY <1>1, <1>2, <1>3, <1>4, LookIs

LEMMA SameFiles ==
  ASSUME FilesInv, ~apart, NEW p, NEW given, NEW names, ~FileSystem!RootGiven(p, given)
  PROVE  FileSystem!DiskFiles(p, given, names) = FileSystem!MemoryFiles(p, given, names)
<1>1. Alike(disk, texts, folders)
  BY DEF FilesInv
<1>2. CASE given /\ FileSystem!Normal(p) = <<>>
  <2>1. DOMAIN disk = {} /\ DOMAIN texts = {}
    BY <1>1, <1>2 DEF Alike, FileSystem!RootGiven
  <2> QED BY <2>1 DEF FileSystem!DiskFiles, FileSystem!MemoryFiles, FileSystem!MemoryUnder, FileSystem!Under, FileSystem!Below
<1>3. CASE ~(given /\ FileSystem!Normal(p) = <<>>)
  BY <1>1, <1>3 DEF Alike, FileSystem!DiskFiles, FileSystem!MemoryFiles, FileSystem!MemoryUnder, FileSystem!Under, FileSystem!Below
<1> QED BY <1>2, <1>3

\* A search is of the dictionary's files, and its answers differ in a Boolean.
LEMMA SearchedAre ==
  ASSUME NEW p, NEW given
  PROVE  /\ FileSystem!MemoryUnder(p, given) \subseteq DOMAIN texts
         /\ \A names : FileSystem!MemoryFiles(p, given, names) \subseteq DOMAIN texts
         /\ (FileSystem!Escapes(p) \/ FileSystem!RootGiven(p, given)) \in BOOLEAN
BY DEF FileSystem!MemoryFiles, FileSystem!MemoryUnder, FileSystem!Under, FileSystem!Below, FileSystem!Escapes,
       FileSystem!RootGiven

LEMMA GlobIs ==
  ASSUME FilesInv, ~apart, NEW p, NEW given, NEW names, FileSystem!Glob(p, given, names)
  PROVE  FilesInv'
<1> DEFINE a == FileSystem!Try(~FileSystem!Escapes(p), FileSystem!DiskFiles(p, given, names))
           b == FileSystem!Done(FileSystem!MemoryFiles(p, given, names))
           differs == FileSystem!Escapes(p) \/ FileSystem!RootGiven(p, given)
<1>1. FileSystem!Answer(a, b, differs) /\ UNCHANGED <<disk, texts, folders>>
  BY DEF FileSystem!Glob
<1>2. a.ok \in BOOLEAN /\ b.ok \in BOOLEAN
  BY TryIs
<1>3. ~differs => a = b
  <2>1. ~differs => FileSystem!DiskFiles(p, given, names) = FileSystem!MemoryFiles(p, given, names)
    BY SameFiles
  <2> QED BY <2>1 DEF FileSystem!Try
<1>4. differs \in BOOLEAN
  BY SearchedAre
<1> HIDE DEF a, b, differs
<1> QED BY <1>1, <1>2, <1>3, <1>4, LookIs

LEMMA SameHits ==
  ASSUME FilesInv, ~apart, NEW found, found \subseteq DOMAIN texts, NEW line
  PROVE  FileSystem!Hits(found, disk, line) = FileSystem!Hits(found, texts, line)
<1>1. \A r \in found : texts[r] = disk[r]
  BY DEF FilesInv, Alike
<1>2. \A r \in found : {<<r, i>> : i \in FileSystem!Occurrences(disk[r], line)}
                         = {<<r, i>> : i \in FileSystem!Occurrences(texts[r], line)}
  BY <1>1
<1> QED BY <1>2 DEF FileSystem!Hits

LEMMA GrepIs ==
  ASSUME FilesInv, ~apart, NEW p, NEW names, NEW line, FileSystem!Grep(p, names, line)
  PROVE  FilesInv'
<1> DEFINE given == p # <<>>
           a == FileSystem!Try(~FileSystem!Escapes(p), FileSystem!Hits(FileSystem!DiskFiles(p, given, names), disk, line))
           b == FileSystem!Done(FileSystem!Hits(FileSystem!MemoryFiles(p, given, names), texts, line))
           differs == FileSystem!Escapes(p) \/ FileSystem!RootGiven(p, given)
<1>1. FileSystem!Answer(a, b, differs) /\ UNCHANGED <<disk, texts, folders>>
  BY DEF FileSystem!Grep
<1>2. a.ok \in BOOLEAN /\ b.ok \in BOOLEAN
  BY TryIs
<1>4. differs \in BOOLEAN
  BY SearchedAre
<1> HIDE DEF given
<1>3. ASSUME ~differs PROVE a = b
  <2>1. FileSystem!MemoryFiles(p, given, names) \subseteq DOMAIN texts
    BY SearchedAre
  <2>2. FileSystem!Hits(FileSystem!DiskFiles(p, given, names), disk, line)
          = FileSystem!Hits(FileSystem!MemoryFiles(p, given, names), texts, line)
    BY <1>3, <2>1, SameFiles, SameHits
  <2> QED BY <1>3, <2>2 DEF FileSystem!Try
<1> HIDE DEF a, b, differs
<1> QED BY <1>1, <1>2, <1>3, <1>4, LookIs

LEMMA SearchIs ==
  ASSUME FileSystem!FileSystemAssumption, FilesInv, ~apart, NEW p \in SpelledPaths, NEW given, NEW line,
         FileSystem!Search(p, given, line)
  PROVE  FilesInv'
<1> DEFINE a == FileSystem!Try(~FileSystem!Escapes(p), FileSystem!Hits(FileSystem!DiskSearched(p, given), disk, line))
           b == FileSystem!Done(FileSystem!Hits(FileSystem!MemoryUnder(p, given), texts, line))
           differs == FileSystem!Escapes(p) \/ FileSystem!RootGiven(p, given) \/ FileSystem!MemoryText(p) # {}
           every == UNION {FileSystem!ToSet(r) : r \in DOMAIN disk}
<1>1. FileSystem!Answer(a, b, differs) /\ UNCHANGED <<disk, texts, folders>>
  BY DEF FileSystem!Search
<1>2. a.ok \in BOOLEAN /\ b.ok \in BOOLEAN
  BY TryIs
<1>3. ASSUME ~differs PROVE a = b
  <2>1. FileSystem!MemoryUnder(p, given) \subseteq DOMAIN texts
    BY SearchedAre
  <2>2. FileSystem!DiskText(p) = {}
    BY <1>3, SameTexts
  <2>3. FileSystem!DiskSearched(p, given) = FileSystem!MemoryFiles(p, given, every)
    BY <1>3, <2>2, SameFiles DEF FileSystem!DiskSearched
  <2>4. ASSUME NEW r \in DOMAIN texts PROVE FileSystem!Last(r) \in every
    <3>1. r \in DOMAIN disk /\ r \in Routes /\ r # <<>>
      BY PathsAre DEF FilesInv, FilesTypes, Alike, Grown
    <3>2. Len(r) \in 1..Len(r)
      BY <3>1 DEF Routes
    <3>3. Len(r) \in DOMAIN r
      BY <3>1, <3>2, ElementsOf DEF Routes
    <3> QED BY <3>1, <3>3 DEF FileSystem!Last, FileSystem!ToSet
  <2>5. FileSystem!MemoryFiles(p, given, every) = FileSystem!MemoryUnder(p, given)
    BY <2>1, <2>4 DEF FileSystem!MemoryFiles
  <2>6. FileSystem!Hits(FileSystem!DiskSearched(p, given), disk, line)
          = FileSystem!Hits(FileSystem!MemoryUnder(p, given), texts, line)
    BY <2>1, <2>3, <2>5, SameHits
  <2> QED BY <1>3, <2>6 DEF FileSystem!Try
<1>4. differs \in BOOLEAN
  BY SearchedAre
<1> HIDE DEF a, b, differs
<1> QED BY <1>1, <1>2, <1>3, <1>4, LookIs

\* What is there for one is there for the other.
LEMMA SameEntries ==
  ASSUME FileSystem!FileSystemAssumption, FilesInv, ~apart, NEW p \in SpelledPaths, ~FileSystem!Escapes(p)
  PROVE  FileSystem!DiskHas(p) <=> FileSystem!MemoryHas(p)
<1> DEFINE q == FileSystem!Normal(p)
<1>1. Grown(disk) /\ Alike(disk, texts, folders) /\ q \in Routes /\ DOMAIN disk \subseteq Routes
  BY PathsAre DEF FilesInv, FilesTypes
<1>2. FileSystem!DiskHas(p) <=> q = <<>> \/ q \in DOMAIN disk
  BY DEF FileSystem!DiskHas
<1>3. FileSystem!MemoryHas(p) <=> q = <<>> \/ q \in DOMAIN texts \cup folders
                         \/ \E r \in DOMAIN texts : FileSystem!IsStrictPrefix(q, r)
  BY DEF FileSystem!MemoryHas, FileSystem!Present, FileSystem!ImplicitDir, FileSystem!Under, FileSystem!Below
<1> HIDE DEF q
<1>4. ASSUME q # <<>>, NEW r \in DOMAIN texts, FileSystem!IsStrictPrefix(q, r) PROVE q \in DOMAIN disk
  <2>1. r \in DOMAIN disk /\ r \in Routes
    BY <1>1 DEF Alike
  <2>2. q \in FileSystem!Parents(r)
    BY <1>1, <1>4, <2>1, ParentsAre DEF Routes
  <2> QED BY <1>1, <2>1, <2>2 DEF Grown
<1> QED BY <1>1, <1>2, <1>3, <1>4 DEF Alike

LEMMA LsIs ==
  ASSUME FileSystem!FileSystemAssumption, FilesInv, ~apart, NEW p \in SpelledPaths, FileSystem!Ls(p)
  PROVE  FilesInv'
<1> DEFINE q == FileSystem!Normal(p)
           a == FileSystem!Try(FileSystem!DiskHas(p), FileSystem!DiskListed(p, q))
           b == FileSystem!Try(FileSystem!MemoryHas(p), FileSystem!MemoryListed(q))
           differs == FileSystem!Escapes(p) \/ FileSystem!MemoryText(p) # {}
<1>1. FileSystem!Answer(a, b, differs) /\ UNCHANGED <<disk, texts, folders>>
  BY DEF FileSystem!Ls
<1>2. a.ok \in BOOLEAN /\ b.ok \in BOOLEAN
  BY TryIs
<1>3. ASSUME ~differs PROVE a = b
  <2>1. FileSystem!DiskText(p) = {} /\ (FileSystem!DiskHas(p) <=> FileSystem!MemoryHas(p))
    BY <1>3, SameTexts, SameEntries
  <2>2. /\ Grown(disk) /\ Alike(disk, texts, folders) /\ q \in Routes /\ DOMAIN disk \subseteq Routes
        /\ DOMAIN texts \subseteq DOMAIN disk /\ folders \subseteq DOMAIN disk
    BY PathsAre DEF FilesInv, FilesTypes, Alike
  <2> DEFINE onDisk == {FileSystem!Last(r) : r \in {r \in DOMAIN disk : FileSystem!IsStrictPrefix(q, r) /\ Len(r) = Len(q) + 1}}
             below == {r[Len(q) + 1] : r \in FileSystem!Below(q, DOMAIN texts)}
             noted == {FileSystem!Last(r) : r \in {r \in FileSystem!Below(q, folders) : Len(r) = Len(q) + 1}}
  <2>3. FileSystem!DiskListed(p, q) = onDisk /\ FileSystem!MemoryListed(q) = below \cup noted
    BY <2>1 DEF FileSystem!DiskListed, FileSystem!MemoryListed
  <2> HIDE DEF q
  <2>4. ASSUME NEW r \in DOMAIN disk, FileSystem!IsStrictPrefix(q, r), Len(r) = Len(q) + 1
        PROVE  FileSystem!Last(r) \in below \cup noted
    <3>1. FileSystem!Last(r) = r[Len(q) + 1] /\ r \in Routes
      BY <2>2, <2>4 DEF FileSystem!Last
    <3>2. CASE r \in DOMAIN texts
      BY <2>4, <3>1, <3>2 DEF FileSystem!Below
    <3>3. CASE r \in folders
      BY <2>4, <3>3 DEF FileSystem!Below
    <3>4. ASSUME NEW s \in DOMAIN texts, FileSystem!IsStrictPrefix(r, s) PROVE FileSystem!Last(r) \in below
      <4>1. s \in Routes
        BY <2>2
      <4>2. FileSystem!IsStrictPrefix(q, s)
        BY <2>2, <2>4, <3>1, <3>4, <4>1, PrefixesOfPrefixes DEF Routes
      <4>3. r[Len(r)] = s[Len(r)]
        <5>1. Len(r) \in 1..Len(r)
          BY <2>2, <2>4, <3>1, PrefixIs DEF Routes
        <5> QED BY <3>1, <3>4, <4>1, <5>1, PrefixIs DEF Routes
      <4> QED BY <2>4, <3>1, <4>2, <4>3 DEF FileSystem!Below
    <3> QED BY <2>2, <3>2, <3>3, <3>4 DEF Alike
  <2>5. ASSUME NEW r \in DOMAIN texts, FileSystem!IsStrictPrefix(q, r) PROVE r[Len(q) + 1] \in onDisk
    <3> DEFINE m == Len(q) + 1
               u == SubSeq(r, 1, m)
    <3>1. r \in Routes /\ r \in DOMAIN disk
      BY <2>2
    <3>2. /\ Len(q) < Len(r) /\ (\A i \in 1..Len(q) : q[i] = r[i])
          /\ Len(q) \in Nat /\ Len(r) \in Nat
      BY <2>2, <2>5, <3>1, PrefixIs DEF Routes
    <3>3. CASE Len(r) = m
      BY <2>5, <3>1, <3>3 DEF FileSystem!Last
    <3>4. CASE Len(r) # m
      <4>1. m \in 1..(Len(r) - 1) /\ m \in 0..Len(r)
        BY <3>2, <3>4
      <4>2. u \in FileSystem!Parents(r)
        BY <3>1, <4>1, ParentsAre DEF Routes
      <4>3. u \in DOMAIN disk
        BY <2>2, <3>1, <4>2 DEF Grown
      <4>4. u \in Routes /\ Len(u) = m /\ \A k \in 1..m : u[k] = r[k]
        BY <3>1, <4>1, Beginning DEF Routes
      <4> HIDE DEF u
      <4>5. FileSystem!IsStrictPrefix(q, u)
        <5>1. Len(q) < Len(u)
          BY <3>2, <4>4
        <5>2. \A i \in 1..Len(q) : q[i] = u[i]
          BY <3>2, <4>4
        <5> QED BY <2>2, <4>4, <5>1, <5>2, PrefixIs DEF Routes
      <4>6. FileSystem!Last(u) = r[m]
        BY <3>2, <4>4 DEF FileSystem!Last
      <4> QED BY <4>3, <4>4, <4>5, <4>6
    <3> QED BY <3>3, <3>4
  <2>6. ASSUME NEW r \in folders, FileSystem!IsStrictPrefix(q, r), Len(r) = Len(q) + 1 PROVE FileSystem!Last(r) \in onDisk
    BY <2>2, <2>6
  <2>7. onDisk = below \cup noted
    <3>1. onDisk \subseteq below \cup noted
      BY <2>4
    <3>2. below \subseteq onDisk
      BY <2>5 DEF FileSystem!Below
    <3>3. noted \subseteq onDisk
      BY <2>6 DEF FileSystem!Below
    <3> QED BY <3>1, <3>2, <3>3
  <2>8. FileSystem!DiskListed(p, q) = FileSystem!MemoryListed(q)
    BY <2>3, <2>7
  <2> QED BY <2>1, <2>8 DEF FileSystem!Try
<1>4. differs \in BOOLEAN
  BY DEF FileSystem!Escapes
<1> HIDE DEF a, b, differs
<1> QED BY <1>1, <1>2, <1>3, <1>4, LookIs

\* Calls that change something.

LEMMA WithDirsIs ==
  ASSUME NEW qs
  PROVE  /\ DOMAIN FileSystem!WithDirs(qs) = DOMAIN disk \cup qs
         /\ \A r \in DOMAIN disk : FileSystem!WithDirs(qs)[r] = disk[r]
         /\ \A r \in qs : r \notin DOMAIN disk => FileSystem!WithDirs(qs)[r] = Dir
         /\ FileSystem!WithDirs(qs) = [r \in DOMAIN disk \cup qs |-> FileSystem!WithDirs(qs)[r]]
BY DEF FileSystem!WithDirs

\* Whoever is above the parent of a path is a parent of it; no path is above
\* itself.
LEMMA AboveIs ==
  ASSUME NEW q \in Routes
  PROVE  /\ q \notin FileSystem!Parents(q)
         /\ \A r \in FileSystem!Parents(q) : /\ r \in Routes /\ r # <<>> /\ FileSystem!IsStrictPrefix(r, q)
                                             /\ FileSystem!Parents(r) \subseteq FileSystem!Parents(q)
<1>1. \A r \in FileSystem!Parents(q) : r \in Routes /\ Len(r) \in 1..(Len(q) - 1) /\ FileSystem!IsStrictPrefix(r, q)
  BY ParentsAre DEF Routes
<1>4. \A r \in FileSystem!Parents(q) : r # <<>>
  BY <1>1
<1>2. q \notin FileSystem!Parents(q)
  BY <1>1, PrefixIs DEF Routes
<1>3. ASSUME NEW r \in FileSystem!Parents(q), NEW t \in FileSystem!Parents(r) PROVE t \in FileSystem!Parents(q)
  <2>1. r \in Routes /\ FileSystem!IsStrictPrefix(r, q)
    BY <1>1
  <2>2. t \in Routes /\ Len(t) \in 1..(Len(r) - 1) /\ FileSystem!IsStrictPrefix(t, r)
    BY <1>3, <2>1, ParentsAre DEF Routes
  <2>3. t # <<>>
    BY <2>1, <2>2 DEF Routes
  <2>4. FileSystem!IsStrictPrefix(t, q)
    BY <2>1, <2>2, PrefixesOfPrefixes DEF Routes
  <2> QED BY <2>2, <2>3, <2>4, ParentsAre DEF Routes
<1> QED BY <1>1, <1>2, <1>3, <1>4

LEMMA WriteIs ==
  ASSUME FileSystem!FileSystemAssumption, FilesInv, ~apart, NEW p \in SpelledPaths, NEW text \in FileSystem!Texts, FileSystem!Write(p, text)
  PROVE  FilesInv'
<1> DEFINE q == FileSystem!Normal(p)
           fits == /\ ~FileSystem!Escapes(p) /\ q # <<>> /\ (q \in DOMAIN disk => disk[q] # Dir)
                   /\ \A r \in FileSystem!Parents(q) \cap DOMAIN disk : disk[r] = Dir
<1>1. /\ disk' = IF fits THEN FileSystem!With(FileSystem!WithDirs(FileSystem!Parents(q)), q, text) ELSE disk
      /\ texts' = FileSystem!With(texts, q, text) /\ folders' = folders
      /\ FileSystem!Answer(FileSystem!Try(fits, {}), FileSystem!Done({}), ~fits)
  BY DEF FileSystem!Write
<1>2. /\ q \in FileSystem!Paths /\ q \in Routes /\ q \in Workspace /\ FileSystem!Parents(q) \subseteq Workspace /\ text # Dir
  BY PathsAre
<1>3. FilesTypes /\ Grown(disk) /\ Alike(disk, texts, folders)
  BY DEF FilesInv
<1>4. fits \in BOOLEAN
  BY DEF FileSystem!Escapes
<1> HIDE DEF q, fits
<1>5. /\ apart' = ~fits /\ answers'[1].ok \in BOOLEAN /\ answers'[2].ok \in BOOLEAN
      /\ answers'[1] = FileSystem!Try(fits, {}) /\ answers'[2] = FileSystem!Done({})
  BY <1>1, <1>4, TryIs, AnswersAre
<1>6. /\ DOMAIN texts' = DOMAIN texts \cup {q} /\ texts'[q] = text
      /\ \A r \in DOMAIN texts : r # q => texts'[r] = texts[r]
      /\ texts' \in [DOMAIN texts' -> FileSystem!Texts]
  <2>1. /\ DOMAIN texts' = DOMAIN texts \cup {q} /\ texts'[q] = text
        /\ \A r \in DOMAIN texts : r # q => texts'[r] = texts[r]
        /\ texts' = [r \in DOMAIN texts' |-> texts'[r]]
    BY <1>1 DEF FileSystem!With
  <2>2. \A r \in DOMAIN texts : texts[r] \in FileSystem!Texts
    BY <1>3 DEF FilesTypes
  <2>3. \A r \in DOMAIN texts' : texts'[r] \in FileSystem!Texts
    BY <2>1, <2>2
  <2> QED BY <2>1, <2>3
<1>7. CASE ~fits
  <2>1. disk' = disk
    BY <1>1, <1>7
  <2>2. FilesTypes'
    BY <1>1, <1>2, <1>3, <1>4, <1>5, <1>6, <2>1 DEF FilesTypes
  <2> QED BY <1>5, <1>7, <2>2 DEF FilesInv
<1>8. CASE fits
  <2>1. /\ q # <<>> /\ (q \in DOMAIN disk => disk[q] # Dir)
        /\ \A r \in FileSystem!Parents(q) \cap DOMAIN disk : disk[r] = Dir
    BY <1>8 DEF fits
  <2>2. /\ q \notin FileSystem!Parents(q)
        /\ \A r \in FileSystem!Parents(q) : r # <<>> /\ FileSystem!IsStrictPrefix(r, q) /\ FileSystem!Parents(r) \subseteq FileSystem!Parents(q)
    BY <1>2, AboveIs
  <2> DEFINE e == FileSystem!WithDirs(FileSystem!Parents(q))
  <2>3. /\ DOMAIN e = DOMAIN disk \cup FileSystem!Parents(q)
        /\ \A r \in DOMAIN disk : e[r] = disk[r]
        /\ \A r \in FileSystem!Parents(q) : r \notin DOMAIN disk => e[r] = Dir
    BY WithDirsIs
  <2>4. disk' = FileSystem!With(e, q, text)
    BY <1>1, <1>8
  <2> HIDE DEF e
  <2>5. /\ DOMAIN disk' = DOMAIN e \cup {q} /\ disk'[q] = text
        /\ \A r \in DOMAIN e : r # q => disk'[r] = e[r]
        /\ disk' = [r \in DOMAIN disk' |-> disk'[r]]
    BY <2>4 DEF FileSystem!With
  <2>6. \A r \in FileSystem!Parents(q) : r \in DOMAIN disk' /\ disk'[r] = Dir
    BY <2>1, <2>2, <2>3, <2>5
  <2>7. \A r \in DOMAIN disk : r \in DOMAIN disk' /\ (r # q => disk'[r] = disk[r])
    BY <2>3, <2>5
  <2>8. \A r \in DOMAIN disk' : r = q \/ r \in FileSystem!Parents(q) \/ r \in DOMAIN disk
    BY <2>3, <2>5
  <2>9. disk' \in [DOMAIN disk' -> FileSystem!Texts \cup {Dir}] /\ DOMAIN disk' \subseteq Workspace
    <3>1. \A r \in DOMAIN disk : disk[r] \in FileSystem!Texts \cup {Dir}
      BY <1>3 DEF FilesTypes
    <3>2. \A r \in DOMAIN disk' : disk'[r] \in FileSystem!Texts \cup {Dir}
      BY <2>5, <2>6, <2>7, <2>8, <3>1
    <3>3. DOMAIN disk' \subseteq Workspace
      BY <1>2, <1>3, <2>8 DEF FilesTypes
    <3> QED BY <2>5, <3>2, <3>3
  <2>10. FilesTypes'
    BY <1>1, <1>2, <1>3, <1>4, <1>5, <1>6, <2>9 DEF FilesTypes
  <2>11. Grown(disk')
    <3>1. ASSUME NEW r \in DOMAIN disk', NEW t \in FileSystem!Parents(r) PROVE t \in DOMAIN disk' /\ disk'[t] = Dir
      <4>1. CASE r = q \/ r \in FileSystem!Parents(q)
        BY <2>2, <2>6, <3>1, <4>1
      <4>2. CASE r \in DOMAIN disk
        <5>1. t \in DOMAIN disk /\ disk[t] = Dir
          BY <1>3, <3>1, <4>2 DEF Grown
        <5> QED BY <2>1, <2>7, <5>1
      <4> QED BY <2>8, <4>1, <4>2
    <3>2. <<>> \notin DOMAIN disk'
      BY <1>3, <2>1, <2>2, <2>8 DEF Grown
    <3> QED BY <3>1, <3>2 DEF Grown
  <2>12. Alike(disk', texts', folders')
    <3>1. DOMAIN texts' = {r \in DOMAIN disk' : disk'[r] # Dir}
      BY <1>2, <1>3, <1>6, <2>5, <2>6, <2>7, <2>8 DEF Alike
    <3>2. \A r \in DOMAIN texts' : texts'[r] = disk'[r]
      BY <1>3, <1>6, <2>5, <2>7 DEF Alike
    <3>3. folders' \subseteq {r \in DOMAIN disk' : disk'[r] = Dir}
      BY <1>1, <1>3, <2>1, <2>7 DEF Alike
    <3>4. ASSUME NEW r \in DOMAIN disk'
          PROVE  r \in DOMAIN texts' \cup folders' \/ \E t \in DOMAIN texts' : FileSystem!IsStrictPrefix(r, t)
      <4>1. CASE r = q \/ r \in FileSystem!Parents(q)
        BY <1>6, <2>2, <4>1
      <4>2. CASE r \in DOMAIN disk
        BY <1>1, <1>3, <1>6, <4>2 DEF Alike
      <4> QED BY <2>8, <4>1, <4>2
    <3> QED BY <3>1, <3>2, <3>3, <3>4 DEF Alike
  <2>13. answers'[1] = answers'[2]
    BY <1>5, <1>8, TryIs
  <2> QED BY <2>10, <2>11, <2>12, <2>13 DEF FilesInv
<1> QED BY <1>7, <1>8, <1>4

LEMMA EditedIs ==
  ASSUME NEW mode, NEW text \in FileSystem!Texts, NEW old, NEW new \in Lines
  PROVE  FileSystem!Edited(mode, text, old, new) \in FileSystem!Texts
<1>1. PICK m \in 0..MaxLines : text \in [1..m -> Lines]
  BY DEF FileSystem!Texts, FileSystem!SeqOf
<1>2. FileSystem!Edited(mode, text, old, new) \in [1..m -> Lines]
  BY <1>1 DEF FileSystem!Edited
<1> QED BY <1>2 DEF FileSystem!Texts, FileSystem!SeqOf

LEMMA EditIs ==
  ASSUME FileSystem!FileSystemAssumption, FilesInv, ~apart, NEW p \in SpelledPaths,
         NEW mode, NEW old \in Lines, NEW new \in Lines, FileSystem!Edit(p, mode, old, new)
  PROVE  FilesInv'
<1> DEFINE q == FileSystem!Normal(p)
           onDisk == {t \in FileSystem!DiskText(p) : FileSystem!Editable(mode, t, old)}
           inMemory == {t \in FileSystem!MemoryText(p) : FileSystem!Editable(mode, t, old)}
           count(t) == IF mode = "all" THEN FileSystem!Cardinality(FileSystem!Occurrences(t, old)) ELSE 1
           a == FileSystem!Try(onDisk # {}, {count(t) : t \in onDisk})
           b == FileSystem!Try(inMemory # {}, {count(t) : t \in inMemory})
<1>1. /\ disk' = [r \in DOMAIN disk |-> IF r = q /\ onDisk # {}
                                          THEN FileSystem!Edited(mode, disk[r], old, new) ELSE disk[r]]
      /\ texts' = [r \in DOMAIN texts |-> IF r = q /\ inMemory # {}
                                            THEN FileSystem!Edited(mode, texts[r], old, new) ELSE texts[r]]
      /\ FileSystem!Answer(a, b, FileSystem!Escapes(p)) /\ folders' = folders
  BY DEF FileSystem!Edit
<1>2. a.ok \in BOOLEAN /\ b.ok \in BOOLEAN /\ FileSystem!Escapes(p) \in BOOLEAN
  BY TryIs DEF FileSystem!Escapes
<1>3. ~FileSystem!Escapes(p) => onDisk = inMemory
  BY SameTexts
<1>4. onDisk # {} => q \in DOMAIN disk /\ disk[q] # Dir
  BY DEF FileSystem!DiskText
<1>5. ~FileSystem!Escapes(p) => a = b
  BY <1>3
<1>6. FilesTypes /\ Grown(disk) /\ Alike(disk, texts, folders)
  BY DEF FilesInv
<1> HIDE DEF q, onDisk, inMemory, a, b
<1>7. /\ apart' = FileSystem!Escapes(p) /\ answers'[1].ok \in BOOLEAN /\ answers'[2].ok \in BOOLEAN
      /\ answers'[1] = a /\ answers'[2] = b
  BY <1>1, <1>2, AnswersAre
<1>8. /\ DOMAIN disk' = DOMAIN disk /\ \A r \in DOMAIN disk : disk'[r] \in FileSystem!Texts \cup {Dir}
      /\ \A r \in DOMAIN disk : disk'[r] = Dir <=> disk[r] = Dir
  <2>1. \A r \in DOMAIN disk : disk[r] \in FileSystem!Texts \cup {Dir}
    BY <1>6 DEF FilesTypes
  <2>2. ASSUME NEW r \in DOMAIN disk
        PROVE  disk'[r] \in FileSystem!Texts \cup {Dir} /\ (disk'[r] = Dir <=> disk[r] = Dir)
    <3>1. CASE r = q /\ onDisk # {}
      <4>1. disk[r] \in FileSystem!Texts
        BY <1>4, <2>1, <3>1
      <4>2. disk'[r] = FileSystem!Edited(mode, disk[r], old, new)
        BY <1>1, <3>1
      <4>3. disk'[r] \in FileSystem!Texts
        BY <4>1, <4>2, EditedIs
      <4>4. disk'[r] # Dir /\ disk[r] # Dir
        BY <4>1, <4>3, PathsAre
      <4> QED BY <4>3, <4>4
    <3>2. CASE ~(r = q /\ onDisk # {})
      BY <1>1, <2>1, <3>2
    <3> QED BY <3>1, <3>2
  <2> QED BY <1>1, <2>2
<1>9. DOMAIN texts' = DOMAIN texts /\ \A r \in DOMAIN texts : texts'[r] \in FileSystem!Texts
  <2>1. \A r \in DOMAIN texts : texts[r] \in FileSystem!Texts
    BY <1>6 DEF FilesTypes
  <2>2. \A r \in DOMAIN texts : texts'[r] = texts[r] \/ texts'[r] = FileSystem!Edited(mode, texts[r], old, new)
    BY <1>1
  <2> QED BY <1>1, <2>1, <2>2, EditedIs
<1>10. FilesTypes'
  <2>1. disk' \in [DOMAIN disk' -> FileSystem!Texts \cup {Dir}] /\ texts' \in [DOMAIN texts' -> FileSystem!Texts]
    BY <1>1, <1>8, <1>9
  <2> QED BY <1>1, <1>2, <1>6, <1>7, <1>8, <1>9, <2>1 DEF FilesTypes
<1>11. ASSUME ~FileSystem!Escapes(p) PROVE Grown(disk') /\ Alike(disk', texts', folders')
  <2>1. Grown(disk')
    BY <1>6, <1>8 DEF Grown
  <2>2. \A r \in DOMAIN texts : texts'[r] = disk'[r]
    BY <1>1, <1>3, <1>6, <1>11 DEF Alike
  <2> QED BY <1>1, <1>6, <1>8, <1>9, <2>1, <2>2 DEF Alike
<1> QED BY <1>5, <1>7, <1>10, <1>11 DEF FilesInv

LEMMA MkdirIs ==
  ASSUME FileSystem!FileSystemAssumption, FilesInv, ~apart, NEW p \in SpelledPaths, NEW existOk \in BOOLEAN,
         FileSystem!Mkdir(p, existOk)
  PROVE  FilesInv'
<1> DEFINE q == FileSystem!Normal(p)
           fits == /\ ~FileSystem!Escapes(p) /\ (q = <<>> => existOk)
                   /\ (q \in DOMAIN disk => disk[q] = Dir /\ existOk)
                   /\ \A r \in FileSystem!Parents(q) \cap DOMAIN disk : disk[r] = Dir
           takes == q \notin DOMAIN texts /\ (q \in folders => existOk)
           differs == \/ FileSystem!Escapes(p) \/ q = <<>> \/ (FileSystem!ImplicitDir(q) /\ ~existOk)
                      \/ \E r \in FileSystem!Parents(q) : r \in DOMAIN texts \/ ~FileSystem!Present(r)
           a == FileSystem!Try(fits, {})
           b == FileSystem!Try(takes, {})
<1>1. /\ disk' = IF fits THEN FileSystem!WithDirs(FileSystem!Parents(q) \cup FileSystem!Whole(q)) ELSE disk
      /\ folders' = IF takes THEN folders \cup {q} ELSE folders
      /\ FileSystem!Answer(a, b, differs) /\ texts' = texts
  BY DEF FileSystem!Mkdir
<1>2. q \in FileSystem!Paths /\ q \in Routes /\ q \in Workspace /\ FileSystem!Parents(q) \subseteq Workspace
  BY PathsAre
<1>3. FilesTypes /\ Grown(disk) /\ Alike(disk, texts, folders) /\ DOMAIN disk \subseteq Routes
  BY PathsAre DEF FilesInv, FilesTypes
<1>4. differs \in BOOLEAN /\ a.ok \in BOOLEAN /\ b.ok \in BOOLEAN
  BY TryIs DEF FileSystem!Escapes
<1>5. /\ q # <<>> => (FileSystem!ImplicitDir(q) <=> \E r \in DOMAIN texts : FileSystem!IsStrictPrefix(q, r))
      /\ \A t : FileSystem!Present(t) <=> \/ t = <<>> \/ t \in DOMAIN texts \cup folders
                                          \/ \E r \in DOMAIN texts : FileSystem!IsStrictPrefix(t, r)
  BY DEF FileSystem!Present, FileSystem!ImplicitDir, FileSystem!Under, FileSystem!Below
<1>17. ~differs => q # <<>>
  OBVIOUS
<1>18. FileSystem!Whole(q) \subseteq {q} /\ (q # <<>> => FileSystem!Whole(q) = {q})
  BY DEF FileSystem!Whole
<1>6. q \notin FileSystem!Parents(q) /\ \A r \in FileSystem!Parents(q) : r \in Routes /\ r # <<>> /\ FileSystem!Parents(r) \subseteq FileSystem!Parents(q)
  BY <1>2, AboveIs
<1>7. ASSUME ~differs PROVE \A r \in FileSystem!Parents(q) : r \in DOMAIN disk /\ disk[r] = Dir
  <2>1. ASSUME NEW r \in FileSystem!Parents(q) PROVE r \in DOMAIN disk /\ r \notin DOMAIN texts
    <3>1. r \notin DOMAIN texts /\ FileSystem!Present(r) /\ r # <<>> /\ r \in Routes
      BY <1>6, <1>7
    <3>2. CASE r \in folders
      BY <1>3, <3>1, <3>2 DEF Alike
    <3>3. ASSUME NEW t \in DOMAIN texts, FileSystem!IsStrictPrefix(r, t) PROVE r \in DOMAIN disk
      <4>1. t \in DOMAIN disk /\ t \in Routes
        BY <1>3 DEF Alike
      <4>2. r \in FileSystem!Parents(t)
        BY <3>1, <3>3, <4>1, ParentsAre DEF Routes
      <4> QED BY <1>3, <4>1, <4>2 DEF Grown
    <3> QED BY <1>5, <3>1, <3>2, <3>3
  <2> QED BY <1>3, <2>1 DEF Alike
<1>8. ASSUME ~differs PROVE fits <=> takes
  <2>1. ~FileSystem!Escapes(p) /\ q # <<>> /\ (FileSystem!ImplicitDir(q) => existOk) /\ \A r \in FileSystem!Parents(q) \cap DOMAIN disk : disk[r] = Dir
    BY <1>7, <1>8
  <2>2. q \in DOMAIN disk => (disk[q] # Dir <=> q \in DOMAIN texts)
    BY <1>3 DEF Alike
  <2>3. q \in DOMAIN disk => q \in DOMAIN texts \/ q \in folders \/ FileSystem!ImplicitDir(q)
    BY <1>3, <1>5, <2>1 DEF Alike
  <2>4. q \in DOMAIN texts \cup folders => q \in DOMAIN disk
    BY <1>3 DEF Alike
  <2> QED BY <2>1, <2>2, <2>3, <2>4
<1> HIDE DEF q, fits, takes, differs, a, b
<1>9. /\ apart' = differs /\ answers'[1].ok \in BOOLEAN /\ answers'[2].ok \in BOOLEAN
      /\ answers'[1] = a /\ answers'[2] = b
  BY <1>1, <1>4, AnswersAre
<1>10. ~differs => a = b
  <2>1. (fits <=> takes) => a = b
    BY DEF a, b, FileSystem!Try
  <2> QED BY <1>8, <2>1
<1> DEFINE e == FileSystem!WithDirs(FileSystem!Parents(q) \cup FileSystem!Whole(q))
<1>11. /\ DOMAIN e = DOMAIN disk \cup (FileSystem!Parents(q) \cup FileSystem!Whole(q))
       /\ \A r \in DOMAIN disk : e[r] = disk[r]
       /\ \A r \in FileSystem!Parents(q) \cup FileSystem!Whole(q) : r \notin DOMAIN disk => e[r] = Dir
       /\ e = [r \in DOMAIN e |-> e[r]]
  BY WithDirsIs
<1>12. disk' = disk \/ disk' = e
  BY <1>1
<1>16. fits => disk' = e
  BY <1>1
<1> HIDE DEF e
<1>13. FilesTypes'
  <2>1. \A r \in DOMAIN disk : disk[r] \in FileSystem!Texts \cup {Dir}
    BY <1>3 DEF FilesTypes
  <2>2. \A r \in DOMAIN e : e[r] \in FileSystem!Texts \cup {Dir}
    BY <1>11, <2>1
  <2>3. e \in [DOMAIN e -> FileSystem!Texts \cup {Dir}] /\ DOMAIN e \subseteq Workspace
    BY <1>2, <1>3, <1>11, <1>18, <2>2 DEF FilesTypes
  <2>4. disk' \in [DOMAIN disk' -> FileSystem!Texts \cup {Dir}] /\ DOMAIN disk' \subseteq Workspace
    BY <1>3, <1>12, <2>3 DEF FilesTypes
  <2>5. folders' \subseteq FileSystem!Paths
    BY <1>1, <1>2, <1>3 DEF FilesTypes
  <2> QED BY <1>1, <1>3, <1>4, <1>9, <2>4, <2>5 DEF FilesTypes
<1>14. ASSUME ~differs PROVE Grown(disk') /\ Alike(disk', texts', folders')
  <2>1. CASE ~fits
    <3>1. disk' = disk /\ folders' = folders /\ texts' = texts
      BY <1>1, <1>8, <1>14, <2>1
    <3> QED BY <1>3, <3>1
  <2>2. CASE fits
    <3>1. disk' = e /\ folders' = folders \cup {q} /\ texts' = texts /\ q \notin DOMAIN texts
      BY <1>1, <1>8, <1>14, <1>16, <2>2 DEF takes
    <3>2. /\ DOMAIN disk' = DOMAIN disk \cup {q}
          /\ \A r \in DOMAIN disk : disk'[r] = disk[r]
          /\ disk'[q] = Dir
      <4>1. DOMAIN disk' = DOMAIN disk \cup {q} /\ \A r \in DOMAIN disk : disk'[r] = disk[r]
        BY <1>7, <1>11, <1>14, <1>17, <1>18, <3>1
      <4>2. q \in DOMAIN disk => disk[q] = Dir
        BY <1>3, <3>1 DEF Alike
      <4> QED BY <1>11, <1>14, <1>17, <1>18, <3>1, <4>1, <4>2
    <3>3. Grown(disk')
      <4>1. ASSUME NEW r \in DOMAIN disk', NEW t \in FileSystem!Parents(r) PROVE t \in DOMAIN disk /\ disk[t] = Dir
        <5>1. CASE r = q
          BY <1>7, <1>14, <4>1, <5>1
        <5>2. CASE r # q
          BY <1>3, <3>2, <4>1, <5>2 DEF Grown
        <5> QED BY <5>1, <5>2
      <4>2. <<>> \notin DOMAIN disk'
        BY <1>3, <1>14, <1>17, <3>2 DEF Grown
      <4> QED BY <3>2, <4>1, <4>2 DEF Grown
    <3>4. Alike(disk', texts', folders')
      <4>1. /\ DOMAIN texts = {r \in DOMAIN disk' : disk'[r] # Dir}
            /\ \A r \in DOMAIN texts : texts[r] = disk'[r]
        BY <1>3, <3>1, <3>2 DEF Alike
      <4>2. folders' \subseteq {r \in DOMAIN disk' : disk'[r] = Dir}
        BY <1>3, <3>1, <3>2 DEF Alike
      <4>3. \A r \in DOMAIN disk' : \/ r \in DOMAIN texts' \cup folders'
                                    \/ \E t \in DOMAIN texts' : FileSystem!IsStrictPrefix(r, t)
        BY <1>3, <3>1, <3>2 DEF Alike
      <4> QED BY <3>1, <4>1, <4>2, <4>3 DEF Alike
    <3> QED BY <3>3, <3>4
  <2> QED BY <2>1, <2>2
<1> QED BY <1>9, <1>10, <1>13, <1>14 DEF FilesInv

LEMMA DeleteIs ==
  ASSUME FileSystem!FileSystemAssumption, FilesInv, ~apart, NEW p \in SpelledPaths, FileSystem!Delete(p)
  PROVE  FilesInv'
<1> DEFINE q == FileSystem!Normal(p)
           bare(r) == r \notin folders /\ FileSystem!Below(r, DOMAIN texts) \subseteq {q}
           fits == ~FileSystem!Escapes(p) /\ (FileSystem!DiskHas(p) => FileSystem!Below(q, DOMAIN disk) = {})
           takes == q \in folders \ DOMAIN texts => FileSystem!Empty(q)
           differs == \/ FileSystem!Escapes(p) \/ (q = <<>> /\ DOMAIN disk # {})
                      \/ (q \notin folders /\ FileSystem!ImplicitDir(q))
                      \/ q \in DOMAIN texts /\ \E r \in FileSystem!Parents(q) : bare(r)
           a == FileSystem!Try(fits, {})
           b == FileSystem!Try(takes, {})
<1>1. /\ disk' = IF fits THEN FileSystem!Without(disk, q) ELSE disk
      /\ texts' = FileSystem!Without(texts, q)
      /\ folders' = IF takes /\ q \notin DOMAIN texts THEN folders \ {q} ELSE folders
      /\ FileSystem!Answer(a, b, differs)
  BY DEF FileSystem!Delete
<1>2. q \in FileSystem!Paths /\ q \in Routes
  BY PathsAre
<1>3. FilesTypes /\ Grown(disk) /\ Alike(disk, texts, folders) /\ DOMAIN disk \subseteq Routes
  BY PathsAre DEF FilesInv, FilesTypes
<1>4. differs \in BOOLEAN /\ a.ok \in BOOLEAN /\ b.ok \in BOOLEAN
  BY TryIs DEF FileSystem!Escapes
<1>5. q # <<>> => (FileSystem!ImplicitDir(q) <=> \E r \in DOMAIN texts : FileSystem!IsStrictPrefix(q, r))
  BY DEF FileSystem!ImplicitDir, FileSystem!Under, FileSystem!Below
\* The root is deleted alike when there is nothing in it.
<1>18. ~differs /\ q = <<>> => DOMAIN disk = {} /\ DOMAIN texts = {} /\ folders = {}
  BY <1>3 DEF Alike
<1>6. ASSUME ~differs
      PROVE  /\ ~FileSystem!Escapes(p) /\ ((\E r \in DOMAIN texts : FileSystem!IsStrictPrefix(q, r)) => q \in folders)
             /\ q \in DOMAIN texts => \A r \in FileSystem!Parents(q) :
                  r \in folders \/ \E t \in DOMAIN texts : FileSystem!IsStrictPrefix(r, t) /\ t # q
  <2>1. ~FileSystem!Escapes(p) /\ ((\E r \in DOMAIN texts : FileSystem!IsStrictPrefix(q, r)) => q \in folders)
    BY <1>5, <1>6, <1>18
  <2>2. q \in DOMAIN texts => \A r \in FileSystem!Parents(q) :
          r \in folders \/ \E t \in DOMAIN texts : FileSystem!IsStrictPrefix(r, t) /\ t # q
    BY <1>6 DEF FileSystem!Below
  <2> QED BY <2>1, <2>2
<1>7. /\ fits <=> ~FileSystem!Escapes(p) /\ (q = <<>> \/ q \in DOMAIN disk =>
                                               \A r \in DOMAIN disk : ~FileSystem!IsStrictPrefix(q, r))
      /\ q # <<>> => (takes <=> (q \in folders \ DOMAIN texts =>
                      \A r \in DOMAIN texts \cup folders : ~FileSystem!IsStrictPrefix(q, r)))
  BY DEF FileSystem!DiskHas, FileSystem!Empty, FileSystem!Under, FileSystem!Below
<1>19. q = <<>> /\ q \notin folders => takes
  OBVIOUS
<1> HIDE DEF q, fits, takes, differs, a, b
<1>10. DOMAIN texts \cup folders \subseteq DOMAIN disk /\ \A r \in folders : r \notin DOMAIN texts
  BY <1>3 DEF Alike
\* Nothing on the disk is below a file.
<1>8. ASSUME q \in DOMAIN texts, NEW r \in DOMAIN disk PROVE ~FileSystem!IsStrictPrefix(q, r)
  <2> SUFFICES ASSUME FileSystem!IsStrictPrefix(q, r) PROVE FALSE
    OBVIOUS
  <2>1. q \in FileSystem!Parents(r)
    BY <1>2, <1>3, <1>8, <1>10, ParentsAre DEF Routes, Grown
  <2>2. disk[q] = Dir
    BY <1>3, <2>1 DEF Grown
  <2> QED BY <1>3, <1>8, <2>2 DEF Alike
\* What is below is above a file or noted.
<1>9. ASSUME NEW r \in DOMAIN disk, FileSystem!IsStrictPrefix(q, r)
      PROVE  \E t \in DOMAIN texts \cup folders : FileSystem!IsStrictPrefix(q, t)
  <2>1. CASE r \in DOMAIN texts \cup folders
    BY <1>9, <2>1
  <2>2. ASSUME NEW t \in DOMAIN texts, FileSystem!IsStrictPrefix(r, t) PROVE FileSystem!IsStrictPrefix(q, t)
    <3>1. r \in Routes /\ t \in Routes
      BY <1>3 DEF Alike
    <3> QED BY <1>2, <1>9, <2>2, <3>1, PrefixesOfPrefixes DEF Routes
  <2> QED BY <1>3, <2>1, <2>2 DEF Alike
<1>11. ASSUME ~differs PROVE fits <=> takes
  <2>4. q \in DOMAIN disk => q # <<>>
    BY <1>3 DEF Grown
  <2>1. CASE q \in DOMAIN texts
    BY <1>6, <1>7, <1>8, <1>10, <1>11, <2>1, <2>4
  <2>2. CASE q \notin DOMAIN disk /\ q # <<>>
    BY <1>6, <1>7, <1>10, <1>11, <2>2
  <2>5. CASE q = <<>>
    BY <1>6, <1>7, <1>11, <1>18, <1>19, <2>5
  <2>3. CASE q \in DOMAIN disk /\ q \notin DOMAIN texts
    <3>1. q \in folders
      BY <1>3, <1>6, <1>11, <2>3 DEF Alike
    <3>2. fits => takes
      BY <1>7, <1>10, <2>3, <2>4
    <3>3. takes => fits
      BY <1>6, <1>7, <1>9, <1>11, <2>3, <2>4, <3>1
    <3> QED BY <3>2, <3>3
  <2> QED BY <2>1, <2>2, <2>3, <2>5
<1>12. /\ apart' = differs /\ answers'[1].ok \in BOOLEAN /\ answers'[2].ok \in BOOLEAN
       /\ answers'[1] = a /\ answers'[2] = b
  BY <1>1, <1>4, AnswersAre
<1>13. ~differs => a = b
  <2>1. (fits <=> takes) => a = b
    BY DEF a, b, FileSystem!Try
  <2> QED BY <1>11, <2>1
<1>14. /\ DOMAIN texts' = DOMAIN texts \ {q} /\ (\A r \in DOMAIN texts' : texts'[r] = texts[r])
       /\ texts' = [r \in DOMAIN texts' |-> texts'[r]]
  BY <1>1 DEF FileSystem!Without
<1>15. /\ fits => DOMAIN disk' = DOMAIN disk \ {q}
       /\ ~fits => disk' = disk
       /\ \A r \in DOMAIN disk' : r \in DOMAIN disk /\ disk'[r] = disk[r]
       /\ fits => disk' = [r \in DOMAIN disk' |-> disk'[r]]
  BY <1>1 DEF FileSystem!Without
<1>16. FilesTypes'
  <2>1. texts' \in [DOMAIN texts' -> FileSystem!Texts] /\ DOMAIN texts' \subseteq FileSystem!Paths
    BY <1>3, <1>14 DEF FilesTypes
  <2>2. disk' \in [DOMAIN disk' -> FileSystem!Texts \cup {Dir}] /\ DOMAIN disk' \subseteq Workspace
    <3>1. CASE fits
      BY <1>3, <1>15, <3>1 DEF FilesTypes
    <3>2. CASE ~fits
      BY <1>3, <1>15, <3>2 DEF FilesTypes
    <3> QED BY <3>1, <3>2
  <2>3. folders' \subseteq FileSystem!Paths
    BY <1>1, <1>3 DEF FilesTypes
  <2> QED BY <1>4, <1>12, <2>1, <2>2, <2>3 DEF FilesTypes
<1>17. ASSUME ~differs PROVE Grown(disk') /\ Alike(disk', texts', folders')
  <2>1. CASE ~fits
    <3>1. disk' = disk /\ folders' = folders
      BY <1>1, <1>11, <1>15, <1>17, <2>1
    <3>2. q \notin DOMAIN texts
      BY <1>6, <1>7, <1>8, <1>17, <2>1
    <3>3. DOMAIN texts' = DOMAIN texts /\ \A r \in DOMAIN texts : texts'[r] = texts[r]
      BY <1>14, <3>2
    <3> QED BY <1>3, <3>1, <3>3 DEF Alike
  <2>2. CASE fits
    <3>1. takes /\ DOMAIN disk' = DOMAIN disk \ {q}
      BY <1>11, <1>15, <1>17, <2>2
    <3>2. q \in DOMAIN disk => \A r \in DOMAIN disk : ~FileSystem!IsStrictPrefix(q, r)
      BY <1>7, <2>2
    <3>3. folders' = folders \ {q}
      BY <1>1, <1>10, <3>1
    <3>4. Grown(disk')
      <4>1. ASSUME NEW r \in DOMAIN disk', NEW t \in FileSystem!Parents(r) PROVE t \in DOMAIN disk' /\ disk'[t] = Dir
        <5>1. r \in DOMAIN disk /\ r \in Routes
          BY <1>3, <1>15
        <5>2. t \in DOMAIN disk /\ disk[t] = Dir /\ FileSystem!IsStrictPrefix(t, r)
          BY <1>3, <4>1, <5>1, AboveIs DEF Grown
        <5>3. t # q
          BY <3>2, <5>1, <5>2
        <5> QED BY <1>15, <3>1, <5>2, <5>3
      <4>2. <<>> \notin DOMAIN disk'
        BY <1>3, <3>1 DEF Grown
      <4> QED BY <4>1, <4>2 DEF Grown
    <3>5. Alike(disk', texts', folders')
      <4>1. /\ DOMAIN texts' = {r \in DOMAIN disk' : disk'[r] # Dir}
            /\ \A r \in DOMAIN texts' : texts'[r] = disk'[r]
        BY <1>3, <1>14, <1>15, <3>1 DEF Alike
      <4>2. folders' \subseteq {r \in DOMAIN disk' : disk'[r] = Dir}
        BY <1>3, <1>15, <3>1, <3>3 DEF Alike
      <4>3. ASSUME NEW r \in DOMAIN disk'
            PROVE  r \in DOMAIN texts' \cup folders' \/ \E t \in DOMAIN texts' : FileSystem!IsStrictPrefix(r, t)
        <5>1. r \in DOMAIN disk /\ r # q /\ r \in Routes
          BY <1>3, <3>1, <4>3
        <5>2. CASE r \in DOMAIN texts \cup folders
          BY <1>14, <3>3, <5>1, <5>2
        <5>3. ASSUME NEW t \in DOMAIN texts, FileSystem!IsStrictPrefix(r, t), r \notin DOMAIN texts \cup folders
              PROVE  \E u \in DOMAIN texts' : FileSystem!IsStrictPrefix(r, u)
          <6>1. CASE t # q
            BY <1>14, <5>3, <6>1
          <6>2. CASE t = q
            <7>1. r # <<>> => r \in FileSystem!Parents(q)
              BY <1>2, <5>1, <5>3, <6>2, ParentsAre DEF Routes
            <7>2. r # <<>>
              BY <1>3, <5>1 DEF Grown
            <7>3. \E u \in DOMAIN texts : FileSystem!IsStrictPrefix(r, u) /\ u # q
              BY <1>6, <1>17, <5>3, <6>2, <7>1, <7>2
            <7> QED BY <1>14, <7>3
          <6> QED BY <6>1, <6>2
        <5> QED BY <1>3, <5>1, <5>2, <5>3 DEF Alike
      <4> QED BY <4>1, <4>2, <4>3 DEF Alike
    <3> QED BY <3>4, <3>5
  <2> QED BY <2>1, <2>2
<1> QED BY <1>12, <1>13, <1>16, <1>17 DEF FilesInv

LEMMA FilesInit == ASSUME FileSystem!FileSystemAssumption, FileSystem!Init PROVE FilesInv
<1>1. PICK text \in FileSystem!Texts, q \in FileSystem!Paths :
        /\ texts = [r \in FileSystem!Whole(q) |-> text]
        /\ disk = [r \in FileSystem!Whole(q) \cup FileSystem!Parents(q) |-> IF r = q THEN text ELSE Dir]
  BY DEF FileSystem!Init
<1>2. folders = {} /\ answers = <<FileSystem!Done({}), FileSystem!Done({})>> /\ apart = FALSE
  BY DEF FileSystem!Init
<1>3. q \in Routes /\ q \in Workspace /\ FileSystem!Parents(q) \subseteq Workspace /\ text # Dir
  BY PathsAre
<1>4. /\ q \notin FileSystem!Parents(q)
      /\ \A r \in FileSystem!Parents(q) : r # <<>> /\ FileSystem!IsStrictPrefix(r, q) /\ FileSystem!Parents(r) \subseteq FileSystem!Parents(q)
  BY <1>3, AboveIs
<1>5. FileSystem!Whole(q) \subseteq {q} /\ (q # <<>> => FileSystem!Whole(q) = {q}) /\ (q = <<>> => FileSystem!Whole(q) = {})
  BY DEF FileSystem!Whole
<1>6. q = <<>> => FileSystem!Parents(q) = {}
  <2>1. \A r \in FileSystem!Parents(<<>>) : FALSE
    BY DEF FileSystem!Parents
  <2> QED BY <2>1
<1>7. /\ DOMAIN texts = FileSystem!Whole(q) /\ \A r \in FileSystem!Whole(q) : texts[r] = text /\ disk[r] = text
      /\ DOMAIN disk = FileSystem!Whole(q) \cup FileSystem!Parents(q) /\ \A r \in FileSystem!Parents(q) : disk[r] = Dir
  BY <1>1, <1>4, <1>5
<1>8. FilesTypes
  <2>1. disk \in [DOMAIN disk -> FileSystem!Texts \cup {Dir}] /\ texts \in [DOMAIN texts -> FileSystem!Texts]
    BY <1>1
  <2>2. answers[1].ok \in BOOLEAN /\ answers[2].ok \in BOOLEAN
    BY <1>2, TryIs
  <2> QED BY <1>2, <1>3, <1>5, <1>7, <2>1, <2>2 DEF FilesTypes
<1>9. Grown(disk)
  BY <1>4, <1>5, <1>7 DEF Grown
<1>10. Alike(disk, texts, folders)
  <2>1. DOMAIN texts = {r \in DOMAIN disk : disk[r] # Dir}
    BY <1>3, <1>7
  <2>2. \A r \in DOMAIN disk : r \in DOMAIN texts \/ \E t \in DOMAIN texts : FileSystem!IsStrictPrefix(r, t)
    BY <1>4, <1>5, <1>6, <1>7
  <2> QED BY <1>2, <1>7, <2>1, <2>2 DEF Alike
<1> QED BY <1>2, <1>8, <1>9, <1>10 DEF FilesInv

LEMMA FilesStep == ASSUME FileSystem!FileSystemAssumption, FilesInv, [FileSystem!Next]_FileSystem!vars PROVE FilesInv'
<1>1. CASE UNCHANGED FileSystem!vars
  BY <1>1 DEF FileSystem!vars, FilesInv, FilesTypes
<1>2. ASSUME ~apart, NEW p \in SpelledPaths, FileSystem!Change(p) PROVE FilesInv'
  <2>1. ASSUME NEW text \in FileSystem!Texts, FileSystem!Write(p, text) PROVE FilesInv'
    BY <1>2, <2>1, WriteIs
  <2>2. ASSUME NEW mode \in {"first", "only", "all"}, NEW old \in Lines, NEW new \in Lines,
               FileSystem!Edit(p, mode, old, new)
        PROVE  FilesInv'
    BY <1>2, <2>2, EditIs
  <2>3. ASSUME NEW existOk \in BOOLEAN, FileSystem!Mkdir(p, existOk) PROVE FilesInv'
    BY <1>2, <2>3, MkdirIs
  <2>4. CASE FileSystem!Delete(p)
    BY <1>2, <2>4, DeleteIs
  <2> QED BY <1>2, <2>1, <2>2, <2>3, <2>4 DEF FileSystem!Change
<1>3. ASSUME ~apart, NEW p \in SpelledPaths, FileSystem!Look(p) PROVE FilesInv'
  <2>1. CASE FileSystem!Ls(p)
    BY <1>3, <2>1, LsIs
  <2>2. ASSUME NEW offset, NEW limit, FileSystem!Read(p, offset, limit) PROVE FilesInv'
    BY <1>3, <2>2, ReadIs
  <2>3. ASSUME NEW names, NEW given, FileSystem!Glob(p, given, names) PROVE FilesInv'
    BY <1>3, <2>3, GlobIs
  <2>4. ASSUME NEW names, NEW line, FileSystem!Grep(p, names, line) PROVE FilesInv'
    BY <1>3, <2>4, GrepIs
  <2>5. ASSUME NEW given, NEW line, FileSystem!Search(p, given, line) PROVE FilesInv'
    BY <1>3, <2>5, SearchIs
  <2> QED BY <1>3, <2>1, <2>2, <2>3, <2>4, <2>5 DEF FileSystem!Look
<1> QED BY <1>1, <1>2, <1>3 DEF FileSystem!Next

LEMMA FilesAgree == ASSUME FilesInv PROVE FileSystem!BackendsAgree
<1> SUFFICES ASSUME ~apart PROVE FileSystem!BackendsAgree
  BY DEF FileSystem!BackendsAgree
<1>1. answers[1] = answers[2] /\ FilesTypes /\ Alike(disk, texts, folders)
  BY DEF FilesInv
<1>2. texts = [q \in {q \in DOMAIN disk : disk[q] # Dir} |-> disk[q]]
  <2>1. texts = [q \in DOMAIN texts |-> texts[q]]
    BY <1>1 DEF FilesTypes
  <2>2. /\ DOMAIN texts = {q \in DOMAIN disk : disk[q] # Dir}
        /\ \A q \in DOMAIN texts : texts[q] = disk[q]
    BY <1>1 DEF Alike
  <2> QED BY <2>1, <2>2
<1>3. \A q \in DOMAIN disk : FileSystem!Present(q)
  <2>1. \A q \in DOMAIN disk : \/ q \in DOMAIN texts \cup folders
                               \/ \E r \in DOMAIN texts : FileSystem!IsStrictPrefix(q, r)
    BY <1>1 DEF Alike
  <2> QED BY <2>1 DEF FileSystem!Present, FileSystem!ImplicitDir, FileSystem!Under, FileSystem!Below
<1>4. folders \subseteq {q \in DOMAIN disk : disk[q] = Dir}
  BY <1>1 DEF Alike
<1> QED BY <1>1, <1>2, <1>3, <1>4 DEF FileSystem!BackendsAgree

LEMMA FilesTyped == ASSUME FilesInv PROVE FileSystem!TypeOK
BY DEF FilesInv, FilesTypes, FileSystem!TypeOK, Workspace

LEMMA FileSystemLift == MCSpec => FileSystem!Spec
<1>1. MCInit => FileSystem!Init
  BY DEF MCInit
<1>2. [MCNext]_allVars => [FileSystem!Next]_FileSystem!vars
  BY DEF MCNext, SessionsNext, ArtifactsNext, MemoryNext, McpNext, AttestationNext, ComposerNext,
         FileSystemNext, IdentityNext, allVars, filesystemVars, FileSystem!vars
<1> QED BY <1>1, <1>2, PTL DEF MCSpec, FileSystem!Spec

\* filesystem/memory.py: after any calls without one of the named differences
\* the dictionary holds the tree of the disk, and both answered the last call
\* alike; for any paths, texts and lengths.
THEOREM BackendsStayAlike == MCSpec => []BackendsAgree
<1>0. FileSystem!FileSystemAssumption
  BY ServicesAssumption
<1>1. FileSystem!Init => FilesInv
  BY <1>0, FilesInit
<1>2. FilesInv /\ [FileSystem!Next]_FileSystem!vars => FilesInv'
  BY <1>0, FilesStep
<1>3. FilesInv => BackendsAgree
  BY <1>0, FilesAgree DEF BackendsAgree
<1> QED BY <1>1, <1>2, <1>3, FileSystemLift, PTL DEF FileSystem!Spec

(***************************************************************************)
(* The types of all services.                                              *)
(***************************************************************************)

LEMMA SessionsTyped == MCSpec => []Sessions!TypeOK
<1>0. Sessions!SessionsAssumption
  BY ServicesAssumption
<1>1. Sessions!Init => SessionInv
  BY <1>0, SessionsInit
<1>2. SessionInv /\ [Sessions!Next]_Sessions!vars => SessionInv'
  BY <1>0, SessionsStep
<1>3. SessionInv => Sessions!TypeOK
  BY DEF SessionInv
<1> QED BY <1>1, <1>2, <1>3, SessionsLift, PTL DEF Sessions!Spec

LEMMA ArtifactsTyped == MCSpec => []Artifacts!TypeOK
<1>0. Artifacts!ArtifactsAssumption
  BY ServicesAssumption
<1>1. Artifacts!Init => ArtifactInv
  BY <1>0, ArtifactsInit
<1>2. ArtifactInv /\ [Artifacts!Next]_Artifacts!vars => ArtifactInv'
  BY <1>0, ArtifactsStep
<1>3. ArtifactInv => Artifacts!TypeOK
  BY DEF ArtifactInv
<1> QED BY <1>1, <1>2, <1>3, ArtifactsLift, PTL DEF Artifacts!Spec

LEMMA MemoryTyped == MCSpec => []Memory!TypeOK
<1>0. Memory!FileMemoryAssumption
  BY ServicesAssumption
<1>1. Memory!Init => MemoryInv
  BY <1>0, MemoryInit
<1>2. MemoryInv /\ [Memory!Next]_Memory!vars => MemoryInv'
  BY <1>0, MemoryStep
<1>3. MemoryInv => Memory!TypeOK
  BY DEF MemoryInv
<1> QED BY <1>1, <1>2, <1>3, MemoryLift, PTL DEF Memory!Spec

LEMMA AttestationTyped == MCSpec => []Attestation!TypeOK
<1>0. Attestation!AttestationAssumption
  BY ServicesAssumption
<1>1. Attestation!Init => AttestationInv
  BY <1>0, AttestationInit
<1>2. AttestationInv /\ [Attestation!Next]_Attestation!vars => AttestationInv'
  BY <1>0, AttestationStep
<1>3. AttestationInv => Attestation!TypeOK
  BY DEF AttestationInv
<1> QED BY <1>1, <1>2, <1>3, AttestationLift, PTL DEF Attestation!Spec

LEMMA ComposerTyped == MCSpec => []Composer!TypeOK
<1>0. Composer!ComposerAssumption
  BY ServicesAssumption
<1>1. Composer!Init => ComposerInv
  BY <1>0, ComposerInit
<1>2. ComposerInv /\ [Composer!Next]_Composer!vars => ComposerInv'
  BY <1>0, ComposerStep
<1>3. ComposerInv => Composer!TypeOK
  BY <1>0, BuildTyped
<1> QED BY <1>1, <1>2, <1>3, ComposerLift, PTL DEF Composer!Spec

LEMMA FileSystemTyped == MCSpec => []FileSystem!TypeOK
<1>0. FileSystem!FileSystemAssumption
  BY ServicesAssumption
<1>1. FileSystem!Init => FilesInv
  BY <1>0, FilesInit
<1>2. FilesInv /\ [FileSystem!Next]_FileSystem!vars => FilesInv'
  BY <1>0, FilesStep
<1>3. FilesInv => FileSystem!TypeOK
  BY <1>0, FilesTyped
<1> QED BY <1>1, <1>2, <1>3, FileSystemLift, PTL DEF FileSystem!Spec

LEMMA IdentityTyped == MCSpec => []Identity!TypeOK
<1>0. Identity!IdentityAssumption
  BY ServicesAssumption
<1>1. Identity!Init => IdentityInv
  BY <1>0, IdentityInit
<1>2. IdentityInv /\ [Identity!Next]_Identity!vars => IdentityInv'
  BY <1>0, IdentityStep
<1>3. IdentityInv => Identity!TypeOK
  BY DEF IdentityInv
<1> QED BY <1>1, <1>2, <1>3, IdentityLift, PTL DEF Identity!Spec

\* What each service keeps has its type, in every state of each.
THEOREM ServicesTypes == MCSpec => []MCTypeOK
<1>1. /\ Sessions!TypeOK /\ Artifacts!TypeOK /\ Memory!TypeOK /\ TypeOK
      /\ Attestation!TypeOK /\ Composer!TypeOK /\ FileSystem!TypeOK /\ Identity!TypeOK
      => MCTypeOK
  BY DEF MCTypeOK
<1> QED BY <1>1, SessionsTyped, ArtifactsTyped, MemoryTyped, McpTyped, AttestationTyped,
           ComposerTyped, FileSystemTyped, IdentityTyped, PTL

=============================================================================
