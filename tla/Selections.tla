----------------------------- MODULE Selections -----------------------------
(***************************************************************************)
(* The members of a sequence that belong to a set, in their order: what    *)
(* SelectSeq gives, defined by the positions they stand at, so that it can *)
(* be reasoned about.                                                      *)
(***************************************************************************)
EXTENDS Naturals, Sequences, FiniteSets

\* Number i of the numbers in S.
Rank(S, k) == Cardinality({j \in S : j <= k})
Nth(S, i) == CHOOSE k \in S : Rank(S, k) = i

Places(s, S) == {k \in DOMAIN s : s[k] \in S}

\* The numbers of a finite set, in their order.
InOrder(S) == [i \in 1..Cardinality(S) |-> Nth(S, i)]

Select(s, S) == [i \in 1..Cardinality(Places(s, S)) |-> s[Nth(Places(s, S), i)]]
=============================================================================
