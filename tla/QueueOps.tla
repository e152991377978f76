------------------------------- MODULE QueueOps -------------------------------
(***************************************************************************)
(* Taking elements out of the middle of a queue, as a cancel, a deadline   *)
(* or a teardown does: the exporter moves what stays to a new deque, the   *)
(* Linux bridge erases from its own, the Windows driver unlinks the entry. *)
(* In all of them the rest keeps its order.                                *)
(*                                                                         *)
(* Without(s, X) is SelectSeq(s, LAMBDA x : x \notin X), written by the    *)
(* rank of the elements that stay rather than by recursion, so that        *)
(* Ops_proofs.tla can establish what the models need of it.                *)
(***************************************************************************)
EXTENDS Naturals, Sequences, FiniteSets

Elements(s) == {s[i] : i \in DOMAIN s}

\* The positions of s that survive, and how many of them come no later than i.
Kept(s, X) == {i \in DOMAIN s : s[i] \notin X}

Rank(s, X, i) == Cardinality({j \in Kept(s, X) : j <= i})

Without(s, X) ==
    [n \in 1..Cardinality(Kept(s, X)) |->
        s[CHOOSE i \in Kept(s, X) : Rank(s, X, i) = n]]

===============================================================================
