---------------------------- MODULE SequenceParts ----------------------------
(***************************************************************************)
(* Parts of a sequence, by the set of their positions.  SelectSeq takes a  *)
(* predicate, which no prover reasons about; a set of positions serves as  *)
(* well, and says where in the sequence the parts were.                    *)
(***************************************************************************)
EXTENDS Integers, Sequences, FiniteSets

\* A set of positions, in order: the k-th has k - 1 others before it.
Ordered(I) ==
    [k \in 1..Cardinality(I) |-> CHOOSE i \in I : Cardinality({j \in I : j < i}) = k - 1]

\* What stands in s at the positions I, in order
Kept(s, I) == LET at == Ordered(I) IN [k \in DOMAIN at |-> s[at[k]]]
=============================================================================
