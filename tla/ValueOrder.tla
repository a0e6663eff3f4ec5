----------------------------- MODULE ValueOrder -----------------------------
(***************************************************************************)
(* The order of abstract values, which are records [type, is]: is is a     *)
(* number, a sequence, or for a map the set of its <<key, value>> pairs.   *)
(***************************************************************************)
EXTENDS Integers, Sequences, FiniteSets, SequencesExt, FiniteSetsExt

CONSTANT Types           \* the types in their order

Rank(t) == CHOOSE i \in DOMAIN Types : Types[i] = t
ScalarTypes == {"Bool", "Void", "U32", "I32", "U64", "I64", "Timepoint", "Duration",
                "U128", "I128", "U256", "I256"}

\* The order of abstract values: by type, then as numbers or as sequences;
\* a map is the sequence of its pairs in key order.
RECURSIVE Precedes(_, _)
Lexicographic(Lt(_, _), a, b) ==
    \/ \E i \in 1..Min({Len(a), Len(b)}) : Lt(a[i], b[i]) /\ \A j \in 1..(i - 1) : a[j] = b[j]
    \/ Len(a) < Len(b) /\ \A i \in DOMAIN a : a[i] = b[i]
PairPrecedes(p, q) == Lexicographic(Precedes, p, q)
Precedes(x, y) ==
    IF x.type # y.type THEN Rank(x.type) < Rank(y.type)
    ELSE CASE x.type \in ScalarTypes -> x.is < y.is
           [] x.type = "Vec" -> Lexicographic(Precedes, x.is, y.is)
           [] x.type = "Map" -> Lexicographic(PairPrecedes, SetToSortSeq(x.is, PairPrecedes),
                                              SetToSortSeq(y.is, PairPrecedes))
           [] OTHER -> Lexicographic(<, x.is, y.is)
=============================================================================
