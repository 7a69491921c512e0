--------------------------- MODULE MCFactContest ---------------------------
(* Instances of FactContest for TLC. *)
EXTENDS FactContest, TLC

CONSTANTS g1, g2

\* Genesis fact g2 rests on genesis fact g1.
OneDependency == [g \in Genesis |-> IF g = g2 THEN {g1} ELSE {}]

\* Identifiers that are not genesis facts, and texts, are interchangeable.
Symmetry == Permutations(Ids \ Genesis) \cup Permutations(Texts)

=============================================================================
