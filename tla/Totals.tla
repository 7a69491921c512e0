------------------------------- MODULE Totals -------------------------------
(* Sums of natural-valued functions over finite sets, written without        *)
(* recursion: f[x] numbered coins lie on every x, and the total is how many  *)
(* coins there are.                                                          *)
EXTENDS Naturals, FiniteSets

Coins(f) == UNION {{x} \X (1 .. f[x]) : x \in DOMAIN f}

Total(f) == Cardinality(Coins(f))

=============================================================================
