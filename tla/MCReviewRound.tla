--------------------------- MODULE MCReviewRound ---------------------------
(* Instances of ReviewRound for TLC. *)
EXTENDS ReviewRound

\* Counting coins adds up: the totals of ReviewRound are sums.
ASSUME \A f \in [1..3 -> 0..3] : Total(f) = MapThenSumSet(LAMBDA x : f[x], DOMAIN f)

\* Accounts are interchangeable: no definition orders or names them.
AccountSymmetry == Permutations(Accounts)

=============================================================================
