------------------------------ MODULE PoolMath ------------------------------
(***************************************************************************)
(* The integer arithmetic of the constant-product pools of                 *)
(* x/liquiditypool (amm.go): every division rounds in favour of the pool.  *)
(***************************************************************************)
EXTENDS Integers

CONSTANT BpsBasis   \* the scale of fees, 1,000,000 in the code
BasisAssumption == BpsBasis \in Nat \ {0}

\* Slip: a quote that forgets the input in its denominator.
SwapOutputNoImpact(rIn, rOut, tokenIn, fee) == (rOut * tokenIn * (BpsBasis - fee)) \div (rIn * BpsBasis)

(* CalculateSwapOutput: what a swap of tokenIn gives, after the fee. *)
CalculateSwapOutput(rIn, rOut, tokenIn, fee) ==
    (rOut * tokenIn * (BpsBasis - fee)) \div (rIn * BpsBasis + tokenIn * (BpsBasis - fee))

(* The integer square root that sizes the shares of a first deposit. *)
Sqrt(n) == CHOOSE r \in 0..n : r * r <= n /\ n < (r + 1) * (r + 1)

(* CalculateLPTokensForDeposit: the scarcer side decides the shares. *)
CalculateLPTokens(rA, rB, a, b, supply) ==
    IF supply = 0 THEN Sqrt(a * b)
    ELSE IF a * rB <= b * rA THEN (supply * a) \div rA ELSE (supply * b) \div rB

ceilDiv(n, d) == (n + d - 1) \div d

(* CalculateDepositForShares: shares for the offered amounts, and the      *)
(* assets these shares cost, rounded up; no shares when either is zero or  *)
(* more than offered.                                                      *)
CalculateDepositForShares(rA, rB, a, b, supply) ==
    LET lp == CalculateLPTokens(rA, rB, a, b, supply)
        actualA == ceilDiv(lp * rA, supply)
        actualB == ceilDiv(lp * rB, supply)
    IN IF lp > 0 /\ actualA \in 1..a /\ actualB \in 1..b
       THEN [a |-> actualA, b |-> actualB, lp |-> lp]
       ELSE [a |-> 0, b |-> 0, lp |-> 0]

(* CalculateWithdrawalAmounts, one side of it. *)
Withdrawn(reserve, lp, supply) == (reserve * lp) \div supply

=============================================================================
