----------------------------- MODULE SupplyCap -----------------------------
(***************************************************************************)
(* MintWithCap of x/vesting_rewards, the one entry point through which the *)
(* other modules mint: a request is clipped to what the bank supply leaves *)
(* of the cap, so burned coins can be minted again.                        *)
(***************************************************************************)
EXTENDS Integers

CONSTANT MaxSupply
MaxSupplyAssumption == MaxSupply \in Nat

\* What is really minted of a request.
MintWithCap(supply, amount) ==
    IF supply >= MaxSupply THEN 0
    ELSE IF amount > MaxSupply - supply THEN MaxSupply - supply ELSE amount

=============================================================================
