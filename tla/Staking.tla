------------------------------ MODULE Staking ------------------------------
(***************************************************************************)
(* x/staking (zerone_staking): validators with tiers, delegations and      *)
(* unbondings held in one module account.  The module runs in one of two   *)
(* profiles: the legacy handlers, and from the accounting upgrade on the   *)
(* safe ones, which check the claims they touch, refuse to slash pooled    *)
(* coins and pay all mature unbondings together.                           *)
(***************************************************************************)
EXTENDS Integers, Sequences, FiniteSetsExt, TLC

CONSTANTS Accounts,
          Operators,        \* accounts that may run a validator
          Wealth,           \* coins of an account at the start
          Established,      \* validators of genesis: their track record
          Profiles,         \* profiles to start in: {TRUE} safe, {FALSE} legacy
          Amounts,
          Rates,            \* slashes the knowledge module asks for, of Scale
          Scale, Escalation, MaxPerEpoch, MaxSlashes, EpochLength,
          MinSelf, MaxValidators, NewcomerVerifications,
          Tiers,            \* <<verified, scholar, guardian>>: stake, verifications, accuracy asked for
          MinContested, Multiplier, WindowEpochs,
          UnbondingPeriod, Cooldown,
          MaxUnbondings, MaxVerifications, MaxHeight \* bounds

StakingAssumption ==
    /\ Operators \subseteq Accounts /\ DOMAIN Established \subseteq Operators
    /\ {Scale, EpochLength, UnbondingPeriod, MaxSlashes} \subseteq Nat \ {0} /\ Cooldown \in Nat

VARIABLES safe,   \* the accounting profile is on
          vals,   \* validators by operator
          del,    \* delegation of <<account, operator>>, 0 if there is none
          ub,     \* unbondings in the order of their sequence numbers
          bank,   \* coins of the module account
          wallet, \* coins of the accounts
          slashed, \* coins slashes sent away
          last,   \* block of the last redelegation of an account, 0 if none
          height
vars == <<safe, vals, del, ub, bank, wallet, slashed, last, height>>
coins == <<bank, wallet, slashed>>

Sum(S, f(_)) == MapThenSumSet(f, S)
Lesser(m, n) == IF m < n THEN m ELSE n
Positive(n) == IF n > 0 THEN n ELSE 0
Pending == {n \in DOMAIN ub : ~ub[n].paid}

-----------------------------------------------------------------------------
(* Tiers: 0 apprentice, 1 verified, 2 scholar, 3 guardian.                 *)
Accuracy(v) == IF v.verifications > 0 THEN (v.correct * Scale) \div v.verifications ELSE 0
WindowedSlashes(v, h) ==
    IF WindowEpochs > 0 /\ v.lastSlash > 0 /\ h > v.lastSlash /\ h - v.lastSlash > EpochLength * WindowEpochs THEN 0 ELSE v.slashes
EffectiveVerifications(v) ==
    IF Multiplier <= 1 THEN v.verifications ELSE v.verifications - v.contested + v.contested * Multiplier

Meets(v, tier, verifications) ==
    v.self + v.delegated >= Tiers[tier].stake /\ verifications >= Tiers[tier].verifications /\ Accuracy(v) >= Tiers[tier].accuracy

ComputeValidatorTier(v, h) ==
    IF Meets(v, 3, EffectiveVerifications(v)) /\ WindowedSlashes(v, h) = 0 /\ v.contested >= MinContested THEN 3
    ELSE IF Meets(v, 2, v.verifications) THEN 2
    ELSE IF Meets(v, 1, v.verifications) THEN 1 ELSE 0

Retiered(v) == [v EXCEPT !.tier = ComputeValidatorTier(v, height)]

RecordVerification(v, correct, contested) ==
    /\ v \in DOMAIN vals /\ vals[v].verifications < MaxVerifications
    /\ vals' = [vals EXCEPT ![v] =
         Retiered([@ EXCEPT !.verifications = @ + 1, !.correct = IF correct THEN @ + 1 ELSE @,
                            !.contested = IF correct /\ contested THEN @ + 1 ELSE @])]
    /\ UNCHANGED <<safe, del, ub, coins, last, height>>

-----------------------------------------------------------------------------
(* Claims.                                                                 *)
OwnClaim(v) == del[<<v, v>>]
OtherClaims(v) == Sum(Accounts \ {v}, LAMBDA a : del[<<a, v>>])
(* checkedAccountingValidator: safe handlers refuse a validator whose aggregates disagree with its claims. *)
Reconciles(v) == safe => vals[v].self = OwnClaim(v) /\ vals[v].delegated = OtherClaims(v)

(* ValidateAccountingSafety. *)
Validated ==
    /\ \A v \in DOMAIN vals : vals[v].self = OwnClaim(v) /\ vals[v].delegated = OtherClaims(v)
    /\ bank = Sum(DOMAIN del, LAMBDA k : del[k]) + Sum(Pending, LAMBDA n : ub[n].amount)

(* Validator v after account a added delta to its delegation; the legacy handlers count the operator's own *)
(* delegation as delegated stake, and never below zero.                                                    *)
Moved(v, a, delta) ==
    Retiered(IF safe /\ a = v THEN [vals[v] EXCEPT !.self = @ + delta]
             ELSE [vals[v] EXCEPT !.delegated = Positive(@ + delta)])

UnbondingOfValidator(a, v, amount) == \* a slip of Unbonding
    [who |-> v, val |-> v, amount |-> amount, due |-> height + UnbondingPeriod, paid |-> FALSE]
Unbonding(a, v, amount) == [who |-> a, val |-> v, amount |-> amount, due |-> height + UnbondingPeriod, paid |-> FALSE]
Unbonded(a, v, amount) == Len(ub) < MaxUnbondings /\ ub' = Append(ub, Unbonding(a, v, amount))
Locked(a, amount) == \* coins move from the account to the module
    wallet[a] >= amount /\ wallet' = [wallet EXCEPT ![a] = @ - amount] /\ bank' = bank + amount /\ UNCHANGED slashed

Newcomer(amount) ==
    Retiered([self |-> amount, delegated |-> 0, tier |-> 0, active |-> TRUE, slashes |-> 0, epochSlashes |-> 0, lastSlash |-> 0,
              verifications |-> 0, correct |-> 0, contested |-> 0])
BlockProducers == {v \in DOMAIN vals : vals[v].active /\ vals[v].tier >= 2}

RegisterValidator(v, amount) ==
    /\ v \notin DOMAIN vals /\ amount >= MinSelf
    /\ safe => OwnClaim(v) = 0
    /\ Newcomer(amount).tier >= 2 => Cardinality(BlockProducers) < MaxValidators
    /\ Locked(v, amount)
    /\ vals' = (v :> Newcomer(amount)) @@ vals
    /\ del' = [del EXCEPT ![<<v, v>>] = amount]
    /\ UNCHANGED <<safe, ub, last, height>>

Delegate(a, v, amount) ==
    /\ v \in DOMAIN vals /\ vals[v].active /\ Reconciles(v)
    /\ Locked(a, amount)
    /\ del' = [del EXCEPT ![<<a, v>>] = @ + amount]
    /\ vals' = [vals EXCEPT ![v] = Moved(v, a, amount)]
    /\ UNCHANGED <<safe, ub, last, height>>

Undelegate(a, v, amount) ==
    /\ v \in DOMAIN vals /\ Reconciles(v) /\ del[<<a, v>>] >= amount
    /\ Unbonded(a, v, amount)
    /\ del' = [del EXCEPT ![<<a, v>>] = @ - amount]
    /\ vals' = [vals EXCEPT ![v] = Moved(v, a, -amount)]
    /\ UNCHANGED <<safe, coins, last, height>>

(* The legacy handler reads the destination before it writes the source: redelegating to the same *)
(* validator keeps only the second write.  The safe one refuses it.                                *)
Distinct(src, dst) == safe => src # dst
Redelegate(a, src, dst, amount) ==
    /\ {src, dst} \subseteq DOMAIN vals /\ Distinct(src, dst) /\ vals[dst].active
    /\ Reconciles(src) /\ Reconciles(dst)
    /\ last[a] = 0 \/ height - last[a] >= Cooldown
    /\ del[<<a, src>>] >= amount
    /\ del' = [del EXCEPT ![<<a, src>>] = @ - amount, ![<<a, dst>>] = @ + amount]
    /\ vals' = [vals EXCEPT ![src] = Moved(src, a, -amount), ![dst] = Moved(dst, a, amount)]
    /\ last' = [last EXCEPT ![a] = height]
    /\ UNCHANGED <<safe, ub, coins, height>>

IncreaseStake(v, amount) ==
    /\ v \in DOMAIN vals /\ Reconciles(v)
    /\ Locked(v, amount)
    /\ del' = [del EXCEPT ![<<v, v>>] = @ + amount]
    /\ vals' = [vals EXCEPT ![v] = Retiered([@ EXCEPT !.self = @ + amount])]
    /\ UNCHANGED <<safe, ub, last, height>>

(* The legacy handler compares the aggregate with the amount, the safe one the claim; the legacy one *)
(* looks at the tier before the change, the safe one after it.                                       *)
Withdrawable(v) == IF safe THEN OwnClaim(v) ELSE vals[v].self
DecreaseStake(v, amount) ==
    /\ v \in DOMAIN vals /\ Reconciles(v) /\ Withdrawable(v) >= amount
    /\ Unbonded(v, v, amount)
    /\ del' = [del EXCEPT ![<<v, v>>] = Positive(@ - amount)]
    /\ LET after == Retiered([vals[v] EXCEPT !.self = @ - amount])
           tier == IF safe THEN after.tier ELSE vals[v].tier
           leaves == after.self = 0 /\ tier = 0 /\ vals[v].verifications < NewcomerVerifications
       IN vals' = [vals EXCEPT ![v] = [after EXCEPT !.active = @ /\ ~leaves]]
    /\ UNCHANGED <<safe, coins, last, height>>

-----------------------------------------------------------------------------
(* Slashes.  The knowledge module asks for a share of the total stake;     *)
(* repeated slashes weigh more, own stake is taken before delegated stake, *)
(* delegations and unbondings keep their amounts.                          *)
SlashAsked(v, rate) == ((vals[v].self + vals[v].delegated) * rate) \div Scale
Escalated(v, rate) == (SlashAsked(v, rate) * (Scale + vals[v].slashes * Escalation)) \div Scale
Taken(v, rate) == Lesser(Escalated(v, rate), vals[v].self + vals[v].delegated)

Slashable == ~safe
SlashValidator(v, rate) ==
    /\ Slashable /\ v \in DOMAIN vals
    /\ SlashAsked(v, rate) > 0
    /\ MaxPerEpoch > 0 => vals[v].epochSlashes < MaxPerEpoch
    /\ bank >= Taken(v, rate)
    /\ bank' = bank - Taken(v, rate) /\ slashed' = slashed + Taken(v, rate)
    /\ LET own == vals[v].self
           n == vals[v].slashes + 1
           cut == [vals[v] EXCEPT !.self = Positive(@ - Taken(v, rate)), !.delegated = @ - Positive(Taken(v, rate) - own),
                                  !.slashes = n, !.epochSlashes = @ + 1, !.lastSlash = height, !.active = @ /\ n < MaxSlashes]
       IN vals' = [vals EXCEPT ![v] = Retiered(cut)]
    /\ UNCHANGED <<safe, del, ub, wallet, last, height>>

-----------------------------------------------------------------------------
(* EnableAccountingSafety, at the upgrade. *)
EnableAccountingSafety ==
    /\ ~safe /\ Validated /\ safe' = TRUE
    /\ UNCHANGED <<vals, del, ub, coins, last, height>>

(* At the end of an epoch a validator that was not slashed in it loses one slash. *)
Decayed(v) == [v EXCEPT !.slashes = IF v.epochSlashes = 0 /\ @ > 0 THEN @ - 1 ELSE @, !.epochSlashes = 0]
Mature(h) == {n \in Pending : ub[n].due <= h}
(* Legacy payouts go out one by one while the account can pay; the safe ones all together or none. *)
Payable(h) ==
    IF safe THEN {IF Validated THEN Mature(h) ELSE {}}
    ELSE {S \in SUBSET Mature(h) :
            /\ Sum(S, LAMBDA n : ub[n].amount) <= bank
            /\ \A m \in Mature(h) \ S : Sum(S, LAMBDA n : ub[n].amount) + ub[m].amount > bank}

NextBlock ==
    /\ height < MaxHeight
    /\ height' = height + 1
    /\ vals' = [v \in DOMAIN vals |-> IF (height + 1) % EpochLength = 0 THEN Decayed(Retiered(vals[v])) ELSE Retiered(vals[v])]
    /\ \E S \in Payable(height + 1) :
         /\ ub' = [n \in DOMAIN ub |-> [ub[n] EXCEPT !.paid = @ \/ n \in S]]
         /\ bank' = bank - Sum(S, LAMBDA n : ub[n].amount)
         /\ wallet' = [a \in Accounts |-> wallet[a] + Sum({n \in S : ub[n].who = a}, LAMBDA n : ub[n].amount)]
    /\ UNCHANGED <<safe, del, slashed, last>>

Init ==
    /\ height = 1 /\ ub = <<>> /\ slashed = 0 /\ last = [a \in Accounts |-> 0]
    /\ safe \in Profiles
    /\ vals = [v \in DOMAIN Established |-> Retiered([self |-> Established[v].self, delegated |-> 0, tier |-> 0, active |-> TRUE,
                 slashes |-> 0, epochSlashes |-> 0, lastSlash |-> 0, verifications |-> Established[v].verifications,
                 correct |-> Established[v].correct, contested |-> Established[v].contested])]
    /\ del = [k \in Accounts \X Operators |->
                IF k[1] = k[2] /\ k[1] \in DOMAIN Established THEN Established[k[1]].self ELSE 0]
    /\ bank = Sum(DOMAIN Established, LAMBDA v : Established[v].self)
    /\ wallet = [a \in Accounts |-> IF a \in DOMAIN Established THEN Wealth - Established[a].self ELSE Wealth]

Next ==
    \/ \E v \in Operators, amount \in Amounts :
         RegisterValidator(v, amount) \/ IncreaseStake(v, amount) \/ DecreaseStake(v, amount)
    \/ \E a \in Accounts, v \in Operators, amount \in Amounts : Delegate(a, v, amount) \/ Undelegate(a, v, amount)
    \/ \E a \in Accounts, src \in Operators, dst \in Operators, amount \in Amounts : Redelegate(a, src, dst, amount)
    \/ \E v \in Operators, correct \in BOOLEAN, contested \in BOOLEAN : RecordVerification(v, correct, contested)
    \/ \E v \in Operators, rate \in Rates : SlashValidator(v, rate)
    \/ EnableAccountingSafety
    \/ NextBlock

Spec == Init /\ [][Next]_vars
BlockPasses == height < MaxHeight /\ height' = height + 1

-----------------------------------------------------------------------------
(* Properties.                                                             *)
TypeOK ==
    /\ safe \in BOOLEAN /\ bank \in Nat /\ wallet \in [Accounts -> Nat] /\ del \in [Accounts \X Operators -> Nat]
    /\ \A v \in DOMAIN vals : {vals[v].self, vals[v].delegated, vals[v].slashes} \subseteq Nat /\ vals[v].tier \in 0..3

Claims(a) ==
    Sum(Operators, LAMBDA v : del[<<a, v>>]) + Sum({n \in DOMAIN ub : ub[n].who = a /\ ~ub[n].paid}, LAMBDA n : ub[n].amount)

(* docs/specs/accounting-authority-v1.md: from the upgrade on the account holds exactly what delegations and *)
(* pending unbondings claim, and the two aggregates of a validator are the claims on it.                     *)
CustodyExact ==
    safe => /\ bank = Sum(Accounts, LAMBDA a : Claims(a))
            /\ \A v \in DOMAIN vals : /\ vals[v].self = del[<<v, v>>]
                                      /\ vals[v].delegated = Sum(Accounts \ {v}, LAMBDA a : del[<<a, v>>])

(* From the upgrade on no step, of anyone, changes what an account owns in coins and claims together. *)
NobodyLoses == safe => \A a \in Accounts : (wallet[a] + Claims(a))' = wallet[a] + Claims(a)

(* A tier is never held beyond what the validator's stake, record and slashes give it: stale tiers are only too low. *)
TierEarned == \A v \in DOMAIN vals : vals[v].tier <= ComputeValidatorTier(vals[v], height)

(* The counter behind the cap holds exactly slashes of the running epoch, and never more than the cap. *)
SlashesCapped ==
    \A v \in DOMAIN vals :
        /\ vals[v].epochSlashes <= MaxPerEpoch
        /\ vals[v].epochSlashes > 0 => vals[v].lastSlash >= EpochLength * (height \div EpochLength)

(* docs/FAQ.md: "any slash event deactivates a Guardian validator". *)
GuardianSlashDeactivates ==
    \A v \in DOMAIN vals : vals[v].tier = 3 /\ vals'[v].slashes > vals[v].slashes => ~vals'[v].active

(* What fairness brings about: every unbonding is paid once it is due. *)
UnbondingsPaid == \A n \in DOMAIN ub : ub[n].due <= MaxHeight => ub[n].paid
=============================================================================
