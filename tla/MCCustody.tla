----------------------------- MODULE MCCustody -----------------------------
(***************************************************************************)
(* Coins held for others: the liquidity pools, the stake of validators and *)
(* delegators, and the training fund, with the manifests that say what is  *)
(* trained on.                                                             *)
(*                                                                         *)
(* The initial state picks one component and one choice of its constants;  *)
(* that component then runs alone, and the variables of the others are     *)
(* Off. All share the block height.                                        *)
(***************************************************************************)
EXTENDS Integers, TLC

CONSTANTS u1, u2, d1, op1, op2, holder, sponsor, author, judge1, judge2, judge3, fact1, fact2, pipeline1   \* model values

VARIABLES
    scenario, height,
    pool, nextId, denomIdx, openIdx, custody, lp, acc, obs, gcQueue, params, version, disabled, closing,  \* LiquidityPool
    safe, vals, del, ub, bank, wallet, slashed, last,                                                     \* Staking
    bounty, locked, variant, challenge, fund, bonus, neutral, due, over, kept,                            \* TrainingFund
    corpus, attested, manifest, paused                                                                    \* TrainingManifest

poolVars == <<pool, nextId, denomIdx, openIdx, custody, lp, acc, obs, gcQueue, params, version, disabled, closing>>
stakingVars == <<safe, vals, del, ub, bank, wallet, slashed, last>>
fundVars == <<bounty, locked, variant, challenge, fund, bonus, neutral, due, over, kept>>
manifestVars == <<corpus, attested, manifest, paused>>
vars == <<scenario, height, poolVars, stakingVars, fundVars, manifestVars>>

-----------------------------------------------------------------------------
(* The components *)

PoolParams(w, m, a) ==
    [maxPools |-> 2, window |-> w, minReserve |-> m, minInitial |-> 2, fee |-> 100000, allowed |-> a, quotes |-> {d1}]
OneChoice == {PoolParams(2, 1, {d1})}
TwoChoices == {PoolParams(1, 1, {d1}), PoolParams(2, 1, {})}
LegacyPool(z, c, s) == [status |-> "UNSPECIFIED", denom |-> d1, z |-> z, c |-> c, fee |-> 0, supply |-> s]
SomeLegacy == {LegacyPool(4, 2, 3), LegacyPool(0, 0, 0), LegacyPool(2, 0, 1)}
OneLegacy == {LegacyPool(4, 2, 3)}

\* Two holders of one pool; two pools of one denom over a few blocks.
Shares == INSTANCE LiquidityPool WITH
    BpsBasis <- 1000000, Users <- {u1, u2}, Denoms <- {d1}, MaxRecords <- 1, MaxHeight <- 1, MaxReserve <- 10,
    Amounts <- {1, 2, 3, 5}, ParamChoices <- OneChoice, LegacyPools <- SomeLegacy,
    TwapScale <- 100, QuoteScale <- 100, GcDeletes <- 2
Prices == INSTANCE LiquidityPool WITH
    BpsBasis <- 1000000, Users <- {u1}, Denoms <- {d1}, MaxRecords <- 2, MaxHeight <- 3, MaxReserve <- 3,
    Amounts <- {2, 4}, ParamChoices <- TwoChoices, LegacyPools <- OneLegacy,
    TwapScale <- 100, QuoteScale <- 100, GcDeletes <- 1

Ask(stake, verifications, accuracy) == [stake |-> stake, verifications |-> verifications, accuracy |-> accuracy]
LowBars == <<Ask(1, 1, 8), Ask(2, 1, 5), Ask(3, 2, 8)>>
Nobody == <<>>
OneVeteran == op1 :> [self |-> 3, verifications |-> 2, correct |-> 2, contested |-> 1]

\* Two operators under the accounting profile; an upgrade into it after
\* legacy slashes; one validator's way through the tiers.
Profiled == INSTANCE Staking WITH
    Accounts <- {op1, op2}, Operators <- {op1, op2}, Wealth <- 2, Established <- Nobody, Profiles <- {TRUE}, Amounts <- {1},
    Rates <- {5}, Scale <- 10, Escalation <- 5, MaxPerEpoch <- 2, MaxSlashes <- 3, EpochLength <- 2, MinSelf <- 1,
    MaxValidators <- 1, NewcomerVerifications <- 2, Tiers <- LowBars, MinContested <- 1, Multiplier <- 3, WindowEpochs <- 1,
    UnbondingPeriod <- 2, Cooldown <- 2, MaxUnbondings <- 2, MaxVerifications <- 0, MaxHeight <- 4
Upgraded == INSTANCE Staking WITH
    Accounts <- {op1, holder}, Operators <- {op1}, Wealth <- 3, Established <- OneVeteran, Profiles <- {FALSE}, Amounts <- {1},
    Rates <- {5}, Scale <- 10, Escalation <- 5, MaxPerEpoch <- 2, MaxSlashes <- 3, EpochLength <- 2, MinSelf <- 1,
    MaxValidators <- 1, NewcomerVerifications <- 2, Tiers <- LowBars, MinContested <- 1, Multiplier <- 3, WindowEpochs <- 1,
    UnbondingPeriod <- 1, Cooldown <- 2, MaxUnbondings <- 2, MaxVerifications <- 2, MaxHeight <- 3
Tiered == INSTANCE Staking WITH
    Accounts <- {op1}, Operators <- {op1}, Wealth <- 4, Established <- OneVeteran, Profiles <- {FALSE}, Amounts <- {1},
    Rates <- {5}, Scale <- 10, Escalation <- 5, MaxPerEpoch <- 2, MaxSlashes <- 3, EpochLength <- 2, MinSelf <- 1,
    MaxValidators <- 1, NewcomerVerifications <- 2, Tiers <- LowBars, MinContested <- 1, Multiplier <- 3, WindowEpochs <- 1,
    UnbondingPeriod <- 1, Cooldown <- 2, MaxUnbondings <- 1, MaxVerifications <- 4, MaxHeight <- 5

Offer(reward, max, expires) == [reward |-> reward, max |-> max, expires |-> expires]
TwoOffers == {Offer(2, 1, 0), Offer(3, 2, 2)}
OneOffer == {Offer(3, 1, 2)}

\* Two bounties in one account while the bonus moves; with a bonded challenge
\* beside them; one ballot of three.
Fund == INSTANCE TrainingFund WITH
    Sponsors <- {sponsor}, Submitters <- {author}, Verifiers <- {judge1}, Offers <- TwoOffers, Weights <- {1},
    Verdicts <- {"equivalent", "superior"}, Bonuses <- {500000, 1000000}, Bonds <- {}, MinPanelVotes <- 1,
    ConsensusBps <- 666000, ExpiryFeeBps <- 300000, MaxBounties <- 2, MaxVariants <- 2, MaxChallenges <- 0, MaxHeight <- 2
Bonded == INSTANCE TrainingFund WITH
    Sponsors <- {sponsor}, Submitters <- {author}, Verifiers <- {judge1}, Offers <- TwoOffers, Weights <- {1},
    Verdicts <- {"equivalent", "superior"}, Bonuses <- {500000}, Bonds <- {1}, MinPanelVotes <- 1,
    ConsensusBps <- 666000, ExpiryFeeBps <- 300000, MaxBounties <- 2, MaxVariants <- 2, MaxChallenges <- 1, MaxHeight <- 2
Panel == INSTANCE TrainingFund WITH
    Sponsors <- {sponsor}, Submitters <- {author}, Verifiers <- {judge1, judge2, judge3}, Offers <- OneOffer,
    Weights <- {0, 1, 2}, Verdicts <- {"superior", "drift"}, Bonuses <- {500000}, Bonds <- {}, MinPanelVotes <- 2,
    ConsensusBps <- 666000, ExpiryFeeBps <- 300000, MaxBounties <- 1, MaxVariants <- 1, MaxChallenges <- 0, MaxHeight <- 2

\* Manifests of two facts within a block; of one fact over three blocks.
Composed == INSTANCE TrainingManifest WITH
    Facts <- {fact1, fact2}, Pipelines <- {pipeline1}, MaxDepth <- 3, MaxManifests <- 3, MaxHeight <- 1
Succession == INSTANCE TrainingManifest WITH
    Facts <- {fact1}, Pipelines <- {pipeline1}, MaxDepth <- 3, MaxManifests <- 3, MaxHeight <- 3

ASSUME Fund!FundAssumption /\ Bonded!FundAssumption /\ Panel!FundAssumption
ASSUME Composed!DepthAssumption /\ Succession!DepthAssumption
ASSUME Shares!BasisAssumption /\ Prices!BasisAssumption
ASSUME Profiled!StakingAssumption /\ Upgraded!StakingAssumption /\ Tiered!StakingAssumption

-----------------------------------------------------------------------------
(* One component at a time *)

Off == "off"
PoolOff == /\ pool = Off /\ nextId = Off /\ denomIdx = Off /\ openIdx = Off /\ custody = Off /\ lp = Off /\ acc = Off
           /\ obs = Off /\ gcQueue = Off /\ params = Off /\ version = Off /\ disabled = Off /\ closing = Off
StakingOff == /\ safe = Off /\ vals = Off /\ del = Off /\ ub = Off
              /\ bank = Off /\ wallet = Off /\ slashed = Off /\ last = Off

FundOff == /\ bounty = Off /\ locked = Off /\ variant = Off /\ challenge = Off /\ fund = Off
           /\ bonus = Off /\ neutral = Off /\ due = Off /\ over = Off /\ kept = Off
ManifestOff == corpus = Off /\ attested = Off /\ manifest = Off /\ paused = Off

At(s) == scenario = s

Init ==
    \/ At("shares") /\ Shares!Init /\ StakingOff /\ FundOff /\ ManifestOff
    \/ At("prices") /\ Prices!Init /\ StakingOff /\ FundOff /\ ManifestOff
    \/ At("profiled") /\ Profiled!Init /\ PoolOff /\ FundOff /\ ManifestOff
    \/ At("upgraded") /\ Upgraded!Init /\ PoolOff /\ FundOff /\ ManifestOff
    \/ At("tiered") /\ Tiered!Init /\ PoolOff /\ FundOff /\ ManifestOff
    \/ At("fund") /\ Fund!Init /\ PoolOff /\ StakingOff /\ ManifestOff
    \/ At("bonded") /\ Bonded!Init /\ PoolOff /\ StakingOff /\ ManifestOff
    \/ At("panel") /\ Panel!Init /\ PoolOff /\ StakingOff /\ ManifestOff
    \/ At("composed") /\ Composed!Init /\ PoolOff /\ StakingOff /\ FundOff
    \/ At("succession") /\ Succession!Init /\ PoolOff /\ StakingOff /\ FundOff

Next ==
    \/ At("shares") /\ Shares!Next /\ UNCHANGED <<scenario, stakingVars, fundVars, manifestVars>>
    \/ At("prices") /\ Prices!Next /\ UNCHANGED <<scenario, stakingVars, fundVars, manifestVars>>
    \/ At("profiled") /\ Profiled!Next /\ UNCHANGED <<scenario, poolVars, fundVars, manifestVars>>
    \/ At("upgraded") /\ Upgraded!Next /\ UNCHANGED <<scenario, poolVars, fundVars, manifestVars>>
    \/ At("tiered") /\ Tiered!Next /\ UNCHANGED <<scenario, poolVars, fundVars, manifestVars>>
    \/ At("fund") /\ Fund!Next /\ UNCHANGED <<scenario, poolVars, stakingVars, manifestVars>>
    \/ At("bonded") /\ Bonded!Next /\ UNCHANGED <<scenario, poolVars, stakingVars, manifestVars>>
    \/ At("panel") /\ Panel!Next /\ UNCHANGED <<scenario, poolVars, stakingVars, manifestVars>>
    \/ At("composed") /\ Composed!Next /\ UNCHANGED <<scenario, poolVars, stakingVars, fundVars>>
    \/ At("succession") /\ Succession!Next /\ UNCHANGED <<scenario, poolVars, stakingVars, fundVars>>

Spec == Init /\ [][Next]_vars

-----------------------------------------------------------------------------
(* Properties *)

\* Liquidity pools: the module account covers all reserves, no step of anybody
\* lowers the value of a share, and whoever holds shares worth a coin of each
\* side can leave in any status of the pool; the indexes name exactly the open
\* pools, price histories are complete and cleaned up, and the oracle's answer
\* lies between the lowest and the highest closing price of its window.
SharesKeepTheirValue ==
    /\ [](At("shares") => Shares!TypeOK /\ Shares!Solvent /\ Shares!ExitOpen)
    /\ [](At("prices") => Prices!IndexExact /\ Prices!HistoryClean /\ Prices!OracleHonest)
    /\ [][At("shares") => Shares!ShareValueKept]_vars

\* Staking: under the accounting profile, and from an upgrade into it on, the
\* module account is exactly what delegations and unbondings claim, and no step
\* changes what anybody owns in coins and claims together; slashes stay within
\* the cap of their epoch, and a stale tier is only ever too low.
StakeNeverLost ==
    /\ [](At("profiled") => Profiled!TypeOK /\ Profiled!CustodyExact)
    /\ [](At("upgraded") => Upgraded!CustodyExact /\ Upgraded!SlashesCapped)
    /\ [](At("tiered") => Tiered!TierEarned)
    /\ [][At("profiled") => Profiled!NobodyLoses]_vars
    /\ [][At("upgraded") => Upgraded!NobodyLoses]_vars

\* Training: the fund is exactly what bounties have locked and challenges have
\* bonded, less what went out beyond an escrow, and that happens only after a
\* veto, an expiry or a raised bonus; a bounty pays each of its places once, on
\* the verdict of the first votes that agree. A manifest's root commits to all
\* of its ancestors, its bundle holds all its selector found, and after each
\* block one manifest of a pipeline is current.
TrainingStaysAccounted ==
    /\ At("fund") => Fund!TypeOK /\ Fund!FundAccounted /\ Fund!ShortfallExplained /\ Fund!PlacesPaidOnce
    /\ At("bonded") => Bonded!FundAccounted /\ Bonded!ShortfallExplained /\ Bonded!PlacesPaidOnce
    /\ At("panel") => Panel!FundAccounted /\ Panel!ShortfallExplained /\ Panel!VerdictAtFirstConsensus
    /\ At("composed") => Composed!TypeOK /\ Composed!RootsCommitToAncestors /\ Composed!BundleCoversSelection
    /\ At("succession") => /\ Succession!RootsCommitToAncestors /\ Succession!OneCurrentManifest
                           /\ Succession!LaterAttestationAtOnce

=============================================================================
