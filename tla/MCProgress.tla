----------------------------- MODULE MCProgress -----------------------------
(***************************************************************************)
(* What the begin blockers must bring to an end: survival rewards,         *)
(* injected facts, challenges of captured domains, attestations in flight, *)
(* unbondings, ceremonies, LIPs, seat elections and spends.                *)
(*                                                                         *)
(* The initial state picks one component; that component then runs alone,  *)
(* and the variables of the others are Off.  All share the block height.   *)
(***************************************************************************)
EXTENDS Integers, FiniteSets, TLC

CONSTANTS f1, f2, text1, g1, g2, d1, v1, v2, auth, s1, unsourced, w1, op1, holder, p1, cand, Void, Protocol, Nobody   \* model values

VARIABLES
    scenario, height, hold,
    stage, neutral, status, pending, index, schedules,                                      \* SurvivalEscrow
    injectStage, window, guardians, queue, vetoIndex, injected, announced, vetoed,          \* FactInjection
    ch, paused, pool, held, dev, penalty, raised, history, flag, gifts,                     \* CaptureChallenge
    scan, todo, armed, att, ref, kept, adapter, supply, escrow, coined, minters,            \* SubstrateBridge
    safe, vals, del, ub, bank, wallet, slashed, last,                                       \* Staking
    q, cer, attempt, budget, params, stake, gov,                                            \* Emergency
    lip, vote, meta, fund, pin, applied, creed, govParams, bonded,                          \* GovLIP
    phase, seats, terms, pair, el, cast, sp, cvote, balance                                 \* ResearchFund

survivalVars == <<stage, neutral, status, pending, index, schedules>>
injectionVars == <<injectStage, window, guardians, queue, vetoIndex, injected, announced, vetoed>>
captureVars == <<ch, paused, pool, held, dev, penalty, raised, history, flag, gifts>>
bridgeVars == <<scan, todo, armed, att, ref, kept, adapter, supply, escrow, coined, minters>>
stakingVars == <<safe, vals, del, ub, bank, wallet, slashed, last>>
emergencyVars == <<q, cer, attempt, budget, params, stake, gov>>
lipVars == <<lip, vote, meta, fund, pin, applied, creed, govParams, bonded>>
fundVars == <<phase, seats, terms, pair, el, cast, sp, cvote, balance>>
vars == <<scenario, height, hold, survivalVars, injectionVars, captureVars, bridgeVars, stakingVars,
          emergencyVars, lipVars, fundVars>>

-----------------------------------------------------------------------------
(* The components *)

\* A reward from before the upgrade and one after it, challenged again and again.
Survival == INSTANCE SurvivalEscrow WITH Facts <- {f1, f2}, Legacy <- {f1}, Window <- 2, MaxHeight <- 4

Injection == INSTANCE FactInjection WITH
    Contents <- {text1}, Guardians <- {g1}, Windows <- {0, 1, 2}, LastProposal <- 2, MaxHeight <- 4,
    stage <- injectStage, index <- vetoIndex, status <- injected

Capture == INSTANCE CaptureChallenge WITH
    Challengers <- {auth}, Domains <- {d1}, Validators <- {v1, v2}, Accusations <- {{v1}}, Panels <- {{v1}, {v1, v2}},
    Stakes <- {3}, MinStake <- 2, Gifts <- {2}, Outcomes <- {"upheld", "rejected"}, BPSScale <- 1000, RewardRate <- 500,
    Threshold <- 600, EvidencePeriod <- 1, ReviewPeriod <- 2, Pause <- 1, PenaltyBlocks <- 3, Intervals <- {2},
    MaxChallenges <- 2, MaxGifts <- 0, MaxRounds <- 1, MaxHeight <- 7

OneAdapter == s1 :> w1 @@ unsourced :> w1
Bridge == INSTANCE SubstrateBridge WITH
    MaxSupply <- 20, Last <- 2, Legacy <- 1, Sources <- {s1}, Unsourced <- unsourced, Adapters <- {w1}, AdapterOf <- OneAdapter,
    Bond <- 2, Base <- 2, Weight <- 10000, WitnessReward <- 1, MaxClaims <- 2, Threshold <- 5000, MinRatio <- 1000,
    MaxPendingWindow <- 2, ChallengeWindow <- 2, Supplies <- {12}, OtherMints <- {}, Faults <- FALSE, HeldRewards <- TRUE,
    LastSubmit <- 2, MaxHeight <- 5, stage <- scan, pending <- kept

Ask(stakeAsked, verifications, accuracy) ==
    [stake |-> stakeAsked, verifications |-> verifications, accuracy |-> accuracy]
LowBars == <<Ask(1, 1, 8), Ask(2, 1, 5), Ask(3, 2, 8)>>
NoVeteran == <<>>
Stakes == INSTANCE Staking WITH
    Accounts <- {op1, holder}, Operators <- {op1}, Wealth <- 2, Established <- NoVeteran, Profiles <- {TRUE}, Amounts <- {1},
    Rates <- {5}, Scale <- 10, Escalation <- 5, MaxPerEpoch <- 2, MaxSlashes <- 3, EpochLength <- 2, MinSelf <- 1,
    MaxValidators <- 1, NewcomerVerifications <- 2, Tiers <- LowBars, MinContested <- 1, Multiplier <- 3, WindowEpochs <- 1,
    UnbondingPeriod <- 2, Cooldown <- 2, MaxUnbondings <- 2, MaxVerifications <- 0, MaxHeight <- 5

Timing == [halt |-> [prevote |-> 1, precommit |-> 1, timeout |-> 2],
           resume |-> [prevote |-> 1, precommit |-> 1, timeout |-> 2]]
Ceremony == {[quorum |-> [halt |-> 750000, resume |-> 800000], timing |-> Timing, distinct |-> 2, minStake |-> 3,
              perGuardian |-> 1, perEpoch |-> 3, cooldown |-> 1, maxHalt |-> 2, council |-> {}, virtual |-> 1, expiry |-> 0]}
Equal == {(g1 :> 2 @@ g2 :> 2)}
Ceremonies == INSTANCE Emergency WITH
    Guardians <- {g1, g2}, StakeViews <- Equal, ParamSets <- Ceremony, Starts <- {"normal"}, Manifests <- {"m1"},
    PlanHeights <- {5}, Actions <- {}, EpochBlocks <- 3, MaxCeremonies <- 3, MaxProposals <- 0, MaxHeight <- 7

Cfg(s, r) == [stake |-> s, review |-> r]
Table == ("text" :> Cfg(2, 1)) @@ ("creed_amendment" :> Cfg(2, 1))
LipParams == {[minStake |-> 1, minVote |-> 0, quorum |-> 334000, support |-> 500000, discussion |-> 1, voting |-> 2, category |-> Table]}
Single == {(v1 :> 1)}
Calm == [quarantine |-> FALSE, failing |-> 0, anchored |-> TRUE, met |-> TRUE, degraded |-> FALSE]
Halting == {Calm, [Calm EXCEPT !.quarantine = TRUE]}
Lips == INSTANCE GovLIP WITH
    Proposers <- {p1}, Voters <- {v1}, Categories <- {"text", "creed_amendment"}, Weights <- Single, Amounts <- {2}, Bodies <- {"b1"},
    ParamSets <- LipParams, ActivationDelay <- 1, Cooldown <- 3, LastPhase <- 4, FirstPhases <- {1}, Surroundings <- Halting,
    MaxLips <- 2, MaxStake <- 4, SubmitUntil <- 2, MaxHeight <- 8, params <- govParams

OneVote == v1 :> 1
Fund == INSTANCE ResearchFund WITH
    Pairs <- {<<f1, f2>>}, Candidates <- {cand}, Voters <- {v1}, Bonded <- OneVote, Options <- {"yes"},
    Quorum <- 334000, Support <- 500000, RunoffMargin <- 50000, AcceptBlocks <- 1, SeatDiscussion <- 1, SeatVoting <- 1,
    SeatTerm <- 3, Stagger <- 1, SpendDiscussion <- 1, SpendVoting <- 2, Amounts <- {2}, InitialBalance <- 3,
    FirstPhases <- {1, 2}, Moves <- {"none", "advance"}, Holds <- FALSE, MaxNominations <- 1, MaxSpends <- 2, OpenUntil <- 1, MaxHeight <- 9

ASSUME Survival!LegacyAssumption /\ Survival!BoundsAssumption
ASSUME Injection!WindowsAssumption /\ Injection!HeightsAssumption /\ Injection!GuardiansAssumption
ASSUME Capture!PeriodsAssumption /\ Bridge!MaxSupplyAssumption /\ Bridge!BridgeAssumption
ASSUME Stakes!StakingAssumption /\ Ceremonies!ParamsAssumption

-----------------------------------------------------------------------------
(* One component at a time *)

Off == "off"
SurvivalOff == stage = Off /\ neutral = Off /\ status = Off /\ pending = Off /\ index = Off /\ schedules = Off
InjectionOff == /\ injectStage = Off /\ window = Off /\ guardians = Off /\ queue = Off /\ vetoIndex = Off
                /\ injected = Off /\ announced = Off /\ vetoed = Off
CaptureOff == /\ ch = Off /\ paused = Off /\ pool = Off /\ held = Off /\ dev = Off /\ penalty = Off
              /\ raised = Off /\ history = Off /\ flag = Off /\ gifts = Off
BridgeOff == /\ scan = Off /\ todo = Off /\ armed = Off /\ att = Off /\ ref = Off /\ kept = Off /\ adapter = Off
             /\ supply = Off /\ escrow = Off /\ coined = Off /\ minters = Off
StakingOff == /\ safe = Off /\ vals = Off /\ del = Off /\ ub = Off /\ bank = Off /\ wallet = Off /\ slashed = Off /\ last = Off
EmergencyOff == q = Off /\ cer = Off /\ attempt = Off /\ budget = Off /\ params = Off /\ stake = Off /\ gov = Off
LipOff == /\ lip = Off /\ vote = Off /\ meta = Off /\ fund = Off /\ pin = Off
          /\ applied = Off /\ creed = Off /\ govParams = Off /\ bonded = Off
FundOff == /\ phase = Off /\ seats = Off /\ terms = Off /\ pair = Off /\ el = Off
           /\ cast = Off /\ sp = Off /\ cvote = Off /\ balance = Off

\* Init and Next of a scenario: the component runs, the others stay off.
Idle(component) ==
    /\ component # "survival" => SurvivalOff
    /\ component # "injection" => InjectionOff
    /\ component # "capture" => CaptureOff
    /\ component # "bridge" => BridgeOff
    /\ component # "stakes" => StakingOff
    /\ component # "ceremonies" => EmergencyOff
    /\ component # "lips" => LipOff
    /\ component # "fund" => FundOff
    /\ component \notin {"ceremonies", "lips", "fund"} => hold = Off
Only(component) ==
    /\ UNCHANGED scenario
    /\ component # "survival" => UNCHANGED survivalVars
    /\ component # "injection" => UNCHANGED injectionVars
    /\ component # "capture" => UNCHANGED captureVars
    /\ component # "bridge" => UNCHANGED bridgeVars
    /\ component # "stakes" => UNCHANGED stakingVars
    /\ component # "ceremonies" => UNCHANGED emergencyVars
    /\ component # "lips" => UNCHANGED lipVars
    /\ component # "fund" => UNCHANGED fundVars
    /\ component \notin {"ceremonies", "lips", "fund"} => UNCHANGED hold

At(s) == scenario = s

Init ==
    \/ At("survival") /\ Survival!Init /\ Idle("survival")
    \/ At("injection") /\ Injection!Init /\ Idle("injection")
    \/ At("capture") /\ Capture!Init /\ Idle("capture")
    \/ At("bridge") /\ Bridge!Init /\ Idle("bridge")
    \/ At("stakes") /\ Stakes!Init /\ Idle("stakes")
    \/ At("ceremonies") /\ Ceremonies!Init /\ Idle("ceremonies")
    \/ At("lips") /\ Lips!Init /\ Idle("lips")
    \/ At("fund") /\ Fund!Init /\ Idle("fund")

Next ==
    \/ At("survival") /\ Survival!Next /\ Only("survival")
    \/ At("injection") /\ Injection!Next /\ Only("injection")
    \/ At("capture") /\ Capture!Next /\ Only("capture")
    \/ At("bridge") /\ Bridge!Next /\ Only("bridge")
    \/ At("stakes") /\ Stakes!Next /\ Only("stakes")
    \/ At("ceremonies") /\ Ceremonies!Next /\ Only("ceremonies")
    \/ At("lips") /\ Lips!Next /\ Only("lips")
    \/ At("fund") /\ Fund!Next /\ Only("fund")

\* Blocks keep coming and a begin blocker runs to its end.  Verdicts on
\* challenges are given (ReviewRound!EveryClaimDecided), and x/vesting_rewards
\* does not refuse the hand-off of one reward for ever.
Blocks ==
    /\ WF_<<height, stage>>(At("survival") /\ (Survival!Migrate6to7 \/ Survival!Block))
    /\ WF_<<height, injectStage>>(At("injection") /\ (Injection!MaterializeMaturedFactInjections \/ Injection!NextBlock))
    /\ WF_<<height, scan, todo>>(At("bridge") /\ (Bridge!NextBlock \/ Bridge!BeginBlock))
    /\ WF_height(At("capture") /\ Capture!BlockPasses)
    /\ WF_height(At("stakes") /\ Stakes!BlockPasses)
    /\ WF_height(At("ceremonies") /\ Ceremonies!BlockPasses)
    /\ WF_height(At("lips") /\ Lips!BlockPasses)
    /\ WF_height(At("fund") /\ Fund!BlockPasses)
Verdicts ==
    \A f \in {f1, f2} : /\ SF_<<height, survivalVars>>(At("survival") /\ Survival!VerdictOf(f))
                        /\ SF_<<height, survivalVars>>(At("survival") /\ Survival!SweepResolves(f))

Spec == Init /\ [][Next]_vars /\ Blocks /\ Verdicts

-----------------------------------------------------------------------------
(* Property *)

\* What waits comes to an end, whatever interferes: a pending survival reward
\* is handed off or cancelled even if its fact is challenged in every block,
\* an injected fact is vetoed or materialised, a challenge of a domain is
\* resolved or expires, an attestation in flight on an armed chain settles or
\* times out, a due unbonding is paid, a ceremony ends, a LIP is decided or
\* withdrawn unless a review hold freezes governance, and nominations and
\* spends of the research fund are decided.
EverythingEnds ==
    <>[](/\ At("survival") => Survival!PendingResolved
         /\ At("injection") => Injection!ProposalsEnd
         /\ At("capture") => Capture!ChallengesEnd
         /\ At("bridge") => Bridge!FlightEnds
         /\ At("stakes") => Stakes!UnbondingsPaid
         /\ At("ceremonies") => Ceremonies!CeremoniesEnd
         /\ At("lips") => Lips!LipsEnd
         /\ At("fund") => Fund!ElectionsEnd /\ Fund!SpendsEnd)

=============================================================================
