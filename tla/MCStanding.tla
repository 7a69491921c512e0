----------------------------- MODULE MCStanding -----------------------------
(***************************************************************************)
(* What hangs on the standing of facts and of their reviewers: survival    *)
(* rewards, injected facts and their vetoes, sponsored bounties,           *)
(* qualifications of validators, and challenges of captured domains.       *)
(*                                                                         *)
(* The initial state picks one component and one choice of its constants;  *)
(* that component then runs alone, and the variables of the others are     *)
(* Off.  All share the block height.                                       *)
(***************************************************************************)
EXTENDS Integers, FiniteSets, TLC

CONSTANTS f1, f2, f3, x, g1, g2, s1, s2, e1, e2, d1, d2, v1, v2, auth, Void, Protocol   \* model values

VARIABLES
    scenario, height,
    stage, neutral, status, pending, index, schedules,                                 \* SurvivalEscrow
    injectStage, window, guardians, queue, vetoIndex, injected, announced, vetoed,     \* FactInjection
    order, fulfilled, counter, escrow, coins, earned, fact,                            \* Sponsorship
    quals, endorsed, nextId, reviewNeutral, purse, pot,                                \* Qualification
    ch, paused, pool, held, dev, penalty, raised, history, flag, gifts                 \* CaptureChallenge

survivalVars == <<stage, neutral, status, pending, index, schedules>>
injectionVars == <<injectStage, window, guardians, queue, vetoIndex, injected, announced, vetoed>>
bountyVars == <<order, fulfilled, counter, escrow, coins, earned, fact>>
qualificationVars == <<quals, endorsed, nextId, reviewNeutral, purse, pot>>
captureVars == <<ch, paused, pool, held, dev, penalty, raised, history, flag, gifts>>
vars == <<scenario, height, survivalVars, injectionVars, bountyVars, qualificationVars, captureVars>>

-----------------------------------------------------------------------------
(* The components *)

TwoOffers == {[price |-> 1, target |-> 2, duration |-> 2], [price |-> 2, target |-> 1, duration |-> 3]}
Near == d1 :> 0 @@ d2 :> 2
Far == d1 :> 0 @@ d2 :> 4

Survival == INSTANCE SurvivalEscrow WITH
    Facts <- {f1, f2, f3}, Legacy <- {f1, f2}, Window <- 2, MaxHeight <- 4

Injection == INSTANCE FactInjection WITH
    Contents <- {x}, Guardians <- {g1, g2}, Windows <- {0, 1, 3}, LastProposal <- 2, MaxHeight <- 5,
    stage <- injectStage, index <- vetoIndex, status <- injected

Bounties == INSTANCE Sponsorship WITH
    Sponsors <- {s1, s2}, Facts <- {f1, f2}, Domains <- {e1, e2}, Offers <- TwoOffers,
    MinTargetCount <- 1, MinDurationBlocks <- 2, MaxActiveBountiesPerSponsor <- 1, Funds <- 3,
    MaxOrders <- 2, MaxHeight <- 4

\* One validator in two nested domains, and two who endorse each other.
Records == INSTANCE Qualification WITH
    Validators <- {v1}, Domains <- {d1, d2}, Nested <- {}, Depth <- Near,
    Stakes <- {2}, Purse <- 4, MinStake <- 2, StakeWeight <- 50, StakeLockPeriod <- 2,
    MinVerifications <- 3, MinAccuracy <- 800, QualificationPeriod <- 4, ProbationPeriod <- 3, RenewalWindow <- 2,
    MaxEndorsements <- 1, MaxOverlap <- 600, CrossRefMinWeight <- 30, CrossRefDiscount <- 200, InheritanceDiscount <- 300,
    DecayInterval <- 2, DecayMinSamples <- 2, DecayProbation <- 600, DecaySuspension <- 400, DecayRecovery <- 750,
    Scale <- 1000, MaxHeight <- 5, MaxVerdicts <- 2, MaxIds <- 0, neutral <- reviewNeutral
Endorsements == INSTANCE Qualification WITH
    Validators <- {v1, v2}, Domains <- {d1, d2}, Nested <- {}, Depth <- Far,
    Stakes <- {2}, Purse <- 2, MinStake <- 2, StakeWeight <- 50, StakeLockPeriod <- 1,
    MinVerifications <- 3, MinAccuracy <- 800, QualificationPeriod <- 2, ProbationPeriod <- 1, RenewalWindow <- 1,
    MaxEndorsements <- 2, MaxOverlap <- 600, CrossRefMinWeight <- 60, CrossRefDiscount <- 200, InheritanceDiscount <- 300,
    DecayInterval <- 2, DecayMinSamples <- 1, DecayProbation <- 600, DecaySuspension <- 400, DecayRecovery <- 750,
    Scale <- 1000, MaxHeight <- 4, MaxVerdicts <- 0, MaxIds <- 2, neutral <- reviewNeutral

\* Money in two domains; many challenges of one domain; automatic challenges.
Funds == INSTANCE CaptureChallenge WITH
    Challengers <- {auth}, Domains <- {d1, d2}, Validators <- {v1, v2}, Accusations <- {{v1}}, Panels <- {},
    Stakes <- {2, 3}, MinStake <- 2, Gifts <- {2}, Outcomes <- {"upheld", "partial"}, BPSScale <- 1000, RewardRate <- 500,
    Threshold <- 600, EvidencePeriod <- 1, ReviewPeriod <- 2, Pause <- 1, PenaltyBlocks <- 3, Intervals <- {2},
    MaxChallenges <- 2, MaxGifts <- 2, MaxRounds <- 1, MaxHeight <- 6
Verdicts == INSTANCE CaptureChallenge WITH
    Challengers <- {auth}, Domains <- {d1}, Validators <- {v1, v2}, Accusations <- {{v1}, {v2}}, Panels <- {},
    Stakes <- {3}, MinStake <- 2, Gifts <- {2}, Outcomes <- {"upheld", "rejected", "partial"}, BPSScale <- 1000, RewardRate <- 500,
    Threshold <- 600, EvidencePeriod <- 1, ReviewPeriod <- 3, Pause <- 2, PenaltyBlocks <- 3, Intervals <- {2},
    MaxChallenges <- 3, MaxGifts <- 0, MaxRounds <- 1, MaxHeight <- 7
Detection == INSTANCE CaptureChallenge WITH
    Challengers <- {auth}, Domains <- {d1}, Validators <- {v1, v2}, Accusations <- {{v1}}, Panels <- {{v1}, {v1, v2}},
    Stakes <- {3}, MinStake <- 2, Gifts <- {2}, Outcomes <- {"upheld", "rejected"}, BPSScale <- 1000, RewardRate <- 500,
    Threshold <- 600, EvidencePeriod <- 1, ReviewPeriod <- 2, Pause <- 1, PenaltyBlocks <- 3, Intervals <- {1, 2},
    MaxChallenges <- 2, MaxGifts <- 0, MaxRounds <- 2, MaxHeight <- 7

ASSUME Survival!LegacyAssumption /\ Survival!BoundsAssumption
ASSUME Injection!WindowsAssumption /\ Injection!HeightsAssumption /\ Injection!GuardiansAssumption
ASSUME Bounties!OffersAssumption
ASSUME Records!QualificationAssumption /\ Endorsements!QualificationAssumption
ASSUME Funds!PeriodsAssumption /\ Verdicts!PeriodsAssumption /\ Detection!PeriodsAssumption
ASSUME Funds!ChallengesAssumption /\ Verdicts!ChallengesAssumption /\ Detection!ChallengesAssumption

-----------------------------------------------------------------------------
(* One component at a time *)

Off == "off"
SurvivalOff == stage = Off /\ neutral = Off /\ status = Off /\ pending = Off /\ index = Off /\ schedules = Off
InjectionOff == /\ injectStage = Off /\ window = Off /\ guardians = Off /\ queue = Off /\ vetoIndex = Off
                /\ injected = Off /\ announced = Off /\ vetoed = Off
BountiesOff == /\ order = Off /\ fulfilled = Off /\ counter = Off /\ escrow = Off /\ coins = Off
               /\ earned = Off /\ fact = Off
QualificationOff == quals = Off /\ endorsed = Off /\ nextId = Off /\ reviewNeutral = Off /\ purse = Off /\ pot = Off
CaptureOff == /\ ch = Off /\ paused = Off /\ pool = Off /\ held = Off /\ dev = Off /\ penalty = Off
              /\ raised = Off /\ history = Off /\ flag = Off /\ gifts = Off

\* Init and Next of a scenario: the component runs, the others stay off.
Idle(component) ==
    /\ component # "survival" => SurvivalOff
    /\ component # "injection" => InjectionOff
    /\ component # "bounties" => BountiesOff
    /\ component # "qualification" => QualificationOff
    /\ component # "capture" => CaptureOff
Only(component) ==
    /\ UNCHANGED scenario
    /\ component # "survival" => UNCHANGED survivalVars
    /\ component # "injection" => UNCHANGED injectionVars
    /\ component # "bounties" => UNCHANGED bountyVars
    /\ component # "qualification" => UNCHANGED qualificationVars
    /\ component # "capture" => UNCHANGED captureVars

At(s) == scenario = s

Init ==
    \/ At("survival") /\ Survival!Init /\ Idle("survival")
    \/ At("injection") /\ Injection!Init /\ Idle("injection")
    \/ At("bounties") /\ Bounties!Init /\ Idle("bounties")
    \/ At("records") /\ Records!Init /\ Idle("qualification")
    \/ At("endorsements") /\ Endorsements!Init /\ Idle("qualification")
    \/ At("funds") /\ Funds!Init /\ Idle("capture")
    \/ At("verdicts") /\ Verdicts!Init /\ Idle("capture")
    \/ At("detection") /\ Detection!Init /\ Idle("capture")

Next ==
    \/ At("survival") /\ Survival!Next /\ Only("survival")
    \/ At("injection") /\ Injection!Next /\ Only("injection")
    \/ At("bounties") /\ Bounties!Next /\ Only("bounties")
    \/ At("records") /\ Records!Next /\ Only("qualification")
    \/ At("endorsements") /\ Endorsements!Next /\ Only("qualification")
    \/ At("funds") /\ Funds!Next /\ Only("capture")
    \/ At("verdicts") /\ Verdicts!Next /\ Only("capture")
    \/ At("detection") /\ Detection!Next /\ Only("capture")

Spec == Init /\ [][Next]_vars

\* Interchangeable: the two legacy facts, sponsors, domains of bounties.
Symmetry == Permutations({f1, f2}) \cup Permutations({s1, s2}) \cup Permutations({e1, e2})

-----------------------------------------------------------------------------
(* Properties *)

\* Survival escrow: a reward is handed to vesting once, only for a fact that
\* survived its challenge or its window, never while a challenge is open, and
\* a challenge that decides nothing never costs it; the deadline index names
\* exactly the unfinished hand-offs, so the sweep finds every one of them.
RewardsFollowSurvival ==
    /\ [](At("survival") => Survival!EscrowSafe)
    /\ [][At("survival") => Survival!RewardStep]_vars

\* Guardian veto: an injected fact leaves the queue by a guardian's veto or as
\* a fact, never before the heights announced for it and never after a veto;
\* while transactions run everything queued can still be vetoed and is indexed.
VetoesHold ==
    /\ [](At("injection") => Injection!TypeOK /\ Injection!Reviewable)
    /\ [][At("injection") => Injection!VetoHolds /\ Injection!LeavesByVetoOrFact /\ Injection!NotBeforeAnnounced]_vars

\* Sponsorship: the escrow is exactly what open orders still owe, each fact is
\* paid once per order that took it, for work inside the order's life, and an
\* order that ended is never touched again, an export and import included.
BountiesPaidOnce ==
    /\ [](At("bounties") => Bounties!BountiesSafe)
    /\ [][At("bounties") => Bounties!ClosedStaysClosed]_vars

\* Qualification: a record that gives standing has not expired and weighs no
\* more than the stake pathway grants, probation ends in time, a suspension
\* lasts until withdrawal, and the endorsement counts are exact.
StandingIsEarned ==
    /\ [](At("records") => /\ Records!TypeOK /\ Records!StandingIsCurrent
                           /\ Records!ProbationBounded /\ Records!NoWeightGained)
    /\ [](At("endorsements") => Endorsements!EndorsementCountExact)
    /\ [][At("records") => Records!SuspensionHolds]_vars

\* Capture challenges: the module account holds the pools and the open stakes,
\* penalties of upheld challenges last whatever else is decided, challengers
\* cannot repeat within the pause, and a flagged domain gets its one automatic
\* challenge.
CaptureIsHeard ==
    /\ [](At("funds") => Funds!RefundedOnExpiry /\ Funds!Backed)
    /\ [](At("verdicts") => Verdicts!TypeOK /\ Verdicts!ConsequenceLands /\ Verdicts!Spaced)
    /\ [](At("detection") => Detection!OneAutoChallenge)
    /\ [][At("detection") => Detection!FlaggedIsHeard]_vars

=============================================================================
