----------------------------- MODULE MCIssuance -----------------------------
(***************************************************************************)
(* Where coins come from: vesting schedules, the substrate bridge, the     *)
(* claiming pots and the tokens module, which mint under one supply cap.   *)
(*                                                                         *)
(* The initial state picks one component and one choice of its constants;  *)
(* that component then runs alone, and the variables of the others are     *)
(* Off.  All share the block height.                                       *)
(***************************************************************************)
EXTENDS Integers, FiniteSets, TLC

CONSTANTS c1, f1, r1, s1, unsourced, w1, a1, a2, a3, h1, h2, h3, Void, Gov   \* model values

VARIABLES
    scenario, height,
    schedule, claimIndex, disproven, clawbacks, balance, paid,                            \* Vesting
    stage, todo, armed, att, ref, pending, adapter, supply, escrow, coined, minters,      \* SubstrateBridge
    pot, claims, committed, counter, window, params, version, potSupply, registered,      \* ClaimingPot
    tok, bal, allow, deleg, tot, wrapped, periods, latch, tokSupply, got                  \* Tokens

vestingVars == <<schedule, claimIndex, disproven, clawbacks, balance, paid>>
bridgeVars == <<stage, todo, armed, att, ref, pending, adapter, supply, escrow, coined, minters>>
potVars == <<pot, claims, committed, counter, window, params, version, potSupply, registered>>
tokenVars == <<tok, bal, allow, deleg, tot, wrapped, periods, latch, tokSupply, got>>
vars == <<scenario, height, vestingVars, bridgeVars, potVars, tokenVars>>

-----------------------------------------------------------------------------
(* The components *)

\* One schedule over its whole curve with evidence and pauses; claims, direct
\* schedules and falsification of one fact.
NoClaims == <<>>
OneClaim == c1 :> f1
Curve == INSTANCE Vesting WITH
    Claims <- {}, Facts <- {f1}, FactOf <- NoClaims, Recipients <- {r1}, Totals <- {10},
    CliffBlocks <- 1, HalfLifeBlocks <- 2, MaxRelease <- 850000, Precision <- 1000, FractionalScale <- 100, Ln2Scaled <- 69,
    ReleasedClawbackRate <- 3300, Evidence <- {"defense", "citation"}, MaxEvidence <- 2, Funds <- {3, 20},
    LastCreation <- 1, MaxHeight <- 7
Schedules == INSTANCE Vesting WITH
    Claims <- {c1}, Facts <- {f1}, FactOf <- OneClaim, Recipients <- {r1}, Totals <- {10},
    CliffBlocks <- 0, HalfLifeBlocks <- 1, MaxRelease <- 850000, Precision <- 1000, FractionalScale <- 100, Ln2Scaled <- 69,
    ReleasedClawbackRate <- 3300, Evidence <- {}, MaxEvidence <- 2, Funds <- {3, 20},
    LastCreation <- 2, MaxHeight <- 3

\* Settlements that the bank may refuse next to other mints; one source that
\* is attested again and again across the upgrade.
OneAdapter == s1 :> w1 @@ unsourced :> w1
Bridge == INSTANCE SubstrateBridge WITH
    MaxSupply <- 8, Last <- 2, Legacy <- 1, Sources <- {s1}, Unsourced <- unsourced, Adapters <- {w1}, AdapterOf <- OneAdapter,
    Bond <- 2, Base <- 2, Weight <- 10000, WitnessReward <- 1, MaxClaims <- 1, Threshold <- 5000, MinRatio <- 1000,
    MaxPendingWindow <- 2, ChallengeWindow <- 2, Supplies <- {6}, OtherMints <- {1}, Faults <- TRUE, HeldRewards <- TRUE,
    LastSubmit <- 2, MaxHeight <- 5
Resubmitted == INSTANCE SubstrateBridge WITH
    MaxSupply <- 20, Last <- 4, Legacy <- 2, Sources <- {s1}, Unsourced <- unsourced, Adapters <- {w1}, AdapterOf <- OneAdapter,
    Bond <- 2, Base <- 2, Weight <- 10000, WitnessReward <- 1, MaxClaims <- 1, Threshold <- 5000, MinRatio <- 1000,
    MaxPendingWindow <- 2, ChallengeWindow <- 2, Supplies <- {12}, OtherMints <- {}, Faults <- FALSE, HeldRewards <- FALSE,
    LastSubmit <- 4, MaxHeight <- 5

\* Seeds of three agents beside general pots, under changing parameters.
Agents == {a1, a2, a3}
Shape(t, s, e, c, w) ==
    [status |-> "NONE", total |-> t, claimed |-> 0, start |-> s, end |-> e, cliff |-> c, whitelist |-> w]
TwoShapes == {Shape(5, 1, 4, 0, {}), Shape(6, 2, 4, 1, Agents)}
PotParams(cap, daily, r, m) ==
    [emissionCap |-> cap, dailyCap |-> daily, registrar |-> r, minClaim |-> m, maxPotsActive |-> 3]
ThreeParams == {PotParams(12, 1, TRUE, 1), PotParams(9, 2, TRUE, 2), PotParams(15, 1, FALSE, 1)}
Pots == INSTANCE ClaimingPot WITH
    MaxSupply <- 14, PerUnit <- 3, WindowBlocks <- 2, MaxPots <- 2, MaxHeight <- 5, Shapes <- TwoShapes,
    ParamChoices <- ThreeParams, OtherMint <- 5, supply <- potSupply

\* Holders of one token; emission periods with a recipient the bank refuses.
AllFeatures == {{"mintable", "burnable", "pausable", "wrappable"}}
Balances == INSTANCE Tokens WITH
    Accounts <- {h1, h2, h3}, FeatureSets <- AllFeatures, Initials <- {1}, Maxima <- {0, 1}, Amounts <- {1}, Ranges <- {},
    Rates <- {1}, Blocked <- {}, MaxSupply <- 5, StartSupply <- 0, MaxTokens <- 2, MaxHeight <- 1, supply <- tokSupply
Emission == INSTANCE Tokens WITH
    Accounts <- {h1, h2}, FeatureSets <- {}, Initials <- {0}, Maxima <- {0}, Amounts <- {1}, Ranges <- {<<2, 3>>, <<2, 4>>},
    Rates <- {1, 2}, Blocked <- {h2}, MaxSupply <- 7, StartSupply <- 2, MaxTokens <- 3, MaxHeight <- 6, supply <- tokSupply

ASSUME Curve!ConfigAssumption /\ Curve!FactOfAssumption /\ Schedules!ConfigAssumption /\ Schedules!FactOfAssumption
ASSUME /\ Bridge!MaxSupplyAssumption /\ Bridge!BridgeAssumption
       /\ Resubmitted!MaxSupplyAssumption /\ Resubmitted!BridgeAssumption
ASSUME Pots!MaxSupplyAssumption /\ Pots!UnitAssumption /\ Pots!InputAssumption
ASSUME Balances!TokensAssumption /\ Emission!TokensAssumption

-----------------------------------------------------------------------------
(* One component at a time *)

Off == "off"
VestingOff == schedule = Off /\ claimIndex = Off /\ disproven = Off /\ clawbacks = Off /\ balance = Off /\ paid = Off
BridgeOff == /\ stage = Off /\ todo = Off /\ armed = Off /\ att = Off /\ ref = Off /\ pending = Off /\ adapter = Off
             /\ supply = Off /\ escrow = Off /\ coined = Off /\ minters = Off
PotOff == /\ pot = Off /\ claims = Off /\ committed = Off /\ counter = Off /\ window = Off /\ params = Off
          /\ version = Off /\ potSupply = Off /\ registered = Off
TokenOff == /\ tok = Off /\ bal = Off /\ allow = Off /\ deleg = Off /\ tot = Off /\ wrapped = Off
            /\ periods = Off /\ latch = Off /\ tokSupply = Off /\ got = Off

\* Init and Next of a scenario: the component runs, the others stay off.
Idle(component) ==
    /\ component # "vesting" => VestingOff
    /\ component # "bridge" => BridgeOff
    /\ component # "pots" => PotOff
    /\ component # "tokens" => TokenOff
Only(component) ==
    /\ UNCHANGED scenario
    /\ component # "vesting" => UNCHANGED vestingVars
    /\ component # "bridge" => UNCHANGED bridgeVars
    /\ component # "pots" => UNCHANGED potVars
    /\ component # "tokens" => UNCHANGED tokenVars

At(s) == scenario = s

Init ==
    \/ At("curve") /\ Curve!Init /\ Idle("vesting")
    \/ At("schedules") /\ Schedules!Init /\ Idle("vesting")
    \/ At("bridge") /\ Bridge!Init /\ Idle("bridge")
    \/ At("resubmitted") /\ Resubmitted!Init /\ Idle("bridge")
    \/ At("pots") /\ Pots!Init /\ Idle("pots")
    \/ At("balances") /\ Balances!Init /\ Idle("tokens")
    \/ At("emission") /\ Emission!Init /\ Idle("tokens")

Next ==
    \/ At("curve") /\ Curve!Next /\ Only("vesting")
    \/ At("schedules") /\ Schedules!Next /\ Only("vesting")
    \/ At("bridge") /\ Bridge!Next /\ Only("bridge")
    \/ At("resubmitted") /\ Resubmitted!Next /\ Only("bridge")
    \/ At("pots") /\ Pots!Next /\ Only("pots")
    \/ At("balances") /\ Balances!Next /\ Only("tokens")
    \/ At("emission") /\ Emission!Next /\ Only("tokens")

Spec == Init /\ [][Next]_vars

\* Agents are interchangeable.
Symmetry == Permutations(Agents)

-----------------------------------------------------------------------------
(* Properties *)

\* Vesting: what a schedule shows as released is what its recipient was sent
\* and stays within the category's cap; paused time earns nothing, what is
\* vested never falls, a clawback splits a schedule without loss, happens only
\* for a DISPROVEN fact and once, and an ended schedule pays no more.
VestingPaysTheCurve ==
    /\ [](At("curve") => Curve!TypeOK /\ Curve!WithinCap /\ Curve!PausedTimeExcluded /\ Curve!ClawbackConserves)
    /\ [](At("schedules") =>
             Schedules!PaidIsReleased /\ Schedules!FalsifiedIsDisproven /\ Schedules!OneSchedulePerClaim)
    /\ [][At("curve") => Curve!VestedNeverFalls]_vars
    /\ [][At("schedules") => Schedules!EndedStaysEnded]_vars

\* Substrate bridge: an attestation mints at most once and what it records,
\* within the supply cap shared with the other minters; a source mints for one
\* attestation however it is resubmitted; a witness reward is minted only after
\* its window; and the module account holds exactly the bonds in flight.
BridgeMintsOnce ==
    /\ [](At("bridge") => Bridge!BridgeSafe)
    /\ [](At("resubmitted") => Resubmitted!BridgeSafe)
    /\ [][/\ At("bridge") => Bridge!WitnessSurvived
          /\ At("resubmitted") => Resubmitted!WitnessSurvived]_vars

\* Claiming pots: all claims together stay within the emission cap in force,
\* the registrar within its rate, an unclaimed seed waits for its agent, every
\* state exports a genesis that is accepted, and a terminal pot stays as it is.
PotsKeepTheirBudget ==
    /\ [](At("pots") => /\ Pots!TypeOK /\ Pots!SeedWaits /\ Pots!RegistrarRate
                        /\ Pots!LifetimeBudget /\ Pots!ExportValidates)
    /\ [][At("pots") => Pots!TerminalKept]_vars

\* Tokens: the recorded supply is what holders have, delegated power is backed
\* by a balance, nothing moves while a token is paused; emission stays within
\* schedule and cap and every minted coin reaches a recipient.
TokenSupplyAccounted ==
    /\ [](At("balances") => Balances!TypeOK /\ Balances!SupplyAccounted /\ Balances!PowerBacked)
    /\ [](At("emission") => Emission!NothingStranded /\ Emission!WithinSchedule)
    /\ [][At("balances") => Balances!PauseHolds]_vars

=============================================================================
