---------------------------- MODULE MCGovernance ----------------------------
(***************************************************************************)
(* Who decides: the emergency ceremonies, the proposals of x/gov (LIPs)    *)
(* and the research fund's seats and spends.                               *)
(*                                                                         *)
(* The initial state picks one component and one choice of its constants;  *)
(* that component then runs alone, and the variables of the others are     *)
(* Off.  All share the block height and the emergency hold.                *)
(***************************************************************************)
EXTENDS Integers, TLC

CONSTANTS g1, g2, g3, c1, p1, v1, v2, a, b, f1, f2, f3, Nobody   \* model values

VARIABLES
    scenario, height, hold,
    q, cer, attempt, budget, params, stake, gov,                        \* Emergency
    lip, vote, meta, fund, pin, applied, creed, govParams, bonded,      \* GovLIP
    phase, seats, terms, pair, el, cast, sp, cvote, balance             \* ResearchFund

emergencyVars == <<q, cer, attempt, budget, params, stake, gov>>
lipVars == <<lip, vote, meta, fund, pin, applied, creed, govParams, bonded>>
fundVars == <<phase, seats, terms, pair, el, cast, sp, cvote, balance>>
vars == <<scenario, height, hold, emergencyVars, lipVars, fundVars>>

-----------------------------------------------------------------------------
(* Emergency: a guardian of half the power, who may drop out, and two light *)
(* ones; a chain handed over in any status; a council that is appointed,   *)
(* expires and is cleared; recovery proposals of a lone guardian.          *)

Timing == [halt |-> [prevote |-> 1, precommit |-> 1, timeout |-> 2],
           resume |-> [prevote |-> 1, precommit |-> 1, timeout |-> 2]]
Base == [quorum |-> [halt |-> 750000, resume |-> 800000], timing |-> Timing, distinct |-> 2, minStake |-> 3,
         perGuardian |-> 1, perEpoch |-> 3, cooldown |-> 1, maxHalt |-> 2, council |-> {}, virtual |-> 1, expiry |-> 0]
Three == {(g1 :> 2 @@ g2 :> 1 @@ g3 :> 1), (g1 :> 0 @@ g2 :> 1 @@ g3 :> 2)}
Equal == {(g1 :> 2 @@ g2 :> 2)}
Uneven == {(g1 :> 3 @@ g2 :> 1), (g1 :> 2 @@ g2 :> 2)}
Alone == {(g1 :> 3)}
FixedParams == {Base}
AloneParams == {[Base EXCEPT !.distinct = 1, !.perGuardian = 2]}
CouncilParams == {[Base EXCEPT !.council = {c1}, !.expiry = 4],
                  [Base EXCEPT !.quorum.halt = 500000, !.distinct = 1, !.perGuardian = 2]}

Quorums == INSTANCE Emergency WITH
    Guardians <- {g1, g2, g3}, StakeViews <- Three, ParamSets <- FixedParams, Starts <- {"normal"}, Manifests <- {"m1", "m2"},
    PlanHeights <- {5}, Actions <- {}, EpochBlocks <- 3, MaxCeremonies <- 2, MaxProposals <- 0, MaxHeight <- 5
Incidents == INSTANCE Emergency WITH
    Guardians <- {g1, g2}, StakeViews <- Equal, ParamSets <- FixedParams,
    Starts <- {"normal", "halted", "reverting", "resume_voting"}, Manifests <- {"m1", "m2"},
    PlanHeights <- {5}, Actions <- {}, EpochBlocks <- 3, MaxCeremonies <- 3, MaxProposals <- 0, MaxHeight <- 7
Council == INSTANCE Emergency WITH
    Guardians <- {g1, g2}, StakeViews <- Uneven, ParamSets <- CouncilParams, Starts <- {"normal"}, Manifests <- {"m1"},
    PlanHeights <- {5}, Actions <- {}, EpochBlocks <- 3, MaxCeremonies <- 2, MaxProposals <- 0, MaxHeight <- 5
Recovery == INSTANCE Emergency WITH
    Guardians <- {g1}, StakeViews <- Alone, ParamSets <- AloneParams, Starts <- {"normal"}, Manifests <- {"m1", "m2"},
    PlanHeights <- {4, 8}, Actions <- {"upgrade", "cancel", "revoke"}, EpochBlocks <- 3,
    MaxCeremonies <- 4, MaxProposals <- 2, MaxHeight <- 7

ASSUME /\ Quorums!ParamsAssumption /\ Incidents!ParamsAssumption
       /\ Council!ParamsAssumption /\ Recovery!ParamsAssumption

-----------------------------------------------------------------------------
(* LIPs: votes of moving weight; effects that fail in the middle; changes  *)
(* of phase forward and back.                                              *)

Cfg(s, r) == [stake |-> s, review |-> r]
Table == ("text" :> Cfg(2, 1)) @@ ("parameter" :> Cfg(2, 1)) @@ ("creed_amendment" :> Cfg(2, 1))
         @@ ("phase_transition" :> Cfg(2, 1)) @@ ("phase_rollback" :> Cfg(1, 1)) @@ ("adapter_registration" :> Cfg(1, 0))
Quick == ("phase_transition" :> Cfg(1, 0)) @@ ("phase_rollback" :> Cfg(1, 0)) @@ ("parameter" :> Cfg(1, 0))
         @@ ("creed_amendment" :> Cfg(1, 0)) @@ ("adapter_registration" :> Cfg(1, 0))
LipParams == [minStake |-> 1, minVote |-> 0, quorum |-> 334000, support |-> 500000, discussion |-> 1, voting |-> 2, category |-> Table]
QuickParams == {[LipParams EXCEPT !.category = Quick, !.discussion = 0, !.voting = 1]}
TwoParams == {LipParams, [LipParams EXCEPT !.quorum = 700000, !.discussion = 0, !.voting = 1]}
Moving == {(v1 :> 2 @@ v2 :> 1), (v1 :> 0 @@ v2 :> 2)}
Single == {(v1 :> 1)}
Calm == [quarantine |-> FALSE, failing |-> 0, anchored |-> TRUE, met |-> TRUE, degraded |-> FALSE]
Changeable == {Calm, [Calm EXCEPT !.met = FALSE]}
Degrading == {Calm, [Calm EXCEPT !.degraded = TRUE]}
Failing == {Calm, [Calm EXCEPT !.failing = 2, !.met = FALSE], [Calm EXCEPT !.anchored = FALSE, !.failing = 1],
            [Calm EXCEPT !.quarantine = TRUE]}

Votes == INSTANCE GovLIP WITH
    Proposers <- {p1}, Voters <- {v1, v2}, Categories <- {"text", "parameter"}, Weights <- Moving, Amounts <- {1}, Bodies <- {},
    ParamSets <- TwoParams, ActivationDelay <- 1, Cooldown <- 3, LastPhase <- 4, FirstPhases <- {1}, Surroundings <- Degrading,
    MaxLips <- 1, MaxStake <- 2, SubmitUntil <- 1, MaxHeight <- 7, params <- govParams
Effects == INSTANCE GovLIP WITH
    Proposers <- {p1}, Voters <- {v1},
    Categories <- {"parameter", "creed_amendment", "phase_transition", "adapter_registration"},
    Weights <- Single, Amounts <- {1}, Bodies <- {"b1", "b2"},
    ParamSets <- QuickParams, ActivationDelay <- 1, Cooldown <- 3, LastPhase <- 4, FirstPhases <- {1}, Surroundings <- Failing,
    MaxLips <- 2, MaxStake <- 2, SubmitUntil <- 2, MaxHeight <- 4, params <- govParams
Phases == INSTANCE GovLIP WITH
    Proposers <- {p1}, Voters <- {v1}, Categories <- {"phase_transition", "phase_rollback"}, Weights <- Single, Amounts <- {1},
    Bodies <- {}, ParamSets <- QuickParams, ActivationDelay <- 1, Cooldown <- 4, LastPhase <- 4, FirstPhases <- {1, 2, 3},
    Surroundings <- Changeable, MaxLips <- 2, MaxStake <- 2, SubmitUntil <- 7, MaxHeight <- 10, params <- govParams

-----------------------------------------------------------------------------
(* The research fund: spends under holds, changed pairs and changed phases; *)
(* two candidates for the seats of a close election.                        *)

TwoPairs == {<<f1, f2>>, <<f3, f1>>}
Close == v1 :> 1 @@ v2 :> 30
OneVote == v1 :> 1
Either == {"none", "advance", "rollback"}

Spends == INSTANCE ResearchFund WITH
    Pairs <- TwoPairs, Candidates <- {a}, Voters <- {v1}, Bonded <- OneVote, Options <- {"yes"},
    Quorum <- 334000, Support <- 500000, RunoffMargin <- 50000, AcceptBlocks <- 1, SeatDiscussion <- 1, SeatVoting <- 1,
    SeatTerm <- 3, Stagger <- 1, SpendDiscussion <- 1, SpendVoting <- 2, Amounts <- {2}, InitialBalance <- 3,
    FirstPhases <- {1, 3}, Moves <- Either, Holds <- TRUE, MaxNominations <- 0, MaxSpends <- 2, OpenUntil <- 2, MaxHeight <- 5
Seats == INSTANCE ResearchFund WITH
    Pairs <- {}, Candidates <- {a, b}, Voters <- {v1, v2}, Bonded <- Close, Options <- {"yes"},
    Quorum <- 334000, Support <- 500000, RunoffMargin <- 50000, AcceptBlocks <- 1, SeatDiscussion <- 1, SeatVoting <- 1,
    SeatTerm <- 3, Stagger <- 1, SpendDiscussion <- 1, SpendVoting <- 2, Amounts <- {}, InitialBalance <- 3,
    FirstPhases <- {2}, Moves <- Either, Holds <- FALSE, MaxNominations <- 2, MaxSpends <- 0, OpenUntil <- 2, MaxHeight <- 8

-----------------------------------------------------------------------------
(* One component at a time *)

Off == "off"
EmergencyOff == q = Off /\ cer = Off /\ attempt = Off /\ budget = Off /\ params = Off /\ stake = Off /\ gov = Off
LipOff == /\ lip = Off /\ vote = Off /\ meta = Off /\ fund = Off /\ pin = Off
          /\ applied = Off /\ creed = Off /\ govParams = Off /\ bonded = Off
FundOff == /\ phase = Off /\ seats = Off /\ terms = Off /\ pair = Off /\ el = Off
           /\ cast = Off /\ sp = Off /\ cvote = Off /\ balance = Off

At(s) == scenario = s

Init ==
    \/ At("quorums") /\ Quorums!Init /\ LipOff /\ FundOff
    \/ At("incidents") /\ Incidents!Init /\ LipOff /\ FundOff
    \/ At("council") /\ Council!Init /\ LipOff /\ FundOff
    \/ At("recovery") /\ Recovery!Init /\ LipOff /\ FundOff
    \/ At("votes") /\ Votes!Init /\ EmergencyOff /\ FundOff
    \/ At("effects") /\ Effects!Init /\ EmergencyOff /\ FundOff
    \/ At("phases") /\ Phases!Init /\ EmergencyOff /\ FundOff
    \/ At("spends") /\ Spends!Init /\ EmergencyOff /\ LipOff
    \/ At("seats") /\ Seats!Init /\ EmergencyOff /\ LipOff

Next ==
    \/ At("quorums") /\ Quorums!Next /\ UNCHANGED <<scenario, lipVars, fundVars>>
    \/ At("incidents") /\ Incidents!Next /\ UNCHANGED <<scenario, lipVars, fundVars>>
    \/ At("council") /\ Council!Next /\ UNCHANGED <<scenario, lipVars, fundVars>>
    \/ At("recovery") /\ Recovery!Next /\ UNCHANGED <<scenario, lipVars, fundVars>>
    \/ At("votes") /\ Votes!Next /\ UNCHANGED <<scenario, emergencyVars, fundVars>>
    \/ At("effects") /\ Effects!Next /\ UNCHANGED <<scenario, emergencyVars, fundVars>>
    \/ At("phases") /\ Phases!Next /\ UNCHANGED <<scenario, emergencyVars, fundVars>>
    \/ At("spends") /\ Spends!Next /\ UNCHANGED <<scenario, emergencyVars, lipVars>>
    \/ At("seats") /\ Seats!Next /\ UNCHANGED <<scenario, emergencyVars, lipVars>>

Spec == Init /\ [][Next]_vars

\* The two candidates are interchangeable.
Symmetry == Permutations({a, b})

-----------------------------------------------------------------------------
(* Properties *)

\* Emergency: a ceremony takes effect only with the quorum and the distinct
\* voters frozen when it opened and is given up only when it cannot succeed;
\* admission reopens only by a resume of the open incident, which leaves a
\* review hold; a retired council never votes again; a recovery proposal
\* executes only under its live authorisation; and every state exports.
EmergencyStaysLawful ==
    /\ [](At("quorums") => Quorums!TypeOK /\ Quorums!QuorumStands /\ Quorums!ImpossibleIsImpossible)
    /\ [](At("incidents") => Incidents!ExportValidates /\ Incidents!ClosedIncidentHeld)
    /\ [](At("recovery") => Recovery!AuthTracksProposal)
    /\ [][At("incidents") => Incidents!ReopensByResume]_vars
    /\ [][At("council") => Council!CouncilStaysRetired]_vars
    /\ [][At("recovery") => Recovery!OrphanNeverExecutes]_vars

\* LIPs: the tally is the sum of the recorded votes, a passed LIP has all of
\* its effect and any other none, the text in voting stays as it was, and the
\* fund's phase moves one step at a time, outside the rollback's cooldown.
LipsDoAsVoted ==
    /\ [](At("votes") => Votes!TallyIsVotes)
    /\ [](At("effects") => Effects!PassedMeansDone)
    /\ [](At("phases") => Phases!TypeOK /\ Phases!OneTransition)
    /\ [][At("effects") => Effects!CreedAsVoted]_vars
    /\ [][At("phases") => Phases!NoEarlyReturn]_vars

\* Research fund: a spend is paid once and inside its window, whatever holds,
\* pairs and phases do; nobody sits without a term, and whoever wins a seat
\* met the thresholds and was beaten by no rival of the same tally.
FundPaysAsDecided ==
    /\ [](At("spends") => Spends!TypeOK /\ Spends!PaidOnce)
    /\ [](At("seats") => Seats!TypeOK /\ Seats!SeatedHasTerm)
    /\ [][At("spends") => Spends!PaidInTime]_vars
    /\ [][At("seats") => Seats!WinnersRank]_vars

=============================================================================
