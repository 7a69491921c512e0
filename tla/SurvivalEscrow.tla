--------------------------- MODULE SurvivalEscrow ---------------------------
(***************************************************************************)
(* The survival gate of x/knowledge: the reward of a claim accepted before *)
(* review neutrality stays pending until its fact survives a challenge or  *)
(* its challenge window closes, and is then handed to x/vesting_rewards.   *)
(*                                                                         *)
(* The standing of facts is the one FactContest models, reduced to the     *)
(* moves of one status at a time.  A claim and its fact share one          *)
(* identifier.  A block runs the verdicts (AdvanceRoundPhases), the sweep, *)
(* the epoch work, and then its transactions, in that order.               *)
(***************************************************************************)
EXTENDS Integers, FiniteSets

CONSTANTS
    Facts,       \* facts whose claims carry a reward
    Legacy,      \* the ones accepted before the upgrade that adds this code
    Window,      \* ChallengeDurationBlocks
    MaxHeight    \* every deadline lies at or below it; later heights are equal

LegacyAssumption == Legacy \subseteq Facts
BoundsAssumption == Window \in Nat \ {0} /\ MaxHeight \in Nat /\ MaxHeight > Window

VARIABLES
    height,
    stage,      \* "upgrade", then "verdicts", "sweep", "epoch", "txs" in every block
    neutral,    \* the review neutrality marker: no reward is recorded any more
    status,     \* status[f]: the FactStatus, "NONE" before acceptance
    pending,    \* pending[f]: the deadline of the pending record, 0: no record
    index,      \* the deadline index: pairs <<deadline, fact>>
    schedules   \* schedules[f]: vesting schedules created for the claim of f

vars == <<height, stage, neutral, status, pending, index, schedules>>

Statuses == {"NONE", "VERIFIED", "ACTIVE", "CONTESTED", "CHALLENGED", "AT_RISK", "EXPIRED",
             "PRUNED", "DISPROVEN"}

Pending(f) == pending[f] # 0

\* BeginBlocker runs the verdicts, the sweep and the epoch work.
StageAfter(s) == [verdicts |-> "sweep", sweep |-> "epoch", epoch |-> "txs", txs |-> "verdicts"][s]

-----------------------------------------------------------------------------
(* Records *)

\* SetSurvivalPendingReward: record and index entry are written together.
Recorded(f, deadline) ==
    /\ pending' = [pending EXCEPT ![f] = deadline]
    /\ index' = index \cup {<<deadline, f>>}

\* deleteSurvivalPending
Without(F) ==
    /\ pending' = [f \in Facts |-> IF f \in F THEN 0 ELSE pending[f]]
    /\ index' = index \ {<<pending[f], f>> : f \in F}

\* createKnowledgeVestingSchedule: an equal schedule found through the claim
\* index counts as done, otherwise one is created.
HandedOff(f) == IF schedules[f] = 0 THEN 1 ELSE schedules[f]

-----------------------------------------------------------------------------
(* The upgrade *)

\* RebuildSurvivalDeadlineIndex
IndexRebuilt == index' = {<<pending[f], f>> : f \in {g \in Facts : Pending(g)}}

Migrate6to7 ==
    /\ stage = "upgrade"
    /\ IndexRebuilt
    /\ stage' = "verdicts"
    /\ UNCHANGED <<height, neutral, status, pending, schedules>>

EnableReviewNeutrality ==
    /\ stage = "txs" /\ ~neutral
    /\ neutral' = TRUE
    /\ UNCHANGED <<height, stage, status, pending, index, schedules>>

-----------------------------------------------------------------------------
(* Verdicts *)

\* completeRound accepts a claim: its fact is born, and before neutrality
\* EscrowSubmitterReward opens the window.
Accept(f) ==
    /\ stage = "verdicts"
    /\ status[f] = "NONE"
    /\ height + Window <= MaxHeight
    /\ status' = [status EXCEPT ![f] = "VERIFIED"]
    /\ IF neutral THEN UNCHANGED <<pending, index>> ELSE Recorded(f, height + Window)
    /\ UNCHANGED <<height, stage, neutral, schedules>>

\* releaseSurvivalReward in a cache context: all of it, or nothing when
\* vesting refuses; nothing for a fact without a record.
Released(f, refused) ==
    IF Pending(f) /\ ~refused
    THEN Without({f}) /\ schedules' = [schedules EXCEPT ![f] = HandedOff(f)]
    ELSE UNCHANGED <<pending, index, schedules>>

\* handleChallengeSurvival: the status is restored (CONTESTED when a reason
\* is left), the reward released at once; a refusal is only logged.
RejectChallenge(f) ==
    /\ stage = "verdicts" /\ status[f] = "CHALLENGED"
    /\ \E end \in {"ACTIVE", "CONTESTED"} : status' = [status EXCEPT ![f] = end]
    /\ \E refused \in BOOLEAN : Released(f, refused)
    /\ UNCHANGED <<height, stage, neutral>>

\* restoreChallengedFactOnInconclusive credits nothing.
AbandonChallenge(f) ==
    /\ stage = "verdicts" /\ status[f] = "CHALLENGED"
    /\ \E end \in {"ACTIVE", "CONTESTED"} : status' = [status EXCEPT ![f] = end]
    /\ UNCHANGED <<height, stage, neutral, pending, index, schedules>>

\* handleChallengeDisproven
AcceptChallenge(f) ==
    /\ stage = "verdicts" /\ status[f] = "CHALLENGED"
    /\ status' = [status EXCEPT ![f] = "DISPROVEN"]
    /\ IF Pending(f) THEN Without({f}) ELSE UNCHANGED <<pending, index>>
    /\ UNCHANGED <<height, stage, neutral, schedules>>

\* Contradictions, cascades and their releases (FactContest).
Contest(f) ==
    /\ stage = "verdicts"
    /\ \/ status[f] \in {"VERIFIED", "ACTIVE", "AT_RISK"} /\ status' = [status EXCEPT ![f] = "CONTESTED"]
       \/ status[f] = "CONTESTED" /\ status' = [status EXCEPT ![f] = "VERIFIED"]
    /\ UNCHANGED <<height, stage, neutral, pending, index, schedules>>

VerdictsDone ==
    /\ stage = "verdicts"
    /\ stage' = StageAfter(stage)
    /\ UNCHANGED <<height, neutral, status, pending, index, schedules>>

-----------------------------------------------------------------------------
(* The sweep *)

\* Entries at or below the height whose record is due as well.
Due == {f \in Facts : Pending(f) /\ pending[f] <= height /\ \E d \in 1..height : <<d, f>> \in index}

\* Slip: an open challenge does not hold the reward back.
SurvivorsAndChallenged == {f \in Due : status[f] \in {"VERIFIED", "ACTIVE", "CHALLENGED"}}

Survivors == {f \in Due : status[f] \in {"VERIFIED", "ACTIVE"}}

\* Any other standing but CHALLENGED cancels; a missing fact does too.
Cancelled == {f \in Due \ Survivors : status[f] # "CHALLENGED"}

\* SweepSurvivedRewards; vesting refuses the hand-offs in refused, which stay
\* for the next block.
SweepSurvivedRewards(refused) ==
    /\ stage = "sweep"
    /\ stage' = StageAfter(stage)
    /\ Without((Survivors \ refused) \cup Cancelled)
    /\ schedules' = [f \in Facts |-> IF f \in Survivors \ refused THEN HandedOff(f) ELSE schedules[f]]
    /\ UNCHANGED <<height, neutral, status>>

-----------------------------------------------------------------------------
(* Epoch work and transactions *)

\* ProcessCompetition and ProcessMetabolism pass over CONTESTED and
\* CHALLENGED facts.
Decay(f) ==
    /\ stage = "epoch"
    /\ \/ /\ status[f] \in {"VERIFIED", "ACTIVE"}
          /\ \E s \in {"AT_RISK", "PRUNED"} : status' = [status EXCEPT ![f] = s]
       \/ /\ status[f] = "AT_RISK"
          /\ \E s \in {"ACTIVE", "EXPIRED", "PRUNED"} : status' = [status EXCEPT ![f] = s]
       \/ status[f] = "EXPIRED" /\ status' = [status EXCEPT ![f] = "PRUNED"]
    /\ UNCHANGED <<height, stage, neutral, pending, index, schedules>>

EpochDone ==
    /\ stage = "epoch"
    /\ stage' = StageAfter(stage)
    /\ UNCHANGED <<height, neutral, status, pending, index, schedules>>

ChallengeFact(f) ==
    /\ stage = "txs"
    /\ status[f] \in {"VERIFIED", "ACTIVE", "CONTESTED"}
    /\ status' = [status EXCEPT ![f] = "CHALLENGED"]
    /\ UNCHANGED <<height, stage, neutral, pending, index, schedules>>

PatronizeFact(f) ==
    /\ stage = "txs"
    /\ status[f] \in {"AT_RISK", "EXPIRED"}
    /\ status' = [status EXCEPT ![f] = "ACTIVE"]
    /\ UNCHANGED <<height, stage, neutral, pending, index, schedules>>

\* The next block; past MaxHeight every deadline has passed and heights are
\* not told apart.
NextBlock ==
    /\ stage = "txs"
    /\ stage' = StageAfter(stage)
    /\ height' = IF height = MaxHeight THEN height ELSE height + 1
    /\ UNCHANGED <<neutral, status, pending, index, schedules>>

-----------------------------------------------------------------------------

\* A chain before the upgrade: legacy facts hold records, the index may lack
\* entries that older sweeps removed under a challenge, and an older hand-off
\* may have left its schedule beside the record.
Init ==
    /\ height = 1 /\ stage = "upgrade" /\ neutral = FALSE
    /\ status \in {s \in [Facts -> {"NONE", "VERIFIED", "CHALLENGED"}] :
                      \A f \in Facts : (s[f] = "NONE") = (f \notin Legacy)}
    /\ pending = [f \in Facts |-> IF f \in Legacy THEN Window ELSE 0]
    /\ \E lost \in SUBSET Legacy : index = {<<Window, f>> : f \in Legacy \ lost}
    /\ schedules \in {s \in [Facts -> {0, 1}] : \A f \in Facts \ Legacy : s[f] = 0}

VerdictOf(f) == RejectChallenge(f) \/ AbandonChallenge(f) \/ AcceptChallenge(f)

Block == VerdictsDone \/ EpochDone \/ NextBlock \/ \E refused \in SUBSET Facts : SweepSurvivedRewards(refused)

Next ==
    \/ Migrate6to7
    \/ EnableReviewNeutrality
    \/ Block
    \/ \E f \in Facts : Accept(f) \/ VerdictOf(f) \/ Contest(f) \/ Decay(f)
                        \/ ChallengeFact(f) \/ PatronizeFact(f)

Spec == Init /\ [][Next]_vars

\* The sweep resolves f.
SweepResolves(f) ==
    /\ \E refused \in SUBSET Facts : SweepSurvivedRewards(refused)
    /\ Pending(f) /\ pending'[f] = 0

-----------------------------------------------------------------------------
(* Properties *)

TypeOK ==
    /\ height \in 1..MaxHeight
    /\ stage \in {"upgrade", "verdicts", "sweep", "epoch", "txs"}
    /\ neutral \in BOOLEAN
    /\ status \in [Facts -> Statuses]
    /\ pending \in [Facts -> 0..MaxHeight]
    /\ index \subseteq (1..MaxHeight) \X Facts
    /\ schedules \in [Facts -> Nat]

\* Once the upgrade has run, every pending record is in the deadline index
\* under its own deadline and the index holds nothing else, so the sweep
\* finds exactly the unfinished hand-offs, those that vesting refused and
\* those a challenge held back included.
IndexExact ==
    stage # "upgrade" => index = {<<pending[f], f>> : f \in {g \in Facts : Pending(g)}}

\* However verdicts, sweeps, refusals and leftovers of older hand-offs
\* interleave, a claim never gets a second vesting schedule.
RewardedOnce == \A f \in Facts : schedules[f] <= 1

\* A fact that fell owes no reward: the record is gone in the step that made
\* it DISPROVEN.
FallenOwesNothing == \A f \in Facts : status[f] = "DISPROVEN" => ~Pending(f)

\* A schedule is created only for a fact that stands: after its window, or by
\* the verdict that ends a challenge in its favour, never while a challenge
\* is open and never for a fact that fell or decayed.
RewardFollowsSurvival ==
    \A f \in Facts : schedules'[f] > schedules[f] =>
       \/ status[f] = "CHALLENGED" /\ status'[f] \in {"ACTIVE", "CONTESTED"}
       \/ status'[f] \in {"VERIFIED", "ACTIVE"} /\ pending[f] <= height

\* A record is dropped without a schedule only for a fact that lost its
\* standing or after its window: a challenge that decides nothing never costs
\* the submitter the reward.
NotForfeitedByChallenge ==
    \A f \in Facts : Pending(f) /\ pending'[f] = 0 /\ schedules'[f] = 0 =>
       status'[f] \notin {"VERIFIED", "ACTIVE", "CHALLENGED"}

\* The escrow's promise: a reward is handed to vesting once, only for a fact
\* that survived its challenge or its window, and a challenge that decides
\* nothing never costs it; the deadline index names exactly the unfinished
\* hand-offs, so the sweep finds every one of them.
EscrowSafe == TypeOK /\ IndexExact /\ RewardedOnce /\ FallenOwesNothing
RewardStep == RewardFollowsSurvival /\ NotForfeitedByChallenge
RewardsFollowSurvival == []EscrowSafe /\ [][RewardStep]_vars

\* What fairness brings about: every pending reward is handed off or
\* cancelled in the end, even if the fact is challenged again in every block
\* after its window, since verdicts come before the sweep of the same block.
PendingResolved == \A f \in Facts : ~Pending(f)

=============================================================================
