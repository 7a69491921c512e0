---------------------------- MODULE ReviewRound ----------------------------
(***************************************************************************)
(* Claims, commit-reveal review rounds and their settlement in             *)
(* x/knowledge, with every activation marker on (record integrity, review  *)
(* neutrality, claim records, fund settlement, claim integrity), so every  *)
(* round follows review policy 1.                                          *)
(*                                                                         *)
(* A funded claim has exactly one round, so one identifier r names both.   *)
(* Identifiers are numbers because the pending-reward queue walks the keys *)
(* in store order; they are handed out in any order, as hashes are.        *)
(*                                                                         *)
(* A block is: ProcessPendingVerifierRewards, AdvanceRoundPhases, the      *)
(* bounty part of the epoch work, then the transactions.  stage says which *)
(* of these runs, and work holds the loop variables of the running one.    *)
(***************************************************************************)
EXTENDS Integers, Sequences, FiniteSets, FiniteSetsExt, SequencesExt, Totals

CONSTANTS
    Rounds,              \* identifiers of claims and their rounds
    Accounts,            \* addresses that submit, defend and review
    VoteOptions,         \* the votes reviewers cast
    Payments,            \* fees and deposits a submitter may pay (uzrn)
    MinVerifiersChoices, \* values governance gives MinVerifiers
    MinHeadcountAgreement, ConfidenceThreshold,
    CommitPhaseBlocks, RevealPhaseBlocks, AggregationPhaseBlocks,
    CommitSeatHardCap, PendingBatchSize,
    EpochBlocks, BountyReward, BountyLifetime,
    MaxHeight            \* the clock saturates here; see NextBlock

ASSUME RoundsAssumption == Rounds \subseteq Nat \ {0} /\ IsFiniteSet(Rounds)
ASSUME VotesAssumption == VoteOptions \subseteq {"accept", "reject", "malformed"}
ASSUME PaymentsAssumption == Payments \subseteq Nat \ {0}
ASSUME VerifiersAssumption == MinVerifiersChoices \subseteq Nat \ {0}
ASSUME ThresholdAssumption ==
    MinHeadcountAgreement \in Nat /\ ConfidenceThreshold \in 1 .. 1000000
ASSUME TimingAssumption ==
    /\ CommitPhaseBlocks \in Nat
    /\ RevealPhaseBlocks \in Nat
    /\ AggregationPhaseBlocks \in Nat
    /\ MaxHeight \in Nat \ {0}
ASSUME BoundsAssumption ==
    /\ CommitSeatHardCap \in Nat \ {0}
    /\ PendingBatchSize \in Nat \ {0}
    /\ EpochBlocks \in Nat \ {0}
    /\ BountyReward \in Nat \ {0}
    /\ BountyLifetime \in Nat

VARIABLES
    height,        \* block height
    stage,         \* the part of the block being executed
    work,          \* loop variables of that part
    minVerifiers,  \* params.MinVerifiers
    claim,         \* claim[r]: the admitted claim and its funding terms
    round,         \* round[r]: its verification round
    pending,       \* the 0x82 index of rounds with unpaid obligations
    cursor,        \* the 0x83 cursor (0: absent)
    moduleBal,     \* uzrn held by the knowledge module account
    received,      \* uzrn that settlements of rounds have sent to each account
    bounty,        \* the demand bounty held in the same module account
    custody        \* history: uzrn of moduleBal that came from round r

vars == <<height, stage, work, minVerifiers, claim, round, pending, cursor,
          moduleBal, received, bounty, custody>>

books == <<moduleBal, received, bounty, custody>>

-----------------------------------------------------------------------------
(* Records *)

Phases == {"ABSENT", "COMMIT", "REVEAL", "AGGREGATION", "COMPLETE"}
Verdicts == {"UNSPECIFIED", "ACCEPT", "REJECT", "MALFORMED", "INCONCLUSIVE"}
Kinds == {"REVIEW_FEE", "CHALLENGE_DEPOSIT"}
None == "none"

\* Lifecycle order of the VerificationPhase enum.  No policy-1 round is ever
\* stored EXPIRED; the value is what the deadline arithmetic may return.
PhaseRank == [ABSENT |-> 0, COMMIT |-> 1, REVEAL |-> 2, AGGREGATION |-> 3,
              COMPLETE |-> 4, EXPIRED |-> 5]

NoClaim == [admitted |-> FALSE, kind |-> "REVIEW_FEE", paid |-> 0,
            submitter |-> None, defender |-> None, answers |-> FALSE]

\* A plan without payees stands for the nil settlement, as does a refund of 0.
NoPlan == [pool |-> 0, payees |-> << >>, paidAt |-> 0]
NoRefund == [amount |-> 0, paidAt |-> 0]

NoRound == [phase |-> "ABSENT", start |-> 0,
            commits |-> [v \in Accounts |-> None], reveals |-> << >>,
            verdict |-> "UNSPECIFIED", verdictBlock |-> 0,
            plan |-> NoPlan, refund |-> NoRefund]

NoBounty == [open |-> FALSE, expires |-> 0]
Idle == [todo |-> {}, budget |-> 0, last |-> 0, exhausted |-> FALSE]

CommitDeadline(r) == round[r].start + CommitPhaseBlocks
RevealDeadline(r) == CommitDeadline(r) + RevealPhaseBlocks
AggregationDeadline(r) == RevealDeadline(r) + AggregationPhaseBlocks

Committed(r) == {v \in Accounts : round[r].commits[v] # None}
Revealed(r) == Range(round[r].reveals)
\* Slip: every stored round is walked again.
ActiveEvenComplete(r) == round[r].phase # "ABSENT"

Active(r) == round[r].phase \in {"COMMIT", "REVEAL", "AGGREGATION"}

-----------------------------------------------------------------------------
(* Money *)

\* verifierPoolFromFee: 55%, floored; the frozen ReviewBudget of a claim.
verifierPoolFromFee(fee) == (fee * 550000) \div 1000000

\* The same amount as the funding-term validator recomputes it.
ClaimReviewBudget(paid) == (paid \div 100) * 55 + ((paid % 100) * 55) \div 100

\* distributeReviewFee: what leaves the module account at once.
FeeShares(fee) ==
    LET protocol == (fee * 220000) \div 1000000
        dev      == (fee * 196700) \div 1000000
    IN  [protocol |-> protocol, dev |-> dev,
         research |-> fee - verifierPoolFromFee(fee) - protocol - dev]

\* setClaimFundingTerms: what a deposit returns beside the review budget.
RefundableAmount(c) ==
    IF c.kind = "CHALLENGE_DEPOSIT" THEN c.paid - verifierPoolFromFee(c.paid) ELSE 0

\* What the payment of a claim leaves in the module account.
Escrowed(kind, paid) ==
    IF kind = "CHALLENGE_DEPOSIT" THEN paid ELSE verifierPoolFromFee(paid)

HasPlan(rd) == rd.plan.payees # << >>
HasRefund(rd) == rd.refund.amount > 0
PlanDue(rd) == HasPlan(rd) /\ rd.plan.paidAt = 0
RefundDue(rd) == HasRefund(rd) /\ rd.refund.paidAt = 0
roundHasPendingFunds(rd) == PlanDue(rd) \/ RefundDue(rd)

pendingFundTransferCount(rd) ==
    (IF PlanDue(rd) THEN Len(rd.plan.payees) ELSE 0) + (IF RefundDue(rd) THEN 1 ELSE 0)

\* Equal shares; the first payee takes the remainder of the division.
Share(plan, i) ==
    plan.pool \div Len(plan.payees) + (IF i = 1 THEN plan.pool % Len(plan.payees) ELSE 0)

ShareOf(plan, a) ==
    IF \E i \in DOMAIN plan.payees : plan.payees[i] = a
    THEN Share(plan, CHOOSE i \in DOMAIN plan.payees : plan.payees[i] = a)
    ELSE 0

AmountDue(rd) ==
    (IF PlanDue(rd) THEN rd.plan.pool ELSE 0) + (IF RefundDue(rd) THEN rd.refund.amount ELSE 0)

\* Slip: the refund goes to the defender of the disputed fact.
LegsToDefender(c, rd, a) ==
    (IF PlanDue(rd) THEN ShareOf(rd.plan, a) ELSE 0) +
    (IF RefundDue(rd) /\ c.defender = a THEN rd.refund.amount ELSE 0)

\* What account a gets when every unpaid leg of round rd, of claim c, is paid.
LegsTo(c, rd, a) ==
    (IF PlanDue(rd) THEN ShareOf(rd.plan, a) ELSE 0) +
    (IF RefundDue(rd) /\ c.submitter = a THEN rd.refund.amount ELSE 0)

-----------------------------------------------------------------------------
(* Aggregation *)

VotesFor(r, vote) == Cardinality({v \in Revealed(r) : round[r].commits[v] = vote})

\* safeMulDiv(count, 1_000_000, total): every review weighs 1 under policy 1.
Ratio(count, total) == IF total = 0 THEN 0 ELSE (count * 1000000) \div total

HeadcountFloor == IF MinHeadcountAgreement > minVerifiers THEN minVerifiers
                  ELSE MinHeadcountAgreement

\* Slip: the panel may be smaller than MinVerifiers.
AggregateAnyPanel(r) ==
    LET n == Len(round[r].reveals)
        Carries(vote) == /\ Ratio(VotesFor(r, vote), n) >= ConfidenceThreshold
                         /\ VotesFor(r, vote) >= HeadcountFloor
    IN  IF Carries("malformed") THEN "MALFORMED"
        ELSE IF Carries("accept") THEN "ACCEPT"
        ELSE IF Carries("reject") THEN "REJECT" ELSE "INCONCLUSIVE"

\* AggregateVerificationResult: malformed is tested before accept and reject.
AggregateVerdict(r) ==
    LET n == Len(round[r].reveals)
        Carries(vote) == /\ Ratio(VotesFor(r, vote), n) >= ConfidenceThreshold
                         /\ VotesFor(r, vote) >= HeadcountFloor
    IN  CASE n < minVerifiers -> "INCONCLUSIVE"
          [] n >= minVerifiers /\ Carries("malformed") -> "MALFORMED"
          [] n >= minVerifiers /\ ~Carries("malformed") /\ Carries("accept") -> "ACCEPT"
          [] n >= minVerifiers /\ ~Carries("malformed") /\ ~Carries("accept")
                               /\ Carries("reject") -> "REJECT"
          [] OTHER -> "INCONCLUSIVE"

PanelRevealed(r) ==
    /\ Len(round[r].reveals) = Cardinality(Committed(r))
    /\ Len(round[r].reveals) >= minVerifiers

\* GetExpectedPhase: deadline arithmetic, early aggregation of a closed panel,
\* never behind the stored phase.
ExpectedPhase(r) ==
    LET byDeadline == CASE height >= AggregationDeadline(r) -> "EXPIRED"
                        [] height >= RevealDeadline(r) /\ height < AggregationDeadline(r)
                             -> "AGGREGATION"
                        [] height >= CommitDeadline(r) /\ height < RevealDeadline(r)
                             -> "REVEAL"
                        [] OTHER -> "COMMIT"
        expected == IF byDeadline = "REVEAL" /\ PanelRevealed(r)
                    THEN "AGGREGATION" ELSE byDeadline
    IN  IF PhaseRank[expected] < PhaseRank[round[r].phase]
        THEN round[r].phase ELSE expected

\* Slip: a round past its last deadline is never completed.
PanelClosedInWindow(r) ==
    \/ height >= RevealDeadline(r) /\ height < AggregationDeadline(r)
    \/ height >= CommitDeadline(r) /\ PanelRevealed(r)

\* CompleteRound's own condition, read again from the stored round.
PanelClosed(r) ==
    \/ height >= RevealDeadline(r)
    \/ height >= CommitDeadline(r) /\ PanelRevealed(r)

-----------------------------------------------------------------------------
(* Transactions *)

\* SubmitClaim (review fee) and the deposits of ChallengeFact,
\* ChallengeProvisionalFact and SubmitContradiction: payment, funding terms,
\* claim and round in one cache.  A refused payment changes nothing.
Admit(r, kind, paid, submitter, defender, answers) ==
    /\ stage = "txs"
    /\ ~claim[r].admitted
    /\ height + CommitPhaseBlocks + RevealPhaseBlocks + AggregationPhaseBlocks <= MaxHeight
    /\ claim' = [claim EXCEPT ![r] =
                   [admitted |-> TRUE, kind |-> kind, paid |-> paid,
                    submitter |-> submitter, defender |-> defender, answers |-> answers]]
    /\ round' = [round EXCEPT ![r] = [NoRound EXCEPT !.phase = "COMMIT", !.start = height]]
    /\ moduleBal' = moduleBal + Escrowed(kind, paid)
    /\ custody' = [custody EXCEPT ![r] = Escrowed(kind, paid)]
    /\ UNCHANGED <<height, stage, work, minVerifiers, pending, cursor, received, bounty>>

SubmitClaim(r) ==
    \E paid \in Payments, s \in Accounts, answers \in BOOLEAN :
        Admit(r, "REVIEW_FEE", paid, s, None, answers)

SubmitDispute(r) ==
    \E paid \in Payments, s \in Accounts, d \in Accounts :
        Admit(r, "CHALLENGE_DEPOSIT", paid, s, d, FALSE)

\* refuseConflictedReviewer
Conflicted(r, v) == v \in {claim[r].submitter, claim[r].defender}

\* Slip: only the deadline is checked, which the block that opens the reveals
\* still meets.
CommitUntilDeadline(r, v, vote) ==
    /\ stage = "txs"
    /\ round[r].phase # "ABSENT"
    /\ height <= CommitDeadline(r)
    /\ Cardinality(Committed(r)) < CommitSeatHardCap
    /\ ~Conflicted(r, v)
    /\ round[r].commits[v] = None
    /\ round' = [round EXCEPT ![r].commits[v] = vote]
    /\ UNCHANGED <<height, stage, work, minVerifiers, claim, pending, cursor, books>>

\* The commitment binds the vote, so the vote is recorded here; it is read
\* only once revealed.  A second commitment of the same verifier is refused.
SubmitCommitment(r, v, vote) ==
    /\ stage = "txs"
    /\ round[r].phase = "COMMIT"
    /\ height <= CommitDeadline(r)
    /\ Cardinality(Committed(r)) < CommitSeatHardCap
    /\ ~Conflicted(r, v)
    /\ round[r].commits[v] = None
    /\ round' = [round EXCEPT ![r].commits[v] = vote]
    /\ UNCHANGED <<height, stage, work, minVerifiers, claim, pending, cursor, books>>

\* A reveal that does not match the commitment, or repeats one, is refused.
SubmitReveal(r, v) ==
    /\ stage = "txs"
    /\ round[r].phase = "REVEAL"
    /\ height <= RevealDeadline(r)
    /\ v \in Committed(r)
    /\ v \notin Revealed(r)
    /\ round' = [round EXCEPT ![r].reveals = Append(@, v)]
    /\ UNCHANGED <<height, stage, work, minVerifiers, claim, pending, cursor, books>>

\* Governance changes MinVerifiers under running rounds.
UpdateParams(m) ==
    /\ stage = "txs"
    /\ m # minVerifiers
    /\ minVerifiers' = m
    /\ UNCHANGED <<height, stage, work, claim, round, pending, cursor, books>>

-----------------------------------------------------------------------------
(* Settlement *)

\* Slip: paid rounds stay in the index.
NeverUnindexed(r, rd) == IF roundHasPendingFunds(rd) THEN pending \cup {r} ELSE pending

\* SetVerificationRound keeps the pending index in step with the record.
SyncPending(r, rd) ==
    IF roundHasPendingFunds(rd) THEN pending \cup {r} ELSE pending \ {r}

\* Slip: the refund is paid but not marked.
SettledPlanOnly(rd) == [rd EXCEPT !.plan.paidAt = IF PlanDue(rd) THEN height ELSE @]

\* TrySettleVerifierRewards marks every leg paid in the block that pays it.
Settled(rd) ==
    [rd EXCEPT !.plan.paidAt = IF PlanDue(rd) THEN height ELSE @,
               !.refund.paidAt = IF RefundDue(rd) THEN height ELSE @]

\* Pays every unpaid leg of rd out of bal, or nothing: rd is the record of
\* round r, stored with its markers.
Pay(r, rd, bal) ==
    /\ bal >= AmountDue(rd)
    /\ round' = [round EXCEPT ![r] = Settled(rd)]
    /\ pending' = SyncPending(r, Settled(rd))
    /\ moduleBal' = bal - AmountDue(rd)
    /\ received' = [a \in Accounts |-> received[a] + LegsTo(claim[r], rd, a)]
    /\ custody' = [custody EXCEPT ![r] = @ - AmountDue(rd)]

\* The record is stored and its obligations stay due.
Owe(r, rd, bal) ==
    /\ round' = [round EXCEPT ![r] = rd]
    /\ pending' = SyncPending(r, rd)
    /\ moduleBal' = bal
    /\ UNCHANGED <<received, custody>>

-----------------------------------------------------------------------------
(* ProcessPendingVerifierRewards *)

\* Slip: no room for the refund beside a full panel.
PanelTransferBudget == CommitSeatHardCap

\* One full panel and the refund beside it.
PendingTransferBudget == CommitSeatHardCap + 1

IsNext(r) == r \in work.todo /\ \A q \in work.todo : r <= q

FirstKeys(keys, n) == {r \in keys : Cardinality({q \in keys : q < r}) < n}

\* The clock stops at MaxHeight, when every deadline has passed, and blocks
\* go on.
NextBlock ==
    /\ stage = "txs"
    /\ height' = IF height < MaxHeight THEN height + 1 ELSE height
    /\ stage' = "pending"
    /\ LET keys == {r \in pending : r > cursor}
       IN  work' = [todo |-> FirstKeys(keys, PendingBatchSize),
                    budget |-> PendingTransferBudget, last |-> 0,
                    exhausted |-> Cardinality(keys) <= PendingBatchSize]
    /\ UNCHANGED <<minVerifiers, claim, round, pending, cursor, books>>

\* A round that needs more transfers than are left waits for the next block.
PendingStop(r) ==
    /\ stage = "pending"
    /\ IsNext(r)
    /\ pendingFundTransferCount(round[r]) > work.budget
    /\ work' = [work EXCEPT !.todo = {}, !.exhausted = FALSE]
    /\ UNCHANGED <<height, stage, minVerifiers, claim, round, pending, cursor, books>>

PendingTried(r) ==
    /\ stage = "pending"
    /\ IsNext(r)
    /\ pendingFundTransferCount(round[r]) <= work.budget
    /\ work' = [work EXCEPT !.todo = @ \ {r}, !.last = r,
                            !.budget = @ - pendingFundTransferCount(round[r])]
    /\ UNCHANGED <<height, stage, minVerifiers, claim, cursor, bounty>>

PendingPaid(r) == PendingTried(r) /\ Pay(r, round[r], moduleBal)

\* The bank refuses a transfer; the whole batch of the round stays due.
PendingUnpaid(r) == PendingTried(r) /\ Owe(r, round[r], moduleBal)

\* The cursor after the walk; then AdvanceRoundPhases collects its rounds.
PendingDone ==
    /\ stage = "pending"
    /\ work.todo = {}
    /\ cursor' = IF work.exhausted THEN 0
                 ELSE IF work.last # 0 THEN work.last ELSE cursor
    /\ stage' = "advance"
    /\ work' = [Idle EXCEPT !.todo = {r \in Rounds : Active(r)}]
    /\ UNCHANGED <<height, minVerifiers, claim, round, pending, books>>

-----------------------------------------------------------------------------
(* AdvanceRoundPhases and CompleteRound *)

Visited(r) ==
    /\ stage = "advance"
    /\ IsNext(r)
    /\ work' = [work EXCEPT !.todo = @ \ {r}]
    /\ UNCHANGED <<height, stage, minVerifiers, claim, cursor>>

\* The expected phase asks for an attempt to complete the round.
Aggregates(r) == ExpectedPhase(r) \in {"AGGREGATION", "EXPIRED"}

\* REVEAL -> AGGREGATION is stored before the attempt; a deadline that has
\* passed altogether leaves the phase to the attempt.
StoredPhase(r) ==
    IF ExpectedPhase(r) = "AGGREGATION" THEN "AGGREGATION" ELSE round[r].phase

KeepPhase(r) ==
    /\ Visited(r)
    /\ ExpectedPhase(r) = round[r].phase
    /\ ~Aggregates(r)
    /\ UNCHANGED <<round, pending, books>>

OpenReveal(r) ==
    /\ Visited(r)
    /\ ExpectedPhase(r) = "REVEAL"
    /\ round[r].phase = "COMMIT"
    /\ round' = [round EXCEPT ![r].phase = "REVEAL"]
    /\ UNCHANGED <<pending, books>>

\* Slip: the review budget nobody earned is not returned.
CompletedKeepingBudget(r) ==
    LET c == claim[r]
        rd == round[r]
        pool == verifierPoolFromFee(c.paid)
    IN  [rd EXCEPT
           !.phase = "COMPLETE", !.verdict = AggregateVerdict(r), !.verdictBlock = height,
           !.plan = IF rd.reveals = << >> \/ pool = 0 THEN NoPlan
                    ELSE [pool |-> pool, payees |-> rd.reveals, paidAt |-> 0],
           !.refund = [amount |-> RefundableAmount(c), paidAt |-> 0]]

\* The round with its verdict and its frozen obligations (completeRound,
\* buildVerifierRewardSettlement, buildClaimRefundSettlement).
Completed(r) ==
    LET c == claim[r]
        rd == round[r]
        pool == verifierPoolFromFee(c.paid)
        unused == IF rd.reveals = << >> THEN pool ELSE 0
    IN  [rd EXCEPT
           !.phase = "COMPLETE", !.verdict = AggregateVerdict(r), !.verdictBlock = height,
           !.plan = IF rd.reveals = << >> \/ pool = 0 THEN NoPlan
                    ELSE [pool |-> pool, payees |-> rd.reveals, paidAt |-> 0],
           !.refund = [amount |-> RefundableAmount(c) + unused, paidAt |-> 0]]

\* ClaimBountyForFact, reached when an accepted claim becomes a fact.
BountyMatches(r) ==
    /\ AggregateVerdict(r) = "ACCEPT"
    /\ claim[r].answers
    /\ bounty.open
    /\ height <= bounty.expires
    /\ moduleBal >= BountyReward

BountyAfter(taken) == IF taken THEN NoBounty ELSE bounty
\* Slip: the bounty is closed and its money stays.
BalanceKept(taken) == moduleBal

BalanceAfter(taken) == IF taken THEN moduleBal - BountyReward ELSE moduleBal

CompleteRound(r) ==
    /\ Visited(r)
    /\ Aggregates(r)
    /\ PanelClosed(r)

\* The verdict is written and the obligations are paid at once.
CompletePaid(r) ==
    /\ CompleteRound(r)
    /\ roundHasPendingFunds(Completed(r))
    /\ \E taken \in {FALSE, BountyMatches(r)} :
          /\ bounty' = BountyAfter(taken)
          /\ Pay(r, Completed(r), BalanceAfter(taken))

\* The verdict is written; nothing is due, or the bank refuses.
CompleteOwing(r) ==
    /\ CompleteRound(r)
    /\ \E taken \in {FALSE, BountyMatches(r)} :
          /\ bounty' = BountyAfter(taken)
          /\ Owe(r, Completed(r), BalanceAfter(taken))

\* The panel is not closed under the current parameters, or the cached
\* completion fails and is dropped; the next block tries again.
CompleteFails(r) ==
    /\ Visited(r)
    /\ Aggregates(r)
    /\ round' = [round EXCEPT ![r].phase = StoredPhase(r)]
    /\ UNCHANGED <<pending, books>>

-----------------------------------------------------------------------------
(* Epoch work on bounties, and the end of BeginBlocker *)

AdvanceDone ==
    /\ stage = "advance"
    /\ work.todo = {}
    /\ stage' = IF height % EpochBlocks = 0 THEN "demand" ELSE "txs"
    /\ work' = Idle
    /\ UNCHANGED <<height, minVerifiers, claim, round, pending, cursor, books>>

\* ProcessDemandBounties: the treasury funds a bounty when demand is high
\* enough and none is open.
ProcessDemandBounties ==
    /\ stage = "demand"
    /\ stage' = "expiry"
    /\ \/ UNCHANGED <<moduleBal, bounty>>
       \/ /\ ~bounty.open
          /\ height + BountyLifetime <= MaxHeight
          /\ bounty' = [open |-> TRUE, expires |-> height + BountyLifetime]
          /\ moduleBal' = moduleBal + BountyReward
    /\ UNCHANGED <<height, work, minVerifiers, claim, round, pending, cursor, received, custody>>

\* ProcessExpiredBounties: the money goes back, or the bank refuses.
ProcessExpiredBounties ==
    /\ stage = "expiry"
    /\ stage' = "txs"
    /\ \/ /\ bounty.open
          /\ height > bounty.expires
          /\ moduleBal >= BountyReward
          /\ bounty' = NoBounty
          /\ moduleBal' = moduleBal - BountyReward
       \/ UNCHANGED <<moduleBal, bounty>>
    /\ UNCHANGED <<height, work, minVerifiers, claim, round, pending, cursor, received, custody>>

-----------------------------------------------------------------------------
(* Specification *)

Init ==
    /\ height = 1
    /\ stage = "txs"
    /\ work = Idle
    /\ minVerifiers \in MinVerifiersChoices
    /\ claim = [r \in Rounds |-> NoClaim]
    /\ round = [r \in Rounds |-> NoRound]
    /\ pending = {}
    /\ cursor = 0
    /\ moduleBal = 0
    /\ received = [a \in Accounts |-> 0]
    /\ bounty = NoBounty
    /\ custody = [r \in Rounds |-> 0]

Tx ==
    \/ \E r \in Rounds : SubmitClaim(r) \/ SubmitDispute(r)
    \/ \E r \in Rounds, v \in Accounts, vote \in VoteOptions : SubmitCommitment(r, v, vote)
    \/ \E r \in Rounds, v \in Accounts : SubmitReveal(r, v)
    \/ \E m \in MinVerifiersChoices : UpdateParams(m)

PendingStep(r) == PendingStop(r) \/ PendingPaid(r) \/ PendingUnpaid(r)

AdvanceStep(r) ==
    \/ KeepPhase(r)
    \/ OpenReveal(r)
    \/ CompletePaid(r)
    \/ CompleteOwing(r)
    \/ CompleteFails(r)

Block ==
    \/ NextBlock
    \/ \E r \in Rounds : PendingStep(r) \/ AdvanceStep(r)
    \/ PendingDone
    \/ AdvanceDone
    \/ ProcessDemandBounties
    \/ ProcessExpiredBounties

Next == Tx \/ Block

Spec == Init /\ [][Next]_vars

\* Blocks keep coming and BeginBlocker runs to its end.  A completion or a
\* payment that can succeed is not refused for ever.
Fairness ==
    /\ WF_vars(Block)
    /\ \A r \in Rounds : SF_vars(CompletePaid(r) \/ CompleteOwing(r))
    /\ \A r \in Rounds : SF_vars(PendingPaid(r))

FairSpec == Spec /\ Fairness

-----------------------------------------------------------------------------
(* Properties *)

ClaimType ==
    [admitted : BOOLEAN, kind : Kinds, paid : Nat,
     submitter : Accounts \cup {None}, defender : Accounts \cup {None}, answers : BOOLEAN]

PlanType == [pool : Nat, payees : Seq(Accounts), paidAt : Nat]
RefundType == [amount : Nat, paidAt : Nat]

RoundType ==
    [phase : Phases, start : Nat, commits : [Accounts -> VoteOptions \cup {None}],
     reveals : Seq(Accounts), verdict : Verdicts, verdictBlock : Nat,
     plan : PlanType, refund : RefundType]

\* Every variable holds a value of the shape the stored records have.
TypeOK ==
    /\ height \in Nat \ {0}
    /\ stage \in {"txs", "pending", "advance", "demand", "expiry"}
    /\ work \in [todo : SUBSET Rounds, budget : Nat, last : Nat, exhausted : BOOLEAN]
    /\ minVerifiers \in MinVerifiersChoices
    /\ claim \in [Rounds -> ClaimType]
    /\ round \in [Rounds -> RoundType]
    /\ pending \in SUBSET Rounds
    /\ cursor \in Nat
    /\ moduleBal \in Nat
    /\ received \in [Accounts -> Nat]
    /\ bounty \in [open : BOOLEAN, expires : Nat]
    /\ custody \in [Rounds -> Nat]

\* What the module account owes because of claim r: the whole escrow until
\* the verdict, the unpaid frozen legs after it.
Liability(r) ==
    IF ~claim[r].admitted THEN 0
    ELSE IF round[r].phase = "COMPLETE" THEN AmountDue(round[r])
    ELSE Escrowed(claim[r].kind, claim[r].paid)

\* The money a claim brought into the module account and that has not left it
\* is exactly what is still owed for that claim: completion freezes neither
\* more nor less than the escrow, and a settlement pays all of it
\* (setClaimFundingTerms, buildVerifierRewardSettlement,
\* buildClaimRefundSettlement, TrySettleVerifierRewards).
CustodyCovers == \A r \in Rounds : custody[r] = Liability(r)

\* The shared module account holds what all claims and the open bounty
\* together are owed, so no payment of one can use up the money of another.
Solvent ==
    moduleBal = Total([r \in Rounds |-> Liability(r)]) + (IF bounty.open THEN BountyReward ELSE 0)

\* What account a should have received from claim r by now.
PaidShare(r, a) ==
    LET rd == round[r]
    IN  (IF HasPlan(rd) /\ rd.plan.paidAt # 0 THEN ShareOf(rd.plan, a) ELSE 0) +
        (IF HasRefund(rd) /\ rd.refund.paidAt # 0 /\ claim[r].submitter = a
         THEN rd.refund.amount ELSE 0)

\* From settlements, each reviewer and payer has received the legs marked paid,
\* once, and nothing else, whatever the order of completions, refusals and retries
\* (TrySettleVerifierRewards called from CompleteRound and from the queue).
PaidExactlyOnce ==
    \A a \in Accounts : received[a] = Total([r \in Rounds |-> PaidShare(r, a)])

\* The retry queue lists exactly the rounds that still owe something, so no
\* obligation is forgotten and none is visited after it is paid
\* (SyncPendingVerifierRewardIndex).
PendingIndexExact == pending = {r \in Rounds : roundHasPendingFunds(round[r])}

\* Reviewer payments and the refund of a round are paid in the same block
\* (the cache of TrySettleVerifierRewards).
SettledTogether ==
    \A r \in Rounds : HasPlan(round[r]) /\ HasRefund(round[r]) =>
        round[r].plan.paidAt = round[r].refund.paidAt

EarlyVerdictHeardAll(r) ==
    round[r].phase = "COMPLETE" /\ round[r].verdictBlock < RevealDeadline(r)
        => Revealed(r) = Committed(r)
DecisiveHasQuorum(r) ==
    round[r].verdict \in {"ACCEPT", "REJECT", "MALFORMED"} =>
        /\ Cardinality(Revealed(r)) >= Min(MinVerifiersChoices)
        /\ Revealed(r) \subseteq Committed(r)

\* A verdict before the reveal deadline is only ever given when every
\* committed reviewer was heard, and a decisive verdict rests on a quorum of
\* distinct committed reviewers, whatever happened to MinVerifiers meanwhile
\* (GetExpectedPhase, CompleteRound, AggregateVerdict).
VerdictJustified == \A r \in Rounds : EarlyVerdictHeardAll(r) /\ DecisiveHasQuorum(r)

CommitsFrozen(r) == round[r].reveals # << >> => round'[r].commits = round[r].commits

\* No one commits once a vote of the round is public (SubmitCommitment,
\* SubmitReveal and the phase transitions of AdvanceRoundPhases).
NoCommitAfterReveal == [][\A r \in Rounds : CommitsFrozen(r)]_vars

FinalFields == {"phase", "start", "commits", "reveals", "verdict", "verdictBlock"}

Frozen(r) ==
    LET old == round[r]
        new == round'[r]
    IN  old.phase = "COMPLETE" =>
          /\ \A f \in FinalFields : new[f] = old[f]
          /\ new.plan.pool = old.plan.pool
          /\ new.plan.payees = old.plan.payees
          /\ new.refund.amount = old.refund.amount
          /\ old.plan.paidAt # 0 => new.plan.paidAt = old.plan.paidAt
          /\ old.refund.paidAt # 0 => new.refund.paidAt = old.refund.paidAt

\* A completed round never changes again except that its legs become paid,
\* once (ValidateVerifierRewardSettlementUpdate and its refund twin).
FinalIsFrozen == [][\A r \in Rounds : Frozen(r)]_vars

NotEarlier(r) == PhaseRank[round[r].phase] <= PhaseRank[round'[r].phase]

\* A round never moves back to an earlier phase (the floor in GetExpectedPhase).
PhaseMonotone == [][\A r \in Rounds : NotEarlier(r)]_vars

\* Every admitted claim gets a verdict: a failed completion is retried even
\* though its phase transition has already happened (AdvanceRoundPhases).
EveryClaimDecided ==
    \A r \in Rounds : claim[r].admitted ~> round[r].phase = "COMPLETE"

\* Every frozen obligation is eventually paid: the cursor and the transfer
\* budget starve no round (ProcessPendingVerifierRewards).
EveryObligationPaid ==
    \A r \in Rounds : r \in pending ~> r \notin pending

-----------------------------------------------------------------------------
(* Refinement *)

EscrowAmounts == {Escrowed(k, p) : k \in Kinds, p \in Payments}

EscrowState ==
    [r \in Rounds |-> IF ~claim[r].admitted THEN "none"
                      ELSE IF round[r].phase # "COMPLETE" THEN "open"
                      ELSE IF roundHasPendingFunds(round[r]) THEN "decided"
                      ELSE "settled"]

Escrow == INSTANCE ReviewEscrow
            WITH Ids <- Rounds, Amounts <- EscrowAmounts, state <- EscrowState, held <- custody

\* Rounds, queue, retries and bounties together do what an escrow does with
\* the money of each claim: it goes out once, all of it in one step.
ImplementsEscrow == Escrow!Spec

=============================================================================
