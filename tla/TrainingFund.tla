---------------------------- MODULE TrainingFund ----------------------------
(***************************************************************************)
(* The training fund of x/knowledge: bounties for variants of a fact, with *)
(* the sponsor's escrow, the panel that judges variants, the sponsor's     *)
(* veto and the return at expiry; and the bonds of contribution challenges. *)
(* All of it lies in one module account. Senders are assumed to have the   *)
(* coins they lock. The fact that the variants are of exists and names its *)
(* submitter; the challenged model has a contribution record. A verdict    *)
(* also writes a REFORMULATES edge and reports each voter to               *)
(* x/qualification; nothing here reads either, and both are left out.      *)
(***************************************************************************)
EXTENDS Integers, Sequences, Totals

CONSTANTS Sponsors, Submitters, Verifiers,
          Offers,       \* inputs: [reward, max, expires] of a bounty; expires 0: never
          Weights,      \* what stake and qualification give a vote, read when it is cast
          Verdicts,     \* verdicts a vote may name
          Bonuses,      \* values of the bonus for superior variants, in millionths
          Bonds,        \* values of the bond parameter
          MinPanelVotes, ConsensusBps, ExpiryFeeBps,
          MaxBounties, MaxVariants, MaxChallenges, \* bounds: records
          MaxHeight                                \* bound: blocks

Bps == 1000000
FundAssumption ==
    /\ Offers \subseteq [reward : Nat, max : Nat \ {0}, expires : Nat]
    /\ Weights \subseteq Nat /\ Bonuses \subseteq Nat \ {0} /\ Bonds \subseteq Nat
    /\ ExpiryFeeBps \in 0..Bps /\ MaxHeight \in Nat
    /\ Verdicts \subseteq {"equivalent", "superior", "drift", "inferior"}

VARIABLES bounty,    \* bounties by number, in the order of their identifiers
          locked,    \* TrainingFundEscrowLocked by bounty; 0: no entry
          variant,   \* augmentations by number
          challenge, \* contribution challenges by number
          fund,      \* balance of the module account
          bonus,     \* ReformulationSuperiorBonusBps
          neutral,   \* review neutrality is active
          height,
          due,       \* bounties that the begin blocker has yet to expire; {}: transactions run
          over,      \* history: coins sent for a bounty beyond its escrow
          kept       \* history: expiry fees that could not be sent on

vars == <<bounty, locked, variant, challenge, fund, bonus, neutral, height, due, over, kept>>
history == <<over, kept>>

NoBounty == 0
Passing == {"equivalent", "superior"}

-----------------------------------------------------------------------------
(* Slip: what exceeds the escrow leaves its entry alone. *)
ReducedByPayoutsOnly(cur, amount) == IF cur >= amount THEN cur - amount ELSE cur

-----------------------------------------------------------------------------
(* Amounts *)

Bonus(amount) == (amount * bonus) \div Bps
Escrow(o) == o.reward * o.max + Bonus(o.reward * o.max)
reduceEscrowLocked(cur, amount) == IF cur >= amount THEN cur - amount ELSE 0
Overdraft(cur, amount) == IF cur >= amount THEN 0 ELSE amount - cur
EscrowAugmentationBounty(amount) == fund' = fund + amount /\ locked' = Append(locked, amount)

(* ReleaseAugmentationPayout and ForfeitAugmentationDeposit: the bank checks the whole account, and the entry *)
(* of the bounty ends at zero.                                                                                *)
TakeFromEscrow(b, amount) ==
    /\ fund >= amount /\ fund' = fund - amount
    /\ locked' = [locked EXCEPT ![b] = reduceEscrowLocked(@, amount)]
    /\ over' = over + Overdraft(locked[b], amount)

Payout(b, verdict) == bounty[b].reward + IF verdict = "superior" THEN Bonus(bounty[b].reward) ELSE 0

(* The panel: verdicts with the consensus of the weight cast, once enough have voted. *)
Weight(votes, S) == Total([i \in {j \in DOMAIN votes : votes[j].vote \in S} |-> votes[i].weight])
Winners(votes) ==
    LET total == Weight(votes, Verdicts)
        passed == {v \in Verdicts : total > 0 /\ (Weight(votes, {v}) * Bps) \div total >= ConsensusBps /\ Weight(votes, {v}) > 0}
    IN  IF Len(votes) < MinPanelVotes THEN {}
        ELSE {v \in passed : \A w \in passed : Weight(votes, {v}) >= Weight(votes, {w})}

-----------------------------------------------------------------------------
(* Bounties and variants *)

CreateAugmentationBounty(s, o) ==
    /\ ~neutral /\ Len(bounty) < MaxBounties
    /\ EscrowAugmentationBounty(Escrow(o))
    /\ bounty' = Append(bounty, [sponsor |-> s, reward |-> o.reward, max |-> o.max, accepted |-> 0,
                                 expires |-> o.expires, active |-> TRUE, escrow |-> Escrow(o)])
    /\ UNCHANGED <<variant, challenge, bonus, neutral, height, history>>

SubmitAugmentation(w, b) ==
    /\ ~neutral /\ Len(variant) < MaxVariants
    /\ b # NoBounty => bounty[b].active /\ bounty[b].accepted < bounty[b].max
    /\ variant' = Append(variant, [bounty |-> b, by |-> w, verdict |-> "pending", votes |-> <<>>, accepted |-> FALSE,
                                   vetoed |-> FALSE, payout |-> 0, at |-> 0])
    /\ UNCHANGED <<bounty, locked, challenge, fund, bonus, neutral, height, history>>

(* The guards of RecordAugmentationVote: no judge in their own cause, one vote each. *)
MayJudge(a, v) ==
    /\ v # variant[a].by
    /\ variant[a].bounty # NoBounty => v # bounty[variant[a].bounty].sponsor
    /\ \A i \in DOMAIN variant[a].votes : variant[a].votes[i].who # v

(* A saturated bounty pays no further variant. A variant can be vetoed only after its verdict. *)
Pays(a, verdict) ==
    LET b == variant[a].bounty IN
    verdict \in Passing /\ b # NoBounty /\ bounty[b].accepted < bounty[b].max /\ ~variant[a].vetoed

(* ApplyFinalizedAugmentationVerdict *)
Decided(a, votes, verdict) ==
    [variant[a] EXCEPT !.votes = votes, !.verdict = verdict, !.at = height,
                       !.accepted = @ \/ Pays(a, verdict) \/ (verdict \in Passing /\ variant[a].bounty = NoBounty),
                       !.payout = IF Pays(a, verdict) THEN Payout(variant[a].bounty, verdict) ELSE @]

Finalize(a, votes, verdict) ==
    LET b == variant[a].bounty
    IN  /\ variant' = [variant EXCEPT ![a] = Decided(a, votes, verdict)]
        /\ IF Pays(a, verdict)
           THEN /\ TakeFromEscrow(b, Payout(b, verdict))
                /\ bounty' = [bounty EXCEPT ![b].accepted = @ + 1,
                                            ![b].active = @ /\ bounty[b].accepted + 1 < bounty[b].max]
           ELSE UNCHANGED <<fund, locked, over, bounty>>

Cast(a, v, vote, weight) == Append(variant[a].votes, [who |-> v, vote |-> vote, weight |-> weight])

(* The vote and the verdict it completes are one transaction: a payout the fund cannot make refuses the vote. *)
VoteOnAugmentation(a, v, vote, weight) ==
    LET votes == Cast(a, v, vote, weight) IN
    /\ variant[a].verdict = "pending" /\ MayJudge(a, v)
    /\ \/ /\ Winners(votes) = {}
          /\ variant' = [variant EXCEPT ![a].votes = votes]
          /\ UNCHANGED <<fund, locked, over, bounty>>
       \/ \E verdict \in Winners(votes) : Finalize(a, votes, verdict)
    /\ UNCHANGED <<challenge, bonus, neutral, height, kept>>

(* What the veto forfeits: the payout again, or the reward where nothing was paid. The veto also overwrites the *)
(* record of the payout, which nobody reads from then on: payout keeps what was paid.                           *)
Forfeit(a) == IF variant[a].payout > 0 THEN variant[a].payout ELSE bounty[variant[a].bounty].reward

SponsorVetoAugmentation(a) ==
    LET b == variant[a].bounty IN
    /\ b # NoBounty /\ variant[a].verdict \in Passing /\ ~variant[a].vetoed
    /\ TakeFromEscrow(b, Forfeit(a))
    /\ variant' = [variant EXCEPT ![a].vetoed = TRUE]
    /\ UNCHANGED <<bounty, challenge, bonus, neutral, height, kept>>

(* The fact's submitter accepts a variant outside bounties, in any state of its ballot; inside one, anybody *)
(* accepts what has passed.                                                                                 *)
AcceptAugmentation(a) ==
    /\ ~variant[a].accepted
    /\ variant[a].bounty # NoBounty => variant[a].verdict \in Passing
    /\ variant' = [variant EXCEPT ![a].accepted = TRUE]
    /\ UNCHANGED <<bounty, locked, challenge, fund, bonus, neutral, height, history>>

-----------------------------------------------------------------------------
(* Contribution challenges *)

ChallengeContribution(bond) ==
    /\ Len(challenge) < MaxChallenges
    /\ fund' = fund + bond
    /\ challenge' = Append(challenge, [bond |-> bond, status |-> "open"])
    /\ UNCHANGED <<bounty, locked, variant, bonus, neutral, height, history>>

ResolveContributionChallenge(c, status) ==
    /\ challenge[c].status = "open" /\ fund >= challenge[c].bond
    /\ fund' = fund - challenge[c].bond
    /\ challenge' = [challenge EXCEPT ![c].status = status]
    /\ UNCHANGED <<bounty, locked, variant, bonus, neutral, height, history>>

-----------------------------------------------------------------------------
(* Blocks and parameters *)

(* The part of ProcessRouteBLifecycle that moves coins: the active bounties that reached their height are listed, *)
(* then expired one after the other. Disbursements are sealed, so none vests.                                     *)
Due(b, h) == bounty[b].active /\ bounty[b].expires # 0 /\ bounty[b].expires <= h

BeginBlocker ==
    /\ due = {} /\ height < MaxHeight /\ height' = height + 1
    /\ due' = {b \in DOMAIN bounty : Due(b, height + 1)}
    /\ UNCHANGED <<bounty, locked, variant, challenge, fund, bonus, neutral, history>>

ExpiryFee(b) == (locked[b] * ExpiryFeeBps) \div Bps
Refund(b) == locked[b] - ExpiryFee(b)

(* expireBountiesBelow, the next bounty: the refund must succeed, or the bounty waits for the next block; the fee *)
(* need not.                                                                                                      *)
ExpireNext(b) ==
    LET left == fund - Refund(b)
        paid == left >= ExpiryFee(b)
    IN  /\ b \in due /\ \A other \in due : b <= other
        /\ due' = due \ {b}
        /\ \/ fund < Refund(b) /\ UNCHANGED <<bounty, locked, fund, kept>>
           \/ /\ fund >= Refund(b)
              /\ bounty' = [bounty EXCEPT ![b].active = FALSE]
              /\ locked' = [locked EXCEPT ![b] = 0]
              /\ fund' = IF paid THEN left - ExpiryFee(b) ELSE left
              /\ kept' = IF paid THEN kept ELSE kept + ExpiryFee(b)
        /\ UNCHANGED <<variant, challenge, bonus, neutral, height, over>>

UpdateParams(x) ==
    /\ bonus' = x /\ x # bonus
    /\ UNCHANGED <<bounty, locked, variant, challenge, fund, neutral, height, history>>

ActivateReviewNeutrality ==
    /\ ~neutral /\ neutral' = TRUE
    /\ UNCHANGED <<bounty, locked, variant, challenge, fund, bonus, height, history>>

-----------------------------------------------------------------------------
Init ==
    /\ bounty = <<>> /\ locked = <<>> /\ variant = <<>> /\ challenge = <<>>
    /\ fund = 0 /\ bonus \in Bonuses /\ neutral = FALSE /\ height = 1
    /\ due = {} /\ over = 0 /\ kept = 0

Transaction ==
    \/ \E s \in Sponsors, o \in Offers : CreateAugmentationBounty(s, o)
    \/ \E w \in Submitters, b \in {NoBounty} \cup DOMAIN bounty : SubmitAugmentation(w, b)
    \/ \E a \in DOMAIN variant :
          \/ \E v \in Verifiers, vote \in Verdicts, weight \in Weights : VoteOnAugmentation(a, v, vote, weight)
          \/ SponsorVetoAugmentation(a)
          \/ AcceptAugmentation(a)
    \/ \E bond \in Bonds : ChallengeContribution(bond)
    \/ \E c \in DOMAIN challenge, status \in {"upheld", "rejected"} : ResolveContributionChallenge(c, status)
    \/ \E x \in Bonuses : UpdateParams(x)
    \/ ActivateReviewNeutrality

Next ==
    \/ due = {} /\ Transaction /\ UNCHANGED due
    \/ BeginBlocker
    \/ \E b \in DOMAIN bounty : ExpireNext(b)

Spec == Init /\ [][Next]_vars

-----------------------------------------------------------------------------
(* Properties *)

Of(b) == {a \in DOMAIN variant : variant[a].bounty = b}
Paid(b) == {a \in Of(b) : variant[a].payout > 0}
PaidOut(b) == Total([a \in Paid(b) |-> variant[a].payout])
OpenBond(c) == IF challenge[c].status = "open" THEN challenge[c].bond ELSE 0

TypeOK ==
    /\ fund \in Nat /\ over \in Nat /\ kept \in Nat /\ neutral \in BOOLEAN /\ bonus \in Bonuses
    /\ DOMAIN locked = DOMAIN bounty
    /\ \A b \in DOMAIN bounty : locked[b] \in Nat /\ bounty[b].accepted \in 0..bounty[b].max
    /\ \A a \in DOMAIN variant : variant[a].bounty \in 0..Len(bounty) /\ variant[a].verdict \in Verdicts \cup {"pending"}

(* The account is what bounties have locked and challenges have bonded, less what went out beyond an escrow. *)
FundAccounted == fund + over = Total(locked) + Total([c \in DOMAIN challenge |-> OpenBond(c)]) + kept

(* Coins go out beyond an escrow for three reasons only: a veto forfeits what was already paid, a verdict comes *)
(* after the escrow went back, and the bonus was raised after the escrow was set.                               *)
ShortfallExplained ==
    over > 0 => \E b \in DOMAIN bounty :
                   \/ \E a \in Of(b) : variant[a].vetoed
                   \/ \E a \in Paid(b) : bounty[b].expires # 0 /\ variant[a].at >= bounty[b].expires
                   \/ PaidOut(b) > bounty[b].escrow

(* msg_server_training_v4.go: "The sponsor loses the equivalent amount from remaining escrow". *)
ForfeitFromEscrow ==
    over > 0 => \E b \in DOMAIN bounty :
                   \/ \E a \in Paid(b) : bounty[b].expires # 0 /\ variant[a].at >= bounty[b].expires
                   \/ PaidOut(b) > bounty[b].escrow

(* msg_server_training_v4.go: "The only way for a sponsor to block a verdict". *)
VetoBlocks == \A a \in DOMAIN variant : variant[a].vetoed => variant[a].payout = 0

(* A bounty pays each of its places once. *)
PlacesPaidOnce == \A b \in DOMAIN bounty : bounty[b].reward > 0 => Cardinality(Paid(b)) = bounty[b].accepted

(* A verdict is that of the panel at the first moment it had one: the last vote made the consensus. *)
VerdictAtFirstConsensus ==
    \A a \in DOMAIN variant :
        LET votes == variant[a].votes IN
        IF variant[a].verdict = "pending" THEN Winners(votes) = {}
        ELSE variant[a].verdict \in Winners(votes) /\ Winners(SubSeq(votes, 1, Len(votes) - 1)) = {}

=============================================================================
