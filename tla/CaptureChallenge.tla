-------------------------- MODULE CaptureChallenge --------------------------
(***************************************************************************)
(* x/capture_defense detects domains whose review is concentrated in few   *)
(* validators; x/capture_challenge adjudicates accusations, its own and    *)
(* those of staked challengers, pays from the bounty pool of the domain    *)
(* and lays penalties on the accused in x/qualification and x/knowledge.   *)
(***************************************************************************)
EXTENDS Integers, Sequences, FiniteSetsExt, FiniteSets, Totals

CONSTANTS Protocol,             \* the module account, challenger of the protocol's own challenges
          Challengers, Domains, Validators,
          Accusations,      \* sets of validators one may accuse
          Panels,           \* sets of validators a round of review may have
          Stakes, MinStake, Gifts,
          Outcomes,         \* outcomes the authority decides for
          BPSScale, RewardRate, Threshold,
          EvidencePeriod, ReviewPeriod, Pause, PenaltyBlocks,
          Intervals,        \* blocks between analyses, as the pacing of x/alignment may set them
          MaxChallenges, MaxGifts, MaxRounds, MaxHeight \* bounds

PeriodsAssumption == {EvidencePeriod, ReviewPeriod, PenaltyBlocks} \subseteq Nat \ {0} /\ Pause \in Nat
\* The module account signs no message; rates are checked with the parameters.
ChallengesAssumption ==
    /\ Protocol \notin Challengers /\ Accusations \subseteq SUBSET Validators /\ IsFiniteSet(Domains)
    /\ Stakes \cup Gifts \subseteq Nat /\ BPSScale \in Nat \ {0} /\ RewardRate \in 0..BPSScale

VARIABLES ch,      \* challenges by <<challenger, domain, block>>, the preimage of the id
          paused,  \* block until which a domain takes no challenge, 0 if none
          pool,    \* bounty pool of each domain
          held,    \* coins of the module account
          dev,     \* coins it sent to the development fund
          penalty, \* last block of the qualification penalty of a validator in a domain
          raised,  \* last block of the raised verification threshold of a domain
          history, \* panels of the rounds of each domain
          flag,    \* domains flagged by the last analysis
          gifts,
          height
vars == <<ch, paused, pool, held, dev, penalty, raised, history, flag, gifts, height>>
funds == <<pool, held, dev>>
detection == <<history, flag>>
consequences == <<penalty, raised>>

Active(c) == c.status \in {"evidence", "under_review"}
ActiveIn(cs, d) == {k \in DOMAIN cs : k[2] = d /\ Active(cs[k])}
Sum(S, f(_)) == MapThenSumSet(f, S)
StakesOf(cs, S) == Total([k \in DOMAIN cs |-> IF k \in S THEN cs[k].stake ELSE 0])

-----------------------------------------------------------------------------
(* Detection.                                                              *)
Count(d, v) == Cardinality({n \in DOMAIN history[d] : v \in history[d][n]})
Participations(d) == Sum(Validators, LAMBDA v : Count(d, v))
Share(d, v) == (Count(d, v) * BPSScale) \div Participations(d)
HerfindahlIndex(d) == Sum(Validators, LAMBDA v : (Share(d, v) * Share(d, v)) \div BPSScale)
Flagged(d) == Participations(d) > 0 /\ HerfindahlIndex(d) > Threshold

(* RecordVerificationFromKnowledge: x/knowledge reports a completed round. *)
RecordVerification(d, panel) ==
    /\ Len(history[d]) < MaxRounds
    /\ history' = [history EXCEPT ![d] = Append(@, panel)]
    /\ UNCHANGED <<ch, paused, funds, consequences, flag, gifts, height>>

(* Anyone may ask for the analysis, which flags and does not accuse. *)
AnalyzeDomain(d) ==
    /\ Participations(d) > 0
    /\ flag' = [flag EXCEPT ![d] = Flagged(d)]
    /\ UNCHANGED <<ch, paused, funds, consequences, history, gifts, height>>

-----------------------------------------------------------------------------
(* Challenges.                                                             *)
InPause(d) == height < paused[d]
Filed(cs, new, c) == [k \in DOMAIN cs \cup new |-> IF k \in new THEN c ELSE cs[k]]

SubmitChallenge(who, d, accused, stake) ==
    /\ stake >= MinStake /\ ~InPause(d) /\ Cardinality(DOMAIN ch) < MaxChallenges
    /\ held' = held + stake
    /\ ch' = Filed(ch, {<<who, d, height>>},
                   [accused |-> accused, stake |-> stake, status |-> "evidence", evidences |-> 0,
                    evidence |-> height + EvidencePeriod, review |-> height + EvidencePeriod + ReviewPeriod,
                    outcome |-> "none", decided |-> 0, back |-> 0])
    /\ paused' = [paused EXCEPT ![d] = IF Pause > 0 THEN height + Pause ELSE 0]
    /\ UNCHANGED <<pool, dev, consequences, detection, gifts, height>>

AddEvidence(k) ==
    /\ ch[k].status = "evidence" /\ k[1] # Protocol /\ height < ch[k].evidence /\ ch[k].evidences < 1
    /\ ch' = [ch EXCEPT ![k].evidences = @ + 1]
    /\ UNCHANGED <<paused, funds, consequences, detection, gifts, height>>

FundBountyPool(d, amount) ==
    /\ gifts < MaxGifts /\ gifts' = gifts + 1
    /\ held' = held + amount /\ pool' = [pool EXCEPT ![d] = @ + amount]
    /\ UNCHANGED <<ch, paused, dev, consequences, detection, height>>

(* What the challenger gets of the pool: nothing if the account lacks the coins, or if the *)
(* challenger is the module itself, whose address may not receive.                         *)
Reward(k, part, cash) ==
    LET due == ((pool[k[2]] * RewardRate) \div BPSScale) \div part IN
    IF k[1] = Protocol \/ due > cash THEN 0 ELSE due

Decided(k, outcome, back) ==
    [ch EXCEPT ![k] = [@ EXCEPT !.status = "resolved", !.outcome = outcome, !.decided = height, !.back = back]]
Penalised(p, accused, d, h) ==
    [v \in Validators |-> [e \in Domains |-> IF v \in accused /\ e = d THEN h + PenaltyBlocks ELSE p[v][e]]]

(* The reward is sent first; a stake that cannot be returned then undoes the whole decision. *)
Uphold(k) ==
    LET reward == Reward(k, 1, held) IN
    /\ held - reward >= ch[k].stake
    /\ held' = held - reward - ch[k].stake
    /\ pool' = [pool EXCEPT ![k[2]] = @ - reward]
    /\ ch' = Decided(k, "upheld", ch[k].stake)
    /\ penalty' = Penalised(penalty, ch[k].accused, k[2], height)
    /\ raised' = [raised EXCEPT ![k[2]] = height + PenaltyBlocks]
    /\ UNCHANGED <<dev, flag>>

(* The stake goes to the development fund, and the pool is credited with it as well. *)
Reject(k) ==
    /\ held >= ch[k].stake
    /\ held' = held - ch[k].stake /\ dev' = dev + ch[k].stake
    /\ pool' = [pool EXCEPT ![k[2]] = @ + ch[k].stake]
    /\ ch' = Decided(k, "rejected", 0)
    /\ flag' = [flag EXCEPT ![k[2]] = FALSE]
    /\ UNCHANGED consequences

UpholdInPart(k) ==
    LET half == ch[k].stake \div 2
        reward == Reward(k, 2, held - ch[k].stake)
    IN /\ held >= ch[k].stake
       /\ held' = held - ch[k].stake - reward /\ dev' = dev + ch[k].stake - half
       /\ pool' = [pool EXCEPT ![k[2]] = @ - reward]
       /\ ch' = Decided(k, "partial", half)
       /\ UNCHANGED <<consequences, flag>>

ResolveChallenge(k, outcome) ==
    /\ ch[k].status = "under_review"
    /\ \/ outcome = "upheld" /\ Uphold(k)
       \/ outcome = "rejected" /\ Reject(k)
       \/ outcome = "partial" /\ UpholdInPart(k)
    /\ UNCHANGED <<paused, history, gifts, height>>

-----------------------------------------------------------------------------
(* A block: detection first, then the phases of challenges.                *)
HasActive(cs, d) == ActiveIn(cs, d) # {}

AutoChallenge(h) == [accused |-> {}, stake |-> 0, status |-> "under_review", evidences |-> 1, evidence |-> h,
                     review |-> h + ReviewPeriod, outcome |-> "none", decided |-> 0, back |-> 0]
AccusedByOldFlags(cs, fl, h) == \* a slip of Accused
    Filed(cs, {<<Protocol, d, h>> : d \in {e \in Domains : flag[e] /\ ~HasActive(cs, e)}}, AutoChallenge(h))
(* AutoSubmitChallenge for every flagged domain. *)
Accused(cs, fl, h) ==
    Filed(cs, {<<Protocol, d, h>> : d \in {e \in Domains : fl[e] /\ ~HasActive(cs, e)}}, AutoChallenge(h))

Advanced(c, h) ==
    CASE c.status = "evidence" /\ h >= c.evidence -> [c EXCEPT !.status = "under_review"]
      [] c.status = "under_review" /\ h >= c.review -> [c EXCEPT !.status = "expired"]
      [] OTHER -> c

(* Stakes returned on expiry: one after the other while the account can pay, silently none after. *)
Expiring(cs, h) == {k \in DOMAIN cs : cs[k].status = "under_review" /\ h >= cs[k].review}
Refundable(cs, have, h) ==
    {S \in SUBSET Expiring(cs, h) :
        /\ StakesOf(cs, S) <= have
        /\ \A k \in Expiring(cs, h) \ S : StakesOf(cs, S) + cs[k].stake > have}

NextBlock ==
    /\ height < MaxHeight
    /\ height' = height + 1
    /\ \E interval \in Intervals :
         LET due == (height + 1) % interval = 0
             fl == [d \in Domains |-> IF due /\ Participations(d) > 0 THEN Flagged(d) ELSE flag[d]]
             cs == IF due THEN Accused(ch, fl, height + 1) ELSE ch
         IN /\ flag' = fl
            /\ \E S \in Refundable(cs, held, height + 1) :
                 /\ ch' = [k \in DOMAIN cs |-> [Advanced(cs[k], height + 1) EXCEPT !.back = IF k \in S THEN cs[k].stake ELSE @]]
                 /\ held' = held - StakesOf(cs, S)
    /\ UNCHANGED <<paused, pool, dev, consequences, history, gifts>>

Init ==
    /\ ch = [k \in {} |-> 0] /\ paused = [d \in Domains |-> 0] /\ pool = [d \in Domains |-> 0] /\ held = 0 /\ dev = 0
    /\ penalty = [v \in Validators |-> [d \in Domains |-> 0]] /\ raised = [d \in Domains |-> 0]
    /\ history = [d \in Domains |-> <<>>] /\ flag = [d \in Domains |-> FALSE] /\ gifts = 0 /\ height = 1

Next ==
    \/ \E d \in Domains, panel \in Panels : RecordVerification(d, panel)
    \/ \E d \in Domains : AnalyzeDomain(d)
    \/ \E who \in Challengers, d \in Domains, accused \in Accusations, stake \in Stakes : SubmitChallenge(who, d, accused, stake)
    \/ \E k \in DOMAIN ch : AddEvidence(k)
    \/ \E d \in Domains, amount \in Gifts : FundBountyPool(d, amount)
    \/ \E k \in DOMAIN ch, outcome \in Outcomes : ResolveChallenge(k, outcome)
    \/ NextBlock

Spec == Init /\ [][Next]_vars
BlockPasses == height < MaxHeight /\ height' = height + 1

-----------------------------------------------------------------------------
(* Properties.                                                             *)
TypeOK ==
    /\ \A k \in DOMAIN ch :
         /\ k[1] \in Challengers \cup {Protocol} /\ k[2] \in Domains /\ k[3] \in 1..height
         /\ ch[k].status \in {"evidence", "under_review", "resolved", "expired"}
         /\ ch[k].back \in 0..ch[k].stake
    /\ held \in Nat /\ dev \in Nat /\ pool \in [Domains -> Nat]

(* Unless a challenge is rejected, the account holds exactly the pools and the stakes of open challenges. *)
Backed == held = Total(pool) + StakesOf(ch, {k \in DOMAIN ch : Active(ch[k])})

(* keeper.go: "Return stake on expiry". *)
RefundedOnExpiry == \A k \in DOMAIN ch : ch[k].status = "expired" => ch[k].back = ch[k].stake

(* An upheld challenge weighs on each accused validator, and on its domain, to the end of the penalty, *)
(* whatever other challenges are decided meanwhile.                                                    *)
ConsequenceLands ==
    \A k \in DOMAIN ch : ch[k].outcome = "upheld" =>
        /\ \A v \in ch[k].accused : penalty[v][k[2]] >= ch[k].decided + PenaltyBlocks
        /\ raised[k[2]] >= ch[k].decided + PenaltyBlocks

(* The protocol never accuses a domain that is already before the panel: its open challenge is the only one *)
(* of its kind, and all others of the domain were submitted after it.                                       *)
OneAutoChallenge ==
    \A d \in Domains : \A k, j \in ActiveIn(ch, d) : k[1] = Protocol /\ j # k => j[1] # Protocol /\ j[3] >= k[3]

(* Challengers cannot accuse one domain twice within the pause. *)
Spaced ==
    \A k, j \in DOMAIN ch : k # j /\ k[2] = j[2] /\ Protocol \notin {k[1], j[1]} => k[3] - j[3] >= Pause \/ j[3] - k[3] >= Pause

(* After an analysis a domain that stays flagged is before the panel, unless its challenge ended in that very block. *)
FlaggedIsHeard ==
    \A d \in Domains :
      (height' # height /\ (\A n \in Intervals : height' % n = 0) /\ flag'[d]) => ActiveIn(ch, d) # {} \/ ActiveIn(ch', d) # {}

(* What fairness brings about: no allegation hangs forever; each is resolved or expires. *)
ChallengesEnd ==
    \A k \in DOMAIN ch : k[3] + EvidencePeriod + ReviewPeriod <= MaxHeight => ~Active(ch[k])
=============================================================================
