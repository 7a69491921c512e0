---------------------------- MODULE Qualification ----------------------------
(***************************************************************************)
(* x/qualification: the right of a validator to sit on the panels of a     *)
(* domain, gained by stake or derived from another domain, kept by         *)
(* accuracy and endorsed by others.  Penalties are left to the reader of   *)
(* the weight: CaptureChallenge models how they are imposed.               *)
(* The track-record pathway is left out: it requires the metrics of a      *)
(* record and refuses a validator that has one, so it never succeeds.      *)
(***************************************************************************)
EXTENDS Integers, FiniteSetsExt, Totals

CONSTANTS Validators, Domains, Void,
          Nested,              \* pairs <<d, e>>: the name of e is that of d, a slash and more
          Depth,               \* of a domain in the ontology
          Stakes, Purse,       \* offered stakes, coins of a validator at the start
          MinStake, StakeWeight, StakeLockPeriod,
          MinVerifications, MinAccuracy,
          QualificationPeriod, ProbationPeriod, RenewalWindow,
          MaxEndorsements, MaxOverlap,
          CrossRefMinWeight, CrossRefDiscount, InheritanceDiscount,
          DecayInterval, DecayMinSamples, DecayProbation, DecaySuspension, DecayRecovery,
          Scale,               \* parts of a whole: 1000000 in the code
          MaxHeight, MaxVerdicts, MaxIds \* bounds

MaxInheritanceDepthDiff == 3

Record == [pathway : {"stake", "cross_reference", "inheritance"}, status : {"active", "probationary", "suspended", "expired"},
           weight : 1..100, stake : Nat, granted : Nat, expires : Nat, probation : Nat,
           total : Nat, correct : Nat, endorsements : 0..MaxEndorsements]

QualificationAssumption ==
    /\ IsFiniteSet(Validators) /\ IsFiniteSet(Domains) /\ Depth \in [Domains -> Nat]
    /\ \A n \in {StakeLockPeriod, QualificationPeriod, ProbationPeriod, DecayInterval, DecayMinSamples, Scale, MaxHeight} :
          n \in Nat \ {0}
    /\ Void \notin Record
    /\ Stakes \subseteq Nat /\ StakeWeight \in 1..100
    /\ {Purse, RenewalWindow, MaxEndorsements, CrossRefDiscount, InheritanceDiscount} \subseteq Nat
    /\ DecaySuspension <= DecayProbation /\ DecayProbation <= DecayRecovery /\ 0 < DecayRecovery /\ DecayRecovery <= Scale

VARIABLES quals,    \* <<validator, domain>> -> record or Void
          endorsed, \* endorsements in the store
          nextId,   \* of endorsements
          neutral,  \* the review-neutrality policy of x/knowledge
          purse,    \* coins of the validators
          pot,      \* coins of the module account
          height
vars == <<quals, endorsed, nextId, neutral, purse, pot, height>>

Pairs == Validators \X Domains
Held == {p \in Pairs : quals[p] # Void}
Standing(q) == q.status \in {"active", "probationary"}
Accuracy(q) == IF q.total = 0 THEN 0 ELSE (q.correct * Scale) \div q.total
Distance(d, e) == IF Depth[d] >= Depth[e] THEN Depth[d] - Depth[e] ELSE Depth[e] - Depth[d]
ActiveDomains(v) == {d \in Domains : quals[<<v, d>>] # Void /\ quals[<<v, d>>].status = "active"}

Grant(pathway, weight, stake) ==
    [pathway |-> pathway, status |-> "active", weight |-> weight, stake |-> stake, granted |-> height,
     expires |-> height + QualificationPeriod, probation |-> 0, total |-> 0, correct |-> 0, endorsements |-> 0]

-----------------------------------------------------------------------------
(* Pathways.                                                               *)
QualifyByStake(v, d, stake) ==
    /\ quals[<<v, d>>] = Void
    /\ stake >= MinStake /\ stake <= purse[v]
    /\ quals' = [quals EXCEPT ![<<v, d>>] = Grant("stake", StakeWeight, stake)]
    /\ purse' = [purse EXCEPT ![v] = @ - stake]
    /\ pot' = pot + stake
    /\ UNCHANGED <<endorsed, nextId, neutral, height>>

Discounted(weight, discount, distance) ==
    LET scaled == Min({discount * distance, Scale})
    IN  Min({100, Max({1, (weight * (Scale - scaled)) \div Scale})})

Derive(v, d, from, pathway, discount) ==
    /\ quals[<<v, d>>] = Void /\ quals[<<v, from>>] # Void
    /\ LET source == quals[<<v, from>>]
       IN  /\ source.status = "active"
           /\ quals' = [quals EXCEPT ![<<v, d>>] = Grant(pathway, Discounted(source.weight, discount, Distance(d, from)), 0)]
    /\ UNCHANGED <<endorsed, nextId, neutral, purse, pot, height>>

QualifyByCrossReference(v, d, from) ==
    /\ d # from
    /\ quals[<<v, from>>] # Void => quals[<<v, from>>].weight >= CrossRefMinWeight
    /\ Derive(v, d, from, "cross_reference", CrossRefDiscount)

QualifyByInheritance(v, d, from) ==
    /\ d # from /\ Distance(d, from) <= MaxInheritanceDepthDiff
    /\ Derive(v, d, from, "inheritance", InheritanceDiscount)

-----------------------------------------------------------------------------
(* Holding a qualification.                                                *)
Overlap(v, w) == \* shared active domains, in parts of the smaller holding
    LET ours == ActiveDomains(v)
        theirs == ActiveDomains(w)
    IN  IF ours = {} \/ theirs = {} THEN 0
        ELSE (Cardinality(ours \cap theirs) * Scale) \div Min({Cardinality(ours), Cardinality(theirs)})

EndorseQualification(e, v, d) ==
    /\ e # v /\ nextId <= MaxIds
    /\ quals[<<v, d>>] # Void /\ Standing(quals[<<v, d>>])
    /\ quals[<<v, d>>].endorsements < MaxEndorsements
    /\ MaxOverlap > 0 => Overlap(e, v) <= MaxOverlap
    /\ endorsed' = endorsed \cup {[id |-> nextId, of |-> <<v, d>>, by |-> e, expires |-> height + QualificationPeriod]}
    /\ nextId' = nextId + 1
    /\ quals' = [quals EXCEPT ![<<v, d>>].endorsements = @ + 1]
    /\ UNCHANGED <<neutral, purse, pot, height>>

RenewQualification(v, d) ==
    /\ quals[<<v, d>>] # Void /\ Standing(quals[<<v, d>>])
    /\ quals[<<v, d>>].expires <= height + RenewalWindow
    /\ quals' = [quals EXCEPT ![<<v, d>>].expires = height + QualificationPeriod]
    /\ UNCHANGED <<endorsed, nextId, neutral, purse, pot, height>>

\* The prefix scan finds the endorsements of every domain whose name continues d's.
EndorsementsByTarget(v, d) == {e \in endorsed : e.of[1] = v /\ (e.of[2] = d \/ <<d, e.of[2]>> \in Nested)}

Unlocked(q) == height >= q.granted + StakeLockPeriod

WithdrawQualification(v, d) ==
    /\ quals[<<v, d>>] # Void
    /\ LET q == quals[<<v, d>>]
       IN  /\ q.pathway = "stake" => Unlocked(q) /\ q.stake <= pot
           /\ purse' = [purse EXCEPT ![v] = @ + q.stake]
           /\ pot' = pot - q.stake
    /\ endorsed' = endorsed \ EndorsementsByTarget(v, d)
    /\ quals' = [quals EXCEPT ![<<v, d>>] = Void]
    /\ UNCHANGED <<nextId, neutral, height>>

-----------------------------------------------------------------------------
(* Calls of other modules.                                                 *)
RecordVerificationOutcome(v, d, correct) == \* settlement of a round
    /\ ~neutral /\ quals[<<v, d>>] # Void /\ quals[<<v, d>>].total < MaxVerdicts
    /\ quals' = [quals EXCEPT ![<<v, d>>].total = @ + 1, ![<<v, d>>].correct = IF correct THEN @ + 1 ELSE @]
    /\ UNCHANGED <<endorsed, nextId, neutral, purse, pot, height>>

EnableNeutrality == \* the knowledge-review-neutrality-v1 upgrade
    /\ ~neutral /\ neutral' = TRUE
    /\ UNCHANGED <<quals, endorsed, nextId, purse, pot, height>>

-----------------------------------------------------------------------------
(* The begin blocker, at height now.                                       *)
Decayed(q, now) == \* RunAccuracyDecay
    IF q.total < DecayMinSamples THEN q
    ELSE CASE q.status = "active" /\ Accuracy(q) < DecayProbation ->
                [q EXCEPT !.status = "probationary", !.probation = now + ProbationPeriod]
           [] q.status = "probationary" /\ Accuracy(q) < DecaySuspension ->
                [q EXCEPT !.status = "suspended", !.probation = 0]
           [] q.status = "probationary" /\ Accuracy(q) >= DecaySuspension /\ Accuracy(q) >= DecayRecovery ->
                [q EXCEPT !.status = "active", !.probation = 0]
           [] OTHER -> q

Promoted(q, now) == \* promoteProbationary
    IF q.status = "probationary" /\ q.probation > 0 /\ now >= q.probation
    THEN [q EXCEPT !.probation = 0,
                   !.status = IF q.total >= MinVerifications /\ Accuracy(q) >= MinAccuracy THEN "active" ELSE "suspended"]
    ELSE q

ExpiresAnyway(q, now) == q.status # "expired" /\ now >= q.expires \* a slip: suspended records too
\* Expiry is judged on the status before the promotion, so it may follow one.
Expires(q, now) == Standing(q) /\ now >= q.expires

\* A record after the pass at height now, but for its endorsements.
Judged(q, now) == IF ~neutral /\ now % DecayInterval = 0 THEN Decayed(q, now) ELSE q
Passed(q, now) ==
    LET judged == Judged(q, now)
        later == IF neutral THEN judged ELSE Promoted(judged, now)
    IN  IF Expires(judged, now) THEN [judged EXCEPT !.status = "expired", !.probation = later.probation] ELSE later

\* What the stakes of pairs P amount to.
StakeOf(P) == Total([p \in P |-> quals[p].stake])

NextBlock ==
    /\ height < MaxHeight
    /\ LET now == height + 1
           gone == {p \in Held : Expires(Judged(quals[p], now), now)}
           \* expireQualification sends the stake of an unlocked record and leaves the record as it is;
           \* a send the module account cannot cover is ignored
           due == {p \in gone : quals[p].pathway = "stake" /\ now >= quals[p].granted + StakeLockPeriod}
           stale == {e \in endorsed : now >= e.expires}
       IN  /\ height' = now
           /\ quals' = [p \in Pairs |-> IF quals[p] = Void THEN Void
                        ELSE [Passed(quals[p], now) EXCEPT !.endorsements =
                                Max({0, @ - Cardinality({e \in stale : e.of = p})})]]
           /\ endorsed' = endorsed \ stale
           /\ \E paid \in SUBSET due :
                 /\ StakeOf(paid) <= pot
                 /\ \A p \in due \ paid : StakeOf(paid) + quals[p].stake > pot
                 /\ pot' = pot - StakeOf(paid)
                 /\ purse' = [v \in Validators |-> purse[v] + StakeOf({p \in paid : p[1] = v})]
    /\ UNCHANGED <<nextId, neutral>>

-----------------------------------------------------------------------------
Init ==
    /\ quals = [p \in Pairs |-> Void]
    /\ endorsed = {} /\ nextId = 1
    /\ neutral = FALSE
    /\ purse = [v \in Validators |-> Purse]
    /\ pot = 0 /\ height = 1

Next ==
    \/ \E v \in Validators, d \in Domains :
          \/ \E stake \in Stakes : QualifyByStake(v, d, stake)
          \/ \E from \in Domains : QualifyByCrossReference(v, d, from)
          \/ \E from \in Domains : QualifyByInheritance(v, d, from)
          \/ \E e \in Validators : EndorseQualification(e, v, d)
          \/ RenewQualification(v, d)
          \/ WithdrawQualification(v, d)
          \/ \E correct \in BOOLEAN : RecordVerificationOutcome(v, d, correct)
    \/ EnableNeutrality
    \/ NextBlock

Spec == Init /\ [][Next]_vars

-----------------------------------------------------------------------------
\* State types: a record per pair, no more endorsements than allowed, no negative balance.
TypeOK ==
    /\ quals \in [Pairs -> Record \cup {Void}]
    /\ \A e \in endorsed : e.id \in 1..(nextId - 1) /\ e.of \in Pairs /\ e.by \in Validators /\ e.expires \in Nat
    /\ nextId \in Nat \ {0} /\ neutral \in BOOLEAN
    /\ purse \in [Validators -> Nat] /\ pot \in Nat /\ height \in 1..MaxHeight

\* The endorsement count of a record, which bounds further endorsements, is the number of its endorsements
\* in the store, through endorsing, the expiry of single endorsements, withdrawal and a new qualification
\* for the same domain; an endorsement is never left without its record.
EndorsementCountExact ==
    \A p \in Pairs :
        LET n == Cardinality({e \in endorsed : e.of = p})
        IN  IF quals[p] = Void THEN n = 0 ELSE quals[p].endorsements = n

\* A record that lets its holder sit on panels or be endorsed has not run out: begin blocker, renewal and
\* recovery from probation leave none behind its expiry.
StandingIsCurrent == \A p \in Held : Standing(quals[p]) => quals[p].expires > height

\* While accuracy counts, a probation ends within its period, renewals and repeated decay scans included.
ProbationBounded ==
    ~neutral => \A p \in Held : quals[p].status = "probationary" =>
                    quals[p].probation \in (height + 1)..(height + ProbationPeriod)

\* However qualifications are derived from each other, in chains and circles and after their source is
\* gone, none weighs more than the stake pathway grants.
NoWeightGained == \A p \in Held : quals[p].weight \in 1..StakeWeight

\* A suspended record is not reinstated, nor its stake released by expiry: its holder must withdraw it.
SuspensionHolds ==
    \A p \in Held : quals[p].status = "suspended" => quals'[p] = Void \/ quals'[p].status = "suspended"

\* What the comment of unlockStake says: staked tokens go back to the validator, so nobody ends with more
\* than it began with.
StakeReturnedOnce == \A v \in Validators : purse[v] <= Purse
=============================================================================
